\* Two tasks of equal priority and one above them; six entries.
CONSTANTS
  clock = clock
  classifier = classifier
  communication = communication
  assembler = assembler
  Tasks = {clock, classifier, communication}
  Prio <- MCPrio
  MAX_REGISTRIES = 6
  NULL = NULL
  Builds <- MCBuilds
SPECIFICATION FairSpec
PROPERTY EventuallyRegistered
