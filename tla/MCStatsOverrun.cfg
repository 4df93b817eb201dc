\* The node's four tasks and the code's ten entries.
CONSTANTS
  clock = clock
  classifier = classifier
  communication = communication
  assembler = assembler
  Tasks = {clock, classifier, communication, assembler}
  Prio <- MCPrio
  MAX_REGISTRIES = 10
  NULL = NULL
  Builds <- MCBuilds
SPECIFICATION Spec
VIEW Control
INVARIANTS TypeOK NoOverrun
