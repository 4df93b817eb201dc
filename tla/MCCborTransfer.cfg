\* Two images share an id; texts of one to four messages, full and half-full last ones;
\* indices of two digits to the base two.
CONSTANTS
  Ids = 2
  ByteBase = 2
  Payload = 2
  Lengths = {1, 4, 7}
  Images = 3
  Faults = 2
  None = None
SPECIFICATION Spec
INVARIANTS TypeOK FileIsTheImage SendDataTells
CHECK_DEADLOCK FALSE
