\* Every reader over the inputs of MCFraming.
\* A reader stops when its frame is read: no deadlock check.
SPECIFICATION Spec
CONSTANTS
  Inputs <- MCInputs
INVARIANTS
  TypeOK
  LegalFramesRead
  NoCorruptAnswer
  RequestForwarded
  FitsCapacity
CHECK_DEADLOCK FALSE
