SPECIFICATION Spec
CONSTANTS
  Clients = {c1, c2}
  Arguments <- MCArguments
  Calls <- MCCalls
  WorkspaceCount = 2
  Version <- MCVersion
  Stray <- MCStray
  None = None
CHECK_DEADLOCK FALSE
INVARIANTS
  TypeOK
  CommandArrives
  ExitTruthful
  PrintsVersion
PROPERTIES
  ImplementsService
