SPECIFICATION Spec
CONSTANTS
  Instances = {i1, i2, i3}
  Clients = {c1, c2}
  Backlog = 0
  Where <- MCWhere
  SockName <- MCWhere
  StartsOverlap = FALSE
  None = None
INVARIANTS
  TypeOK
  ServesAtFile
PROPERTIES
  FailsOnlyIfAnswered
  ReadEnds
  StartEnds
  ClientEnds
