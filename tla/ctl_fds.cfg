SPECIFICATION Spec
CONSTANTS
  Clients = {c1, c2}
  Requests <- MCRequests
  None = None
  WorkspaceCount = 2
  Backlog = 0
  FdLimit = 1
PROPERTY CommandAnswered
