SPECIFICATION Spec
CONSTANTS
  Clients = {c1, c2, c3}
  Requests <- MCRequests
  None = None
  WorkspaceCount = 2
  Backlog = 0
  FdLimit = 3
INVARIANTS TypeOK DescriptorsValid
PROPERTIES ImplementsService PointerThaws CommandAnswered
