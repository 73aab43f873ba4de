SPECIFICATION PrudentSpec
CONSTANTS
  Windows = {w1, w2}
  Structs = {p1, p2}
  NULL = NULL
  Wild = Wild
  Free = Free
  WorkspaceCount = 2
  MaxRows = 2
  DisplayWidth = 4
  DisplayHeight = 4
  MaxEvents = 1
SYMMETRY Symmetry
INVARIANT FocusIsAllocated
