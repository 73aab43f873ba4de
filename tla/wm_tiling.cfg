SPECIFICATION LayoutSpec
CONSTANTS
  Windows = {w1, w2, w3}
  Structs = {p1, p2, p3}
  NULL = NULL
  Wild = Wild
  Free = Free
  WorkspaceCount = 2
  MaxRows = 2
  DisplayWidth = 4
  DisplayHeight = 4
  MaxEvents = 1
SYMMETRY Symmetry
PROPERTY ImplementsTiling
