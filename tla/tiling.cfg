SPECIFICATION Spec
CONSTANTS
  Windows = {w1, w2, w3, w4, w5, w6}
  WorkspaceCount = 2
  MaxRows = 3
  DisplayWidth = 7
  DisplayHeight = 5
SYMMETRY WindowSymmetry
INVARIANTS TypeOK RowsInUse ColumnsPacked ClosedRowsBounded GeometryCurrent TilesDisjoint TilesOnScreen
PROPERTY ReadingOrderStable
