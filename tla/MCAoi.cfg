CONSTANTS
  MaxAdds = 3
  Ids <- Numbers
  Cells <- Row
  Reaches = {1, 2}
  NoCell = NoCell
  MaxPending = 1
  Entities = {e}
  Players = {p}
  NoId = NoId
  NoName = NoName
SPECIFICATION Spec
INVARIANTS SeesOnlyNear CachesMirror CachesCatchUp
PROPERTY MoversMeet
CHECK_DEADLOCK FALSE
