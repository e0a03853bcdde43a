CONSTANTS
  Object = {x1, x2, x3}
  List = {a, b}
  None = None
  Free = Free
  End = End
  Node = {x1, x2, x3, spare}
  Element = {1, 2, 3, 4}
  Entry = {x1, x2, x3}
  EmptiedEntry = {e1, e2}
  Key = {1, 2, 3}
  m_dwMaxBucketNum = 2
  Null = Null
SPECIFICATION Spec
CHECK_DEADLOCK FALSE
SYMMETRY Symmetric
INVARIANTS
  LinksRight
  NodesRight
  TableRight
PROPERTIES
  CallsRight
