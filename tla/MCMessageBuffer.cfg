SPECIFICATION MsgSpec
CONSTANTS
  None = None
  m1 = m1
  Capacity = 4
  Items <- MCItems
  SeqIds = {1, 2, 3}
  MaxDropped = 1
  DedupWindow = 2
INVARIANTS BoundaryIsRefused DuplicatesFarApart LastIdIsNewest
