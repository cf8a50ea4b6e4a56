SPECIFICATION RingSpec
CONSTANTS
  None = None
  m1 = m1
  s1 = s1
  Capacity = 3
  Items <- MCItems
  SeqIds <- MCSeqIds
  MaxDropped = 2
INVARIANTS RingTypeOK WindowInv
PROPERTY RefinesQueue
