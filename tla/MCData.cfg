SPECIFICATION Spec
CONSTANTS
  Hooks = {h1, h2, h3, h4}
  Lists = {l1, l2}
  SegmentSize = 12
  Header = 2
  OwcHeader = 3
  SizeMax = 128
  InitialSize = 3
  MaxChunk = 4
  MaxBytes = 14
  TextBytes = {37, 52, 65, 103, 255}
  PartBytes = {38, 61, 65}
  MaxPart = 2
  DEADBEEF = DEADBEEF
  Sizes = {1, 2, 5, 9}
  MaxObjects = 5
  MaxText = 5
  MaxArgs = 2
  Items <- FreeItems
  Key <- PrefixFree
  Keys <- FreeKeys
  NoItem = NoItem
SYMMETRY Symmetry
INVARIANTS
  IterationCorrect OverrunOnlyBehindLarge Disjoint StreamFifo CodecInverse QueryExact
  Balanced VisitsMembers GetExact
PROPERTY InvalidOnlyInMiddle
CHECK_DEADLOCK FALSE
