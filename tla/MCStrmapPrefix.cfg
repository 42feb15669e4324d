SPECIFICATION Spec
CONSTANTS
  Hooks = {h1, h2}
  Lists = {l1}
  SegmentSize = 12
  Header = 2
  OwcHeader = 3
  SizeMax = 128
  InitialSize = 3
  MaxChunk = 4
  MaxBytes = 14
  TextBytes = {37, 52, 65, 103, 255}
  PartBytes = {38, 61, 65}
  MaxPart = 2
  DEADBEEF = DEADBEEF
  Sizes = {4, 9}
  MaxObjects = 3
  MaxText = 1
  MaxArgs = 1
  Items <- PrefixItems
  Key <- NestedKeys
  Keys <- PrefixKeys
  NoItem = NoItem
INVARIANT GetExact
CHECK_DEADLOCK FALSE
