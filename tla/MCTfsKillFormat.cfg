CONSTANTS
  x = x  y = y  z = z  u = u  none = none  small = small  big = big  host = host
  Names <- MCNames
  NoName = none
  Sources <- MCSources
  NoSource = host
  SourceBytes <- MCSourceBytes
  Requests <- KillRequests
  TotalBlocks = 10
  BootBlocks = 2
  EntriesPerBlock = 5
  HeapPerBlock = 4
  Heap <- KillHeap
  DirSlots = 1
  BlockBytes = 2
SPECIFICATION AnyKillSpec
INVARIANTS WritesStayInDataArea
