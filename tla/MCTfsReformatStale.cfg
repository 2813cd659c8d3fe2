CONSTANTS
  x = x  y = y  z = z  u = u  none = none  small = small  big = big  host = host
  Names <- MCNames
  NoName = none
  Sources <- MCSources
  NoSource = host
  SourceBytes <- MCSourceBytes
  Requests <- StaleRequests
  TotalBlocks = 12
  BootBlocks = 2
  EntriesPerBlock = 6
  HeapPerBlock = 4
  Heap <- ZeroHeap
  DirSlots = 2
  BlockBytes = 2
SPECIFICATION ReformatSpec
INVARIANTS NoRecordOfFreeBlock
