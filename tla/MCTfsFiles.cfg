CONSTANTS
  x = x  y = y  z = z  u = u  none = none  small = small  big = big  host = host
  Names <- MCNames
  NoName = none
  Sources <- MCSources
  NoSource = host
  SourceBytes <- MCSourceBytes
  Requests <- LayeredRequests
  TotalBlocks = 12
  BootBlocks = 2
  EntriesPerBlock = 6
  HeapPerBlock = 4
  Heap <- MCHeap
  DirSlots = 1
  BlockBytes = 2
SPECIFICATION Spec
INVARIANTS ForkCoversSize ExportExact MkdirMakes
PROPERTIES ImplementsFileStore
