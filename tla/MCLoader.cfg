CONSTANTS
  System = System  Kernel = Kernel  x = x  none = none
  small = small  big = big  host = host
  Names <- MCNames
  NoName = none
  Sources <- MCSources
  NoSource = host
  SourceBytes <- MCSourceBytes
  Requests <- BootRequests
  TotalBlocks = 12
  BootBlocks = 2
  EntriesPerBlock = 6
  HeapPerBlock = 4
  Heap <- MCHeap
  DirSlots = 1
  BlockBytes = 2
  SystemName = System
  KernelName = Kernel
  Drives <- AllDrives
  Attempts = 2
  Cylinders = 4
  LowWord = 10
SPECIFICATION FairBootSpec
INVARIANTS LoaderTypeOK ReadsBlocksInUse LoaderSound EntersWhole FindsStoredKernel DestKept
PROPERTIES LoaderEnds
