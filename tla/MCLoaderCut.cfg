CONSTANTS
  System = System  Kernel = Kernel  x = x  none = none
  small = small  big = big  host = host
  Names <- MCNames
  NoName = none
  Sources <- MCSources
  NoSource = host
  SourceBytes <- MCSourceBytes
  Requests <- BootRequests
  TotalBlocks = 12
  BootBlocks = 2
  EntriesPerBlock = 6
  HeapPerBlock = 4
  Heap <- MCHeap
  DirSlots = 1
  BlockBytes = 2
  SystemName = System
  KernelName = Kernel
  Drives <- HardDrives
  Attempts = 2
  Cylinders = 4
  LowWord = 64
SPECIFICATION BootSpec
INVARIANTS NeverCutShort
