CONSTANTS
  x = x  y = y  none = none  small = small  big = big  host = host
  Names <- MCNames
  NoName = none
  Sources <- MCSources
  NoSource = host
  SourceBytes <- MCSourceBytes
  Requests <- AllRequests
  TotalBlocks = 10
  BootBlocks = 2
  EntriesPerBlock = 5
  HeapPerBlock = 4
  Heap <- MCHeap
  DirSlots = 1
  BlockBytes = 2
SPECIFICATION FairSpec
INVARIANTS TypeOK Inv NoSharedBlock TargetsLive NoLostBlock SystemAreaReserved AlwaysMountable
PROPERTIES Termination
