CONSTANTS
  x = x  y = y  z = z  u = u  none = none  small = small  big = big  host = host
  Names <- MCNames
  NoName = none
  Sources <- MCSources
  NoSource = host
  SourceBytes <- MCSourceBytes
  Requests <- KillRequests
  TotalBlocks = 16
  BootBlocks = 6
  EntriesPerBlock = 7
  HeapPerBlock = 5
  Heap <- KillHeap
  DirSlots = 1
  BlockBytes = 2
SPECIFICATION KillSpec
INVARIANTS RootSurvives WritesStayInDataArea
PROPERTIES KillSparesOthers
