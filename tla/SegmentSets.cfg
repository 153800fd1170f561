CONSTANTS
  Size = 7
  BlockSize = 2
  MaxRunning = 2
SPECIFICATION Spec
INVARIANTS
  DoneConsolidated
  FinishedIffAllCovered
  AddSegmentIsTheLoop
  KeepsAllWhenNotNested
  OffersOnlyDone
  NextSegmentIsTheScan
  NextSegmentUseful
  GapIsFirstMissing
