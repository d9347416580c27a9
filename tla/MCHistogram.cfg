CONSTANTS
  HISTO_GRANULARITY = 2
  INT_MAX = 7
  MaxSamples = 3
  BucketCounts <- MCBucketCounts
  Diffs <- MCDiffs

SPECIFICATION Spec

INVARIANTS
  HistoTypeOK
  BucketsExact
  ExtremesExact
  AverageBetweenExtremes
PROPERTIES
  ImplementsSampleLog

CHECK_DEADLOCK FALSE
