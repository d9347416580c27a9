CONSTANTS
  HISTO_GRANULARITY = 2
  INT_MAX = 15
  MaxSamples = 2
  BucketCounts = {4}
  Diffs <- MCDiffs
  Programs = {"jtr_null", "sender"}
  LoopsCosts <- MCLoopsCosts
  opt_histo_buckets = 4
  opt_loops = 2
  WarmupLoops <- MCWarmupLoops

SPECIFICATION RunSpec

INVARIANTS
  RunTypeOK
  NullLoopLastsAsLongAsSends
  ReportIsComplete
  HistogramIsPercentileInput

PROPERTIES
  RunStepsAreBounded
  DatasetsAreOfTheirCalls

CHECK_DEADLOCK FALSE
