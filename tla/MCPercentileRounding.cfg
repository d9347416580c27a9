CONSTANTS
  HISTO_GRANULARITY = 10
  num_buckets = 3
  Percentiles <- MCPercentiles
  Scale = 100000
  MaxSamples = 11

SPECIFICATION Spec

INVARIANT
  PercentOfSamplesAreBelow

CHECK_DEADLOCK FALSE
