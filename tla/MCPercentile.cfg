CONSTANTS
  HISTO_GRANULARITY = 10
  num_buckets = 3
  Percentiles <- MCPercentiles
  Scale = 100000
  MaxSamples = 11

SPECIFICATION Spec

INVARIANTS
  PercTypeOK
  BoundIsTight
  WarningIsExact
  HigherPercentileHigherBound

PROPERTIES
  AllLinesPrinted

CHECK_DEADLOCK FALSE
