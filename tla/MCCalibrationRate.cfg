CONSTANTS
  GETTIME_NS = 3
  RDTSC_NS = 2
  LOOPS_NS = 9
  TICKS_PER_NS = 2
  Delays = {0, 7}
  MaxDelay = 7
  NANOS_PER_SEC = 120
  NANOS_PER_USEC = 4
  LLONG_MAX = 65535
  CALLS = 3
  CALIBRATIONS = 2
  SETTLE_NS = 8
  CallTimes <- MCCallTimes
  Pauses <- MCPauses

SPECIFICATION Spec

INVARIANT
  TicksPerSecIsClockFrequency

CHECK_DEADLOCK FALSE
