CONSTANTS
  Programs <- MCPrograms
  PinOptions = {TRUE, FALSE}
  FifoOptions = {TRUE, FALSE}
  SpinOptions = {TRUE, FALSE}
  QuietOptions = {TRUE, FALSE}
  GnuplotOptions = {TRUE, FALSE}
  opt_loops = 2

SPECIFICATION Spec

INVARIANTS
  UmTypeOK
  ServiceSpansSource
  SendsUseLiveObjects
  AtMostOneLateService
  ExitIsClean
  PrintsOnlyCompleteReports

PROPERTIES
  ImplementsContextService
  Terminates
  StopIsBounded

CHECK_DEADLOCK FALSE
