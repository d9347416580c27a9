CONSTANTS
  Programs = {"src"}
  PinOptions = {TRUE}
  FifoOptions = {TRUE}
  SpinOptions = {TRUE}
  QuietOptions = {FALSE}
  GnuplotOptions = {FALSE}
  opt_loops = 1

SPECIFICATION Spec

INVARIANT
  MeasuresOffThreadsCore

CHECK_DEADLOCK FALSE
