CONSTANTS
  Programs = {"jtr_null", "jtr_src", "jtr_ss", "jtr_smx", "jtr_sock"}
  Arguments <- MCArguments
  PORTS = 8
  CHARS = 16
  INADDR_NONE = 3
  ULONG_MAX = 15
  NotGiven = NotGiven

SPECIFICATION Spec

INVARIANTS
  OptTypeOK
  SocketSendsAsAsked

CHECK_DEADLOCK FALSE
