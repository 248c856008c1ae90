\* The server's answer may come after T_conn's last poll of conn_flag.
CONSTANTS
  NSess = 2
  AuthPolls = 2
  MqCap = 2
  MbCap = 2
  Prompt = FALSE
SPECIFICATION Spec
INVARIANT FlagMeansGranted
