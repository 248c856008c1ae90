\* The link to the server, with a server that answers in time.
CONSTANTS
  NSess = 2
  AuthPolls = 2
  MqCap = 2
  MbCap = 2
  Prompt = TRUE
SPECIFICATION FairSpec
INVARIANTS
  TypeOK
  NoLostWakeup
  KeyComplete
  ArmedOnlyInSession
  FlagMeansGranted
  SendsWithSessionKey
PROPERTIES
  KeyStable
  ImplementsSession
  LossLeadsToReset
