\* The link may go down before its interrupt is armed.
CONSTANTS
  NSess = 2
  AuthPolls = 2
  MqCap = 2
  MbCap = 1
  Prompt = TRUE
SPECIFICATION FairSpec
PROPERTY FlagFollowsLink
