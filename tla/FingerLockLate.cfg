\* An answer may come after the wait for it has ended.
CONSTANTS
  Finger = {f1, f2}
  NoFinger = none
  Cap = 1
  Typed = {0}
  Sizes = {2}
  MaxRound = 5
  MaxVerify = 1
  DupVerify = 1
  MaxPending = 1
  Opener = {}
  Prompt = FALSE
SPECIFICATION Spec
INVARIANTS OpensForEnrolled
