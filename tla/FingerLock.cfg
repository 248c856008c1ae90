\* 256 stands for every number beyond the library, the 65535 of the return key among them.
\* An answer comes before the wait for it ends, or never.
CONSTANTS
  Finger = {f1, f2}
  NoFinger = none
  Cap = 1
  Typed = {0, 256, 65280}
  Sizes = {2}
  MaxRound = 6
  MaxVerify = 2
  DupVerify = 1
  MaxPending = 1
  Opener = {"T_code"}
  Prompt = TRUE
SPECIFICATION FairSpec
INVARIANTS TypeOK AnswerIsOwn OpensForEnrolled SuccessIsStored NotLeftOpen
PROPERTIES
  StoresTwoImages
  DeletesChosen
  DialogueEnds
  ImplementsFingerAuth
