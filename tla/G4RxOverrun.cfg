\* A fourth frame begins to arrive while the first is still unread.
CONSTANTS
  NBuf = 3
  BufMax = 3
  MbCap = 5
  NFrames = 6
  Lens <- MCLens
  Backlog = 4
SPECIFICATION Spec
INVARIANTS FramesInOrder
CHECK_DEADLOCK FALSE
