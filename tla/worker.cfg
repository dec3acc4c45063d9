SPECIFICATION FairSpec
CONSTANTS
  p = p
  q = q
  Runner = Runner
  Parents <- MCParents
  Surface <- MCGoSurface
  Capacity = 1
  MaxPosts = 2
  MaxReplies = 3
  MaxCallbacks = 2
INVARIANTS
  TypeOK
  MessagesKept
  ErrorBeforeClose
PROPERTIES
  CallbacksHear
  WaitersReleased
CHECK_DEADLOCK FALSE
