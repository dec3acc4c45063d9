SPECIFICATION FairSpec
CONSTANTS
  p = p
  q = q
  Runner = Runner
  Parents <- MCParents
  Surface <- MCJayessSurface
  Capacity = 1
  MaxPosts = 1
  MaxReplies = 2
  MaxCallbacks = 1
PROPERTIES
  RepliesGoOut
CHECK_DEADLOCK FALSE
