SPECIFICATION Spec
CONSTANTS
  MAX_THREAD_LIMIT = 2
  Files <- OneFile
  NameMax = 2
  FormNameMax = 6
  SecretLengths = {2}
  Busy <- OneFile
  Boards = {"b1"}
  Kinds <- TwoDates
  Limits = {1, 2}
  MaxPosts = 3
INVARIANT ServedChronologically
CHECK_DEADLOCK FALSE
