SPECIFICATION Spec
CONSTANTS
  MAX_THREAD_LIMIT = 2
  Files <- MCFiles
  NameMax = 2
  FormNameMax = 6
  SecretLengths = {2, 4}
  Busy <- MCBusy
  Boards = {"b1", "b2"}
  Kinds <- MCKinds
  Limits = {0, 2, 3}
  MaxPosts = 3
INVARIANTS RefusedForReason RunningIsSound NoEventSwallowed ReadFailsClosed FingerprintsScoped EventAndReadAgree ThreadWindow OriginIsAuthor ReferencesResolve ClientAccepts
CHECK_DEADLOCK FALSE
