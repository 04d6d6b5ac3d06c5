CONSTANTS
  Threads <- MCThreads
  Builds = {"each", "once"}
  MayTerminate = TRUE
SPECIFICATION Spec
INVARIANTS StoredIdHasUnlockAhead
PROPERTIES LockIsGivenBack WaitingLetsSomeoneIn
CHECK_DEADLOCK FALSE
