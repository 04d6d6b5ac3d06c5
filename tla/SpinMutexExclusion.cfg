CONSTANTS
  Threads <- MCThreads
  Builds = {"each"}
  MayTerminate = FALSE
SPECIFICATION Spec
INVARIANTS MutualExclusion

