CONSTANTS
  Blocks = {0, 1}
  MaxLoads = 3
  Keys = {"W", "S"}
SPECIFICATION CallbacksSpec
INVARIANTS CallbacksTypeOK NoCallIntoOldLibrary NothingStaysDown TextListsAreAccounted
PROPERTIES UnloadFreesListed
CHECK_DEADLOCK FALSE
