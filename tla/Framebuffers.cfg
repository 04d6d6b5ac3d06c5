CONSTANTS
  Singles = {s1}
  Doubles = {d1}
  ColorMax = 2
  Builds = {"x86", "x64"}
  GLNames = {1, 2, 3, 4, 5, 6, 7, 8, 9, 10, 11, 12, 13}
  NewNames <- SmallestNames
  MaxRefs = 2
  MaxLost = 1
SPECIFICATION Spec
INVARIANTS TypeOK LiveNamesAreOwnedOnce SampledPageIsNotDrawn
PROPERTIES LastReleaseIsExact
CHECK_DEADLOCK FALSE
