CONSTANTS
  MaxWaypoints = 3
  MaxSpeed = 1
  Points = {0, 1}
  Origin = 0
  CatmullLength <- MCCatmullLength
  HermiteLength <- MCHermiteLength
  FullTime = 1
  TimeCap = 9
SPECIFICATION CurveSpec
INVARIANTS CurveTypeOK MeasuresFollowWaypoints FollowerReadsInside
PROPERTIES FollowerFinishesSegment
CHECK_DEADLOCK FALSE
