------------------------------ MODULE CurveEditor ------------------------------
(***************************************************************************)
(* The curve-drawing mode of the demo: waypoints placed and deleted with   *)
(* the mouse, one spline segment between two consecutive waypoints, and a  *)
(* follower that the idle loop moves along the segments.                   *)
(*                                                                         *)
(* The arrays have the fixed size the code gives them and keep what was    *)
(* last written past the current count: both the follower and the on-      *)
(* screen list read there.  Points are the elements of a small set; what a *)
(* segment measures is given by two constant operators, of which only the  *)
(* arguments and the zeros matter.                                         *)
(***************************************************************************)
EXTENDS Integers, FiniteSetsExt

CONSTANTS
  MaxWaypoints,        \* demoStateMaxCount_curveWaypoint (32)
  MaxSpeed,            \* demoStateMaxAnimation_Speed (10)
  Points, Origin,      \* where the cursor can be; what zeroed memory reads as
  CatmullLength(_, _, _, _),   \* length measured from four control points
  HermiteLength(_, _, _, _),   \* length measured from two points, two handles
  FullTime,            \* steps of speed 1 that take the parameter to 1 (151.5 in the code)
  TimeCap              \* bound: curveSegmentTime is counted no further

ASSUME CurveConstants ==
  /\ MaxWaypoints \in Nat \ {0} /\ MaxSpeed \in Nat \ {0}
  /\ Origin \in Points
  /\ \A p, q, r, s \in Points :
       CatmullLength(p, q, r, s) \in Nat /\ HermiteLength(p, q, r, s) \in Nat
  /\ FullTime \in Nat \ {0} /\ TimeCap \in Nat

VARIABLES
  demoMode,
  leftButton,                    \* "down" is mouse->btn.btn[a3mouse_left]; "clicked" is up
                                 \* again with no mouse message since
  curveWaypoint, curveHandle, curveWaypointCount,
  splineType, splineSegment,
  animSpeed, segmentSpeed,
  segmentLength, lineTotalLength,
  updateAnimation, curveSegmentIndex, curveSegmentTime,
  crashed                        \* the process died of a write outside the arrays

editVars  == <<demoMode, leftButton>>
pointVars  == <<curveWaypoint, curveHandle, curveWaypointCount>>
styleVars  == <<splineType, animSpeed, updateAnimation>>
lengthVars == <<splineSegment, segmentSpeed, segmentLength, lineTotalLength>>
clockVars  == <<curveSegmentIndex, curveSegmentTime>>
curveVars == <<editVars, pointVars, styleVars, lengthVars, clockVars, crashed>>

Index == 0 .. MaxWaypoints - 1
Drawn == 0 .. curveWaypointCount - 2        \* the segments that are drawn

CurveTypeOK ==
  /\ demoMode \in {0, 1} /\ leftButton \in {"up", "down", "clicked"}
  /\ curveWaypoint \in [Index -> Points] /\ curveHandle \in [Index -> Points]
  /\ curveWaypointCount \in 0 .. MaxWaypoints
  /\ splineType \in {0, 1} /\ splineSegment \in [Index -> {0, 1}]
  /\ animSpeed \in 1 .. MaxSpeed /\ segmentSpeed \in [Index -> 0 .. MaxSpeed]
  /\ segmentLength \in [Index -> Nat] /\ lineTotalLength \in Nat
  /\ updateAnimation \in BOOLEAN
  /\ curveSegmentIndex \in 0 .. MaxWaypoints - 1 /\ curveSegmentTime \in 0 .. TimeCap
  /\ crashed \in BOOLEAN

CurveInit ==
  /\ demoMode = 1 /\ leftButton = "up"
  /\ curveWaypoint = [i \in Index |-> Origin] /\ curveHandle = [i \in Index |-> Origin]
  /\ curveWaypointCount = 0
  /\ splineType = 0 /\ splineSegment = [i \in Index |-> 0]
  /\ animSpeed = (MaxSpeed + 1) \div 2 /\ segmentSpeed = [i \in Index |-> 0]
  /\ segmentLength = [i \in Index |-> 0] /\ lineTotalLength = 0
  /\ updateAnimation = TRUE
  /\ curveSegmentIndex = 0 /\ curveSegmentTime = 0
  /\ crashed = FALSE

------------------------------------------------------------------------------
Earlier(i, j) == IF i < j THEN i ELSE j
Later(i, j)   == IF i > j THEN i ELSE j

\* Segment i of a curve whose control points end at index last.
SegmentArcLength(i, type, waypoint, handle, last) ==
  IF type = 0
  THEN CatmullLength(waypoint[Later(0, i - 1)], waypoint[i], waypoint[i + 1],
                     waypoint[Earlier(i + 2, last)])
  ELSE HermiteLength(waypoint[i], waypoint[i + 1], handle[i], handle[i + 1])

Total(length, indices) == MapThenSumSet(LAMBDA i : length[i], indices)

------------------------------------------------------------------------------
(* Mouse.                                                                   *)

\* Another mouse message: the next left press is not a double click.
NoDoubleClick == leftButton' = IF leftButton = "clicked" THEN "up" ELSE leftButton

\* The new waypoint is number n; segments 0 .. n-1 are all measured again,
\* with the count and the spline types from before the waypoint is counted.
PlaceWaypoint(p) ==
  LET n        == curveWaypointCount
      waypoint == [curveWaypoint EXCEPT ![n] = p]
      handle   == [curveHandle EXCEPT ![n] = p]
      length   == [i \in Index |->
                     IF i < n THEN SegmentArcLength(i, splineSegment[i], waypoint, handle, n - 1)
                              ELSE segmentLength[i]]
  IN /\ n < MaxWaypoints
     /\ curveWaypoint' = waypoint
     /\ curveHandle'   = handle
     /\ IF n = 0 THEN UNCHANGED lengthVars
        ELSE /\ segmentSpeed'    = [segmentSpeed EXCEPT ![n - 1] = animSpeed]
             /\ segmentLength'   = length
             /\ lineTotalLength' = Total(length, 0 .. n - 1)
             /\ splineSegment'   = [splineSegment EXCEPT ![n - 1] = splineType]
     /\ curveWaypointCount' = n + 1

LeftClick(p) ==
  /\ leftButton # "down"
  /\ leftButton' = "down"
  /\ IF demoMode = 1 /\ curveWaypointCount < MaxWaypoints
     THEN PlaceWaypoint(p)
     ELSE UNCHANGED <<pointVars, lengthVars>>
  /\ UNCHANGED <<demoMode, styleVars, clockVars, crashed>>

\* Slip: "simply decrementing the count", as the comment there still says.
RightClickOnlyCounts ==
  /\ demoMode = 1
  /\ curveWaypointCount > 0
  /\ curveWaypointCount' = curveWaypointCount - 1
  /\ NoDoubleClick
  /\ UNCHANGED <<demoMode, curveWaypoint, curveHandle, styleVars, lengthVars, clockVars, crashed>>

\* Slip: the length is taken off the total and not cleared.
RightClickKeepsLength ==
  LET last == curveWaypointCount - 1
  IN /\ demoMode = 1
     /\ curveWaypointCount > 0
     /\ segmentSpeed'    = [segmentSpeed EXCEPT ![last] = 0]
     /\ lineTotalLength' = lineTotalLength - segmentLength[last]
     /\ curveWaypointCount' = last
     /\ NoDoubleClick
     /\ UNCHANGED <<demoMode, curveWaypoint, curveHandle, styleVars, splineSegment,
                    segmentLength, clockVars, crashed>>

RightClick ==
  LET last == curveWaypointCount - 1
  IN /\ demoMode = 1
     /\ curveWaypointCount > 0
     /\ segmentSpeed'    = [segmentSpeed EXCEPT ![last] = 0]
     /\ lineTotalLength' = lineTotalLength - segmentLength[last]
     /\ segmentLength'   = [segmentLength EXCEPT ![last] = 0]
     /\ curveWaypointCount' = last
     /\ NoDoubleClick
     /\ UNCHANGED <<demoMode, curveWaypoint, curveHandle, styleVars, splineSegment,
                    clockVars, crashed>>

\* With no waypoint the unsigned index count - 1 wraps round: a 32-bit build
\* writes to the end of the waypoint array, a 64-bit build faults.
MouseMove(p) ==
  /\ demoMode = 1
  /\ leftButton = "down"
  /\ IF curveWaypointCount > 0
     THEN /\ curveHandle' = [curveHandle EXCEPT ![curveWaypointCount - 1] = p]
          /\ UNCHANGED <<curveWaypoint, crashed>>
     ELSE /\ \/ curveWaypoint' = [curveWaypoint EXCEPT ![MaxWaypoints - 1] = p] /\ crashed' = FALSE
             \/ crashed' = TRUE /\ UNCHANGED curveWaypoint
          /\ UNCHANGED curveHandle
  /\ UNCHANGED <<editVars, curveWaypointCount, styleVars, lengthVars, clockVars>>

\* The second press of a double click is no click: it only marks the button.
LeftDoubleClick ==
  /\ leftButton = "clicked"
  /\ leftButton' = "down"
  /\ UNCHANGED <<demoMode, pointVars, styleVars, lengthVars, clockVars, crashed>>

LeftRelease ==
  /\ leftButton = "down"
  /\ leftButton' = "clicked"
  /\ UNCHANGED <<demoMode, pointVars, styleVars, lengthVars, clockVars, crashed>>

\* The cursor left the window or the window was deactivated: the buttons reset.
MouseReset ==
  /\ leftButton # "up"
  /\ leftButton' = "up"
  /\ UNCHANGED <<demoMode, pointVars, styleVars, lengthVars, clockVars, crashed>>

------------------------------------------------------------------------------
(* Keys.                                                                    *)

KeyDemoMode ==            \* '.' and ',' are the same with two modes
  /\ demoMode' = 1 - demoMode
  /\ UNCHANGED <<leftButton, pointVars, styleVars, lengthVars, clockVars, crashed>>

KeyStyle ==
  /\ \/ /\ updateAnimation' = ~updateAnimation                       \* 'm'
        /\ UNCHANGED <<splineType, animSpeed>>
     \/ /\ demoMode = 1 /\ animSpeed > 1 /\ animSpeed' = animSpeed - 1        \* 'y'
        /\ UNCHANGED <<splineType, updateAnimation>>
     \/ /\ demoMode = 1 /\ animSpeed < MaxSpeed /\ animSpeed' = animSpeed + 1 \* 'Y'
        /\ UNCHANGED <<splineType, updateAnimation>>
     \/ /\ demoMode = 1 /\ splineType' = 1 - splineType              \* 'u'
        /\ UNCHANGED <<animSpeed, updateAnimation>>
  /\ UNCHANGED <<editVars, pointVars, lengthVars, clockVars, crashed>>

------------------------------------------------------------------------------
(* The idle loop, on a render tick.                                         *)

\* Slip: the case of the only segment is left out, so its parameter stays 0.
PassedEndScaled(time, length, total) ==
  total # 0 /\ time * (total - length) > FullTime * total

\* curveSegmentParam > 1.  The parameter is the time scaled by the share of
\* the total that the other segments have, or the bare time when that share
\* is 0; with a total of 0 it is NaN, which is not greater than anything.
PassedEnd(time, length, total) ==
  /\ total # 0
  /\ IF length = total THEN time > FullTime
                       ELSE time * (total - length) > FullTime * total

\* Slip: the count of waypoints for the count of segments.
NextWaypoint(i) == (i + 1) % curveWaypointCount

NextSegment(i) == (i + 1) % (curveWaypointCount - 1)

UpdateCurve ==
  LET i    == curveSegmentIndex
      time == Earlier(curveSegmentTime + segmentSpeed[i], TimeCap)
  IN /\ demoMode = 1
     /\ curveWaypointCount > 1
     /\ updateAnimation
     /\ IF PassedEnd(time, segmentLength[i], lineTotalLength)
        THEN /\ curveSegmentIndex' = NextSegment(i)
             /\ curveSegmentTime'  = 0
        ELSE /\ curveSegmentTime' = time
             /\ UNCHANGED curveSegmentIndex
     /\ UNCHANGED <<editVars, pointVars, styleVars, lengthVars, crashed>>

------------------------------------------------------------------------------
MouseStep ==
  \/ \E p \in Points : LeftClick(p) \/ MouseMove(p)
  \/ RightClick \/ LeftDoubleClick \/ LeftRelease \/ MouseReset

CurveNext == ~crashed /\ (MouseStep \/ KeyDemoMode \/ KeyStyle \/ UpdateCurve)

\* The main loop calls idle for ever, so an update that is due is not put off for ever.
CurveSpec == CurveInit /\ [][CurveNext]_curveVars /\ WF_curveVars(~crashed /\ UpdateCurve)

------------------------------------------------------------------------------
(* However placing and deleting alternate, what is stored about segments     *)
(* follows the waypoints (a3demoCB_mouseClick): the stored total is the sum  *)
(* of every stored length, and no length is kept past the first index that   *)
(* no waypoint claims; every drawn segment has a speed, so the follower      *)
(* never stands still on one, and of those no longer drawn at most the one   *)
(* whose end was deleted last has.                                           *)
MeasuresFollowWaypoints ==
  /\ lineTotalLength = Total(segmentLength, Index)
  /\ \A i \in Index : i >= Later(1, curveWaypointCount) => segmentLength[i] = 0
  /\ {i \in Index : segmentSpeed[i] # 0} \in {Drawn, Drawn \cup {curveWaypointCount - 1}}

(* However far the index lags behind deletions, the follower reads two      *)
(* waypoints and two handles inside the arrays (a3demo_update_curve).       *)
FollowerReadsInside == MaxWaypoints > 1 => {curveSegmentIndex, curveSegmentIndex + 1} \subseteq Index

Travelling(i) ==
  /\ ~crashed /\ demoMode = 1 /\ updateAnimation
  /\ curveSegmentIndex = i /\ i \in Drawn
  /\ lineTotalLength > 0

(* A follower under way on a drawn, measured segment reaches its end (its   *)
(* clock starts again) unless the user intervenes: mode or animation        *)
(* switched off, or the segment deleted.  Placing waypoints, which changes  *)
(* every length under it, never holds it back for ever.                     *)
FollowerFinishesSegment ==
  \A i \in Index :
    (Travelling(i) /\ curveSegmentTime > 0) ~> (curveSegmentTime = 0 \/ ~Travelling(i))

==============================================================================
