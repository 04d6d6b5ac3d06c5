---------------------------- MODULE MCCurveEditor ----------------------------
(* Small instances of CurveEditor.  Two points on a line; the stand-ins for *)
(* the arc lengths are zero exactly when the true ones are: a Catmull-Rom   *)
(* segment when its four control points coincide, a Hermite segment when    *)
(* its end points and both handles do.                                      *)
EXTENDS CurveEditor

Distance(p, q) == IF p = q THEN 0 ELSE 1

MCCatmullLength(p, q, r, s) == 2 * Distance(q, r) + Distance(p, q) + Distance(r, s)
MCHermiteLength(p, q, r, s) == 2 * Distance(p, q) + Distance(p, r) + Distance(q, s)

\* Every segment has length 1: for the runs about the order of steps only.
MCUnitLength(p, q, r, s) == 1
==============================================================================
