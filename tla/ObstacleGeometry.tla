-------------------------- MODULE ObstacleGeometry --------------------------
(***************************************************************************)
(* The points behind the zones of MotionExecutor (ros/petcargo_ros/src/    *)
(* petcargo_ros/obstacle.py): a scan is a set of points in millimetres in  *)
(* the frame of the robot, x ahead and y to the left; the corridors swept  *)
(* in each direction give the view, and the side of a detour is the one    *)
(* with more room.                                                         *)
(***************************************************************************)
EXTENDS MotionExecutor

CONSTANTS
    HalfLength, HalfWidth,  \* of the chassis (171 and 128 mm)
    Margin,                 \* corridor_margin (30 mm)
    EmergencyClearance,     \* 100 mm
    StopClearance,          \* 150 mm
    ShiftDistance,          \* 400 mm
    PassDistance            \* 500 mm

Point == [x : Int, y : Int]

DirectionVector(d) ==
    CASE d = "forward" -> [x |-> 1, y |-> 0] [] d = "backward" -> [x |-> -1, y |-> 0]
      [] d = "left"    -> [x |-> 0, y |-> 1] [] d = "right"    -> [x |-> 0, y |-> -1]

Magnitude(n) == IF n < 0 THEN -n ELSE n
Ahead(p, d) == p.x * DirectionVector(d).x + p.y * DirectionVector(d).y
Aside(p, d) == p.y * DirectionVector(d).x - p.x * DirectionVector(d).y

\* body_extent, and the same across.
LongWays(d) == d \in {"forward", "backward"}
LeadingEdge(d) == IF LongWays(d) THEN HalfLength ELSE HalfWidth
CrossHalf(d) == (IF LongWays(d) THEN HalfWidth ELSE HalfLength) + Margin

\* filter_footprint_points: returns from inside the chassis are dropped.
InFootprint(p) == Magnitude(p.x) <= HalfLength /\ Magnitude(p.y) <= HalfWidth

InCorridor(p, d) ==
    Ahead(p, d) > LeadingEdge(d) /\ Magnitude(Aside(p, d)) <= CrossHalf(d)

\* The distances corridor_clearance takes the least of; infinity if there is none.
Clearances(points, d) == {Ahead(p, d) - LeadingEdge(d) : p \in {q \in points : InCorridor(q, d)}}
RoomFor(points, d, distance) == \A c \in Clearances(points, d) : c >= distance

RotationBlocked(points) ==
    \E p \in points : /\ Magnitude(p.x) <= HalfLength + StopClearance
                      /\ Magnitude(p.y) <= HalfWidth + StopClearance

\* required_clearance of choose_detour_side, as begin_avoidance asks for it.
RequiredClearance == ShiftDistance + StopClearance

ZoneOf(points, d) ==
    IF \E c \in Clearances(points, d) : c <= EmergencyClearance THEN Emergency
    ELSE IF \E c \in Clearances(points, d) : c <= StopClearance THEN Stop
    ELSE IF RoomFor(points, d, RequiredClearance) THEN Wide
    ELSE Near

ViewOf(points) ==
    [clear |-> [d \in Directions |-> ZoneOf(points, d)], spin_blocked |-> RotationBlocked(points)]

\* offset_points: as seen from where the robot will be.
Moved(points, d, distance) ==
    {[x |-> p.x - distance * DirectionVector(d).x,
      y |-> p.y - distance * DirectionVector(d).y] : p \in points}

\* detour_path_clearance: room for the three segments, with something to spare.
PathHasRoom(points, d, side, spare) ==
    LET shifted == Moved(points, side, ShiftDistance)
        passed == Moved(shifted, d, PassDistance)
    IN /\ RoomFor(points, side, ShiftDistance + spare)
       /\ RoomFor(shifted, d, PassDistance + spare)
       /\ RoomFor(passed, Opposite(side), ShiftDistance + spare)

\* detour_sides: (relative left, relative right).
RelativeRight(d) ==
    CASE d = "forward" -> "right" [] d = "backward" -> "left"
      [] d = "left"    -> "forward" [] d = "right"  -> "backward"

\* The clearance to the first side is less than that to the second.
Nearer(points, side, other) ==
    \E c \in Clearances(points, side) : \A o \in Clearances(points, other) : c < o

\* choose_detour_side: the clearer of the sides with room, relative right in a tie.
Selected(points, d, side) ==
    LET other == Opposite(side)
    IN /\ RoomFor(points, side, RequiredClearance)
       /\ \/ ~RoomFor(points, other, RequiredClearance)
          \/ Nearer(points, other, side)
          \/ side = RelativeRight(d) /\ ~Nearer(points, side, other)

-----------------------------------------------------------------------------
(* The executor among points. *)

CONSTANT Scans   \* the sets of points a scan may give

VARIABLE points   \* scan_points

geometryVars == <<vars, points>>

GeometryInit == Init /\ points = {}

\* on_scan, for a transform that is there.
OnPoints(seen) ==
    LET kept == {p \in seen : ~InFootprint(p)}
    IN /\ OnScan(ViewOf(kept), FALSE)
       /\ points' = kept

DetourBegins == avoidance = None /\ avoidance' # None

GeometryNext ==
    \/ \E seen \in Scans : OnPoints(seen)
    \/ /\ JogMessage \/ OnOdom \/ OnTimer \/ Tick \/ \E r \in Requests : OnRequestAccepted(r)
       /\ DetourBegins =>
             Selected(points, avoidance'.original_direction, avoidance'.side_direction)
       /\ UNCHANGED points

GeometrySpec == GeometryInit /\ [][GeometryNext]_geometryVars

\* docs/lidar_avoidance.md: before a detour is driven, the complete swept area of
\* its three segments must be verified to be safe.  obstacle.py has the check,
\* choose_detour_path; begin_avoidance asks choose_detour_side, which looks at the
\* first segment only.
WholePathChecked ==
    [][DetourBegins =>
          PathHasRoom(points, avoidance'.original_direction, avoidance'.side_direction,
                      StopClearance)]_geometryVars
=============================================================================
