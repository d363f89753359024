--------------------------- MODULE MotionExecutor ---------------------------
(***************************************************************************)
(* The motion executor of the ROS side (ros/petcargo_ros/scripts/          *)
(* motion_executor.py): discrete motions asked for by the STC board, jogs  *)
(* held by a remote control and renewed under a lease, and the single      *)
(* three-phase detour around an obstacle that either of them may take.     *)
(*                                                                         *)
(* One action is one callback or one pass of the 20 Hz control loop, run   *)
(* without interference; ExecutorThreads has a callback in the middle of a *)
(* pass.                                                                   *)
(*                                                                         *)
(* Distances are abstracted to four zones of clearance, speeds to whether  *)
(* the robot moves and where to, clocks to ages that saturate just above   *)
(* the limit they are compared with.  The status and lidar topics, which   *)
(* only feed the dashboard, are left out.                                  *)
(***************************************************************************)
EXTENDS Integers, FiniteSets

CONSTANTS
    Ids,             \* motion ids
    Requests,        \* the decoded motion requests that may arrive
    JogSources,      \* "stc_remote" and "windows_stc" in the code
    Views,           \* what a scan may show: zones around the robot
    CompletedLimit,  \* completed ids remembered before the set is cleared (128)
    OdomLimit,       \* age at which odometry is still fresh (0.5 s), in ticks
    LidarTimeout,    \* the same for a scan (0.5 s)
    LinearTimeout,   \* longest translation or detour (20 s)
    AngularTimeout,  \* longest rotation (15 s)
    MaxLease,        \* longest lease of a jog (0.5 s)
    ConfirmScans,    \* distinct scans that confirm an obstacle (2)
    None             \* Python's None

Directions == {"forward", "backward", "left", "right"}   \* 1 to 4 in the code
NoDirection == "none"     \* direction_from_request returned None

\* Clearance of a swept corridor: at most obstacle_emergency_clearance, at most
\* obstacle_stop_clearance, more than that, and enough to side-step (shift + stop).
Emergency == 0
Stop == 1
Near == 2
Wide == 3
Zones == Emergency..Wide

Sources == {"voice", "bright_light"}
Kinds == {"linear", "lateral", "rotate"}
Phases == {"shift_out", "pass", "shift_back"}
Progress == {"short", "reached", "beyond"}   \* error within the tolerance or not

Zero == "zero"    \* Twist()
Spin == "spin"    \* a command with only angular.z

View == [clear : [Directions -> Zones], spin_blocked : BOOLEAN]

\* An empty scan: what scan_points = [] looks like.
EmptyView == [clear |-> [d \in Directions |-> Wide], spin_blocked |-> FALSE]

Request == [id : Ids, kind : Kinds \union {"other"}, source : Sources,
            direction : Directions \union {NoDirection}]

\* direction_from_request: the axis comes from the kind, the sense from the sign.
DirectionsOf(kind) ==
    CASE kind = "linear"  -> {NoDirection, "forward", "backward"}
      [] kind = "lateral" -> {NoDirection, "left", "right"}
      [] OTHER            -> {NoDirection}

\* A point inside a stop corridor lies inside the rotation rectangle, whose
\* margin (0.15) is larger than the corridor's (0.03).
Consistent(view) ==
    (\E d \in Directions : view.clear[d] <= Stop) => view.spin_blocked

ASSUME RequestsAssumption ==
    Requests \subseteq {r \in Request : r.direction \in DirectionsOf(r.kind)}
ASSUME ViewsAssumption == Views \subseteq {v \in View : Consistent(v)}
ASSUME LimitsAssumption ==
    /\ OdomLimit \in Nat /\ LidarTimeout \in Nat
    /\ AngularTimeout \in Nat /\ LinearTimeout \in Nat
    /\ AngularTimeout <= LinearTimeout
    /\ MaxLease \in Nat \ {0} /\ ConfirmScans \in Nat \ {0}
    /\ CompletedLimit \in Nat \ {0}

VARIABLES
    odom_age,         \* age of the last /odom message; too old before the first
    scan,             \* last scan: its age, whether it failed, what it shows
    safety_latched,
    active,           \* the discrete motion being executed, or None
    jog,              \* the jog being executed, or None
    avoidance,        \* the detour being driven, or None
    jog_blocked_key,  \* the key whose jog an obstacle ended, or None
    completed_ids,
    command,          \* the last Twist published on the internal command topic
    due,              \* the loop's rate.sleep() is over
    result,           \* the motion_result this step published, or None
    owed              \* history: per id, requests received minus results published

inputs == <<odom_age, scan>>
vars == <<odom_age, scan, safety_latched, active, jog, avoidance,
          jog_blocked_key, completed_ids, command, due, result, owed>>

Motion == [id : Ids, kind : Kinds, source : Sources,
           direction : Directions \union {NoDirection},
           elapsed : 0..(LinearTimeout + 1), detour_attempted : BOOLEAN,
           obstacle_hits : 0..ConfirmScans, seen : BOOLEAN]

Jog == [source : JogSources, direction : Directions, left : 0..MaxLease,
        detour_attempted : BOOLEAN, obstacle_hits : 0..ConfirmScans,
        seen : BOOLEAN]

Detour == [owner : {"active", "jog"}, original_direction : Directions,
           side_direction : Directions, phase : Phases,
           elapsed : 0..(LinearTimeout + 1)]

Key == JogSources \X Directions

Codes == {"COMPLETED", "STOPPED", "TIMEOUT", "ODOM_ERROR", "REJECTED_SAFETY",
          "REJECTED_BUSY", "LIDAR_UNAVAILABLE", "OBSTACLE_BLOCKED"}
Result == [motion_id : Ids, code : Codes]

ASSUME NoneAssumption ==
    None \notin Motion \union Jog \union Detour \union Key \union Result

TypeOK ==
    /\ odom_age \in 0..(OdomLimit + 1)
    /\ scan \in [age : 0..(LidarTimeout + 1), error : BOOLEAN, view : View]
    /\ safety_latched \in BOOLEAN
    /\ active \in Motion \union {None}
    /\ jog \in Jog \union {None}
    /\ avoidance \in Detour \union {None}
    /\ jog_blocked_key \in Key \union {None}
    /\ completed_ids \in SUBSET Ids
    /\ command \in Directions \union {Zero, Spin}
    /\ due \in BOOLEAN
    /\ result \in Result \union {None}
    /\ owed \in [Ids -> Int]

Init ==
    /\ odom_age = OdomLimit + 1
    /\ scan = [age |-> LidarTimeout + 1, error |-> TRUE, view |-> EmptyView]
    /\ safety_latched = FALSE
    /\ active = None
    /\ jog = None
    /\ avoidance = None
    /\ jog_blocked_key = None
    /\ completed_ids = {}
    /\ command = Zero
    /\ due = TRUE
    /\ result = None
    /\ owed = [i \in Ids |-> 0]

-----------------------------------------------------------------------------
(* Helpers shared by the handlers. *)

Online == scan.age <= LidarTimeout /\ ~scan.error
OdomFresh == odom_age <= OdomLimit

Opposite(d) == CASE d = "forward" -> "backward" [] d = "backward" -> "forward"
                 [] d = "left"    -> "right"    [] d = "right"    -> "left"
DetourSides(d) == IF d \in {"forward", "backward"} THEN {"left", "right"}
                  ELSE {"forward", "backward"}

\* The sides choose_detour_side can return: only the first segment is looked at.
FreeSides(d) == {s \in DetourSides(d) : scan.view.clear[s] = Wide}

PhaseDirection(a) ==
    CASE a.phase = "shift_out"  -> a.side_direction
      [] a.phase = "pass"       -> a.original_direction
      [] a.phase = "shift_back" -> Opposite(a.side_direction)

\* update_obstacle_confirmation: only a scan not seen before counts.
Confirmations(context, zone) ==
    CASE zone = Emergency \/ context.seen -> context.obstacle_hits
      [] zone > Stop                      -> 0
      [] OTHER -> IF context.obstacle_hits < ConfirmScans
                  THEN context.obstacle_hits + 1 ELSE ConfirmScans
Triggered(context, zone) ==
    zone = Emergency \/ Confirmations(context, zone) >= ConfirmScans
Observed(context, zone) ==
    [context EXCEPT !.obstacle_hits = Confirmations(context, zone), !.seen = TRUE]

\* Mutant: an obstacle waiting for its second scan does not stop the robot.
DriveUntilConfirmed(d, zone, progress) == IF progress = "beyond" THEN Zero ELSE d

\* speed_for_clearance after linear_speed_for_error: an overshoot gives a
\* negative speed, which is clamped to zero like a zone within the stop distance.
Drive(d, zone, progress) ==
    IF zone <= Stop \/ progress = "beyond" THEN Zero ELSE d

\* Mutant: the owner is stopped, its detour is not.
KeepDetour(owners) == avoidance

\* The detour, unless its owner is one of those given.
DetourUnless(owners) ==
    IF avoidance # None /\ avoidance.owner \in owners THEN None ELSE avoidance

\* finish(): the id is remembered and one result published for it.
Settle(id, code) ==
    /\ completed_ids' = IF Cardinality(completed_ids \union {id}) > CompletedLimit
                        THEN {id} ELSE completed_ids \union {id}
    /\ result' = [motion_id |-> id, code |-> code]
    /\ owed' = [owed EXCEPT ![id] = @ - 1]

NoResult == result' = None /\ UNCHANGED <<completed_ids, owed>>

\* Mutant: the motion is dropped without a result.
DropSilently(code) == NoResult

SettleActive(code) == IF active = None THEN NoResult ELSE Settle(active.id, code)

Finish(code) ==
    /\ Settle(active.id, code)
    /\ command' = Zero
    /\ active' = None
    /\ avoidance' = DetourUnless({"active"})
    /\ UNCHANGED <<jog, jog_blocked_key>>

\* Mutant: the bar is set with its two halves in the wrong order.
StopJogSwapped(block) ==
    /\ NoResult
    /\ jog' = None
    /\ avoidance' = DetourUnless({"jog"})
    /\ command' = Zero
    /\ jog_blocked_key' = IF block THEN <<jog.direction, jog.source>>
                          ELSE jog_blocked_key
    /\ UNCHANGED active

\* stop_jog() while a jog runs; block bars its key.
StopJog(block) ==
    /\ NoResult
    /\ jog' = None
    /\ avoidance' = DetourUnless({"jog"})
    /\ command' = Zero
    /\ jog_blocked_key' = IF block THEN <<jog.source, jog.direction>>
                          ELSE jog_blocked_key
    /\ UNCHANGED active

\* Mutant: stop_jog() relies on the next pass to stop the robot.
CommandLeftRunning == command

\* What stop_jog() leaves on the command topic, whether or not a jog runs.
CommandAfterStopJog ==
    IF jog = None /\ DetourUnless({"jog"}) = avoidance THEN command ELSE Zero

\* "if active: finish(code)", which drops a detour the motion owns, and then
\* stop_jog(), which drops one the jog owns.
StopEverything(code) ==
    /\ SettleActive(code)
    /\ active' = None
    /\ jog' = None
    /\ avoidance' = DetourUnless(IF active = None THEN {"jog"} ELSE {"active", "jog"})
    /\ UNCHANGED jog_blocked_key

-----------------------------------------------------------------------------
(* The callbacks. *)

OnOdom ==
    /\ odom_age' = 0
    /\ NoResult
    /\ UNCHANGED <<scan, safety_latched, active, jog, avoidance,
                   jog_blocked_key, command, due>>

\* A new scan generation: no context has looked at it.  A failed transform or
\* too few points leaves an error, which lidar_health reports.
OnScan(view, error) ==
    /\ scan' = [age |-> 0, error |-> error, view |-> IF error THEN EmptyView ELSE view]
    /\ active' = IF active = None THEN None ELSE [active EXCEPT !.seen = FALSE]
    /\ jog' = IF jog = None THEN None ELSE [jog EXCEPT !.seen = FALSE]
    /\ NoResult
    /\ UNCHANGED <<odom_age, safety_latched, avoidance, jog_blocked_key, command, due>>

OnSafety(latch) ==
    /\ safety_latched' = latch
    /\ IF latch
       THEN command' = Zero /\ StopEverything("STOPPED")
       ELSE NoResult /\ UNCHANGED <<active, jog, avoidance, jog_blocked_key, command>>
    /\ UNCHANGED <<inputs, due>>

OnCancel ==
    /\ command' = Zero
    /\ StopEverything("STOPPED")
    /\ UNCHANGED <<inputs, safety_latched, due>>

\* on_connected(False) does the same; on_connected(True) changes nothing.
OnDisconnected == OnCancel

\* The answer on_request gives at once, in the order of its tests.
NoRefusal == "accepted"
Refusal(r) ==
    IF safety_latched THEN "REJECTED_SAFETY"
    ELSE IF active # None THEN "REJECTED_BUSY"
    ELSE IF ~OdomFresh THEN "ODOM_ERROR"
    ELSE IF r.kind \notin Kinds THEN "REJECTED_SAFETY"
    ELSE IF r.kind # "rotate" /\ r.direction = NoDirection THEN "REJECTED_SAFETY"
    ELSE IF ~Online THEN "LIDAR_UNAVAILABLE"
    ELSE IF r.kind = "rotate" /\ scan.view.spin_blocked THEN "OBSTACLE_BLOCKED"
    ELSE NoRefusal

\* Received and answered at once.  A duplicate of a completed id is dropped
\* without an answer, which is no step at all.
OnRequestRefused(r) ==
    /\ r.id \notin completed_ids
    /\ Refusal(r) # NoRefusal
    /\ result' = [motion_id |-> r.id, code |-> Refusal(r)]
    /\ UNCHANGED <<inputs, safety_latched, active, jog, avoidance,
                   jog_blocked_key, completed_ids, command, due, owed>>

OnRequestAccepted(r) ==
    /\ r.id \notin completed_ids
    /\ Refusal(r) = NoRefusal
    /\ active' = [id |-> r.id, kind |-> r.kind, source |-> r.source,
                  direction |-> r.direction, elapsed |-> 0,
                  detour_attempted |-> FALSE, obstacle_hits |-> 0, seen |-> FALSE]
    /\ owed' = [owed EXCEPT ![r.id] = @ + 1]
    /\ result' = None
    /\ jog' = None
    /\ avoidance' = DetourUnless({"jog"})
    /\ command' = CommandAfterStopJog
    /\ UNCHANGED <<inputs, safety_latched, jog_blocked_key, completed_ids, due>>

\* Mutant: a key does not end the motion.
IgnoreMotion == NoResult /\ UNCHANGED active

LiftBar == jog_blocked_key' = None
PreemptMotion == SettleActive("STOPPED") /\ active' = None

\* A jog message with direction 0, from whichever source.
OnJogRelease ==
    /\ NoResult
    /\ jog' = None
    /\ avoidance' = DetourUnless({"jog"})
    /\ command' = CommandAfterStopJog
    /\ LiftBar
    /\ UNCHANGED <<inputs, safety_latched, active, due>>

\* A message to a latched robot or from the barred key changes nothing.
Heard(source, direction) ==
    ~safety_latched /\ jog_blocked_key # <<source, direction>>
Renews(source, direction) ==
    jog # None /\ jog.source = source /\ jog.direction = direction

OnJogRenew(source, direction, lease) ==
    /\ Heard(source, direction)
    /\ Renews(source, direction)
    /\ NoResult
    /\ LiftBar
    /\ IF Online
       THEN jog' = [jog EXCEPT !.left = lease] /\ UNCHANGED <<avoidance, command>>
       ELSE jog' = None /\ avoidance' = DetourUnless({"jog"}) /\ command' = Zero
    /\ UNCHANGED <<inputs, safety_latched, active, due>>

OnJogStart(source, direction, lease) ==
    /\ Heard(source, direction)
    /\ ~Renews(source, direction)
    /\ PreemptMotion
    /\ avoidance' = DetourUnless(   (IF jog = None THEN {} ELSE {"jog"})
                             \union (IF active = None THEN {} ELSE {"active"}))
    /\ command' = Zero
    /\ LiftBar
    /\ jog' = IF Online
              THEN [source |-> source, direction |-> direction, left |-> lease,
                    detour_attempted |-> FALSE, obstacle_hits |-> 0, seen |-> FALSE]
              ELSE None
    /\ UNCHANGED <<inputs, safety_latched, due>>

-----------------------------------------------------------------------------
(* One pass of the control loop, on_timer.  It looks at what is running in the
   order detour, jog, motion; a pass with nothing to run publishes nothing. *)

Pass ==
    /\ due
    /\ due' = FALSE
    /\ UNCHANGED <<inputs, safety_latched>>

TimerLatched ==
    /\ Pass
    /\ safety_latched
    /\ command' = Zero
    /\ NoResult
    /\ UNCHANGED <<active, jog, avoidance, jog_blocked_key>>

TimerOdomLost ==
    /\ Pass
    /\ ~safety_latched
    /\ ~OdomFresh
    /\ command' = IF active = None THEN CommandAfterStopJog ELSE Zero
    /\ StopEverything("ODOM_ERROR")

Tracking == Pass /\ ~safety_latched /\ OdomFresh

TimerIdle ==
    /\ Tracking
    /\ avoidance = None /\ jog = None /\ active = None
    /\ NoResult
    /\ UNCHANGED <<active, jog, avoidance, jog_blocked_key, command>>

Publish(c) ==
    /\ command' = c
    /\ NoResult
    /\ UNCHANGED <<avoidance, jog_blocked_key>>

\* Mutant: the clock of the detour is not the clock of the motion.
BeginAvoidanceAfresh(owner, direction, elapsed) ==
    /\ \E side \in FreeSides(direction) :
          avoidance' = [owner |-> owner, original_direction |-> direction,
                        side_direction |-> side, phase |-> "shift_out",
                        elapsed |-> 0]
    /\ command' = Zero
    /\ NoResult
    /\ UNCHANGED jog_blocked_key

\* begin_avoidance with a free side; the context records the attempt.
BeginAvoidance(owner, direction, elapsed) ==
    /\ \E side \in FreeSides(direction) :
          avoidance' = [owner |-> owner, original_direction |-> direction,
                        side_direction |-> side, phase |-> "shift_out",
                        elapsed |-> elapsed]
    /\ command' = Zero
    /\ NoResult
    /\ UNCHANGED jog_blocked_key

MayDetour(context, direction) ==
    ~context.detour_attempted /\ FreeSides(direction) # {}

\* now >= deadline, in run_jog and in run_avoidance.
Expired(held) == held.left = 0

RunJog ==
    /\ Tracking
    /\ avoidance = None /\ jog # None
    /\ LET zone == scan.view.clear[jog.direction]
           looked == Observed(jog, zone)
       IN IF Expired(jog) \/ ~Online
          THEN StopJog(FALSE)
          ELSE IF ~Triggered(jog, zone)
          THEN jog' = looked /\ UNCHANGED active
               /\ Publish(Drive(jog.direction, zone, "short"))
          ELSE IF ~MayDetour(jog, jog.direction)
          THEN StopJog(TRUE)
          ELSE jog' = [looked EXCEPT !.detour_attempted = TRUE] /\ UNCHANGED active
               /\ BeginAvoidance("jog", jog.direction, 0)

\* run_active for a rotation: an overshoot is turned back, not waited out.
RunRotation ==
    /\ Tracking
    /\ avoidance = None /\ jog = None /\ active # None
    /\ active.kind = "rotate"
    /\ \E progress \in Progress :
          IF active.elapsed > AngularTimeout THEN Finish("TIMEOUT")
          ELSE IF ~Online THEN Finish("LIDAR_UNAVAILABLE")
          ELSE IF scan.view.spin_blocked THEN Finish("OBSTACLE_BLOCKED")
          ELSE IF progress = "reached" THEN Finish("COMPLETED")
          ELSE Publish(Spin) /\ UNCHANGED <<active, jog>>

RunTranslation ==
    /\ Tracking
    /\ avoidance = None /\ jog = None /\ active # None
    /\ active.kind # "rotate"
    /\ LET zone == scan.view.clear[active.direction]
           looked == Observed(active, zone)
       IN \E progress \in Progress :
          IF active.elapsed > LinearTimeout THEN Finish("TIMEOUT")
          ELSE IF ~Online THEN Finish("LIDAR_UNAVAILABLE")
          ELSE IF progress = "reached" THEN Finish("COMPLETED")
          ELSE IF ~Triggered(active, zone)
          THEN active' = looked /\ UNCHANGED jog
               /\ Publish(Drive(active.direction, zone, progress))
          ELSE IF active.source = "bright_light" \/ ~MayDetour(active, active.direction)
          THEN Finish("OBSTACLE_BLOCKED")
          ELSE active' = [looked EXCEPT !.detour_attempted = TRUE] /\ UNCHANGED jog
               /\ BeginAvoidance("active", active.direction, active.elapsed)

\* abort_avoidance: the owner is stopped with the detour.
AbortAvoidance(code) ==
    IF avoidance.owner = "active" THEN Finish(code)
    ELSE StopJog(code = "OBSTACLE_BLOCKED")

\* transition_avoidance: the next phase, or the end of the detour.  A motion
\* carried past its target by the detour is complete.
NextPhase ==
    /\ avoidance.phase # "shift_back"
    /\ avoidance' = [avoidance EXCEPT !.phase =
                       IF @ = "shift_out" THEN "pass" ELSE "shift_back"]
    /\ command' = Zero
    /\ NoResult
    /\ UNCHANGED <<active, jog, jog_blocked_key>>

EndAvoidance(progress) ==
    /\ avoidance.phase = "shift_back"
    /\ IF avoidance.owner = "active" /\ progress # "short"
       THEN Finish("COMPLETED")
       ELSE /\ avoidance' = None
            /\ command' = Zero
            /\ NoResult
            /\ UNCHANGED <<active, jog, jog_blocked_key>>

\* run_avoidance.  Its branch for an owner that is gone needs a second thread.
RunAvoidance ==
    /\ Tracking
    /\ avoidance # None
    /\ LET direction == PhaseDirection(avoidance)
           zone == scan.view.clear[direction]
       IN \E progress, overall \in Progress :
          IF avoidance.owner = "jog" /\ Expired(jog) THEN StopJog(FALSE)
          ELSE IF avoidance.elapsed > LinearTimeout THEN AbortAvoidance("TIMEOUT")
          ELSE IF ~Online THEN AbortAvoidance("LIDAR_UNAVAILABLE")
          ELSE IF zone <= Stop THEN AbortAvoidance("OBSTACLE_BLOCKED")
          ELSE IF progress # "reached"
          THEN Publish(Drive(direction, zone, progress)) /\ UNCHANGED <<active, jog>>
          ELSE NextPhase \/ EndAvoidance(overall)

OnTimer ==
    \/ TimerLatched \/ TimerOdomLost \/ TimerIdle
    \/ RunAvoidance \/ RunJog \/ RunRotation \/ RunTranslation

-----------------------------------------------------------------------------
(* Time. *)

\* Mutant: an age that never passes its limit, as >= in place of > would have it.
OlderToLimit(age, limit) == IF age >= limit THEN age ELSE age + 1

Older(age, limit) == IF age > limit THEN age ELSE age + 1

Tick ==
    /\ odom_age' = Older(odom_age, OdomLimit)
    /\ scan' = [scan EXCEPT !.age = Older(@, LidarTimeout)]
    /\ active' = IF active = None THEN None
                 ELSE [active EXCEPT !.elapsed = Older(@, LinearTimeout)]
    /\ avoidance' = IF avoidance = None THEN None
                    ELSE [avoidance EXCEPT !.elapsed = Older(@, LinearTimeout)]
    /\ jog' = IF jog = None THEN None
              ELSE [jog EXCEPT !.left = IF @ = 0 THEN 0 ELSE @ - 1]
    /\ due' = TRUE
    /\ NoResult
    /\ UNCHANGED <<safety_latched, jog_blocked_key, command>>

JogMessage ==
    \/ OnJogRelease
    \/ \E source \in JogSources, direction \in Directions, lease \in 1..MaxLease :
          OnJogRenew(source, direction, lease) \/ OnJogStart(source, direction, lease)

OtherStep ==
    \/ OnOdom
    \/ \E view \in Views, error \in BOOLEAN : OnScan(view, error)
    \/ \E latch \in BOOLEAN : OnSafety(latch)
    \/ OnCancel
    \/ OnDisconnected
    \/ \E r \in Requests : OnRequestRefused(r) \/ OnRequestAccepted(r)
    \/ OnTimer
    \/ Tick

Next == JogMessage \/ OtherStep

Spec == Init /\ [][Next]_vars

\* The clock advances and the main thread keeps running its 20 Hz loop; nothing
\* obliges a message to arrive.
FairSpec == Spec /\ WF_vars(Tick) /\ WF_vars(OnTimer)

-----------------------------------------------------------------------------
(* Properties. *)

Owner == IF avoidance.owner = "active" THEN active ELSE jog

\* The only movement the running mode calls for.
MoveOfMode ==
    IF avoidance # None THEN PhaseDirection(avoidance)
    ELSE IF jog # None THEN jog.direction
    ELSE IF active = None THEN Zero
    ELSE IF active.kind = "rotate" THEN Spin
    ELSE active.direction

\* A held key and a discrete motion never drive the chassis together: a key
\* press ends the motion, an accepted request ends the jog.
OneMover == jog = None \/ active = None

\* A detour never outlives the motion or the jog it was begun for, goes round
\* the direction that one travels in, is its only one, and is never taken by
\* the escape from bright light.
DetourOwned ==
    avoidance # None =>
        /\ Owner # None
        /\ Owner.detour_attempted
        /\ Owner.direction = avoidance.original_direction
        /\ avoidance.side_direction \in DetourSides(avoidance.original_direction)
        /\ avoidance.owner = "active" => active.source = "voice"

\* While the emergency stop is latched nothing runs or waits to be resumed.
LatchedAtRest ==
    safety_latched => active = None /\ jog = None /\ avoidance = None

\* The command left on the topic is zero or the movement of what runs now: no
\* handler ends or changes a movement and leaves the old one commanded.
CommandFollowsMode == command \in {Zero, MoveOfMode}

\* Every request that is not a duplicate of a completed one is answered exactly
\* once: now, or when the motion it started ends, however it ends.
AnsweredOnce ==
    \A i \in Ids : owed[i] = IF active # None /\ active.id = i THEN 1 ELSE 0

\* The key that an obstacle stopped is barred only while nothing is jogging: a
\* jog never runs beside a stale bar that would swallow its next renewal.
BarOnlyAtRest == jog # None => jog_blocked_key = None

\* What excludes each other: two movers, a mover and a stop, a jog and a bar.
ModesAgree == OneMover /\ LatchedAtRest /\ BarOnlyAtRest

\* No pass of the loop leaves the robot driven on old odometry, without a
\* healthy scan, or towards an obstacle within the stop distance - not even
\* while the obstacle still waits for its second scan.
PassEnds == due /\ ~due'
NoBlindDrive ==
    [][PassEnds /\ command' # Zero =>
          /\ ~safety_latched /\ OdomFresh /\ Online
          /\ command' \in Directions => scan.view.clear[command'] > Stop
          /\ command' = Spin => ~scan.view.spin_blocked]_vars

\* No pass leaves running what has run out of time: an expired lease, a motion
\* over its timeout, a detour over the longest translation.
NothingOverdue ==
    [][PassEnds =>
          /\ jog' # None => jog'.left > 0
          /\ active' # None =>
                active'.elapsed <= IF active'.kind = "rotate" THEN AngularTimeout
                                   ELSE LinearTimeout
          /\ avoidance' # None => avoidance'.elapsed <= LinearTimeout]_vars

\* Every accepted motion ends, whatever the sensors and the remotes do.
Executing(i) == active # None /\ active.id = i
MotionEnds == \A i \in Ids : Executing(i) ~> ~Executing(i)

\* Every detour ends, even when the key that caused it stays held for ever.
DetourEnds == avoidance # None ~> avoidance = None

\* A jog whose messages cease ends without a release: the lease runs out.
AbandonedJogEnds == <>[][~JogMessage]_vars => <>[](jog = None)

\* Whatever begins ends: a motion and a detour whatever happens, a jog when nobody
\* renews it.
RunsEnd == MotionEnds /\ DetourEnds /\ AbandonedJogEnds

=============================================================================
