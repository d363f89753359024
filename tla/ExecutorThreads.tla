--------------------------- MODULE ExecutorThreads ---------------------------
(***************************************************************************)
(* rospy runs the callbacks of the executor in threads of their own, and   *)
(* its control loop in the main thread, without a lock.  Here a pass that  *)
(* turns aside from an obstacle takes two steps: begin_avoidance has read  *)
(* the jog or the motion and published a zero, and stores the detour only  *)
(* then.  Any callback of MotionExecutor may come between the two; every   *)
(* other handler is still taken whole.                                     *)
(***************************************************************************)
EXTENDS MotionExecutor

VARIABLE turning   \* the detour about to be stored, or None

threadVars == <<vars, turning>>

ThreadInit == Init /\ turning = None

-----------------------------------------------------------------------------
(* The main thread. *)

\* begin_avoidance up to its last statement: the attempt counts, the robot stops.
Turn(owner, direction, elapsed) ==
    /\ turning = None
    /\ \E side \in FreeSides(direction) :
          turning' = [owner |-> owner, original_direction |-> direction,
                      side_direction |-> side, phase |-> "shift_out", elapsed |-> elapsed]
    /\ Publish(Zero)

JogTurns ==
    /\ Tracking
    /\ avoidance = None /\ jog # None
    /\ ~Expired(jog) /\ Online
    /\ Triggered(jog, scan.view.clear[jog.direction])
    /\ MayDetour(jog, jog.direction)
    /\ jog' = [Observed(jog, scan.view.clear[jog.direction]) EXCEPT !.detour_attempted = TRUE]
    /\ UNCHANGED active
    /\ Turn("jog", jog.direction, 0)

MotionTurns ==
    /\ Tracking
    /\ avoidance = None /\ jog = None /\ active # None
    /\ active.kind # "rotate" /\ active.source = "voice"
    /\ active.elapsed <= LinearTimeout /\ Online
    /\ Triggered(active, scan.view.clear[active.direction])
    /\ MayDetour(active, active.direction)
    /\ active' = [Observed(active, scan.view.clear[active.direction])
                    EXCEPT !.detour_attempted = TRUE]
    /\ UNCHANGED jog
    /\ Turn("active", active.direction, active.elapsed)

\* The last statement of begin_avoidance.
StoreDetour ==
    /\ turning # None
    /\ avoidance' = turning
    /\ turning' = None
    /\ NoResult
    /\ UNCHANGED <<inputs, safety_latched, active, jog, jog_blocked_key, command, due>>

\* run_avoidance finds that the owner has gone.
DropDetour ==
    /\ Tracking
    /\ avoidance # None /\ Owner = None
    /\ avoidance' = None
    /\ command' = Zero
    /\ NoResult
    /\ UNCHANGED <<active, jog, jog_blocked_key>>

\* A pass that begins no detour.
WholePass ==
    /\ turning = None /\ UNCHANGED turning
    /\ \/ TimerLatched \/ TimerOdomLost \/ TimerIdle \/ RunRotation
       \/ (RunJog \/ RunTranslation) /\ avoidance' = None
       \/ (avoidance # None => Owner # None) /\ RunAvoidance
       \/ DropDetour

-----------------------------------------------------------------------------

Callback ==
    /\ UNCHANGED turning
    /\ \/ JogMessage
       \/ OnOdom
       \/ \E view \in Views, error \in BOOLEAN : OnScan(view, error)
       \/ \E latch \in BOOLEAN : OnSafety(latch)
       \/ OnCancel
       \/ \E r \in Requests : OnRequestRefused(r) \/ OnRequestAccepted(r)

Pause == turning = None /\ UNCHANGED turning /\ Tick

ThreadNext == JogTurns \/ MotionTurns \/ StoreDetour \/ WholePass \/ Callback \/ Pause

ThreadSpec == ThreadInit /\ [][ThreadNext]_threadVars

\* docs/windows-stc-remote.md: letting go, another direction and the centre of the
\* key cancel a detour at once.  A key pressed between the two steps finds no detour
\* to cancel; the main thread then stores that of the old key, and the new jog owns
\* it: the robot goes round an obstacle in the old direction, for as long as the new
\* key is held.
DetourFollowsKey ==
    turning = None /\ avoidance # None /\ avoidance.owner = "jog" /\ jog # None
    => avoidance.original_direction = jog.direction
=============================================================================
