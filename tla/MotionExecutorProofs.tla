------------------------ MODULE MotionExecutorProofs ------------------------
(***************************************************************************)
(* Proofs about MotionExecutor, for every set of ids, requests and scans   *)
(* and every value of the limits; and, at the end, about the points behind *)
(* its zones.  MotionExecutor assumes that whatever stands in a stop       *)
(* corridor also blocks a rotation; there that follows from the distances, *)
(* and the executor among points is an executor of MotionExecutor.         *)
(***************************************************************************)
EXTENDS ObstacleGeometry, TLAPS

\* A translation has a direction: requests without one are refused.
Directed ==
    active # None /\ active.kind # "rotate" => active.direction \in Directions

-----------------------------------------------------------------------------
(* Lemmas about the operators. *)

\* The count of near scans stays within the scans that confirm an obstacle.
LEMMA ConfirmationsType ==
    ASSUME NEW context, context.obstacle_hits \in 0..ConfirmScans,
           context.seen \in BOOLEAN, NEW zone \in Zones
    PROVE  Confirmations(context, zone) \in 0..ConfirmScans
BY LimitsAssumption DEF Confirmations, Zones, Emergency, Stop, Wide

\* An age that saturates stays within its bound.
LEMMA OlderType ==
    ASSUME NEW limit \in Nat, NEW age \in 0..(limit + 1)
    PROVE  Older(age, limit) \in 0..(limit + 1)
BY DEF Older

\* Directions that a detour may take are directions.
LEMMA PhaseDirectionType ==
    ASSUME NEW a \in Detour
    PROVE  PhaseDirection(a) \in Directions
BY DEF Detour, PhaseDirection, Opposite, Phases, Directions

\* Looking at a scan changes only what a motion has seen of it.
LEMMA ObservedMotion ==
    ASSUME NEW m \in Motion, NEW zone \in Zones
    PROVE  /\ Observed(m, zone) \in Motion
           /\ \A f \in {"id", "kind", "source", "direction", "elapsed", "detour_attempted"} :
                 Observed(m, zone)[f] = m[f]
<1>1. Confirmations(m, zone) \in 0..ConfirmScans
  BY ConfirmationsType DEF Motion
<1> QED
  BY <1>1 DEF Motion, Observed
\* Looking at a scan changes only what a jog has seen of it.
LEMMA ObservedJog ==
    ASSUME NEW j \in Jog, NEW zone \in Zones
    PROVE  /\ Observed(j, zone) \in Jog
           /\ \A f \in {"source", "direction", "left", "detour_attempted"} :
                 Observed(j, zone)[f] = j[f]
<1>1. Confirmations(j, zone) \in 0..ConfirmScans
  BY ConfirmationsType DEF Jog
<1> QED
  BY <1>1 DEF Jog, Observed

\* An answer is a result for a known id, which joins the completed ones.
LEMMA SettleType ==
    ASSUME TypeOK, NEW id \in Ids, NEW code \in Codes, Settle(id, code)
    PROVE  /\ completed_ids' \in SUBSET Ids
           /\ result' \in Result \union {None}
           /\ owed' = [owed EXCEPT ![id] = @ - 1]
BY DEF TypeOK, Settle, Result

-----------------------------------------------------------------------------
(* Type correctness. *)

\* The view before the first scan is a view.
LEMMA EmptyViewType == EmptyView \in View
BY DEF EmptyView, View, Zones, Emergency, Wide

\* The node starts with well-typed state and no motion.
LEMMA InitType == Init => TypeOK /\ Directed
<1> SUFFICES ASSUME Init PROVE TypeOK /\ Directed
  OBVIOUS
<1>1. scan \in [age : 0..(LidarTimeout + 1), error : BOOLEAN, view : View]
  BY LimitsAssumption, EmptyViewType DEF Init
<1>2. odom_age \in 0..(OdomLimit + 1) /\ owed \in [Ids -> Int]
  BY LimitsAssumption DEF Init
<1> QED
  BY <1>1, <1>2 DEF Init, TypeOK, Directed

\* The callbacks of odometry, scan, stop, cancel and link keep the types.
LEMMA CallbackType ==
    ASSUME TypeOK, Directed,
           \/ OnOdom
           \/ \E view \in Views, error \in BOOLEAN : OnScan(view, error)
           \/ \E latch \in BOOLEAN : OnSafety(latch)
           \/ OnCancel
    PROVE  TypeOK' /\ Directed'
<1>1. CASE OnOdom
  BY <1>1, LimitsAssumption DEF OnOdom, NoResult, TypeOK, Directed
<1>2. ASSUME NEW view \in Views, NEW error \in BOOLEAN, OnScan(view, error)
      PROVE  TypeOK' /\ Directed'
  <2>1. scan' \in [age : 0..(LidarTimeout + 1), error : BOOLEAN, view : View]
    BY <1>2, ViewsAssumption, LimitsAssumption
       DEF OnScan, EmptyView, View, Zones, Emergency, Wide
  <2>2. active' \in Motion \union {None} /\ Directed'
    BY <1>2, NoneAssumption DEF OnScan, TypeOK, Motion, Directed
  <2>3. jog' \in Jog \union {None}
    BY <1>2 DEF OnScan, TypeOK, Jog
  <2> QED
    BY <1>2, <2>1, <2>2, <2>3 DEF OnScan, NoResult, TypeOK
<1>3. ASSUME NEW latch \in BOOLEAN, OnSafety(latch)
      PROVE  TypeOK' /\ Directed'
  BY <1>3, SettleType DEF OnSafety, StopEverything, SettleActive, DetourUnless, NoResult,
     inputs, TypeOK, Directed, Motion, Codes, Zero
<1>4. CASE OnCancel
  BY <1>4, SettleType DEF OnCancel, StopEverything, SettleActive, DetourUnless, NoResult,
     inputs, TypeOK, Directed, Motion, Codes, Zero
<1> QED
  BY <1>1, <1>2, <1>3, <1>4

\* A motion request keeps the types, refused or accepted.
LEMMA RequestType ==
    ASSUME TypeOK, Directed, NEW r \in Requests,
           OnRequestRefused(r) \/ OnRequestAccepted(r)
    PROVE  TypeOK' /\ Directed'
<1>0. r \in Request /\ r.direction \in DirectionsOf(r.kind)
  BY RequestsAssumption
<1>1. CASE OnRequestRefused(r)
  <2>1. Refusal(r) \in Codes
    BY <1>1 DEF OnRequestRefused, Refusal, NoRefusal, Codes
  <2> QED
    BY <1>0, <1>1, <2>1 DEF OnRequestRefused, Result, Request, inputs, TypeOK, Directed
<1>2. CASE OnRequestAccepted(r)
  <2>1. r.kind \in Kinds /\ (r.kind # "rotate" => r.direction # NoDirection)
    BY <1>2 DEF OnRequestAccepted, Refusal, NoRefusal
  <2>2. active' \in Motion
    BY <1>0, <1>2, <2>1, LimitsAssumption DEF OnRequestAccepted, Request, Motion
  <2>3. Directed'
    BY <1>0, <1>2, <2>1 DEF OnRequestAccepted, Directed, Request
  <2>4. owed' \in [Ids -> Int]
    BY <1>0, <1>2 DEF OnRequestAccepted, Request, TypeOK
  <2> QED
    BY <1>2, <2>2, <2>3, <2>4
       DEF OnRequestAccepted, CommandAfterStopJog, DetourUnless, inputs, TypeOK, Zero
<1> QED
  BY <1>1, <1>2

\* A jog message keeps the types: release, renewal or a new jog.
LEMMA JogMessageType ==
    ASSUME TypeOK, Directed, JogMessage
    PROVE  TypeOK' /\ Directed'
<1>1. CASE OnJogRelease
  BY <1>1 DEF OnJogRelease, LiftBar, NoResult, CommandAfterStopJog, DetourUnless, inputs,
     TypeOK, Directed, Zero
<1>2. ASSUME NEW source \in JogSources, NEW direction \in Directions,
             NEW lease \in 1..MaxLease, OnJogRenew(source, direction, lease)
      PROVE  TypeOK' /\ Directed'
  <2>1. [jog EXCEPT !.left = lease] \in Jog
    BY <1>2, LimitsAssumption DEF OnJogRenew, LiftBar, Renews, TypeOK, Jog
  <2> QED
    BY <1>2, <2>1 DEF OnJogRenew, LiftBar, NoResult, DetourUnless, inputs, TypeOK, Directed, Zero
<1>3. ASSUME NEW source \in JogSources, NEW direction \in Directions,
             NEW lease \in 1..MaxLease, OnJogStart(source, direction, lease)
      PROVE  TypeOK' /\ Directed'
  <2>1. jog' \in Jog \union {None}
    BY <1>3, LimitsAssumption DEF OnJogStart, LiftBar, PreemptMotion, Jog
  <2>2. active # None => active.id \in Ids
    BY DEF TypeOK, Motion
  <2> QED
    BY <1>3, <2>1, <2>2, SettleType
       DEF OnJogStart, LiftBar, PreemptMotion, SettleActive, NoResult, DetourUnless, inputs, TypeOK, Directed, Codes, Zero
<1> QED
  BY <1>1, <1>2, <1>3 DEF JogMessage

\* What the branches of a pass leave of the state.
LEMMA FinishType ==
    ASSUME TypeOK, active # None, NEW code \in Codes, Finish(code), Pass
    PROVE  TypeOK' /\ Directed'
<1>1. active.id \in Ids
  BY DEF TypeOK, Motion
<1>2. /\ completed_ids' \in SUBSET Ids /\ result' \in Result \union {None}
      /\ owed' \in [Ids -> Int]
  BY <1>1, SettleType DEF Finish, TypeOK
<1> QED
  BY <1>2 DEF Finish, DetourUnless, Pass, inputs, TypeOK, Directed, Zero

\* stop_jog keeps the types when the loop calls it.
LEMMA StopJogType ==
    ASSUME TypeOK, Directed, jog # None, NEW block \in BOOLEAN, StopJog(block), Pass
    PROVE  TypeOK' /\ Directed'
<1>1. jog_blocked_key' \in Key \union {None}
  BY DEF StopJog, TypeOK, Jog, Key
<1> QED
  BY <1>1 DEF StopJog, NoResult, DetourUnless, Pass, inputs, TypeOK, Directed, Zero

\* A guarded drive is a known command.
LEMMA DriveType ==
    ASSUME NEW d \in Directions, NEW zone, NEW progress
    PROVE  Drive(d, zone, progress) \in Directions \union {Zero, Spin}
BY DEF Drive

\* A detour starts well-typed, inside the time of its owner.
LEMMA BeginAvoidanceType ==
    ASSUME NEW owner \in {"active", "jog"}, NEW direction \in Directions,
           NEW elapsed \in 0..(LinearTimeout + 1),
           BeginAvoidance(owner, direction, elapsed)
    PROVE  /\ avoidance' \in Detour
           /\ avoidance'.owner = owner
           /\ avoidance'.original_direction = direction
           /\ avoidance'.side_direction \in DetourSides(direction)
<1>1. DetourSides(direction) \subseteq Directions
  BY DEF DetourSides, Directions
<1> QED
  BY <1>1 DEF BeginAvoidance, FreeSides, Detour, Phases

\* A pass of the 20 Hz loop keeps the types.
LEMMA PassType ==
    ASSUME TypeOK, Directed, DetourOwned, OnTimer
    PROVE  TypeOK' /\ Directed'
<1>1. CASE TimerLatched
  BY <1>1 DEF TimerLatched, NoResult, Pass, inputs, TypeOK, Directed, Zero
<1>2. CASE TimerOdomLost
  <2>1. active # None => active.id \in Ids
    BY DEF TypeOK, Motion
  <2>2. /\ completed_ids' \in SUBSET Ids /\ result' \in Result \union {None}
        /\ owed' \in [Ids -> Int]
    BY <1>2, <2>1, SettleType
       DEF TimerOdomLost, StopEverything, SettleActive, NoResult, TypeOK, Codes
  <2>3. command' \in Directions \union {Zero, Spin}
    BY <1>2 DEF TimerOdomLost, CommandAfterStopJog, TypeOK
  <2> QED
    BY <1>2, <2>2, <2>3
       DEF TimerOdomLost, StopEverything, DetourUnless, Pass, inputs, TypeOK, Directed
<1>3. CASE TimerIdle
  BY <1>3 DEF TimerIdle, Tracking, NoResult, Pass, inputs, TypeOK, Directed
<1>4. CASE RunJog
  <2> DEFINE zone == scan.view.clear[jog.direction]
             looked == Observed(jog, zone)
  <2>1. jog \in Jog /\ jog # None /\ zone \in Zones
    BY <1>4 DEF RunJog, TypeOK, Jog, View
  <2>2. looked \in Jog /\ [looked EXCEPT !.detour_attempted = TRUE] \in Jog
    BY <2>1, ObservedJog DEF Jog
  <2> HIDE DEF zone, looked
  <2>3. CASE \E block \in BOOLEAN : StopJog(block)
    BY <1>4, <2>1, <2>3, StopJogType DEF RunJog, Tracking
  <2>4. CASE /\ jog' = looked /\ UNCHANGED active
             /\ Publish(Drive(jog.direction, zone, "short"))
    BY <1>4, <2>1, <2>2, <2>4, DriveType
       DEF RunJog, Tracking, Publish, NoResult, Pass, inputs, TypeOK, Directed, Jog
  <2>5. CASE /\ jog' = [looked EXCEPT !.detour_attempted = TRUE] /\ UNCHANGED active
             /\ BeginAvoidance("jog", jog.direction, 0)
    <3>1. avoidance' \in Detour
      BY <2>1, <2>5, BeginAvoidanceType, LimitsAssumption DEF Jog
    <3> QED
      BY <1>4, <2>2, <2>5, <3>1
         DEF RunJog, Tracking, BeginAvoidance, NoResult, Pass, inputs, TypeOK, Directed, Zero
  <2> QED
    BY <1>4, <2>3, <2>4, <2>5 DEF RunJog, zone, looked
<1>5. CASE RunRotation
  <2>1. CASE \E code \in Codes : Finish(code)
    BY <1>5, <2>1, FinishType DEF RunRotation, Tracking
  <2>2. CASE Publish(Spin) /\ UNCHANGED <<active, jog>>
    BY <1>5, <2>2
       DEF RunRotation, Tracking, Publish, NoResult, Pass, inputs, TypeOK, Directed
  <2> QED
    BY <1>5, <2>1, <2>2 DEF RunRotation, Codes
<1>6. CASE RunTranslation
  <2> DEFINE zone == scan.view.clear[active.direction]
             looked == Observed(active, zone)
  <2>1. /\ active \in Motion /\ active # None /\ active.kind # "rotate"
        /\ active.direction \in Directions /\ zone \in Zones
    BY <1>6 DEF RunTranslation, TypeOK, Directed, View
  <2>2. /\ looked \in Motion /\ [looked EXCEPT !.detour_attempted = TRUE] \in Motion
        /\ looked.direction = active.direction
        /\ [looked EXCEPT !.detour_attempted = TRUE].direction = active.direction
    BY <2>1, ObservedMotion DEF Motion
  <2> HIDE DEF zone, looked
  <2>3. CASE \E code \in Codes : Finish(code)
    BY <1>6, <2>1, <2>3, FinishType DEF RunTranslation, Tracking
  <2>4. CASE \E progress \in Progress :
             /\ active' = looked /\ UNCHANGED jog
             /\ Publish(Drive(active.direction, zone, progress))
    BY <1>6, <2>1, <2>2, <2>4, DriveType
       DEF RunTranslation, Tracking, Publish, NoResult, Pass, inputs, TypeOK, Directed
  <2>5. CASE /\ active' = [looked EXCEPT !.detour_attempted = TRUE] /\ UNCHANGED jog
             /\ BeginAvoidance("active", active.direction, active.elapsed)
    <3>1. avoidance' \in Detour
      BY <2>1, <2>5, BeginAvoidanceType DEF Motion
    <3> QED
      BY <1>6, <2>1, <2>2, <2>5, <3>1
         DEF RunTranslation, Tracking, BeginAvoidance, NoResult, Pass, inputs, TypeOK,
             Directed, Zero
  <2> QED
    BY <1>6, <2>3, <2>4, <2>5 DEF RunTranslation, zone, looked, Codes
<1>7. CASE RunAvoidance
  <2> DEFINE direction == PhaseDirection(avoidance)
             zone == scan.view.clear[direction]
  <2>1. avoidance \in Detour /\ avoidance # None
    BY <1>7 DEF RunAvoidance, TypeOK
  <2>2. direction \in Directions
    BY <2>1, PhaseDirectionType
  <2>3. (avoidance.owner = "active" => active # None) /\ (avoidance.owner = "jog" => jog # None)
    BY <2>1 DEF DetourOwned, Owner
  <2>4. avoidance.owner \in {"active", "jog"}
    BY <2>1 DEF Detour
  <2> HIDE DEF direction, zone
  <2>5. CASE avoidance.owner = "jog" /\ StopJog(FALSE)
    BY <1>7, <2>3, <2>5, StopJogType DEF RunAvoidance, Tracking
  <2>6. CASE \E code \in Codes : AbortAvoidance(code)
    BY <1>7, <2>3, <2>4, <2>6, StopJogType, FinishType
       DEF AbortAvoidance, RunAvoidance, Tracking
  <2>7. CASE \E progress \in Progress :
                Publish(Drive(direction, zone, progress)) /\ UNCHANGED <<active, jog>>
    BY <1>7, <2>2, <2>7, DriveType
       DEF RunAvoidance, Tracking, Publish, NoResult, Pass, inputs, TypeOK, Directed
  <2>8. CASE NextPhase
    <3>1. avoidance' \in Detour
      BY <2>1, <2>8 DEF NextPhase, Detour, Phases
    <3> QED
      BY <1>7, <2>8, <3>1
         DEF RunAvoidance, Tracking, NextPhase, NoResult, Pass, inputs, TypeOK, Directed, Zero
  <2>9. CASE \E overall \in Progress : EndAvoidance(overall)
    <3>1. CASE avoidance.owner = "active" /\ Finish("COMPLETED")
      BY <1>7, <2>3, <3>1, FinishType DEF RunAvoidance, Tracking, Codes
    <3>2. CASE /\ avoidance' = None /\ command' = Zero /\ NoResult
               /\ UNCHANGED <<active, jog, jog_blocked_key>>
      BY <1>7, <3>2
         DEF RunAvoidance, Tracking, NoResult, Pass, inputs, TypeOK, Directed, Zero
    <3> QED
      BY <2>9, <3>1, <3>2 DEF EndAvoidance
  <2> QED
    BY <1>7, <2>5, <2>6, <2>7, <2>8, <2>9 DEF RunAvoidance, direction, zone, Codes
<1> QED
  BY <1>1, <1>2, <1>3, <1>4, <1>5, <1>6, <1>7 DEF OnTimer

\* The clock only ages what has an age.
LEMMA TickType ==
    ASSUME TypeOK, Directed, Tick
    PROVE  TypeOK' /\ Directed'
<1>1. scan' \in [age : 0..(LidarTimeout + 1), error : BOOLEAN, view : View]
  BY LimitsAssumption, OlderType DEF Tick, TypeOK
<1>2. odom_age' \in 0..(OdomLimit + 1)
  BY LimitsAssumption, OlderType DEF Tick, TypeOK
<1>3. active' \in Motion \union {None} /\ Directed'
  BY LimitsAssumption, NoneAssumption, OlderType DEF Tick, TypeOK, Motion, Directed
<1>4. avoidance' \in Detour \union {None}
  BY LimitsAssumption, OlderType DEF Tick, TypeOK, Detour
<1>5. jog' \in Jog \union {None}
  BY LimitsAssumption DEF Tick, TypeOK, Jog
<1> QED
  BY <1>1, <1>2, <1>3, <1>4, <1>5 DEF Tick, NoResult, TypeOK

-----------------------------------------------------------------------------
(* The inductive invariant. *)

Modes == OneMover /\ DetourOwned /\ LatchedAtRest /\ CommandFollowsMode /\ BarOnlyAtRest

IInv == TypeOK /\ Directed /\ Modes /\ AnsweredOnce

\* Nothing running and a zero command satisfy every conjunct of Modes.
AtRest == active = None /\ jog = None /\ avoidance = None /\ command = Zero

\* With no motion, jog or detour and a zero command, the modes are consistent.
LEMMA AtRestModes == AtRest' => Modes'
BY DEF AtRest, Modes, OneMover, DetourOwned, LatchedAtRest, CommandFollowsMode, MoveOfMode,
       BarOnlyAtRest

\* The owner of a detour is the only mover there is.
LEMMA NoForeignDetour ==
    ASSUME IInv
    PROVE  /\ jog = None => DetourUnless({"active"}) = None
           /\ active = None => DetourUnless({"jog"}) = None
           /\ DetourUnless({"active", "jog"}) = None
           /\ active = None /\ jog = None => avoidance = None
<1>1. avoidance # None => avoidance.owner \in {"active", "jog"}
  BY DEF IInv, TypeOK, Detour
<1> QED
  BY <1>1 DEF IInv, Modes, DetourOwned, Owner, DetourUnless

\* finish leaves the robot at rest.
LEMMA FinishModes ==
    ASSUME IInv, active # None, NEW code, Finish(code)
    PROVE  Modes'
<1>1. AtRest'
  BY NoForeignDetour DEF IInv, Modes, OneMover, Finish, AtRest
<1> QED
  BY <1>1, AtRestModes

\* stop_jog leaves the robot at rest.
LEMMA StopJogModes ==
    ASSUME IInv, jog # None, NEW block, StopJog(block)
    PROVE  Modes'
<1>1. AtRest'
  BY NoForeignDetour DEF IInv, Modes, OneMover, StopJog, AtRest
<1> QED
  BY <1>1, AtRestModes

\* A stop or a cancel leaves the robot at rest.
LEMMA StopEverythingModes ==
    ASSUME IInv, NEW code, StopEverything(code), command' = Zero
    PROVE  Modes'
<1>1. AtRest'
  BY NoForeignDetour DEF StopEverything, AtRest
<1> QED
  BY <1>1, AtRestModes

\* A jog or a motion that stops leaves the topic at zero.
LEMMA CommandAtRest ==
    ASSUME IInv, active = None
    PROVE  CommandAfterStopJog = Zero
BY NoForeignDetour
   DEF IInv, Modes, CommandAfterStopJog, CommandFollowsMode, MoveOfMode

\* The callbacks keep the modes consistent.
LEMMA CallbackModes ==
    ASSUME IInv,
           \/ OnOdom
           \/ \E view \in Views, error \in BOOLEAN : OnScan(view, error)
           \/ \E latch \in BOOLEAN : OnSafety(latch)
           \/ OnCancel
    PROVE  Modes'
<1>1. CASE OnOdom
  BY <1>1 DEF OnOdom, IInv, Modes, OneMover, DetourOwned, Owner, LatchedAtRest,
     CommandFollowsMode, MoveOfMode, BarOnlyAtRest
<1>2. ASSUME NEW view \in Views, NEW error \in BOOLEAN, OnScan(view, error)
      PROVE  Modes'
  <2>1. /\ active = None => active' = None
        /\ active # None => /\ active' # None
                            /\ \A f \in {"kind", "source", "direction", "detour_attempted"} :
                                  active'[f] = active[f]
    BY <1>2, NoneAssumption DEF OnScan, IInv, TypeOK, Motion
  <2>2. /\ jog = None => jog' = None
        /\ jog # None => /\ jog' # None
                         /\ \A f \in {"direction", "detour_attempted"} : jog'[f] = jog[f]
    BY <1>2, NoneAssumption DEF OnScan, IInv, TypeOK, Jog
  <2> QED
    BY <1>2, <2>1, <2>2
       DEF OnScan, IInv, Modes, OneMover, DetourOwned, Owner, LatchedAtRest,
           CommandFollowsMode, MoveOfMode, BarOnlyAtRest
<1>3. ASSUME NEW latch \in BOOLEAN, OnSafety(latch)
      PROVE  Modes'
  <2>1. CASE latch
    BY <1>3, <2>1, StopEverythingModes DEF OnSafety
  <2>2. CASE ~latch
    BY <1>3, <2>2 DEF OnSafety, IInv, Modes, OneMover, DetourOwned, Owner, LatchedAtRest,
       CommandFollowsMode, MoveOfMode, BarOnlyAtRest
  <2> QED
    BY <2>1, <2>2
<1>4. CASE OnCancel
  BY <1>4, StopEverythingModes DEF OnCancel
<1> QED
  BY <1>1, <1>2, <1>3, <1>4

\* A request keeps the modes consistent: it starts a motion only at rest.
LEMMA RequestModes ==
    ASSUME IInv, NEW r \in Requests, OnRequestRefused(r) \/ OnRequestAccepted(r)
    PROVE  Modes'
<1>1. CASE OnRequestRefused(r)
  BY <1>1 DEF OnRequestRefused, IInv, Modes, OneMover, DetourOwned, Owner, LatchedAtRest,
     CommandFollowsMode, MoveOfMode, BarOnlyAtRest
<1>2. CASE OnRequestAccepted(r)
  <2>1. active = None /\ ~safety_latched /\ UNCHANGED safety_latched
    BY <1>2 DEF OnRequestAccepted, Refusal, NoRefusal
  <2>2. jog' = None /\ avoidance' = None /\ command' = Zero
    BY <1>2, <2>1, NoForeignDetour, CommandAtRest DEF OnRequestAccepted
  <2> QED
    BY <2>1, <2>2 DEF Modes, OneMover, DetourOwned, LatchedAtRest, CommandFollowsMode,
       BarOnlyAtRest
<1> QED
  BY <1>1, <1>2

\* A jog message keeps the modes consistent, a motion that it preempts included.
LEMMA JogMessageModes ==
    ASSUME IInv, JogMessage
    PROVE  Modes'
<1>1. CASE OnJogRelease
  <2>1. CASE active = None
    <3>1. AtRest'
      BY <1>1, <2>1, NoForeignDetour, CommandAtRest DEF OnJogRelease, AtRest
    <3> QED
      BY <3>1, AtRestModes
  <2>2. CASE active # None
    <3>1. jog = None /\ DetourUnless({"jog"}) = avoidance
      BY <2>2 DEF IInv, Modes, OneMover, DetourOwned, Owner, DetourUnless
    <3> QED
      BY <1>1, <3>1 DEF OnJogRelease, LiftBar, CommandAfterStopJog, IInv, Modes, OneMover,
         DetourOwned, Owner, LatchedAtRest, CommandFollowsMode, MoveOfMode,
         BarOnlyAtRest, inputs
  <2> QED
    BY <2>1, <2>2
<1>2. ASSUME NEW source \in JogSources, NEW direction \in Directions,
             NEW lease \in 1..MaxLease, OnJogRenew(source, direction, lease)
      PROVE  Modes'
  <2>1. jog # None /\ active = None /\ ~safety_latched
    BY <1>2 DEF OnJogRenew, LiftBar, Renews, Heard, IInv, Modes, OneMover
  <2>2. CASE Online
    <3>1. /\ jog' # None
          /\ \A f \in {"direction", "detour_attempted"} : jog'[f] = jog[f]
      BY <1>2, <2>1, <2>2, NoneAssumption, LimitsAssumption DEF OnJogRenew, LiftBar, IInv, TypeOK, Jog
    <3> QED
      BY <1>2, <2>1, <2>2, <3>1
         DEF OnJogRenew, LiftBar, IInv, Modes, OneMover, DetourOwned, Owner, LatchedAtRest,
             CommandFollowsMode, MoveOfMode, BarOnlyAtRest
  <2>3. CASE ~Online
    <3>1. AtRest'
      BY <1>2, <2>1, <2>3, NoForeignDetour DEF OnJogRenew, LiftBar, AtRest
    <3> QED
      BY <3>1, AtRestModes
  <2> QED
    BY <2>2, <2>3
<1>3. ASSUME NEW source \in JogSources, NEW direction \in Directions,
             NEW lease \in 1..MaxLease, OnJogStart(source, direction, lease)
      PROVE  Modes'
  <2>1. avoidance' = None
    BY <1>3 DEF OnJogStart, LiftBar, PreemptMotion, DetourUnless, IInv, TypeOK, Detour, Modes, DetourOwned, Owner
  <2> QED
    BY <1>3, <2>1 DEF OnJogStart, LiftBar, PreemptMotion, Heard, Modes, OneMover, DetourOwned, LatchedAtRest,
       CommandFollowsMode, BarOnlyAtRest
<1> QED
  BY <1>1, <1>2, <1>3 DEF JogMessage

\* A guarded drive is zero or the direction asked for.
LEMMA DriveFollows ==
    ASSUME NEW d, NEW zone, NEW progress
    PROVE  Drive(d, zone, progress) \in {Zero, d}
BY DEF Drive

\* A pass keeps the modes consistent and commands what the mode asks for.
LEMMA PassModes ==
    ASSUME IInv, OnTimer
    PROVE  Modes'
<1> USE DEF Tracking, Pass
<1>1. CASE TimerLatched
  <2>1. AtRest'
    BY <1>1 DEF TimerLatched, IInv, Modes, LatchedAtRest, AtRest
  <2> QED
    BY <2>1, AtRestModes
<1>2. CASE TimerOdomLost
  <2>1. command' = Zero
    BY <1>2, CommandAtRest DEF TimerOdomLost
  <2> QED
    BY <1>2, <2>1, StopEverythingModes DEF TimerOdomLost
<1>3. CASE TimerIdle
  <2>1. AtRest'
    BY <1>3 DEF TimerIdle, IInv, Modes, CommandFollowsMode, MoveOfMode, AtRest
  <2> QED
    BY <2>1, AtRestModes
<1>4. CASE RunJog
  <2> DEFINE zone == scan.view.clear[jog.direction]
             looked == Observed(jog, zone)
  <2>1. jog \in Jog /\ jog # None /\ active = None /\ zone \in Zones /\ avoidance = None
    BY <1>4 DEF RunJog, IInv, TypeOK, Modes, OneMover, Jog, View
  <2>2. looked \in Jog /\ looked.direction = jog.direction
    BY <2>1, ObservedJog
  <2>3. jog_blocked_key = None /\ ~safety_latched
    BY <1>4, <2>1 DEF RunJog, IInv, Modes, BarOnlyAtRest
  <2> HIDE DEF zone, looked
  <2>4. CASE \E block \in BOOLEAN : StopJog(block)
    BY <2>1, <2>4, StopJogModes
  <2>5. CASE /\ jog' = looked /\ UNCHANGED active
             /\ Publish(Drive(jog.direction, zone, "short"))
    BY <1>4, <2>1, <2>2, <2>3, <2>5, DriveFollows, NoneAssumption
       DEF RunJog, Publish, Modes, OneMover, DetourOwned, LatchedAtRest,
           CommandFollowsMode, MoveOfMode, BarOnlyAtRest
  <2>6. CASE /\ jog' = [looked EXCEPT !.detour_attempted = TRUE] /\ UNCHANGED active
             /\ BeginAvoidance("jog", jog.direction, 0)
    <3>1. /\ avoidance' \in Detour /\ avoidance'.owner = "jog"
          /\ avoidance'.original_direction = jog.direction
          /\ avoidance'.side_direction \in DetourSides(jog.direction)
      BY <2>1, <2>6, BeginAvoidanceType, LimitsAssumption DEF Jog
    <3>2. jog' \in Jog /\ jog'.direction = jog.direction /\ jog'.detour_attempted
      BY <2>2, <2>6 DEF Jog
    <3> QED
      BY <1>4, <2>1, <2>3, <2>6, <3>1, <3>2, NoneAssumption
         DEF RunJog, BeginAvoidance, Modes, OneMover, DetourOwned, Owner, LatchedAtRest,
             CommandFollowsMode, BarOnlyAtRest
  <2> QED
    BY <1>4, <2>4, <2>5, <2>6 DEF RunJog, zone, looked
<1>5. CASE RunRotation
  <2>1. CASE \E code \in Codes : Finish(code)
    BY <1>5, <2>1, FinishModes DEF RunRotation
  <2>2. CASE Publish(Spin) /\ UNCHANGED <<active, jog>>
    BY <1>5, <2>2
       DEF RunRotation, Publish, IInv, Modes, OneMover, DetourOwned, LatchedAtRest,
           CommandFollowsMode, MoveOfMode, BarOnlyAtRest
  <2> QED
    BY <1>5, <2>1, <2>2 DEF RunRotation, Codes
<1>6. CASE RunTranslation
  <2> DEFINE zone == scan.view.clear[active.direction]
             looked == Observed(active, zone)
  <2>1. /\ active \in Motion /\ active # None /\ jog = None /\ avoidance = None
        /\ active.kind # "rotate" /\ active.direction \in Directions /\ zone \in Zones
    BY <1>6 DEF RunTranslation, IInv, TypeOK, Directed, View
  <2>2. /\ looked \in Motion /\ looked.direction = active.direction
        /\ looked.kind = active.kind /\ looked.source = active.source
    BY <2>1, ObservedMotion
  <2>3. ~safety_latched
    BY <1>6 DEF RunTranslation
  <2> HIDE DEF zone, looked
  <2>4. CASE \E code \in Codes : Finish(code)
    BY <2>1, <2>4, FinishModes
  <2>5. CASE \E progress \in Progress :
             /\ active' = looked /\ UNCHANGED jog
             /\ Publish(Drive(active.direction, zone, progress))
    BY <1>6, <2>1, <2>2, <2>3, <2>5, DriveFollows, NoneAssumption
       DEF RunTranslation, Publish, Modes, OneMover, DetourOwned, LatchedAtRest,
           CommandFollowsMode, MoveOfMode, BarOnlyAtRest
  <2>6. CASE /\ active.source # "bright_light"
             /\ active' = [looked EXCEPT !.detour_attempted = TRUE] /\ UNCHANGED jog
             /\ BeginAvoidance("active", active.direction, active.elapsed)
    <3>1. /\ avoidance' \in Detour /\ avoidance'.owner = "active"
          /\ avoidance'.original_direction = active.direction
          /\ avoidance'.side_direction \in DetourSides(active.direction)
      BY <2>1, <2>6, BeginAvoidanceType DEF Motion
    <3>2. /\ active' \in Motion /\ active'.direction = active.direction
          /\ active'.detour_attempted /\ active'.source = "voice"
      BY <2>1, <2>2, <2>6 DEF Motion, Sources
    <3> QED
      BY <1>6, <2>1, <2>3, <2>6, <3>1, <3>2, NoneAssumption
         DEF RunTranslation, BeginAvoidance, Modes, OneMover, DetourOwned, Owner,
             LatchedAtRest, CommandFollowsMode, BarOnlyAtRest
  <2> QED
    BY <1>6, <2>4, <2>5, <2>6 DEF RunTranslation, zone, looked, Codes
<1>7. CASE RunAvoidance
  <2> DEFINE direction == PhaseDirection(avoidance)
             zone == scan.view.clear[direction]
  <2>1. avoidance \in Detour /\ avoidance # None /\ ~safety_latched
    BY <1>7 DEF RunAvoidance, IInv, TypeOK
  <2>2. (avoidance.owner = "active" => active # None) /\ (avoidance.owner = "jog" => jog # None)
    BY <2>1 DEF IInv, Modes, DetourOwned, Owner
  <2>3. avoidance.owner \in {"active", "jog"}
    BY <2>1 DEF Detour
  <2> HIDE DEF zone
  <2>4. CASE avoidance.owner = "jog" /\ StopJog(FALSE)
    BY <2>2, <2>4, StopJogModes
  <2>5. CASE \E code \in Codes : AbortAvoidance(code)
    BY <2>2, <2>3, <2>5, StopJogModes, FinishModes DEF AbortAvoidance
  <2>6. CASE \E progress \in Progress :
                Publish(Drive(direction, zone, progress)) /\ UNCHANGED <<active, jog>>
    BY <1>7, <2>1, <2>6, DriveFollows
       DEF RunAvoidance, Publish, IInv, Modes, OneMover, DetourOwned, Owner, LatchedAtRest,
           CommandFollowsMode, MoveOfMode, BarOnlyAtRest
  <2>7. CASE NextPhase
    <3>1. /\ avoidance' \in Detour /\ avoidance'.owner = avoidance.owner
          /\ avoidance'.original_direction = avoidance.original_direction
          /\ avoidance'.side_direction = avoidance.side_direction
      BY <2>1, <2>7 DEF NextPhase, Detour, Phases
    <3> QED
      BY <1>7, <2>1, <2>7, <3>1
         DEF RunAvoidance, NextPhase, IInv, Modes, OneMover, DetourOwned, Owner,
             LatchedAtRest, CommandFollowsMode, BarOnlyAtRest
  <2>8. CASE \E overall \in Progress : EndAvoidance(overall)
    <3>1. CASE avoidance.owner = "active" /\ Finish("COMPLETED")
      BY <2>2, <3>1, FinishModes
    <3>2. CASE /\ avoidance' = None /\ command' = Zero /\ NoResult
               /\ UNCHANGED <<active, jog, jog_blocked_key>>
      BY <1>7, <2>1, <3>2
         DEF RunAvoidance, IInv, Modes, OneMover, DetourOwned, LatchedAtRest,
             CommandFollowsMode, BarOnlyAtRest
    <3> QED
      BY <2>8, <3>1, <3>2 DEF EndAvoidance
  <2> QED
    BY <1>7, <2>4, <2>5, <2>6, <2>7, <2>8 DEF RunAvoidance, zone, Codes
<1> QED
  BY <1>1, <1>2, <1>3, <1>4, <1>5, <1>6, <1>7 DEF OnTimer

\* The clock changes no mode.
LEMMA TickModes ==
    ASSUME IInv, Tick
    PROVE  Modes'
<1>1. /\ active = None => active' = None
      /\ active # None => /\ active' # None
                          /\ \A f \in {"kind", "source", "direction", "detour_attempted"} :
                                active'[f] = active[f]
  BY LimitsAssumption, NoneAssumption, OlderType DEF Tick, IInv, TypeOK, Motion
<1>2. /\ jog = None => jog' = None
      /\ jog # None => /\ jog' # None
                       /\ \A f \in {"direction", "detour_attempted"} : jog'[f] = jog[f]
  BY LimitsAssumption, NoneAssumption DEF Tick, IInv, TypeOK, Jog
<1>3. /\ avoidance = None => avoidance' = None
      /\ avoidance # None =>
            /\ avoidance' # None
            /\ \A f \in {"owner", "original_direction", "side_direction", "phase"} :
                  avoidance'[f] = avoidance[f]
  BY LimitsAssumption, NoneAssumption, OlderType DEF Tick, IInv, TypeOK, Detour
<1> QED
  BY <1>1, <1>2, <1>3
     DEF Tick, IInv, Modes, OneMover, DetourOwned, Owner, LatchedAtRest, CommandFollowsMode,
         MoveOfMode, PhaseDirection, BarOnlyAtRest

-----------------------------------------------------------------------------
(* The balance of requests and results. *)

\* The motion, if any, is still the same one.
SameMotion ==
    /\ active = None => active' = None
    /\ active # None => active' # None /\ active'.id = active.id

\* A step that answers nothing and keeps the motion keeps the balance of answers.
LEMMA SameMotionBalance ==
    ASSUME AnsweredOnce, SameMotion, UNCHANGED owed
    PROVE  AnsweredOnce'
BY DEF AnsweredOnce, SameMotion

\* Ending the motion with a result keeps the balance of answers.
LEMMA EndedMotionBalance ==
    ASSUME TypeOK, AnsweredOnce, NEW code, SettleActive(code), active' = None
    PROVE  AnsweredOnce'
<1>1. CASE active = None
  BY <1>1 DEF SettleActive, NoResult, AnsweredOnce
<1>2. CASE active # None
  <2>1. active.id \in Ids /\ owed' = [owed EXCEPT ![active.id] = @ - 1]
    BY <1>2 DEF SettleActive, NoResult, Settle, TypeOK, Motion
  <2> QED
    BY <1>2, <2>1 DEF AnsweredOnce, TypeOK
<1> QED
  BY <1>1, <1>2

\* finish answers the motion it ends.
LEMMA FinishBalance ==
    ASSUME TypeOK, AnsweredOnce, active # None, NEW code, Finish(code)
    PROVE  AnsweredOnce'
BY EndedMotionBalance DEF Finish, SettleActive

\* stop_jog answers nothing and ends no motion.
LEMMA StopJogBalance ==
    ASSUME AnsweredOnce, NEW block, StopJog(block)
    PROVE  AnsweredOnce'
BY SameMotionBalance DEF StopJog, NoResult, SameMotion

\* The callbacks answer a motion exactly when they end it.
LEMMA CallbackBalance ==
    ASSUME TypeOK, AnsweredOnce,
           \/ OnOdom
           \/ \E view \in Views, error \in BOOLEAN : OnScan(view, error)
           \/ \E latch \in BOOLEAN : OnSafety(latch)
           \/ OnCancel
    PROVE  AnsweredOnce'
<1>1. CASE OnOdom
  BY <1>1, SameMotionBalance DEF OnOdom, NoResult, SameMotion
<1>2. ASSUME NEW view \in Views, NEW error \in BOOLEAN, OnScan(view, error)
      PROVE  AnsweredOnce'
  <2>1. SameMotion
    BY <1>2, NoneAssumption DEF OnScan, SameMotion, TypeOK, Motion
  <2> QED
    BY <1>2, <2>1, SameMotionBalance DEF OnScan, NoResult
<1>3. ASSUME NEW latch \in BOOLEAN, OnSafety(latch)
      PROVE  AnsweredOnce'
  BY <1>3, SameMotionBalance, EndedMotionBalance
     DEF OnSafety, StopEverything, NoResult, SameMotion
<1>4. CASE OnCancel
  BY <1>4, EndedMotionBalance DEF OnCancel, StopEverything
<1> QED
  BY <1>1, <1>2, <1>3, <1>4

\* A request owes an answer once it is accepted and gets it at once if refused.
LEMMA RequestBalance ==
    ASSUME TypeOK, AnsweredOnce, NEW r \in Requests,
           OnRequestRefused(r) \/ OnRequestAccepted(r)
    PROVE  AnsweredOnce'
<1>1. CASE OnRequestRefused(r)
  BY <1>1, SameMotionBalance DEF OnRequestRefused, SameMotion
<1>2. CASE OnRequestAccepted(r)
  <2>1. /\ active = None /\ active' # None /\ active'.id = r.id
        /\ owed' = [owed EXCEPT ![r.id] = @ + 1]
    <3>1. active = None /\ r \in Request /\ r.kind \in Kinds
      BY <1>2, RequestsAssumption DEF OnRequestAccepted, Refusal, NoRefusal
    <3>2. active' \in Motion
      BY <1>2, <3>1, LimitsAssumption DEF OnRequestAccepted, Request, Motion
    <3> QED
      BY <1>2, <3>1, <3>2, NoneAssumption DEF OnRequestAccepted
  <2> QED
    BY <2>1 DEF AnsweredOnce, TypeOK
<1> QED
  BY <1>1, <1>2

\* A jog message answers a motion only when it preempts it.
LEMMA JogMessageBalance ==
    ASSUME TypeOK, AnsweredOnce, JogMessage
    PROVE  AnsweredOnce'
BY SameMotionBalance, EndedMotionBalance
   DEF JogMessage, OnJogRelease, OnJogRenew, OnJogStart, LiftBar, PreemptMotion, NoResult, SameMotion

\* A pass answers a motion exactly when it ends it.
LEMMA PassBalance ==
    ASSUME IInv, OnTimer
    PROVE  AnsweredOnce'
<1>0. TypeOK /\ AnsweredOnce
  BY DEF IInv
<1>1. CASE TimerLatched \/ TimerIdle
  BY <1>0, <1>1, SameMotionBalance DEF TimerLatched, TimerIdle, NoResult, SameMotion
<1>2. CASE TimerOdomLost
  BY <1>0, <1>2, EndedMotionBalance DEF TimerOdomLost, StopEverything
<1>3. CASE RunJog
  BY <1>0, <1>3, SameMotionBalance, StopJogBalance
     DEF RunJog, Publish, BeginAvoidance, NoResult, SameMotion
<1>4. CASE RunRotation
  BY <1>0, <1>4, SameMotionBalance, FinishBalance DEF RunRotation, Publish, NoResult, SameMotion
<1>5. CASE RunTranslation
  <2> DEFINE zone == scan.view.clear[active.direction]
             looked == Observed(active, zone)
  <2>1. active \in Motion /\ active # None /\ zone \in Zones
    BY <1>5 DEF RunTranslation, IInv, TypeOK, Directed, View
  <2>2. /\ looked \in Motion /\ looked.id = active.id
        /\ [looked EXCEPT !.detour_attempted = TRUE] \in Motion
        /\ [looked EXCEPT !.detour_attempted = TRUE].id = active.id
    BY <2>1, ObservedMotion DEF Motion
  <2> HIDE DEF zone, looked
  <2>3. CASE \E code \in Codes : Finish(code)
    BY <1>0, <2>1, <2>3, FinishBalance
  <2>4. CASE /\ active' \in {looked, [looked EXCEPT !.detour_attempted = TRUE]}
             /\ NoResult
    BY <1>0, <2>1, <2>2, <2>4, NoneAssumption, SameMotionBalance DEF NoResult, SameMotion
  <2> QED
    BY <1>5, <2>3, <2>4 DEF RunTranslation, Publish, BeginAvoidance, zone, looked, Codes
<1>6. CASE RunAvoidance
  <2>1. avoidance.owner \in {"active", "jog"} /\ (avoidance.owner = "active" => active # None)
    BY <1>6 DEF RunAvoidance, IInv, TypeOK, Detour, Modes, DetourOwned, Owner
  <2>2. CASE \E block \in BOOLEAN : StopJog(block)
    BY <1>0, <2>2, StopJogBalance
  <2>3. CASE avoidance.owner = "active" /\ \E code \in Codes : Finish(code)
    BY <1>0, <2>1, <2>3, FinishBalance
  <2>4. CASE NoResult /\ UNCHANGED active
    BY <1>0, <2>4, SameMotionBalance DEF NoResult, SameMotion
  <2> QED
    BY <1>6, <2>1, <2>2, <2>3, <2>4
       DEF RunAvoidance, AbortAvoidance, Publish, NextPhase, EndAvoidance, Codes
<1> QED
  BY <1>1, <1>2, <1>3, <1>4, <1>5, <1>6 DEF OnTimer

\* The clock answers nothing.
LEMMA TickBalance ==
    ASSUME TypeOK, AnsweredOnce, Tick
    PROVE  AnsweredOnce'
<1>1. SameMotion
  BY LimitsAssumption, NoneAssumption, OlderType DEF Tick, SameMotion, TypeOK, Motion
<1> QED
  BY <1>1, SameMotionBalance DEF Tick, NoResult

-----------------------------------------------------------------------------
(* The theorems. *)

\* The invariant holds at the start.
LEMMA InitIInv == Init => IInv
BY InitType DEF Init, IInv, Modes, OneMover, DetourOwned, LatchedAtRest, CommandFollowsMode,
   BarOnlyAtRest, AnsweredOnce

\* Every step keeps the invariant.
LEMMA StepIInv == IInv /\ [Next]_vars => IInv'
<1> SUFFICES ASSUME IInv, [Next]_vars PROVE IInv'
  OBVIOUS
<1>0. TypeOK /\ Directed /\ DetourOwned /\ AnsweredOnce
  BY DEF IInv, Modes
<1>1. CASE \/ OnOdom
           \/ \E view \in Views, error \in BOOLEAN : OnScan(view, error)
           \/ \E latch \in BOOLEAN : OnSafety(latch)
           \/ OnCancel
  BY <1>0, <1>1, CallbackType, CallbackModes, CallbackBalance DEF IInv
<1>2. CASE \E r \in Requests : OnRequestRefused(r) \/ OnRequestAccepted(r)
  BY <1>0, <1>2, RequestType, RequestModes, RequestBalance DEF IInv
<1>3. CASE JogMessage
  BY <1>0, <1>3, JogMessageType, JogMessageModes, JogMessageBalance DEF IInv
<1>4. CASE OnTimer
  BY <1>0, <1>4, PassType, PassModes, PassBalance DEF IInv
<1>5. CASE Tick
  BY <1>0, <1>5, TickType, TickModes, TickBalance DEF IInv
<1>6. CASE UNCHANGED vars
  BY <1>6 DEF vars, IInv, TypeOK, Directed, Modes, OneMover, DetourOwned, Owner,
     LatchedAtRest, CommandFollowsMode, MoveOfMode, BarOnlyAtRest, AnsweredOnce
<1> QED
  BY <1>1, <1>2, <1>3, <1>4, <1>5, <1>6 DEF Next, OtherStep, OnDisconnected

\* The invariant the other theorems rest on.
THEOREM Invariance == Spec => []IInv
BY InitIInv, StepIInv, PTL DEF Spec

\* The executor's state stays well typed.
THEOREM Typing == Spec => []TypeOK
<1>1. IInv => TypeOK
  BY DEF IInv
<1> QED
  BY <1>1, Invariance, PTL

\* A key and a motion never drive together, a stopped robot has nothing to resume,
\* and no bar is left beside a jog.
THEOREM ModesHold == Spec => []ModesAgree
<1>1. IInv => ModesAgree
  BY DEF IInv, Modes, ModesAgree
<1> QED
  BY <1>1, Invariance, PTL

\* A detour belongs to what runs, and is its first.
THEOREM DetoursHold == Spec => []DetourOwned
<1>1. IInv => DetourOwned
  BY DEF IInv, Modes
<1> QED
  BY <1>1, Invariance, PTL

\* The commanded movement is that of what runs.
THEOREM CommandsHold == Spec => []CommandFollowsMode
<1>1. IInv => CommandFollowsMode
  BY DEF IInv, Modes
<1> QED
  BY <1>1, Invariance, PTL

\* Every request is answered exactly once.
THEOREM Answers == Spec => []AnsweredOnce
<1>1. IInv => AnsweredOnce
  BY DEF IInv
<1> QED
  BY <1>1, Invariance, PTL

-----------------------------------------------------------------------------
(* The action properties. *)

\* Only on_timer completes a pass of the loop.
LEMMA OnlyPassesEnd == Next /\ PassEnds => OnTimer
BY DEF Next, OtherStep, PassEnds, OnOdom, OnScan, OnSafety, OnCancel, OnDisconnected,
       OnRequestRefused, OnRequestAccepted, JogMessage, OnJogRelease, OnJogRenew,
       OnJogStart, Tick

Guarded ==
    /\ ~safety_latched /\ OdomFresh /\ Online
    /\ command' \in Directions => scan.view.clear[command'] > Stop
    /\ command' = Spin => ~scan.view.spin_blocked

\* A guarded drive moves only where the view is clear enough.
LEMMA DriveGuarded ==
    ASSUME NEW d \in Directions, NEW progress, ~safety_latched, OdomFresh, Online,
           Publish(Drive(d, scan.view.clear[d], progress)), command' # Zero, TypeOK
    PROVE  Guarded
<1>1. command' = d /\ ~(scan.view.clear[d] <= Stop)
  BY DEF Publish, Drive
<1>2. scan.view.clear[d] \in Zones
  BY DEF TypeOK, View
<1> QED
  BY <1>1, <1>2 DEF Guarded, Directions, Spin, Zones, Stop, Emergency, Wide

\* Whatever a pass commands, it has looked at the view it drives into.
LEMMA PassGuarded ==
    ASSUME IInv, OnTimer, command' # Zero
    PROVE  Guarded
<1> USE DEF Tracking
<1>0. TypeOK /\ Directed
  BY DEF IInv
<1>1. CASE TimerLatched
  BY <1>1 DEF TimerLatched
<1>2. CASE TimerOdomLost
  BY <1>2, CommandAtRest DEF TimerOdomLost
<1>3. CASE TimerIdle
  BY <1>3 DEF TimerIdle, IInv, Modes, CommandFollowsMode, MoveOfMode
<1>4. CASE RunJog
  <2>1. /\ Online
        /\ Publish(Drive(jog.direction, scan.view.clear[jog.direction], "short"))
    BY <1>4 DEF RunJog, StopJog, BeginAvoidance
  <2>2. jog.direction \in Directions
    BY <1>0, <1>4 DEF RunJog, TypeOK, Jog
  <2> QED
    BY <1>0, <1>4, <2>1, <2>2, DriveGuarded DEF RunJog
<1>5. CASE RunRotation
  <2>1. Online /\ ~scan.view.spin_blocked /\ command' = Spin
    BY <1>5 DEF RunRotation, Finish, Publish
  <2> QED
    BY <1>5, <2>1 DEF RunRotation, Guarded, Spin, Directions
<1>6. CASE RunTranslation
  <2>1. /\ Online
        /\ \E progress \in Progress :
              Publish(Drive(active.direction, scan.view.clear[active.direction], progress))
    BY <1>6 DEF RunTranslation, Finish, BeginAvoidance
  <2>2. active.direction \in Directions
    BY <1>0, <1>6 DEF RunTranslation, Directed
  <2> QED
    BY <1>0, <1>6, <2>1, <2>2, DriveGuarded DEF RunTranslation
<1>7. CASE RunAvoidance
  <2> DEFINE direction == PhaseDirection(avoidance)
  <2>1. direction \in Directions
    BY <1>0, <1>7, PhaseDirectionType DEF RunAvoidance, TypeOK
  <2> HIDE DEF direction
  <2>2. /\ Online
        /\ \E progress \in Progress :
              Publish(Drive(direction, scan.view.clear[direction], progress))
    BY <1>7 DEF RunAvoidance, AbortAvoidance, StopJog, Finish, NextPhase, EndAvoidance,
       direction
  <2> QED
    BY <1>0, <1>7, <2>1, <2>2, DriveGuarded DEF RunAvoidance
<1> QED
  BY <1>1, <1>2, <1>3, <1>4, <1>5, <1>6, <1>7 DEF OnTimer

\* No pass of the loop leaves the robot driven blindly.
THEOREM Guards == Spec => NoBlindDrive
<1>1. IInv /\ [Next]_vars => (PassEnds /\ command' # Zero => Guarded)
  <2> SUFFICES ASSUME IInv, [Next]_vars, PassEnds, command' # Zero PROVE Guarded
    OBVIOUS
  <2>1. Next
    BY DEF PassEnds, vars
  <2> QED
    BY <2>1, OnlyPassesEnd, PassGuarded
<1>2. IInv /\ [Next]_vars =>
        [PassEnds /\ command' # Zero =>
            /\ ~safety_latched /\ OdomFresh /\ Online
            /\ command' \in Directions => scan.view.clear[command'] > Stop
            /\ command' = Spin => ~scan.view.spin_blocked]_vars
  BY <1>1 DEF Guarded
<1> QED
  BY <1>2, Invariance, PTL DEF Spec, NoBlindDrive

TimeLimit(kind) == IF kind = "rotate" THEN AngularTimeout ELSE LinearTimeout
InTime ==
    /\ jog # None => jog.left > 0
    /\ active # None => active.elapsed <= TimeLimit(active.kind)
    /\ avoidance # None => avoidance.elapsed <= LinearTimeout

\* At rest nothing is overdue.
LEMMA AtRestInTime == active' = None /\ jog' = None /\ avoidance' = None => InTime'
BY DEF InTime

\* Ending a mode leaves nothing overdue.
LEMMA EndInTime ==
    ASSUME IInv,
           \/ active # None /\ \E code \in Codes : Finish(code)
           \/ jog # None /\ \E block \in BOOLEAN : StopJog(block)
           \/ \E code \in Codes : StopEverything(code)
    PROVE  InTime'
BY NoForeignDetour, AtRestInTime
   DEF IInv, Modes, OneMover, Finish, StopJog, StopEverything

\* A detour begun for a motion carries the motion's clock, one begun for a jog
\* has its own: while a motion detours, both clocks agree.
Clocks ==
    avoidance # None /\ avoidance.owner = "active" =>
        avoidance.elapsed = active.elapsed /\ active.kind # "rotate"

\* A pass ends whatever has reached its limit.
LEMMA PassInTime ==
    ASSUME IInv, Clocks, OnTimer
    PROVE  InTime'
<1> USE DEF Tracking
<1>0. TypeOK /\ Directed
  BY DEF IInv
<1>1. CASE TimerLatched
  BY <1>1, AtRestInTime DEF TimerLatched, IInv, Modes, LatchedAtRest
<1>2. CASE TimerOdomLost
  BY <1>2, EndInTime DEF TimerOdomLost, Codes
<1>3. CASE TimerIdle
  BY <1>3, AtRestInTime DEF TimerIdle
<1>4. CASE RunJog
  <2> DEFINE zone == scan.view.clear[jog.direction]
             looked == Observed(jog, zone)
  <2>1. /\ jog \in Jog /\ jog # None /\ active = None /\ avoidance = None
        /\ zone \in Zones
    BY <1>0, <1>4 DEF RunJog, IInv, TypeOK, Modes, OneMover, Jog, View
  <2>2. /\ looked \in Jog /\ looked.left = jog.left
        /\ [looked EXCEPT !.detour_attempted = TRUE].left = jog.left
    BY <2>1, ObservedJog DEF Jog
  <2> HIDE DEF zone, looked
  <2>3. CASE \E block \in BOOLEAN : StopJog(block)
    BY <2>1, <2>3, EndInTime
  <2>4. CASE /\ jog.left # 0 /\ jog' = looked /\ UNCHANGED active
             /\ Publish(Drive(jog.direction, zone, "short"))
    BY <2>1, <2>2, <2>4 DEF Publish, InTime, Jog
  <2>5. CASE /\ jog.left # 0 /\ jog' = [looked EXCEPT !.detour_attempted = TRUE]
             /\ UNCHANGED active /\ BeginAvoidance("jog", jog.direction, 0)
    <3>1. avoidance'.elapsed = 0
      BY <2>5 DEF BeginAvoidance
    <3> QED
      BY <2>1, <2>2, <2>5, <3>1, LimitsAssumption DEF InTime, Jog
  <2> QED
    BY <1>4, <2>3, <2>4, <2>5 DEF RunJog, Expired, zone, looked
<1>5. CASE RunRotation
  <2>1. CASE \E code \in Codes : Finish(code)
    BY <1>5, <2>1, EndInTime DEF RunRotation
  <2>2. CASE /\ ~(active.elapsed > AngularTimeout)
             /\ Publish(Spin) /\ UNCHANGED <<active, jog>>
    BY <1>0, <1>5, <2>2, LimitsAssumption
       DEF RunRotation, Publish, InTime, TimeLimit, TypeOK, Motion
  <2> QED
    BY <1>5, <2>1, <2>2 DEF RunRotation, Codes
<1>6. CASE RunTranslation
  <2> DEFINE zone == scan.view.clear[active.direction]
             looked == Observed(active, zone)
  <2>1. /\ active \in Motion /\ active # None /\ jog = None /\ avoidance = None
        /\ active.kind # "rotate" /\ zone \in Zones
    BY <1>0, <1>6 DEF RunTranslation, TypeOK, Directed, View
  <2>2. /\ looked \in Motion /\ looked.elapsed = active.elapsed /\ looked.kind = active.kind
        /\ [looked EXCEPT !.detour_attempted = TRUE].elapsed = active.elapsed
        /\ [looked EXCEPT !.detour_attempted = TRUE].kind = active.kind
    BY <2>1, ObservedMotion DEF Motion
  <2> HIDE DEF zone, looked
  <2>3. CASE \E code \in Codes : Finish(code)
    BY <2>1, <2>3, EndInTime
  <2>4. CASE /\ ~(active.elapsed > LinearTimeout)
             /\ active' = looked /\ UNCHANGED jog
             /\ \E progress \in Progress : Publish(Drive(active.direction, zone, progress))
    BY <2>1, <2>2, <2>4, LimitsAssumption DEF Publish, InTime, TimeLimit, Motion
  <2>5. CASE /\ ~(active.elapsed > LinearTimeout)
             /\ active' = [looked EXCEPT !.detour_attempted = TRUE] /\ UNCHANGED jog
             /\ BeginAvoidance("active", active.direction, active.elapsed)
    <3>1. avoidance'.elapsed = active.elapsed
      BY <2>5 DEF BeginAvoidance
    <3> QED
      BY <2>1, <2>2, <2>5, <3>1, LimitsAssumption DEF InTime, TimeLimit, Motion
  <2> QED
    BY <1>6, <2>3, <2>4, <2>5 DEF RunTranslation, zone, looked, Codes
<1>7. CASE RunAvoidance
  <2>1. /\ avoidance \in Detour /\ avoidance # None
        /\ avoidance.owner = "active" => active # None /\ active \in Motion /\ jog = None
        /\ avoidance.owner = "jog" => jog # None /\ jog \in Jog /\ active = None
        /\ avoidance.owner \in {"active", "jog"}
    BY <1>7 DEF RunAvoidance, IInv, TypeOK, Modes, DetourOwned, Owner, OneMover, Detour
  <2>2. CASE \E code \in Codes : AbortAvoidance(code)
    BY <2>1, <2>2, EndInTime DEF AbortAvoidance
  <2>3. CASE avoidance.owner = "jog" /\ StopJog(FALSE)
    BY <2>1, <2>3, EndInTime
  <2>4. CASE avoidance.owner = "active" /\ Finish("COMPLETED")
    BY <2>1, <2>4, EndInTime DEF Codes
  <2>5. CASE /\ ~(avoidance.owner = "jog" /\ jog.left = 0)
             /\ ~(avoidance.elapsed > LinearTimeout)
             /\ UNCHANGED <<active, jog>>
             /\ avoidance' # None => avoidance'.elapsed = avoidance.elapsed
    BY <2>1, <2>5, LimitsAssumption DEF Clocks, InTime, TimeLimit, Motion, Jog, Detour
  <2>6. NextPhase \/ UNCHANGED avoidance => avoidance'.elapsed = avoidance.elapsed
    BY <2>1 DEF NextPhase, Detour
  <2> QED
    BY <1>7, <2>2, <2>3, <2>4, <2>5, <2>6
       DEF RunAvoidance, Expired, Publish, NextPhase, EndAvoidance, Codes
<1> QED
  BY <1>1, <1>2, <1>3, <1>4, <1>5, <1>6, <1>7 DEF OnTimer

\* Steps that keep the detour and the motion's clock, or leave no detour.
LEMMA KeptClocks ==
    ASSUME IInv, Clocks,
           \/ avoidance' = None
           \/ /\ avoidance' = avoidance
              /\ active # None => active'.elapsed = active.elapsed /\ active'.kind = active.kind
    PROVE  Clocks'
BY DEF Clocks, IInv, Modes, DetourOwned, Owner

\* The clocks of motion, detour and jog stay consistent over a pass.
LEMMA PassClocks ==
    ASSUME IInv, Clocks, OnTimer
    PROVE  Clocks'
<1> USE DEF Tracking
<1>1. CASE TimerLatched \/ TimerIdle
  BY <1>1, KeptClocks DEF TimerLatched, TimerIdle
<1>2. CASE TimerOdomLost
  BY <1>2, NoForeignDetour, KeptClocks DEF TimerOdomLost, StopEverything
<1>3. CASE RunJog
  <2>1. CASE avoidance' = None \/ UNCHANGED <<active, avoidance>>
    BY <2>1, KeptClocks
  <2>2. CASE BeginAvoidance("jog", jog.direction, 0)
    BY <2>2 DEF BeginAvoidance, Clocks
  <2> QED
    BY <1>3, <2>1, <2>2 DEF RunJog, StopJog, Publish, DetourUnless
<1>4. CASE RunRotation
  BY <1>4, KeptClocks DEF RunRotation, Finish, Publish, DetourUnless
<1>5. CASE RunTranslation
  <2> DEFINE zone == scan.view.clear[active.direction]
             looked == Observed(active, zone)
  <2>1. /\ active \in Motion /\ active # None /\ avoidance = None
        /\ active.kind # "rotate" /\ zone \in Zones
    BY <1>5 DEF RunTranslation, IInv, TypeOK, Directed, View
  <2>2. /\ looked \in Motion
        /\ [looked EXCEPT !.detour_attempted = TRUE].elapsed = active.elapsed
        /\ [looked EXCEPT !.detour_attempted = TRUE].kind = active.kind
    BY <2>1, ObservedMotion DEF Motion
  <2> HIDE DEF zone, looked
  <2>3. CASE avoidance' = None
    BY <2>3, KeptClocks
  <2>4. CASE /\ active' = [looked EXCEPT !.detour_attempted = TRUE]
             /\ BeginAvoidance("active", active.direction, active.elapsed)
    BY <2>1, <2>2, <2>4 DEF BeginAvoidance, Clocks
  <2> QED
    BY <1>5, <2>1, <2>3, <2>4 DEF RunTranslation, Finish, Publish, DetourUnless, zone, looked
<1>6. CASE RunAvoidance
  <2>1. avoidance \in Detour /\ avoidance.owner \in {"active", "jog"}
    BY <1>6 DEF RunAvoidance, IInv, TypeOK, Detour
  <2>2. CASE avoidance' = None \/ UNCHANGED <<active, avoidance>>
    BY <2>2, KeptClocks
  <2>3. CASE NextPhase
    <3>1. avoidance'.elapsed = avoidance.elapsed /\ avoidance'.owner = avoidance.owner
      BY <2>1, <2>3 DEF NextPhase, Detour
    <3> QED
      BY <1>6, <2>3, <3>1 DEF RunAvoidance, NextPhase, Clocks
  <2>4. CASE \E code \in Codes : AbortAvoidance(code)
    BY <2>1, <2>4, KeptClocks DEF AbortAvoidance, Finish, StopJog, DetourUnless
  <2> QED
    BY <1>6, <2>2, <2>3, <2>4
       DEF RunAvoidance, Publish, EndAvoidance, StopJog, Finish, DetourUnless, Codes
<1> QED
  BY <1>1, <1>2, <1>3, <1>4, <1>5, <1>6 DEF OnTimer

\* Every step keeps the clocks consistent.
LEMMA StepClocks == IInv /\ Clocks /\ [Next]_vars => Clocks'
<1> SUFFICES ASSUME IInv, Clocks, [Next]_vars PROVE Clocks'
  OBVIOUS
<1>1. CASE OnOdom \/ OnCancel \/ \E latch \in BOOLEAN : OnSafety(latch)
  BY <1>1, NoForeignDetour, KeptClocks DEF OnOdom, OnCancel, OnSafety, StopEverything
<1>2. CASE \E view \in Views, error \in BOOLEAN : OnScan(view, error)
  <2>1. active # None => active'.elapsed = active.elapsed /\ active'.kind = active.kind
    BY <1>2 DEF OnScan, IInv, TypeOK, Motion
  <2> QED
    BY <1>2, <2>1, KeptClocks DEF OnScan
<1>3. CASE \E r \in Requests : OnRequestRefused(r) \/ OnRequestAccepted(r)
  <2>1. CASE \E r \in Requests : OnRequestRefused(r)
    BY <2>1, KeptClocks DEF OnRequestRefused
  <2>2. CASE \E r \in Requests : OnRequestAccepted(r)
    BY <2>2, NoForeignDetour, KeptClocks DEF OnRequestAccepted, Refusal, NoRefusal
  <2> QED
    BY <1>3, <2>1, <2>2
<1>4. CASE JogMessage
  <2>1. CASE active = None
    BY <1>4, <2>1, KeptClocks
       DEF JogMessage, OnJogRelease, OnJogRenew, OnJogStart, LiftBar, PreemptMotion, DetourUnless, IInv, Modes,
           DetourOwned, Owner
  <2>2. CASE active # None
    BY <1>4, <2>2, KeptClocks
       DEF JogMessage, OnJogRelease, OnJogRenew, OnJogStart, LiftBar, PreemptMotion, Renews, DetourUnless, IInv,
           TypeOK, Modes, OneMover, DetourOwned, Owner, Detour
  <2> QED
    BY <2>1, <2>2
<1>5. CASE OnTimer
  BY <1>5, PassClocks
<1>6. CASE Tick
  <2>1. CASE avoidance # None /\ avoidance.owner = "active"
    BY <1>6, <2>1 DEF Tick, Clocks, IInv, TypeOK, Modes, DetourOwned, Owner, Motion, Detour
  <2>2. CASE avoidance = None \/ avoidance.owner # "active"
    BY <1>6, <2>2 DEF Tick, Clocks, IInv, TypeOK, Detour
  <2> QED
    BY <2>1, <2>2
<1>7. CASE UNCHANGED vars
  BY <1>7 DEF vars, Clocks
<1> QED
  BY <1>1, <1>2, <1>3, <1>4, <1>5, <1>6, <1>7 DEF Next, OtherStep, OnDisconnected

\* Nothing runs on after a pass that found it out of time.
THEOREM Deadlines == Spec => NothingOverdue
<1>1. Init => Clocks
  BY DEF Init, Clocks
<1>2. Spec => []Clocks
  BY <1>1, StepClocks, Invariance, PTL DEF Spec
<1>3. IInv /\ Clocks /\ [Next]_vars => (PassEnds => InTime')
  <2> SUFFICES ASSUME IInv, Clocks, [Next]_vars, PassEnds PROVE InTime'
    OBVIOUS
  <2>1. Next
    BY DEF PassEnds, vars
  <2> QED
    BY <2>1, OnlyPassesEnd, PassInTime
<1>4. IInv /\ Clocks /\ [Next]_vars =>
        [PassEnds =>
            /\ jog' # None => jog'.left > 0
            /\ active' # None =>
                  active'.elapsed <= IF active'.kind = "rotate" THEN AngularTimeout
                                     ELSE LinearTimeout
            /\ avoidance' # None => avoidance'.elapsed <= LinearTimeout]_vars
  BY <1>3 DEF InTime, TimeLimit
<1> QED
  BY <1>2, <1>4, Invariance, PTL DEF Spec, NothingOverdue

-----------------------------------------------------------------------------
(* The points implement the zones. *)

\* What petcargo.yaml gives: the corridors are cut no wider than the clearance that
\* a rotation keeps.
Distances ==
    /\ HalfLength \in Nat /\ HalfWidth \in Nat
    /\ Margin \in Nat /\ EmergencyClearance \in Nat /\ StopClearance \in Nat
    /\ EmergencyClearance <= StopClearance /\ Margin <= StopClearance

\* The executor of MotionExecutor may see whatever the scans show.
Seen == \A seen \in Scans : ViewOf({p \in seen : ~InFootprint(p)}) \in Views

-----------------------------------------------------------------------------

LEMMA ZonesAre == \A points_, d : ZoneOf(points_, d) \in Zones
<1>1. Emergency \in Zones /\ Stop \in Zones /\ Near \in Zones /\ Wide \in Zones
  BY DEF Emergency, Stop, Near, Wide, Zones
<1> QED  BY <1>1 DEF ZoneOf

\* A point in the corridor of any direction, near enough to stop for, lies within the
\* rectangle of a rotation.
LEMMA CorridorInRectangle ==
    ASSUME Distances, NEW p \in Point, NEW d \in Directions,
           InCorridor(p, d), Ahead(p, d) - LeadingEdge(d) <= StopClearance
    PROVE  /\ Magnitude(p.x) <= HalfLength + StopClearance
           /\ Magnitude(p.y) <= HalfWidth + StopClearance
<1>1. p.x \in Int /\ p.y \in Int
  BY DEF Point
<1> DEFINE x == p.x
           y == p.y
<1>2. x \in Int /\ y \in Int
  BY <1>1
<1> HIDE DEF x, y
<1>3. CASE d = "forward"
  <2>1. Ahead(p, d) = x * 1 + y * 0 /\ Aside(p, d) = y * 1 - x * 0
    BY <1>3 DEF Ahead, Aside, DirectionVector, x, y
  <2>2. LeadingEdge(d) = HalfLength /\ CrossHalf(d) = HalfWidth + Margin
    BY <1>3 DEF LeadingEdge, CrossHalf, LongWays
  <2> QED  BY <1>2, <2>1, <2>2 DEF InCorridor, Magnitude, Distances, x, y
<1>4. CASE d = "backward"
  <2>1. Ahead(p, d) = x * (-1) + y * 0 /\ Aside(p, d) = y * (-1) - x * 0
    BY <1>4 DEF Ahead, Aside, DirectionVector, x, y
  <2>2. LeadingEdge(d) = HalfLength /\ CrossHalf(d) = HalfWidth + Margin
    BY <1>4 DEF LeadingEdge, CrossHalf, LongWays
  <2> QED  BY <1>2, <2>1, <2>2 DEF InCorridor, Magnitude, Distances, x, y
<1>5. CASE d = "left"
  <2>1. Ahead(p, d) = x * 0 + y * 1 /\ Aside(p, d) = y * 0 - x * 1
    BY <1>5 DEF Ahead, Aside, DirectionVector, x, y
  <2>2. LeadingEdge(d) = HalfWidth /\ CrossHalf(d) = HalfLength + Margin
    BY <1>5 DEF LeadingEdge, CrossHalf, LongWays
  <2> QED  BY <1>2, <2>1, <2>2 DEF InCorridor, Magnitude, Distances, x, y
<1>6. CASE d = "right"
  <2>1. Ahead(p, d) = x * 0 + y * (-1) /\ Aside(p, d) = y * 0 - x * (-1)
    BY <1>6 DEF Ahead, Aside, DirectionVector, x, y
  <2>2. LeadingEdge(d) = HalfWidth /\ CrossHalf(d) = HalfLength + Margin
    BY <1>6 DEF LeadingEdge, CrossHalf, LongWays
  <2> QED  BY <1>2, <2>1, <2>2 DEF InCorridor, Magnitude, Distances, x, y
<1> QED  BY <1>3, <1>4, <1>5, <1>6 DEF Directions

\* Every scan of points shows a view that MotionExecutor admits: its zones are zones,
\* and what is in the way of a movement is in the way of a rotation.
THEOREM Views_are_consistent ==
    ASSUME Distances, NEW seen, seen \subseteq Point
    PROVE  ViewOf(seen) \in View /\ Consistent(ViewOf(seen))
<1>1. ViewOf(seen) \in View
  <2>1. [d \in Directions |-> ZoneOf(seen, d)] \in [Directions -> Zones]
    BY ZonesAre
  <2>2. RotationBlocked(seen) \in BOOLEAN
    BY DEF RotationBlocked
  <2> QED  BY <2>1, <2>2 DEF ViewOf, View
<1>2. ASSUME NEW d \in Directions, ZoneOf(seen, d) <= Stop PROVE RotationBlocked(seen)
  <2>1. \E c \in Clearances(seen, d) : c <= EmergencyClearance \/ c <= StopClearance
    <3>1. ~(Near <= Stop) /\ ~(Wide <= Stop)
      BY DEF Near, Wide, Stop
    <3> QED  BY <1>2, <3>1 DEF ZoneOf
  <2>2. PICK p \in seen : /\ InCorridor(p, d)
                          /\ \/ Ahead(p, d) - LeadingEdge(d) <= EmergencyClearance
                             \/ Ahead(p, d) - LeadingEdge(d) <= StopClearance
    BY <2>1 DEF Clearances
  <2>3. p \in Point
    OBVIOUS
  <2>4. Ahead(p, d) - LeadingEdge(d) \in Int
    <3>1. DirectionVector(d).x \in Int /\ DirectionVector(d).y \in Int
      BY DEF DirectionVector, Directions
    <3>2. Ahead(p, d) \in Int
      BY <2>3, <3>1 DEF Ahead, Point
    <3>3. LeadingEdge(d) \in Int
      BY DEF LeadingEdge, Distances
    <3> QED  BY <3>2, <3>3
  <2>5. Ahead(p, d) - LeadingEdge(d) <= StopClearance
    BY <2>2, <2>4 DEF Distances
  <2> QED  BY <2>2, <2>3, <2>5, CorridorInRectangle DEF RotationBlocked
<1>3. \A d \in Directions : ViewOf(seen).clear[d] = ZoneOf(seen, d)
  BY DEF ViewOf
<1>4. ViewOf(seen).spin_blocked = RotationBlocked(seen)
  BY DEF ViewOf
<1> QED  BY <1>1, <1>2, <1>3, <1>4 DEF Consistent

-----------------------------------------------------------------------------

LEMMA StepsAreSteps == ASSUME Seen, [GeometryNext]_geometryVars PROVE [Next]_vars
<1>1. CASE \E seen \in Scans : OnPoints(seen)
  <2>1. PICK seen \in Scans : OnPoints(seen)
    BY <1>1
  <2>2. ViewOf({p \in seen : ~InFootprint(p)}) \in Views
    BY DEF Seen
  <2>3. OnScan(ViewOf({p \in seen : ~InFootprint(p)}), FALSE)
    BY <2>1 DEF OnPoints
  <2> QED  BY <2>2, <2>3 DEF Next, OtherStep
<1>2. CASE JogMessage \/ OnOdom \/ OnTimer \/ Tick \/ \E r \in Requests : OnRequestAccepted(r)
  BY <1>2 DEF Next, OtherStep
<1>3. CASE UNCHANGED geometryVars
  BY <1>3 DEF geometryVars
<1> QED  BY <1>1, <1>2, <1>3 DEF GeometryNext

\* The executor among points is one of the executors MotionExecutor describes, and what
\* is proved of those holds of it.
THEOREM Points_implement_zones == ASSUME Seen PROVE GeometrySpec => Spec
<1>1. GeometryInit => Init
  BY DEF GeometryInit
<1>2. [GeometryNext]_geometryVars => [Next]_vars
  BY StepsAreSteps
<1> QED  BY <1>1, <1>2, PTL DEF GeometrySpec, Spec
=============================================================================
