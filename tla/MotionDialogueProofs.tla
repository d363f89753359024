------------------------ MODULE MotionDialogueProofs ------------------------
(***************************************************************************)
(* Proofs about the board inside the dialogue with the robot: whatever     *)
(* arrives, is lost or overtakes, a locked or sleeping board waits for no  *)
(* motion, a jog has an end, the press of K3 that locks never releases,    *)
(* and the escape from bright light reaches the executor tagged.           *)
(*                                                                         *)
(* Every step of the dialogue is a step of the application or leaves it    *)
(* alone; the invariant says in addition that a jog cancelled by a lock or *)
(* by sleep is not followed any more, and that the press that locked found *)
(* nothing to release.  The second half of the module is about the motion  *)
(* itself: that board and robot agree on it.                               *)
(***************************************************************************)
EXTENDS MotionDialogue, FiniteSetTheorems, SequenceTheorems, TLAPS

Flags ==
    /\ emergency \in BOOLEAN /\ sleeping \in BOOLEAN /\ motion_active \in BOOLEAN
    /\ remote_direction \in BOOLEAN /\ override \in BOOLEAN /\ jogging \in BOOLEAN
    /\ k3_can_release \in BOOLEAN /\ engaging \in BOOLEAN

JogsAwake == jogging => ~emergency /\ ~sleeping
LockerKeepsLock == engaging => ~k3_can_release

IInv == Flags /\ AtRest /\ JogLapses /\ JogsAwake /\ LockerKeepsLock

\* What a step of the dialogue may be for the application.
AppStep ==
    \/ Handlers \/ Reboot \/ Transmit
    \/ \E id : OnResult(id)
    \/ \E frame \in Stops : OnStopFrame(frame)
    \/ UNCHANGED app

LEMMA DialogueStepsApp == [Next]_vars => AppStep
<1> SUFFICES ASSUME [Next]_vars PROVE AppStep
  OBVIOUS
<1> USE DEF AppStep
<1>1. CASE Handle \/ Elapse \/ GiveUpMotion
  BY <1>1 DEF Handle, Elapse, GiveUpMotion, Handlers
<1>2. CASE SendUp \/ Restart
  BY <1>2 DEF SendUp, Restart
<1>3. CASE Receive
  BY <1>3 DEF Receive
<1>4. CASE Noise \/ Unplug \/ Replug \/ OnFrame \/ OnHeartbeat \/ TagExpires \/ OnMotionResult
  BY <1>4 DEF Noise, Unplug, Replug, OnFrame, OnHeartbeat, TagExpires, OnMotionResult
<1>5. CASE Deliver \/ Complete
  BY <1>5 DEF Deliver, Complete
<1>6. CASE UNCHANGED vars
  BY <1>6 DEF vars
<1> QED  BY <1>1, <1>2, <1>3, <1>4, <1>5, <1>6 DEF Next

-----------------------------------------------------------------------------
(* The two calls that several handlers make. *)

LEMMA SettingHolds ==
    ASSUME IInv, NEW engaged \in BOOLEAN, EmergencySet(engaged), UNCHANGED <<sleeping, remote>>
    PROVE  /\ emergency' = engaged /\ motion_active' \in BOOLEAN /\ jogging' \in BOOLEAN
           /\ emergency' \/ sleeping' => ~motion_active'
           /\ jogging' => remote_direction' /\ override' /\ ~emergency' /\ ~sleeping'
<1>1. CASE emergency = engaged
  BY <1>1 DEF IInv, Flags, AtRest, JogLapses, JogsAwake, EmergencySet, motion, remote
<1>2. CASE emergency # engaged
  BY <1>2 DEF IInv, Flags, EmergencySet, remote
<1> QED  BY <1>1, <1>2

LEMMA RequestHolds ==
    ASSUME IInv, NEW queue, NEW escape, NEW asleep \in BOOLEAN,
           RequestMotion(queue, asleep, escape), sleeping' = asleep,
           UNCHANGED <<emergency, keys, remote>>, asleep => sleeping
    PROVE  IInv'
<1> USE DEF IInv, Flags, AtRest, JogLapses, JogsAwake, LockerKeepsLock, keys, remote
<1>1. CASE ~MayMove(asleep)
  BY <1>1 DEF RequestMotion, motion
<1>2. CASE MayMove(asleep)
  <2>1. ~emergency /\ ~asleep /\ ~motion_active
    BY <1>2 DEF MayMove
  <2>2. jogging' = jogging /\ motion_active' \in {motion_active, TRUE}
    BY <1>2 DEF RequestMotion
  <2> QED  BY <2>1, <2>2
<1> QED  BY <1>1, <1>2

-----------------------------------------------------------------------------

LEMMA HandlersHold == ASSUME IInv, Handlers PROVE IInv'
<1> USE DEF IInv, Flags, AtRest, JogLapses, JogsAwake, LockerKeepsLock, keys, remote
<1>1. CASE VoiceStop \/ VoiceSleep \/ RemoteStop
  <2>1. CASE VoiceStop
    BY <2>1 DEF VoiceStop, CancelMotion
  <2>2. CASE VoiceSleep
    BY <2>2 DEF VoiceSleep, CancelMotion
  <2>3. CASE RemoteStop
    BY <2>3 DEF RemoteStop, CancelMotion
  <2> QED  BY <1>1, <2>1, <2>2, <2>3
<1>2. CASE VoiceMotion
  <2>1. RequestMotion(waiting, sleeping, FALSE) /\ UNCHANGED <<emergency, sleeping, keys, remote>>
    BY <1>2 DEF VoiceMotion
  <2> QED  BY <2>1, RequestHolds
<1>3. CASE VoiceWake
  BY <1>3 DEF VoiceWake, motion
<1>4. CASE ShowFace
  BY <1>4 DEF ShowFace, motion
<1>5. CASE K2Short
  <2>1. CASE sleeping
    BY <1>5, <2>1 DEF K2Short, motion
  <2>2. CASE ~sleeping
    BY <1>5, <2>2 DEF K2Short, CancelMotion
  <2> QED  BY <2>1, <2>2
<1>6. CASE K3Press
  <2>1. EmergencySet(TRUE) /\ UNCHANGED <<sleeping, remote>>
    BY <1>6 DEF K3Press
  <2>2. k3_can_release' = emergency /\ engaging' = ~emergency
    BY <1>6 DEF K3Press
  <2> QED  BY <2>1, <2>2, SettingHolds
<1>7. CASE K3Long
  <2>1. CASE k3_can_release
    <3>1. EmergencySet(FALSE) /\ k3_can_release' = FALSE /\ UNCHANGED <<sleeping, engaging, remote>>
      BY <1>7, <2>1 DEF K3Long, HoldReleases
    <3> QED  BY <3>1, SettingHolds
  <2>2. CASE ~k3_can_release
    BY <1>7, <2>2 DEF K3Long, HoldReleases, motion
  <2> QED  BY <2>1, <2>2
<1>8. CASE K3Up
  BY <1>8 DEF K3Up, motion
<1>9. CASE Shake
  <2>1. EmergencySet(TRUE) /\ UNCHANGED <<sleeping, keys, remote>>
    BY <1>9 DEF Shake
  <2> QED  BY <2>1, SettingHolds
<1>10. CASE Flash
  <2>1. PICK queue \in Offered(waiting, BrightLight) : RequestMotion(queue, FALSE, TRUE)
    BY <1>10 DEF Flash
  <2>2. sleeping' = FALSE /\ UNCHANGED <<emergency, keys, remote>>
    BY <1>10 DEF Flash
  <2> QED  BY <2>1, <2>2, RequestHolds
<1>11. CASE Dark
  BY <1>11 DEF Dark, motion
<1>12. CASE GiveUp
  BY <1>12 DEF GiveUp
<1>13. CASE OverrideEnds
  BY <1>13 DEF OverrideEnds
<1>14. CASE \E moving \in BOOLEAN : RemoteKey(moving)
  <2>1. PICK moving \in BOOLEAN : RemoteKey(moving)
    BY <1>14
  <2>2. CASE sleeping \/ emergency
    BY <2>1, <2>2 DEF RemoteKey, motion
  <2>3. CASE ~sleeping /\ ~emergency
    BY <2>1, <2>3 DEF RemoteKey, JogDeadline
  <2> QED  BY <2>2, <2>3
<1> QED
  BY <1>1, <1>2, <1>3, <1>4, <1>5, <1>6, <1>7, <1>8, <1>9, <1>10, <1>11, <1>12, <1>13, <1>14
     DEF Handlers

LEMMA StepsHold == ASSUME IInv, AppStep PROVE IInv'
<1> USE DEF IInv, Flags, AtRest, JogLapses, JogsAwake, LockerKeepsLock, keys, remote
<1>1. CASE Handlers
  BY <1>1, HandlersHold
<1>2. CASE Reboot
  BY <1>2 DEF Reboot
<1>3. CASE Transmit
  BY <1>3 DEF Transmit, motion
<1>4. CASE \E id : OnResult(id)
  BY <1>4 DEF OnResult
<1>5. CASE \E frame \in Stops : OnStopFrame(frame)
  <2>1. PICK frame \in Stops : OnStopFrame(frame)
    BY <1>5
  <2>2. emergency' = emergency \/ emergency' = (frame = Engage)
    BY <2>1 DEF OnStopFrame
  <2>3. CASE frame = Engage
    BY <2>1, <2>2, <2>3 DEF OnStopFrame, Engage, Release, Cancel, Stop
  <2>4. CASE frame # Engage
    BY <2>1, <2>2, <2>4 DEF OnStopFrame
  <2> QED  BY <2>3, <2>4
<1>6. CASE UNCHANGED app
  BY <1>6 DEF app, motion
<1> QED  BY <1>1, <1>2, <1>3, <1>4, <1>5, <1>6 DEF AppStep

THEOREM Invariance == Spec => []IInv
<1>1. Init => IInv
  BY DEF Init, AppInit, IInv, Flags, AtRest, JogLapses, JogsAwake, LockerKeepsLock
<1>2. IInv /\ [Next]_vars => IInv'
  BY DialogueStepsApp, StepsHold
<1> QED  BY <1>1, <1>2, PTL DEF Spec

\* Locked or asleep, the board waits for no motion, and no jog it asked for is left without
\* the deadline that ends it, whatever the robot, the line and the bridge do, for every
\* length of the ring and every mix of disturbances.
THEOREM Nothing_lingers == Spec => []NothingLingers
<1>1. IInv => NothingLingers
  BY DEF IInv, NothingLingers
<1> QED  BY <1>1, Invariance, PTL

\* The press of K3 that locks never unlocks.
THEOREM Press_never_releases == Spec => PressNeverReleases
<1>1. IInv /\ [Next]_vars => [K3Long /\ engaging => emergency' = emergency]_app
  BY DEF IInv, LockerKeepsLock, K3Long, HoldReleases
<1> QED  BY <1>1, Invariance, PTL DEF Spec, PressNeverReleases

-----------------------------------------------------------------------------
(* Types.  First the application: its ring never holds more than it has room for. *)

LEMMA OffersTyped ==
    ASSUME NEW queue \in Seq(Frames), Len(queue) <= Room, NEW frame \in Frames,
           NEW after \in Offered(queue, frame)
    PROVE  after \in Seq(Frames) /\ Len(after) <= Room
<1>1. CASE after = queue
  BY <1>1
<1>2. CASE after = Append(queue, frame) /\ Len(queue) < Room
  BY <1>2, RoomAssumption
<1> QED  BY <1>1, <1>2 DEF Offered

LEMMA FramesTyped ==
    /\ Hello \in Frames /\ BrightLight \in Frames
    /\ <<>> \in Seq(Frames) /\ Len(<<>>) <= Room
BY RoomAssumption DEF Frames

LEMMA JogTyped == ASSUME NEW b \in BOOLEAN PROVE JogTo(b) \in Frames
<1> DEFINE Jogs == {JogTo(moving) : moving \in BOOLEAN}
<1>1. JogTo(b) \in Jogs
  <2>1. CASE b = TRUE
    BY <2>1
  <2>2. CASE b = FALSE
    BY <2>2
  <2> QED  BY <2>1, <2>2
<1>2. Jogs \subseteq Frames
  BY DEF Frames
<1> QED  BY <1>1, <1>2

LEMMA FollowingTyped ==
    ASSUME NEW n \in Id PROVE Following(n) \in RequestId /\ Following(n) \in Id
<1> DEFINE last == 65535
<1>1. last \in Nat /\ 1 <= last
  OBVIOUS
<1>2. Id = 0..last /\ RequestId = 1..last /\ Following(n) = IF n = last THEN 1 ELSE n + 1
  BY DEF Id, RequestId, Following
<1> HIDE DEF last
<1>3. n \in 0..last
  BY <1>2
<1>4. Following(n) \in 1..last
  <2>1. CASE n = last
    BY <1>1, <1>2, <2>1
  <2>2. CASE n # last
    <3>1. n + 1 \in 1..last
      BY <1>1, <1>3, <2>2
    <3> QED  BY <1>2, <2>2, <3>1
  <2> QED  BY <2>1, <2>2
<1>5. \A m \in 1..last : m \in 0..last
  BY <1>1
<1> QED  BY <1>2, <1>4, <1>5

\* What the ring, the ids and the urgent slot may hold.
Ring == waiting \in Seq(Frames) /\ Len(waiting) <= Room /\ urgent \in Stops \union {None}
Ids == motion_id \in Id /\ last_motion_id \in Id

LEMMA RequestTyped ==
    ASSUME Ids, NEW queue \in Seq(Frames), Len(queue) <= Room, NEW escape \in BOOLEAN,
           NEW asleep, RequestMotion(queue, asleep, escape)
    PROVE  Ids' /\ waiting' \in Seq(Frames) /\ Len(waiting') <= Room
<1>1. CASE ~MayMove(asleep)
  BY <1>1 DEF RequestMotion, motion, Ids
<1>2. CASE MayMove(asleep)
  <2>1. PICK next : next = Following(motion_id)
    OBVIOUS
  <2>2. motion_id' = next /\ waiting' \in Offered(queue, RequestOf(next, escape))
    BY <1>2, <2>1 DEF RequestMotion
  <2>3. last_motion_id' \in {last_motion_id, next}
    BY <1>2, <2>1 DEF RequestMotion
  <2>4. next \in RequestId /\ next \in Id
    BY <2>1, FollowingTyped DEF Ids
  <2>5. RequestOf(next, escape) \in Frames
    <3>1. RequestOf(next, escape) \in [type : {"request"}, id : RequestId, escape : BOOLEAN]
      BY <2>4 DEF RequestOf
    <3> QED  BY <3>1 DEF Frames
  <2>6. waiting' \in Seq(Frames) /\ Len(waiting') <= Room
    BY <2>2, <2>5, OffersTyped
  <2> QED  BY <2>2, <2>3, <2>4, <2>6 DEF Ids
<1> QED  BY <1>1, <1>2

LEMMA SettingTyped ==
    ASSUME Ring, Ids, NEW engaged, EmergencySet(engaged) PROVE Ring' /\ Ids'
<1>1. CASE emergency = engaged
  BY <1>1 DEF EmergencySet, Ring, Ids, ring, motion
<1>2. CASE emergency # engaged
  <2>1. urgent' \in Stops /\ waiting' = <<>> /\ UNCHANGED <<motion_id, last_motion_id>>
    BY <1>2 DEF EmergencySet, SendStop, Stops
  <2> QED  BY <2>1, FramesTyped DEF Ring, Ids
<1> QED  BY <1>1, <1>2

LEMMA CancelTyped == ASSUME Ring, Ids, CancelMotion PROVE Ring' /\ Ids'
BY FramesTyped DEF CancelMotion, SendStop, Ring, Ids, Stops

\* Everything else the application keeps.
Switches == light_armed \in BOOLEAN /\ k3 \in {"up", "pressed", "long"} /\ crowded \in BOOLEAN

LEMMA HandlersTyped == ASSUME Ring, Ids, Switches, Handlers PROVE (Ring /\ Ids /\ Switches)'
<1>1. CASE VoiceStop \/ VoiceSleep \/ RemoteStop
  BY <1>1, CancelTyped DEF VoiceStop, VoiceSleep, RemoteStop, Switches, keys
<1>2. CASE VoiceMotion
  <2>1. RequestMotion(waiting, sleeping, FALSE) /\ UNCHANGED <<light_armed, keys, urgent, crowded>>
    BY <1>2 DEF VoiceMotion
  <2> QED  BY <2>1, RequestTyped DEF Ring, Switches, keys
<1>3. CASE VoiceWake \/ ShowFace \/ K3Up \/ Dark
  BY <1>3 DEF VoiceWake, ShowFace, K3Up, Dark, Ring, Ids, Switches, ring, motion, keys
<1>4. CASE K2Short
  <2>1. CancelMotion \/ UNCHANGED <<motion, ring>>
    BY <1>4 DEF K2Short
  <2>2. Ring' /\ Ids'
    BY <2>1, CancelTyped DEF Ring, Ids, ring, motion
  <2> QED  BY <1>4, <2>2 DEF K2Short, Switches, keys
<1>5. CASE K3Press \/ K3Long \/ Shake
  <2>1. (\E engaged : EmergencySet(engaged)) \/ UNCHANGED <<motion, ring>>
    BY <1>5 DEF K3Press, K3Long, Shake
  <2>2. Ring' /\ Ids'
    BY <2>1, SettingTyped DEF Ring, Ids, ring, motion
  <2> QED  BY <1>5, <2>2 DEF K3Press, K3Long, Shake, Switches, keys
<1>6. CASE Flash
  <2>1. PICK queue \in Offered(waiting, BrightLight) : RequestMotion(queue, FALSE, TRUE)
    BY <1>6 DEF Flash
  <2>2. queue \in Seq(Frames) /\ Len(queue) <= Room
    BY OffersTyped, FramesTyped DEF Ring
  <2>3. Ids' /\ waiting' \in Seq(Frames) /\ Len(waiting') <= Room
    BY <2>1, <2>2, RequestTyped
  <2> QED  BY <1>6, <2>3 DEF Flash, Ring, Switches, keys
<1>7. CASE GiveUp
  BY <1>7 DEF GiveUp, Ring, Ids, Switches, ring, keys
<1>8. CASE OverrideEnds
  <2>1. waiting' = waiting \/ waiting' \in Offered(waiting, JogTo(FALSE))
    BY <1>8 DEF OverrideEnds
  <2>2. waiting' \in Seq(Frames) /\ Len(waiting') <= Room
    <3>1. JogTo(FALSE) \in Frames
      BY JogTyped
    <3> QED  BY <2>1, <3>1, OffersTyped DEF Ring
  <2> QED  BY <1>8, <2>2 DEF OverrideEnds, Ring, Ids, Switches, keys
<1>9. CASE \E moving \in BOOLEAN : RemoteKey(moving)
  <2>1. PICK moving \in BOOLEAN : RemoteKey(moving)
    BY <1>9
  <2>2. \/ UNCHANGED ring
        \/ urgent' = Cancel /\ waiting' \in Offered(<<>>, JogTo(moving))
        \/ urgent' = urgent /\ waiting' \in Offered(waiting, JogTo(moving))
    BY <2>1 DEF RemoteKey, ring
  <2>3. Ring'
    <3>1. JogTo(moving) \in Frames /\ <<>> \in Seq(Frames) /\ Len(<<>>) <= Room
      BY FramesTyped, JogTyped
    <3>2. CASE UNCHANGED ring
      BY <3>2 DEF Ring, ring
    <3>3. CASE urgent' = Cancel /\ waiting' \in Offered(<<>>, JogTo(moving))
      BY <3>1, <3>3, OffersTyped DEF Ring, Stops
    <3>4. CASE urgent' = urgent /\ waiting' \in Offered(waiting, JogTo(moving))
      BY <3>1, <3>4, OffersTyped DEF Ring
    <3> QED  BY <2>2, <3>2, <3>3, <3>4
  <2>4. Ids'
    BY <2>1 DEF RemoteKey, Ids, motion
  <2> QED  BY <2>1, <2>3, <2>4 DEF RemoteKey, Switches, keys
<1> QED
  BY <1>1, <1>2, <1>3, <1>4, <1>5, <1>6, <1>7, <1>8, <1>9 DEF Handlers

LEMMA AppTyped == ASSUME Ring, Ids, Switches, AppStep PROVE (Ring /\ Ids /\ Switches)'
<1>1. CASE Handlers
  BY <1>1, HandlersTyped
<1>2. CASE Reboot
  <2>1. <<Hello>> \in Seq(Frames) /\ Len(<<Hello>>) <= Room
    BY FramesTyped, RoomAssumption
  <2>2. 0 \in Id
    BY DEF Id
  <2> QED  BY <1>2, <2>1, <2>2 DEF Reboot, Ring, Ids, Switches
<1>3. CASE Transmit
  <2>1. CASE urgent # None
    BY <1>3, <2>1 DEF Transmit, Ring, Ids, Switches, motion, keys
  <2>2. CASE urgent = None
    <3>1. waiting # <<>> /\ waiting' = Tail(waiting) /\ urgent' = urgent
      BY <1>3, <2>2 DEF Transmit
    <3>2. Len(Tail(waiting)) <= Room /\ Tail(waiting) \in Seq(Frames)
      BY <3>1, RoomAssumption DEF Ring
    <3> QED  BY <1>3, <3>1, <3>2 DEF Transmit, Ring, Ids, Switches, motion, keys
  <2> QED  BY <2>1, <2>2
<1>4. CASE \E id : OnResult(id)
  BY <1>4 DEF OnResult, Ring, Ids, Switches, ring, keys
<1>5. CASE \E frame \in Stops : OnStopFrame(frame)
  BY <1>5 DEF OnStopFrame, Ring, Ids, Switches, ring, keys
<1>6. CASE UNCHANGED app
  BY <1>6 DEF app, Ring, Ids, Switches, ring, keys, motion
<1> QED  BY <1>1, <1>2, <1>3, <1>4, <1>5, <1>6 DEF AppStep

-----------------------------------------------------------------------------
(* Types, second: the line, the bridge and the robot. *)

Downs == {Release, Engage} \union [type : {"result"}, id : Id]
Topics ==
    Published \union {Cancelled, Disconnected}
    \union {SafetySet(latch) : latch \in BOOLEAN} \union {Jogged(moving) : moving \in BOOLEAN}

Tallied == scenario \in Scenarios /\ events \in 0..scenario.events
Lined == up \in Seq(Frames \union Stops) /\ down \in Seq(Downs)
Bridged ==
    /\ plugged \in BOOLEAN /\ connected \in BOOLEAN /\ tag \in BOOLEAN
    /\ known \in BOOLEAN \union {None}
    /\ pending_results \in Seq(Id) /\ Len(pending_results) <= MaxPending
Queued == topics \in Seq(Topics) /\ results \in Seq(Id)
Driven ==
    /\ latched \in BOOLEAN
    /\ active \in Published \union {None}
    /\ completed_ids \in SUBSET Id /\ Cardinality(completed_ids) <= CompletedLimit
    /\ given_up \in SUBSET Id

Outside == Tallied /\ Lined /\ Bridged /\ Queued /\ Driven

LEMMA TypeParts == TypeOK <=> Flags /\ Ring /\ Ids /\ Switches /\ Outside
BY DEF TypeOK, AppTypeOK, Flags, Ring, Ids, Switches, Outside, Tallied, Lined, Bridged,
       Queued, Driven, Downs, Topics

LEMMA FrameKinds ==
    ASSUME NEW frame \in Frames \union Stops
    PROVE  /\ frame.type = "request" => frame.id \in Id /\ frame.escape \in BOOLEAN
           /\ frame.type = "jog" => frame.moving \in BOOLEAN
<1>1. \A n \in RequestId : n \in Id
  BY DEF Id, RequestId
<1>2. CASE frame \in Stops \union {Hello, BrightLight}
  BY <1>2 DEF Stops, Stop, Release, Engage, Cancel, Hello, BrightLight
<1>3. CASE frame \in {JogTo(moving) : moving \in BOOLEAN}
  BY <1>3 DEF JogTo
<1>4. CASE frame \in [type : {"request"}, id : RequestId, escape : BOOLEAN]
  BY <1>1, <1>4
<1> QED  BY <1>2, <1>3, <1>4 DEF Frames

\* The cases of Topic exclude each other.
LEMMA Kinds ==
    /\ Cancel.type = "stop" /\ Engage.type = "stop" /\ Release.type = "stop"
    /\ Cancel # Engage /\ Cancel # Release /\ Engage # Release
BY DEF Cancel, Engage, Release, Stop

LEMMA Single == ASSUME NEW S, NEW x \in S PROVE <<x>> \in Seq(S)
OBVIOUS

LEMMA TopicTyped ==
    ASSUME NEW frame \in Frames \union Stops, tag \in BOOLEAN PROVE Topic(frame) \in Seq(Topics)
<1>1. CASE frame.type = "request"
  <2>1. Message(frame, tag) \in Published
    BY <1>1, FrameKinds DEF Message, Published
  <2>2. Message(frame, tag) \in Topics
    BY <2>1 DEF Topics
  <2>3. frame # Cancel /\ frame # Engage /\ frame # Release
    BY <1>1, Kinds
  <2>4. Topic(frame) = <<Message(frame, tag)>>
    BY <1>1, <2>3 DEF Topic
  <2> QED  BY <2>2, <2>4, Single
<1>2. CASE frame.type = "jog"
  <2>1. frame.moving \in BOOLEAN
    BY <1>2, FrameKinds
  <2>2. Jogged(frame.moving) \in {Jogged(moving) : moving \in BOOLEAN}
    BY <2>1
  <2>3. Jogged(frame.moving) \in Topics
    BY <2>2 DEF Topics
  <2>4. frame # Cancel /\ frame # Engage /\ frame # Release
    BY <1>2, Kinds
  <2>5. Topic(frame) = <<Jogged(frame.moving)>>
    BY <1>2, <2>4 DEF Topic
  <2> QED  BY <2>3, <2>5, Single
<1>3. CASE frame.type \notin {"request", "jog"}
  <2>1. SafetySet(TRUE) \in Topics /\ SafetySet(FALSE) \in Topics /\ Cancelled \in Topics
    BY DEF Topics
  <2>2. /\ <<SafetySet(TRUE)>> \in Seq(Topics) /\ <<SafetySet(FALSE)>> \in Seq(Topics)
        /\ <<Cancelled>> \in Seq(Topics) /\ <<>> \in Seq(Topics)
    <3>1. <<SafetySet(TRUE)>> \in Seq(Topics)
      BY <2>1, Single
    <3>2. <<SafetySet(FALSE)>> \in Seq(Topics)
      BY <2>1, Single
    <3>3. <<Cancelled>> \in Seq(Topics)
      BY <2>1, Single
    <3>4. <<>> \in Seq(Topics)
      OBVIOUS
    <3> QED  BY <3>1, <3>2, <3>3, <3>4
  <2>3. \/ Topic(frame) = <<Cancelled>> \/ Topic(frame) = <<SafetySet(TRUE)>>
        \/ Topic(frame) = <<SafetySet(FALSE)>> \/ Topic(frame) = <<>>
    BY <1>3, Kinds DEF Topic
  <2> QED  BY <2>2, <2>3
<1> QED  BY <1>1, <1>2, <1>3

LEMMA AnswerTyped ==
    ASSUME NEW frame \in Frames \union Stops, known \in BOOLEAN \union {None}
    PROVE  Answer(frame) \in Seq(Downs)
<1>1. Engage \in Downs /\ Release \in Downs
  BY DEF Downs
<1>2. <<Engage>> \in Seq(Downs) /\ <<Release>> \in Seq(Downs) /\ <<>> \in Seq(Downs)
  BY <1>1, Single
<1>3. Answer(frame) = <<Engage>> \/ Answer(frame) = <<Release>> \/ Answer(frame) = <<>>
  BY DEF Answer, Code
<1> QED  BY <1>2, <1>3

LEMMA ResultsTyped ==
    ASSUME NEW ids \in Seq(Id) PROVE ResultFrames(ids) \in Seq(Downs)
<1>1. \A i \in 1..Len(ids) : ResultFrame(ids[i]) \in Downs
  <2> TAKE i \in 1..Len(ids)
  <2>1. ids[i] \in Id
    OBVIOUS
  <2> QED  BY <2>1 DEF ResultFrame, Downs
<1>2. ResultFrames(ids) = [i \in 1..Len(ids) |-> ResultFrame(ids[i])] /\ Len(ids) \in Nat
  BY DEF ResultFrames
<1> QED  BY <1>1, <1>2

\* One more event is one the scenario allows.
LEMMA HappensTyped == ASSUME Tallied, Happens PROVE Tallied'
<1>1. scenario.events \in Nat
  BY ScenariosAssumption DEF Tallied
<1> QED  BY <1>1 DEF Tallied, Happens

LEMMA BoardTyped ==
    ASSUME Ring, Outside, Flags, Ids, Handle \/ Elapse \/ GiveUpMotion \/ SendUp \/ Receive \/ Restart
    PROVE  Outside'
<1> USE DEF Outside
<1>1. CASE Handle
  BY <1>1, HappensTyped
     DEF Handle, Lined, Bridged, Queued, Driven, line, port, bridge, robot
<1>2. CASE Elapse
  BY <1>2 DEF Elapse, outside, Tallied, Lined, Bridged, Queued, Driven, tally, line, port, bridge, robot
<1>3. CASE GiveUpMotion
  BY <1>3 DEF GiveUpMotion, Ids, Tallied, Lined, Bridged, Queued, Driven, tally, line, port, bridge, robot
<1>4. CASE SendUp
  <2>1. Outgoing \in Frames \union Stops
    BY <1>4 DEF SendUp, Transmit, Outgoing, Ring
  <2>2. up' \in Seq(Frames \union Stops)
    BY <1>4, <2>1 DEF SendUp, Lined
  <2> QED  BY <1>4, <2>2 DEF SendUp, Tallied, Lined, Bridged, Queued, Driven, tally, port, bridge, robot
<1>5. CASE Receive
  BY <1>5 DEF Receive, Tallied, Lined, Bridged, Queued, Driven, tally, port, bridge, robot
<1>6. CASE Restart
  BY <1>6, HappensTyped DEF Restart, May, Lined, Bridged, Queued, Driven, port, bridge, robot
<1> QED  BY <1>1, <1>2, <1>3, <1>4, <1>5, <1>6

LEMMA LineTyped == ASSUME Outside, Noise \/ Unplug \/ Replug PROVE Outside'
<1> USE DEF Outside
<1>1. CASE Noise
  <2>1. Lined'
    <3>1. CASE up # <<>> /\ up' = Tail(up) /\ UNCHANGED down
      BY <3>1 DEF Lined
    <3>2. CASE down # <<>> /\ down' = Tail(down) /\ UNCHANGED up
      BY <3>2 DEF Lined
    <3> QED  BY <1>1, <3>1, <3>2 DEF Noise
  <2> QED  BY <1>1, <2>1, HappensTyped DEF Noise, May, Bridged, Queued, Driven, port, bridge, robot
<1>2. CASE Unplug
  <2>1. Disconnected \in Topics
    BY DEF Topics
  <2>2. topics' \in Seq(Topics)
    BY <1>2, <2>1 DEF Unplug, Queued
  <2>3. Lined'
    BY <1>2 DEF Unplug, Lined
  <2> QED  BY <1>2, <2>2, <2>3, HappensTyped DEF Unplug, May, Bridged, Queued, Driven, bridge, robot
<1>3. CASE Replug
  BY <1>3 DEF Replug, Tallied, Lined, Bridged, Queued, Driven, tally, line, bridge, robot
<1> QED  BY <1>1, <1>2, <1>3

LEMMA BridgeTyped ==
    ASSUME Outside, OnFrame \/ OnHeartbeat \/ TagExpires \/ OnMotionResult PROVE Outside'
<1> USE DEF Outside
<1>1. CASE OnFrame
  <2> DEFINE frame == Head(up)
  <2>1. frame \in Frames \union Stops /\ up' \in Seq(Frames \union Stops)
    BY <1>1 DEF OnFrame, Lined
  <2>2. Topic(frame) \in Seq(Topics) /\ Answer(frame) \in Seq(Downs)
    <3> HIDE DEF frame
    <3> QED  BY <2>1, TopicTyped, AnswerTyped DEF Bridged
  <2>3. ResultFrames(pending_results) \in Seq(Downs)
    BY ResultsTyped DEF Bridged
  <2>4. down' \in Seq(Downs)
    BY <1>1, <2>2, <2>3 DEF OnFrame, Lined
  <2>5. topics' \in Seq(Topics)
    BY <1>1, <2>2 DEF OnFrame, Queued
  <2>6. tag' \in BOOLEAN
    BY <1>1 DEF OnFrame, TagAfter
  <2>7. known' \in BOOLEAN \union {None}
    BY <1>1 DEF OnFrame, Bridged
  <2>8. pending_results' \in Seq(Id) /\ Len(pending_results') <= MaxPending
    BY <1>1, LimitsAssumption DEF OnFrame
  <2> QED
    BY <1>1, <2>1, <2>4, <2>5, <2>6, <2>7, <2>8
       DEF OnFrame, Tallied, Lined, Bridged, Queued, Driven, tally, robot
<1>2. CASE OnHeartbeat
  <2>1. ResultFrames(pending_results) \in Seq(Downs)
    BY ResultsTyped DEF Bridged
  <2>2. down' \in Seq(Downs)
    BY <1>2, <2>1 DEF OnHeartbeat, Lined
  <2>3. pending_results' \in Seq(Id) /\ Len(pending_results') <= MaxPending
    BY <1>2, LimitsAssumption DEF OnHeartbeat
  <2> QED
    BY <1>2, <2>2, <2>3 DEF OnHeartbeat, Tallied, Lined, Bridged, Queued, Driven, tally, robot
<1>3. CASE TagExpires
  BY <1>3 DEF TagExpires, Tallied, Lined, Bridged, Queued, Driven, tally, line, port, robot
<1>4. CASE OnMotionResult
  <2>1. Head(results) \in Id /\ results' \in Seq(Id)
    BY <1>4 DEF OnMotionResult, Queued
  <2>2. CASE plugged
    <3>1. ResultFrame(Head(results)) \in Downs
      BY <2>1 DEF ResultFrame, Downs
    <3>2. down' \in Seq(Downs)
      BY <1>4, <2>2, <3>1 DEF OnMotionResult, Lined
    <3> QED
      BY <1>4, <2>1, <2>2, <3>2
         DEF OnMotionResult, Tallied, Lined, Bridged, Queued, Driven, tally, port, robot
  <2>3. CASE ~plugged
    <3>1. pending_results' = Kept(Head(results)) /\ UNCHANGED down
      BY <1>4, <2>3 DEF OnMotionResult
    <3>2. pending_results' \in Seq(Id) /\ Len(pending_results') <= MaxPending
      BY <2>1, <3>1, LimitsAssumption DEF Kept, Bridged
    <3> QED
      BY <1>4, <2>1, <3>1, <3>2
         DEF OnMotionResult, Tallied, Lined, Bridged, Queued, Driven, tally, port, robot
  <2> QED  BY <2>2, <2>3
<1> QED  BY <1>1, <1>2, <1>3, <1>4

-----------------------------------------------------------------------------

LEMMA FinishTyped ==
    ASSUME Driven, results \in Seq(Id), active # None, Finish
    PROVE  /\ active' = None /\ results' \in Seq(Id)
           /\ completed_ids' \in SUBSET Id /\ Cardinality(completed_ids') <= CompletedLimit
<1>1. active.id \in Id
  BY DEF Driven, Published
<1>2. IsFiniteSet(Id)
  <2> DEFINE last == 65535
  <2>1. 0 \in Int /\ last \in Int
    OBVIOUS
  <2> HIDE DEF last
  <2>2. IsFiniteSet(0..last)
    BY <2>1, FS_Interval
  <2>3. Id = 0..last
    BY DEF Id, last
  <2> QED  BY <2>2, <2>3
<1>3. IsFiniteSet(completed_ids \union {active.id})
  BY <1>1, <1>2, FS_Subset DEF Driven
<1>4. Cardinality(completed_ids \union {active.id}) \in Nat /\ Cardinality({active.id}) = 1
  BY <1>3, FS_CardinalityType, FS_Singleton
<1>5. Cardinality(completed_ids') <= CompletedLimit
  BY <1>4, LimitsAssumption DEF Finish
<1> QED  BY <1>1, <1>5 DEF Finish, Driven

LEMMA StopMotionTyped ==
    ASSUME Driven, results \in Seq(Id),
           StopMotion \/ UNCHANGED <<completed_ids, results, active>>
    PROVE  /\ active' \in Published \union {None} /\ results' \in Seq(Id)
           /\ completed_ids' \in SUBSET Id /\ Cardinality(completed_ids') <= CompletedLimit
BY FinishTyped DEF StopMotion, Driven

LEMMA MessageTyped ==
    ASSUME Driven, results \in Seq(Id), NEW message \in Topics, OnMessage(message)
    PROVE  /\ active' \in Published \union {None} /\ results' \in Seq(Id)
           /\ completed_ids' \in SUBSET Id /\ Cardinality(completed_ids') <= CompletedLimit
           /\ latched' \in BOOLEAN
<1>1. /\ message.type = "request" => message \in Published
      /\ message.type = "safety" => message.latch \in BOOLEAN
      /\ message.type \in {"request", "cancel", "disconnected", "safety", "jog"}
  <2>1. CASE message \in Published
    BY <2>1 DEF Published
  <2>2. CASE message \in {Cancelled, Disconnected}
    BY <2>2 DEF Cancelled, Disconnected
  <2>3. CASE message \in {SafetySet(latch) : latch \in BOOLEAN}
    BY <2>3 DEF SafetySet
  <2>4. CASE message \in {Jogged(moving) : moving \in BOOLEAN}
    BY <2>4 DEF Jogged
  <2> QED  BY <2>1, <2>2, <2>3, <2>4 DEF Topics
<1>2. latched' \in BOOLEAN
  BY <1>1 DEF OnMessage, Driven
<1>3. CASE message.type = "request"
  <2>1. OnRequest(message)
    BY <1>3 DEF OnMessage
  <2>2. message \in Published /\ message.id \in Id
    BY <1>1, <1>3 DEF Published
  <2> QED  BY <1>2, <2>1, <2>2 DEF OnRequest, Refused, Driven
<1>4. CASE message.type # "request"
  <2>1. StopMotion \/ UNCHANGED <<completed_ids, results, active>>
    BY <1>1, <1>4 DEF OnMessage
  <2> QED  BY <1>2, <2>1, StopMotionTyped
<1> QED  BY <1>3, <1>4

LEMMA RobotTyped == ASSUME Outside, Deliver \/ Complete PROVE Outside'
<1> USE DEF Outside
<1>1. CASE Deliver
  <2>1. PICK i \in DOMAIN topics :
           /\ OnMessage(topics[i])
           /\ topics' = [j \in 1..(Len(topics) - 1) |-> IF j < i THEN topics[j] ELSE topics[j + 1]]
           /\ UNCHANGED <<app, tally, line, port, bridge, given_up>>
    BY <1>1 DEF Deliver
  <2>2. topics[i] \in Topics /\ Len(topics) \in Nat /\ i \in 1..Len(topics)
    BY DEF Queued
  <2>3. topics' \in Seq(Topics)
    <3>1. \A j \in 1..(Len(topics) - 1) :
             (IF j < i THEN topics[j] ELSE topics[j + 1]) \in Topics
      BY <2>2 DEF Queued
    <3>2. Len(topics) - 1 \in Nat
      BY <2>2
    <3> QED  BY <2>1, <3>1, <3>2
  <2> QED
    BY <2>1, <2>2, <2>3, MessageTyped
       DEF Tallied, Lined, Bridged, Queued, Driven, tally, line, port, bridge
<1>2. CASE Complete
  BY <1>2, FinishTyped
     DEF Complete, Tallied, Lined, Bridged, Queued, Driven, tally, line, port, bridge
<1> QED  BY <1>1, <1>2

\* Everything keeps its type: the rings and the ids the bridge and the executor keep
\* stay within their limits, for every room, limit and mix of disturbances.
THEOREM Typing == Spec => []TypeOK
<1>1. Init => TypeOK
  <2> SUFFICES ASSUME Init PROVE TypeOK
    OBVIOUS
  <2> USE DEF Init, AppInit
  <2>1. Flags /\ Switches
    BY DEF Flags, Switches
  <2>2. Ring /\ Ids
    <3>1. <<Hello>> \in Seq(Frames) /\ Len(<<Hello>>) <= Room /\ 0 \in Id
      BY FramesTyped, RoomAssumption DEF Id
    <3> QED  BY <3>1 DEF Ring, Ids
  <2>3. Tallied
    BY ScenariosAssumption DEF Tallied
  <2>4. Lined /\ Queued
    BY DEF Lined, Queued
  <2>5. Bridged
    <3>1. pending_results \in Seq(Id) /\ Len(pending_results) = 0
      OBVIOUS
    <3>2. Len(pending_results) <= MaxPending
      BY <3>1, LimitsAssumption
    <3>3. plugged \in BOOLEAN /\ connected \in BOOLEAN /\ tag \in BOOLEAN
      OBVIOUS
    <3> QED  BY <3>1, <3>2, <3>3 DEF Bridged
  <2>6. Driven
    <3>1. Cardinality({}) = 0
      BY FS_EmptySet
    <3>2. Cardinality(completed_ids) <= CompletedLimit
      BY <3>1, LimitsAssumption
    <3> QED  BY <3>2 DEF Driven
  <2> QED  BY <2>1, <2>2, <2>3, <2>4, <2>5, <2>6, TypeParts DEF Outside
<1>2. TypeOK /\ IInv /\ IInv' /\ [Next]_vars => TypeOK'
  <2> SUFFICES ASSUME TypeOK, IInv, IInv', [Next]_vars PROVE TypeOK'
    OBVIOUS
  <2>1. Ring /\ Ids /\ Switches /\ Outside /\ Flags
    BY TypeParts
  <2>2. (Ring /\ Ids /\ Switches)'
    BY <2>1, DialogueStepsApp, AppTyped
  <2>3. Outside'
    <3>1. CASE UNCHANGED vars
      BY <2>1, <3>1
         DEF vars, outside, Outside, Tallied, Lined, Bridged, Queued, Driven, tally, line, port,
             bridge, robot
    <3> QED  BY <2>1, <3>1, BoardTyped, LineTyped, BridgeTyped, RobotTyped DEF Next
  <2>4. Flags'
    BY DEF IInv
  <2>5. (TypeOK <=> Flags /\ Ring /\ Ids /\ Switches /\ Outside)'
    BY TypeParts, PTL
  <2> QED  BY <2>2, <2>3, <2>4, <2>5
<1> QED  BY <1>1, <1>2, Invariance, PTL DEF Spec

-----------------------------------------------------------------------------
(* Why the executor knows every escape from bright light: on each leg of its way the
   request stays behind the event that makes the bridge tag it, and where the event
   has been taken already, the tag is set. *)


Escape(frame) == frame.type = "request" /\ frame.escape

\* The event was the last thing the bridge got from the board, or will be.
EventAhead == IF up = <<>> THEN tag ELSE up[Len(up)] = BrightLight

RingPaired ==
    \A i \in DOMAIN waiting : Escape(waiting[i]) =>
        IF i = 1 THEN urgent = None /\ EventAhead ELSE waiting[i - 1] = BrightLight
LinePaired ==
    \A i \in DOMAIN up : Escape(up[i]) =>
        IF i = 1 THEN tag ELSE up[i - 1] = BrightLight
TopicsTagged ==
    \A i \in DOMAIN topics : topics[i].type = "request" /\ topics[i].escape => topics[i].tagged

Undisturbed == Without({"crowd", "noise", "unplug"})
Paired == Undisturbed => ~crowded /\ plugged /\ RingPaired /\ LinePaired /\ TopicsTagged

-----------------------------------------------------------------------------
(* The board. *)

\* The ring after a step that asks for no escape.
Calm ==
    \/ UNCHANGED ring
    \/ waiting' = <<>>
    \/ \E frame : ~Escape(frame) /\ waiting' = <<frame>>
    \/ UNCHANGED urgent /\ \E frame : ~Escape(frame) /\ waiting' = Append(waiting, frame)

LEMMA CalmFrames ==
    /\ ~Escape(Hello)
    /\ \A moving \in BOOLEAN : ~Escape(JogTo(moving))
    /\ \A id : ~Escape(RequestOf(id, FALSE))
BY DEF Escape, Hello, JogTo, RequestOf

LEMMA OfferedCalm ==
    ASSUME NEW frame, ~Escape(frame), UNCHANGED urgent, waiting' \in Offered(waiting, frame)
    PROVE  Calm
<1>1. waiting' = waiting \/ waiting' = Append(waiting, frame)
  BY DEF Offered
<1> QED  BY <1>1 DEF Calm, ring

LEMMA SettingCalm ==
    ASSUME NEW engaged, EmergencySet(engaged) PROVE Calm
BY DEF EmergencySet, SendStop, Calm

LEMMA HandlersCalm == ASSUME Handlers PROVE Calm \/ Flash
<1> USE DEF keys, remote, ring
<1>1. CASE VoiceStop \/ VoiceSleep \/ RemoteStop
  BY <1>1 DEF VoiceStop, VoiceSleep, RemoteStop, CancelMotion, SendStop, Calm
<1>2. CASE VoiceMotion
  <2>1. RequestMotion(waiting, sleeping, FALSE) /\ UNCHANGED urgent
    BY <1>2 DEF VoiceMotion
  <2>2. CASE MayMove(sleeping)
    <3>1. waiting' \in Offered(waiting, RequestOf(Following(motion_id), FALSE))
      BY <2>1, <2>2 DEF RequestMotion
    <3> QED  BY <2>1, <3>1, CalmFrames, OfferedCalm
  <2>3. CASE ~MayMove(sleeping)
    BY <2>1, <2>3 DEF RequestMotion, Calm
  <2> QED  BY <2>2, <2>3
<1>3. CASE VoiceWake \/ ShowFace \/ K3Up \/ Dark \/ GiveUp
  BY <1>3 DEF VoiceWake, ShowFace, K3Up, Dark, GiveUp, Calm
<1>4. CASE K2Short
  BY <1>4 DEF K2Short, CancelMotion, SendStop, Calm
<1>5. CASE K3Press
  BY <1>5, SettingCalm DEF K3Press
<1>6. CASE K3Long
  BY <1>6, SettingCalm DEF K3Long, Calm
<1>7. CASE Shake
  BY <1>7, SettingCalm DEF Shake
<1>8. CASE OverrideEnds
  <2>1. CASE remote_direction
    <3>1. waiting' \in Offered(waiting, JogTo(FALSE)) /\ UNCHANGED urgent
      BY <1>8, <2>1 DEF OverrideEnds
    <3> QED  BY <3>1, CalmFrames, OfferedCalm
  <2>2. CASE ~remote_direction
    BY <1>8, <2>2 DEF OverrideEnds, Calm
  <2> QED  BY <2>1, <2>2
<1>9. CASE \E moving \in BOOLEAN : RemoteKey(moving)
  <2>1. PICK moving \in BOOLEAN : RemoteKey(moving)
    BY <1>9
  <2>2. CASE sleeping \/ emergency
    BY <2>1, <2>2 DEF RemoteKey, Calm
  <2>3. CASE ~(sleeping \/ emergency) /\ motion_active
    <3>1. waiting' \in Offered(<<>>, JogTo(moving))
      BY <2>1, <2>3 DEF RemoteKey
    <3>2. waiting' = <<>> \/ waiting' = Append(<<>>, JogTo(moving))
      BY <3>1 DEF Offered
    <3>3. \A frame : Append(<<>>, frame) = <<frame>>
      OBVIOUS
    <3> QED  BY <3>2, <3>3, CalmFrames DEF Calm
  <2>4. CASE ~(sleeping \/ emergency) /\ ~motion_active
    <3>1. waiting' \in Offered(waiting, JogTo(moving)) /\ UNCHANGED urgent
      BY <2>1, <2>4 DEF RemoteKey
    <3> QED  BY <3>1, CalmFrames, OfferedCalm
  <2> QED  BY <2>2, <2>3, <2>4
<1> QED  BY <1>1, <1>2, <1>3, <1>4, <1>5, <1>6, <1>7, <1>8, <1>9 DEF Handlers

LEMMA CalmKeepsPairs ==
    ASSUME waiting \in Seq(Frames), RingPaired, Calm, UNCHANGED <<up, tag>>
    PROVE  RingPaired'
<1>1. CASE UNCHANGED ring
  BY <1>1 DEF RingPaired, EventAhead, ring
<1>2. CASE waiting' = <<>>
  BY <1>2 DEF RingPaired
<1>3. CASE \E frame : ~Escape(frame) /\ waiting' = <<frame>>
  <2>1. PICK frame : ~Escape(frame) /\ waiting' = <<frame>>
    BY <1>3
  <2> QED  BY <2>1 DEF RingPaired
<1>4. CASE UNCHANGED urgent /\ \E frame : ~Escape(frame) /\ waiting' = Append(waiting, frame)
  <2>1. PICK frame : ~Escape(frame) /\ waiting' = Append(waiting, frame)
    BY <1>4
  <2>2. UNCHANGED EventAhead
    BY DEF EventAhead
  <2> QED  BY <1>4, <2>1, <2>2 DEF RingPaired
<1> QED  BY <1>1, <1>2, <1>3, <1>4 DEF Calm

\* The event and the request enter the ring one behind the other.
LEMMA FlashKeepsPairs ==
    ASSUME waiting \in Seq(Frames), ~crowded, RingPaired, Flash, UNCHANGED <<up, tag>>
    PROVE  RingPaired'
<1>1. PICK queue \in Offered(waiting, BrightLight) : RequestMotion(queue, FALSE, TRUE)
  BY DEF Flash
<1>2. UNCHANGED <<urgent, EventAhead>> /\ ~Escape(BrightLight)
  BY DEF Flash, EventAhead, Escape, BrightLight
<1>3. queue = Append(waiting, BrightLight) \/ (queue = waiting /\ Len(waiting) = Room)
  BY DEF Offered
<1>4. waiting' = queue \/ \E frame : Len(queue) < Room /\ waiting' = Append(queue, frame)
  BY <1>1 DEF RequestMotion, Offered
<1>5. CASE waiting' = queue
  BY <1>2, <1>3, <1>5 DEF RingPaired
<1>6. CASE \E frame : Len(queue) < Room /\ waiting' = Append(queue, frame)
  <2>1. PICK frame : Len(queue) < Room /\ waiting' = Append(queue, frame)
    BY <1>6
  <2>2. queue = Append(waiting, BrightLight)
    BY <1>3, <2>1
  <2>3. waiting' = Append(Append(waiting, BrightLight), frame)
    BY <2>1, <2>2
  <2> QED  BY <1>2, <2>3 DEF RingPaired
<1> QED  BY <1>4, <1>5, <1>6

LEMMA RestartPairs ==
    ASSUME Reboot PROVE RingPaired'
<1>1. waiting' = <<Hello>>
  BY DEF Reboot
<1> QED  BY <1>1, CalmFrames DEF RingPaired

\* The head of the ring joins the end of the line.
LEMMA SendKeepsPairs ==
    ASSUME waiting \in Seq(Frames), urgent \in Stops \union {None}, up \in Seq(Frames \union Stops),
           plugged, RingPaired, LinePaired, SendUp
    PROVE  RingPaired' /\ LinePaired'
<1>1. up' = Append(up, Outgoing) /\ tag' = tag
  BY DEF SendUp, bridge
<1>2. CASE urgent # None
  <2>1. waiting' = waiting /\ ~Escape(Outgoing)
    BY <1>2 DEF SendUp, Transmit, Outgoing, Escape, Stops, Stop, Release, Engage, Cancel
  <2>2. RingPaired'
    BY <1>2, <2>1 DEF RingPaired
  <2>3. LinePaired'
    BY <1>1, <2>1 DEF LinePaired
  <2> QED  BY <2>2, <2>3
<1>3. CASE urgent = None
  <2>1. waiting # <<>> /\ Outgoing = waiting[1] /\ waiting' = Tail(waiting) /\ urgent' = None
    BY <1>3 DEF SendUp, Transmit, Outgoing
  <2>2. up'[Len(up')] = waiting[1] /\ up' # <<>>
    BY <1>1, <2>1
  <2>3. RingPaired'
    BY <2>1, <2>2 DEF RingPaired, EventAhead
  <2>4. Escape(waiting[1]) => EventAhead
    BY <2>1 DEF RingPaired
  <2>5. LinePaired'
    BY <1>1, <2>1, <2>4 DEF LinePaired, EventAhead
  <2> QED  BY <2>3, <2>5
<1> QED  BY <1>2, <1>3

LEMMA BoardPaired ==
    ASSUME TypeOK, Paired,
           Handle \/ Elapse \/ GiveUpMotion \/ SendUp \/ Receive \/ Restart
    PROVE  Paired'
<1> SUFFICES ASSUME Undisturbed'
             PROVE  (~crowded /\ plugged /\ RingPaired /\ LinePaired /\ TopicsTagged)'
  BY DEF Paired
<1>1. scenario' = scenario
  BY DEF Handle, Elapse, GiveUpMotion, SendUp, Receive, Restart, Happens, May, tally, outside
<1>2. ~crowded /\ plugged /\ RingPaired /\ LinePaired /\ TopicsTagged
  BY <1>1 DEF Paired, Undisturbed, Without
<1>3. waiting \in Seq(Frames) /\ urgent \in Stops \union {None} /\ up \in Seq(Frames \union Stops)
  BY DEF TypeOK, AppTypeOK
<1>4. crowded' = crowded
  BY DEF Handle, Elapse, GiveUpMotion, SendUp, Transmit, Receive, OnStopFrame, OnResult, Restart,
     Reboot, VoiceStop, VoiceMotion, VoiceSleep, VoiceWake, ShowFace, K2Short, K3Press, K3Long,
     K3Up, Shake, Flash, Dark, RemoteStop, RemoteKey, GiveUp, OverrideEnds
<1>5. plugged' = plugged /\ topics' = topics /\ tag' = tag
  BY DEF Handle, Elapse, GiveUpMotion, SendUp, Receive, Restart, port, bridge, outside
<1>6. TopicsTagged'
  BY <1>2, <1>5 DEF TopicsTagged
<1>7. CASE Handle \/ Elapse \/ GiveUpMotion
  <2>1. Handlers
    BY <1>7 DEF Handle, Elapse, GiveUpMotion, Handlers
  <2>2. up' = up
    BY <1>7 DEF Handle, Elapse, GiveUpMotion, line, outside
  <2>3. RingPaired'
    BY <1>2, <1>3, <1>5, <2>1, <2>2, HandlersCalm, CalmKeepsPairs, FlashKeepsPairs
  <2>4. LinePaired'
    BY <1>2, <1>5, <2>2 DEF LinePaired
  <2> QED  BY <1>2, <1>4, <1>5, <1>6, <2>3, <2>4
<1>8. CASE SendUp
  BY <1>2, <1>3, <1>4, <1>5, <1>6, <1>8, SendKeepsPairs
<1>9. CASE Receive
  <2>1. UNCHANGED <<up, waiting, urgent>>
    BY <1>9 DEF Receive, OnStopFrame, OnResult, ring
  <2> QED  BY <1>2, <1>4, <1>5, <1>6, <2>1 DEF RingPaired, LinePaired, EventAhead
<1>10. CASE Restart
  <2>1. RingPaired' /\ up' = up
    BY <1>10, RestartPairs DEF Restart
  <2> QED  BY <1>2, <1>4, <1>5, <1>6, <2>1 DEF LinePaired
<1> QED  BY <1>7, <1>8, <1>9, <1>10

-----------------------------------------------------------------------------
(* The line, the bridge and the executor. *)

LEMMA LastOfTail ==
    ASSUME NEW S, NEW queue \in Seq(S), Len(queue) > 1
    PROVE  Tail(queue) # <<>> /\ Tail(queue)[Len(Tail(queue))] = queue[Len(queue)]
<1>1. Len(queue) \in Nat /\ Len(queue) - 1 \in Nat /\ Len(queue) - 1 # 0
  <2>1. \A n \in Nat : n > 1 => n - 1 \in Nat /\ n - 1 # 0
    OBVIOUS
  <2>2. Len(queue) \in Nat
    OBVIOUS
  <2> QED  BY <2>1, <2>2
<1>2. Len(Tail(queue)) = Len(queue) - 1
  BY <1>1
<1>3. Tail(queue) # <<>>
  <2>1. Len(<<>>) = 0
    OBVIOUS
  <2> QED  BY <1>1, <1>2, <2>1
<1>4. Tail(queue)[Len(queue) - 1] = queue[Len(queue)]
  BY <1>1, <1>2
<1> QED  BY <1>2, <1>3, <1>4

LEMMA FramePaired == ASSUME TypeOK, Paired, OnFrame PROVE Paired'
<1> SUFFICES ASSUME Undisturbed'
             PROVE  (~crowded /\ plugged /\ RingPaired /\ LinePaired /\ TopicsTagged)'
  BY DEF Paired
<1>1. UNCHANGED <<scenario, crowded, plugged, waiting, urgent>>
  BY DEF OnFrame, tally, app, ring
<1>2. ~crowded /\ plugged /\ RingPaired /\ LinePaired /\ TopicsTagged
  BY <1>1 DEF Paired, Undisturbed, Without
<1>3. up \in Seq(Frames \union Stops) /\ up # <<>> /\ up' = Tail(up) /\ topics \in Seq(Topics)
  BY TypeParts DEF OnFrame, Outside, Lined, Queued
<1>4. tag' = TagAfter(up[1])
  BY DEF OnFrame
<1>5. up[1] = BrightLight => tag'
  BY <1>4 DEF TagAfter
<1>6. RingPaired'
  <2>1. ASSUME EventAhead PROVE EventAhead'
    <3>1. up[Len(up)] = BrightLight
      BY <1>3, <2>1 DEF EventAhead
    <3>2. CASE Len(up) = 1
      <4>1. up' = <<>> /\ tag'
        BY <1>3, <1>5, <3>1, <3>2
      <4> QED  BY <4>1 DEF EventAhead
    <3>3. CASE Len(up) # 1
      <4>1. up' # <<>> /\ up'[Len(up')] = up[Len(up)]
        <5>1. Len(up) \in Nat \ {0}
          BY <1>3, EmptySeq
        <5>2. Len(up) > 1
          BY <3>3, <5>1
        <5> QED  BY <1>3, <5>2, LastOfTail
      <4> QED  BY <3>1, <4>1 DEF EventAhead
    <3> QED  BY <3>2, <3>3
  <2> QED  BY <1>1, <1>2, <2>1 DEF RingPaired
<1>7. LinePaired'
  BY <1>2, <1>3, <1>5 DEF LinePaired
<1>8. TopicsTagged'
  <2>1. Escape(up[1]) => tag
    BY <1>2, <1>3 DEF LinePaired
  <2>2. topics' = topics \o Topic(up[1])
    BY DEF OnFrame
  <2>3. up[1] \in Frames \union Stops
    BY <1>3
  <2>4. Topic(up[1]) \in Seq(Topics)
    BY <2>3, TopicTyped, TypeParts DEF Outside, Bridged
  <2>5. \A i \in DOMAIN Topic(up[1]) :
           Topic(up[1])[i].type = "request" /\ Topic(up[1])[i].escape => Topic(up[1])[i].tagged
    <3>1. CASE up[1].type = "request"
      <4>1. Topic(up[1]) = <<Message(up[1], tag)>>
        BY <3>1, Kinds DEF Topic
      <4> QED  BY <2>1, <3>1, <4>1 DEF Message, Escape
    <3>2. CASE up[1].type # "request"
      <4>1. \A i \in DOMAIN Topic(up[1]) : Topic(up[1])[i].type # "request"
        BY <2>3, <3>2, Kinds
           DEF Topic, Jogged, Cancelled, SafetySet
      <4> QED  BY <4>1
    <3> QED  BY <3>1, <3>2
  <2> QED  BY <1>2, <1>3, <2>2, <2>4, <2>5 DEF TopicsTagged
<1> QED  BY <1>1, <1>2, <1>6, <1>7, <1>8

LEMMA OthersPaired ==
    ASSUME TypeOK, Paired,
           Noise \/ Unplug \/ Replug \/ OnHeartbeat \/ TagExpires \/ OnMotionResult
           \/ Deliver \/ Complete
    PROVE  Paired'
<1> SUFFICES ASSUME Undisturbed'
             PROVE  (~crowded /\ plugged /\ RingPaired /\ LinePaired /\ TopicsTagged)'
  BY DEF Paired
<1>1. scenario' = scenario
  BY DEF Noise, Unplug, Replug, OnHeartbeat, TagExpires, OnMotionResult, Deliver, Complete,
     Happens, May, tally
<1>2. ~crowded /\ plugged /\ RingPaired /\ LinePaired /\ TopicsTagged
  BY <1>1 DEF Paired, Undisturbed, Without
<1>3. waiting \in Seq(Frames) /\ up \in Seq(Frames \union Stops) /\ topics \in Seq(Topics)
  BY TypeParts DEF Outside, Lined, Queued, Ring
<1>4. ~Noise /\ ~Unplug
  BY <1>1 DEF Undisturbed, Without, Noise, Unplug, May
<1>5. UNCHANGED <<crowded, up, waiting, urgent>> /\ plugged'
  BY <1>2, <1>4
     DEF Replug, OnHeartbeat, TagExpires, OnMotionResult, Deliver, Complete, app, ring, line, port
<1>6. CASE Replug \/ OnHeartbeat \/ OnMotionResult \/ Complete
  <2>1. UNCHANGED <<topics, tag>>
    BY <1>6 DEF Replug, OnHeartbeat, OnMotionResult, Complete, bridge
  <2> QED  BY <1>2, <1>5, <2>1 DEF RingPaired, LinePaired, TopicsTagged, EventAhead
<1>7. CASE TagExpires
  <2>1. topics' = topics /\ ~OnItsWay("request")
    BY <1>7 DEF TagExpires
  <2>2. RingPaired'
    BY <1>5, <2>1 DEF RingPaired, OnItsWay, Escape
  <2>3. LinePaired'
    BY <1>5, <2>1 DEF LinePaired, OnItsWay, Escape
  <2> QED  BY <1>2, <1>5, <2>1, <2>2, <2>3 DEF TopicsTagged
<1>8. CASE Deliver
  <2>1. tag' = tag
    BY <1>8 DEF Deliver, bridge
  <2>2. PICK i \in DOMAIN topics :
           topics' = [j \in 1..(Len(topics) - 1) |-> IF j < i THEN topics[j] ELSE topics[j + 1]]
    BY <1>8 DEF Deliver
  <2>3. ASSUME NEW j \in DOMAIN topics' PROVE \E k \in DOMAIN topics : topics'[j] = topics[k]
    <3>1. j \in DOMAIN topics /\ j + 1 \in DOMAIN topics
      BY <1>3, <2>2, <2>3
    <3> QED  BY <2>2, <2>3, <3>1
  <2>4. TopicsTagged'
    BY <1>2, <2>3 DEF TopicsTagged
  <2> QED  BY <1>2, <1>5, <2>1, <2>4 DEF RingPaired, LinePaired, EventAhead
<1> QED  BY <1>4, <1>6, <1>7, <1>8

-----------------------------------------------------------------------------

THEOREM Pairing == Spec => []Paired
<1>1. Init => Paired
  <2> SUFFICES ASSUME Init, Undisturbed
               PROVE  ~crowded /\ plugged /\ RingPaired /\ LinePaired /\ TopicsTagged
    BY DEF Paired
  <2>1. ~crowded /\ plugged
    BY DEF Init, Undisturbed, Without
  <2>2. waiting = <<Hello>> /\ up = <<>> /\ topics = <<>>
    BY DEF Init, AppInit
  <2>3. RingPaired
    BY <2>2, CalmFrames DEF RingPaired
  <2> QED  BY <2>1, <2>2, <2>3 DEF LinePaired, TopicsTagged
<1>2. TypeOK /\ Paired /\ [Next]_vars => Paired'
  <2> SUFFICES ASSUME TypeOK, Paired, [Next]_vars PROVE Paired'
    OBVIOUS
  <2>1. CASE UNCHANGED vars
    BY <2>1
       DEF vars, app, ring, outside, tally, line, port, bridge, Paired, Undisturbed, Without,
           RingPaired, LinePaired, TopicsTagged, EventAhead
  <2> QED  BY <2>1, BoardPaired, FramePaired, OthersPaired DEF Next
<1> QED  BY <1>1, <1>2, Typing, PTL DEF Spec

\* The request that flees from bright light reaches the executor tagged, whatever is
\* said, pressed, jogged, locked or restarted before, between or after, and in whatever
\* order the topics are served.
THEOREM Escapes_are_tagged == Spec => []EscapesAreTagged
<1>1. Paired => EscapesAreTagged
  BY DEF Paired, Undisturbed, TopicsTagged, EscapesAreTagged
<1> QED  BY <1>1, Pairing, PTL

-----------------------------------------------------------------------------
(* The board and the robot agree on the motion, for every room of the ring, every
   limit and every mix of disturbances a property allows.

   Three invariants, each resting on the one before.  Ordered: the ids grow from the
   robot back to the board, and none is answered while it runs.  Traced: the request
   the board waits for is somewhere, or its answer is.  Accounted: every motion the
   board does not wait for has a stop behind it, a lock before it, or a time limit
   that the board saw. *)

-----------------------------------------------------------------------------
(* The ids on their way.  A request goes from the ring to the line, from the line to
   a topic, and is then running or answered; the ids grow in the other direction. *)

RequestIds(queue) == {queue[i].id : i \in {j \in DOMAIN queue : queue[j].type = "request"}}
ResultIds(queue) == {queue[i].id : i \in {j \in DOMAIN queue : queue[j].type = "result"}}
Values(queue) == {queue[i] : i \in DOMAIN queue}

Increasing(queue) ==
    \A i, j \in DOMAIN queue :
        i < j /\ queue[i].type = "request" /\ queue[j].type = "request" => queue[i].id < queue[j].id

Running == IF active = None THEN {} ELSE {active.id}
AnsweredIds ==
    completed_ids \union Values(results) \union Values(pending_results) \union ResultIds(down)
Reached == Running \union AnsweredIds

Below(A, B) == \A a \in A, b \in B : a < b
\* R before T before U before W, all of them up to n.
Chain(R, T, U, W, n) ==
    /\ R \subseteq 0..n /\ T \subseteq 0..n /\ U \subseteq 0..n /\ W \subseteq 0..n
    /\ Below(R, T) /\ Below(R, U) /\ Below(R, W)
    /\ Below(T, U) /\ Below(T, W) /\ Below(U, W)

InOrder ==
    /\ motion_id <= events /\ last_motion_id <= motion_id
    /\ Increasing(topics) /\ Increasing(up) /\ Increasing(waiting)
    /\ Chain(Reached, RequestIds(topics), RequestIds(up), RequestIds(waiting), motion_id)
    /\ Running \intersect AnsweredIds = {}

Ordered == Without({"reboot"}) => InOrder

\* As long as this holds, no id comes twice (petcargo.c counts to 65535 and starts
\* again at 1).
Unwrapped == \A s \in Scenarios : s.events < 65535

LEMMA ChainShrinks ==
    ASSUME NEW R, NEW T, NEW U, NEW W, NEW n \in Nat, Chain(R, T, U, W, n),
           NEW A, NEW B, NEW C, NEW D, NEW m \in Nat,
           A \subseteq R, B \subseteq T, C \subseteq U, D \subseteq W, n <= m
    PROVE  Chain(A, B, C, D, m)
<1>1. \A x \in 0..n : x \in 0..m
  OBVIOUS
<1> QED  BY <1>1 DEF Chain, Below

\* The next request enters the ring.
LEMMA ChainGrows ==
    ASSUME NEW R, NEW T, NEW U, NEW W, NEW n \in Nat, Chain(R, T, U, W, n)
    PROVE  Chain(R, T, U, W \union {n + 1}, n + 1)
<1>1. \A x \in 0..n : x \in 0..(n + 1) /\ x < n + 1
  OBVIOUS
<1>2. n + 1 \in 0..(n + 1)
  OBVIOUS
<1> QED  BY <1>1, <1>2 DEF Chain, Below

\* The first of one stage becomes the last of the next.
LEMMA ChainMoves ==
    ASSUME NEW R, NEW T, NEW U, NEW W, NEW n \in Nat, Chain(R, T, U, W, n), NEW first
    PROVE  /\ first \in W /\ Below({first}, W \ {first}) =>
                Chain(R, T, U \union {first}, W \ {first}, n)
           /\ first \in U /\ Below({first}, U \ {first}) =>
                Chain(R, T \union {first}, U \ {first}, W, n)
           /\ first \in T /\ Below({first}, T \ {first}) =>
                Chain(R \union {first}, T \ {first}, U, W, n)
BY DEF Chain, Below

-----------------------------------------------------------------------------
(* The queues. *)

LEMMA IdsAppended ==
    ASSUME NEW S, NEW queue \in Seq(S), NEW x
    PROVE  /\ RequestIds(Append(queue, x)) = RequestIds(queue) \union (IF x.type = "request" THEN {x.id} ELSE {})
           /\ ResultIds(Append(queue, x)) = ResultIds(queue) \union (IF x.type = "result" THEN {x.id} ELSE {})
           /\ Values(Append(queue, x)) = Values(queue) \union {x}
<1> DEFINE longer == Append(queue, x)
<1>1. Len(queue) \in Nat /\ DOMAIN queue = 1..Len(queue) /\ DOMAIN longer = 1..(Len(queue) + 1)
  OBVIOUS
<1>2. longer[Len(queue) + 1] = x /\ \A i \in DOMAIN queue : longer[i] = queue[i]
  OBVIOUS
<1>3. DOMAIN longer = DOMAIN queue \union {Len(queue) + 1}
  BY <1>1
<1> HIDE DEF longer
<1> QED  BY <1>2, <1>3 DEF RequestIds, ResultIds, Values, longer

LEMMA IdsTail ==
    ASSUME NEW S, NEW queue \in Seq(S), queue # <<>>
    PROVE  /\ RequestIds(queue) = RequestIds(Tail(queue))
                   \union (IF queue[1].type = "request" THEN {queue[1].id} ELSE {})
           /\ ResultIds(queue) = ResultIds(Tail(queue))
                   \union (IF queue[1].type = "result" THEN {queue[1].id} ELSE {})
           /\ Values(queue) = Values(Tail(queue)) \union {queue[1]}
<1> DEFINE rest == Tail(queue)
<1>1. Len(queue) \in Nat \ {0} /\ DOMAIN queue = 1..Len(queue) /\ DOMAIN rest = 1..(Len(queue) - 1)
  BY EmptySeq, HeadTailProperties
<1>2. \A i \in DOMAIN rest : i + 1 \in DOMAIN queue /\ rest[i] = queue[i + 1]
  BY <1>1, HeadTailProperties
<1>3. \A i \in DOMAIN queue : i = 1 \/ (i - 1 \in DOMAIN rest /\ rest[i - 1] = queue[i])
  BY <1>1, <1>2
<1>4. 1 \in DOMAIN queue
  BY <1>1
<1> HIDE DEF rest
<1>5. RequestIds(queue) = RequestIds(rest) \union (IF queue[1].type = "request" THEN {queue[1].id} ELSE {})
  <2>1. ASSUME NEW id \in RequestIds(queue)
        PROVE  id \in RequestIds(rest) \union (IF queue[1].type = "request" THEN {queue[1].id} ELSE {})
    BY <1>3 DEF RequestIds
  <2>2. RequestIds(rest) \subseteq RequestIds(queue)
    BY <1>2 DEF RequestIds
  <2>3. queue[1].type = "request" => queue[1].id \in RequestIds(queue)
    BY <1>4 DEF RequestIds
  <2> QED  BY <2>1, <2>2, <2>3
<1>6. ResultIds(queue) = ResultIds(rest) \union (IF queue[1].type = "result" THEN {queue[1].id} ELSE {})
  <2>1. ASSUME NEW id \in ResultIds(queue)
        PROVE  id \in ResultIds(rest) \union (IF queue[1].type = "result" THEN {queue[1].id} ELSE {})
    BY <1>3 DEF ResultIds
  <2>2. ResultIds(rest) \subseteq ResultIds(queue)
    BY <1>2 DEF ResultIds
  <2>3. queue[1].type = "result" => queue[1].id \in ResultIds(queue)
    BY <1>4 DEF ResultIds
  <2> QED  BY <2>1, <2>2, <2>3
<1>7. Values(queue) = Values(rest) \union {queue[1]}
  <2>1. ASSUME NEW id \in Values(queue) PROVE id \in Values(rest) \union {queue[1]}
    BY <1>3 DEF Values
  <2>2. Values(rest) \subseteq Values(queue)
    BY <1>2 DEF Values
  <2>3. queue[1] \in Values(queue)
    BY <1>4 DEF Values
  <2> QED  BY <2>1, <2>2, <2>3
<1> QED  BY <1>5, <1>6, <1>7 DEF rest

LEMMA IncreasingAppended ==
    ASSUME NEW S, NEW queue \in Seq(S), NEW x, Increasing(queue),
           x.type = "request" => Below(RequestIds(queue), {x.id})
    PROVE  Increasing(Append(queue, x))
<1> DEFINE longer == Append(queue, x)
<1>1. Len(queue) \in Nat /\ DOMAIN queue = 1..Len(queue) /\ DOMAIN longer = 1..(Len(queue) + 1)
  OBVIOUS
<1>2. longer[Len(queue) + 1] = x /\ \A i \in DOMAIN queue : longer[i] = queue[i]
  OBVIOUS
<1> HIDE DEF longer
<1> SUFFICES ASSUME NEW i \in DOMAIN longer, NEW j \in DOMAIN longer, i < j,
                    longer[i].type = "request", longer[j].type = "request"
             PROVE  longer[i].id < longer[j].id
  BY DEF Increasing, longer
<1>3. i \in DOMAIN queue
  BY <1>1
<1>4. CASE j \in DOMAIN queue
  BY <1>2, <1>3, <1>4 DEF Increasing
<1>5. CASE j = Len(queue) + 1
  <2>1. queue[i].id \in RequestIds(queue)
    BY <1>2, <1>3 DEF RequestIds
  <2> QED  BY <1>2, <1>3, <1>5, <2>1 DEF Below
<1> QED  BY <1>1, <1>4, <1>5

LEMMA IncreasingTail ==
    ASSUME NEW S, NEW queue \in Seq(S), queue # <<>>, Increasing(queue)
    PROVE  /\ Increasing(Tail(queue))
           /\ queue[1].type = "request" => Below({queue[1].id}, RequestIds(Tail(queue)))
<1> DEFINE rest == Tail(queue)
<1>1. Len(queue) \in Nat \ {0} /\ DOMAIN queue = 1..Len(queue) /\ DOMAIN rest = 1..(Len(queue) - 1)
  BY EmptySeq, HeadTailProperties
<1>2. \A i \in DOMAIN rest : i + 1 \in DOMAIN queue /\ 1 < i + 1 /\ rest[i] = queue[i + 1]
  BY <1>1, HeadTailProperties
<1>3. 1 \in DOMAIN queue
  BY <1>1
<1>4. \A i, j \in DOMAIN rest : i < j => i + 1 < j + 1
  BY <1>1
<1> HIDE DEF rest
<1>5. Increasing(rest)
  BY <1>2, <1>4 DEF Increasing
<1>6. queue[1].type = "request" => Below({queue[1].id}, RequestIds(rest))
  BY <1>2, <1>3 DEF Increasing, Below, RequestIds
<1> QED  BY <1>5, <1>6 DEF rest

LEMMA QuietAppended ==
    ASSUME NEW S, NEW queue \in Seq(S), NEW x, x.type # "request", Increasing(queue)
    PROVE  RequestIds(Append(queue, x)) = RequestIds(queue) /\ Increasing(Append(queue, x))
<1>1. RequestIds(Append(queue, x)) = RequestIds(queue) \union (IF x.type = "request" THEN {x.id} ELSE {})
  BY IdsAppended
<1> QED  BY <1>1, IncreasingAppended

LEMMA RequestAppended ==
    ASSUME NEW S, NEW queue \in Seq(S), NEW x, x.type = "request", Increasing(queue),
           Below(RequestIds(queue), {x.id})
    PROVE  /\ RequestIds(Append(queue, x)) = RequestIds(queue) \union {x.id}
           /\ Increasing(Append(queue, x))
<1>1. RequestIds(Append(queue, x)) = RequestIds(queue) \union (IF x.type = "request" THEN {x.id} ELSE {})
  BY IdsAppended
<1> QED  BY <1>1, IncreasingAppended

LEMMA IdsEmpty ==
    /\ RequestIds(<<>>) = {} /\ ResultIds(<<>>) = {} /\ Values(<<>>) = {} /\ Increasing(<<>>)
BY DEF RequestIds, ResultIds, Values, Increasing

-----------------------------------------------------------------------------
(* What a handler of the board may do to a motion: ask for one, ask when the ring is
   full, say something else, stop, or release the lock. *)

Halts == {Cancel, Engage}
Quiet(frame) == frame.type # "request"
Adds == waiting' = waiting \/ \E frame \in Frames : Quiet(frame) /\ waiting' = Append(waiting, frame)

Says ==
    /\ Adds /\ urgent' = urgent
    /\ (motion_active' <=> motion_active) /\ UNCHANGED <<motion_id, last_motion_id>>
AsksInVain ==
    /\ Adds /\ urgent' = urgent /\ (motion_active' <=> motion_active)
    /\ motion_id' = Following(motion_id) /\ last_motion_id' = last_motion_id
Asks ==
    /\ \E queue \in Seq(Frames) :
          /\ queue = waiting \/ queue = Append(waiting, BrightLight)
          /\ \E escape \in BOOLEAN : waiting' = Append(queue, RequestOf(Following(motion_id), escape))
    /\ urgent' = urgent
    /\ ~motion_active /\ motion_active'
    /\ motion_id' = Following(motion_id) /\ last_motion_id' = motion_id'
Halted ==
    /\ waiting' = <<>> \/ \E frame \in Frames : Quiet(frame) /\ waiting' = <<frame>>
    /\ urgent' \in Halts
    /\ ~motion_active' /\ UNCHANGED <<motion_id, last_motion_id>>
Released ==
    /\ emergency /\ ~motion_active'
    /\ waiting' = <<>> /\ urgent' = Release /\ UNCHANGED <<motion_id, last_motion_id>>

LEMMA QuietFrames ==
    /\ Hello \in Frames /\ Quiet(Hello) /\ BrightLight \in Frames /\ Quiet(BrightLight)
    /\ \A moving \in BOOLEAN : JogTo(moving) \in Frames /\ Quiet(JogTo(moving))
<1>1. \A moving \in BOOLEAN : JogTo(moving) \in Frames
  BY JogTyped
<1> QED  BY <1>1, FramesTyped DEF Quiet, Hello, BrightLight, JogTo

LEMMA OffersAdd ==
    ASSUME NEW frame \in Frames, Quiet(frame), waiting' \in Offered(waiting, frame) PROVE Adds
BY DEF Offered, Adds

LEMMA CancelHalts == ASSUME CancelMotion PROVE Halted
BY DEF CancelMotion, SendStop, Halted, Halts

LEMMA EngageHalts ==
    ASSUME EmergencySet(TRUE) PROVE Says \/ Halted
BY DEF EmergencySet, SendStop, Halted, Halts, Says, Adds, motion, ring

LEMMA RequestDeeds ==
    ASSUME Ids, NEW queue \in Seq(Frames), queue = waiting \/ queue = Append(waiting, BrightLight),
           NEW asleep, NEW escape \in BOOLEAN, RequestMotion(queue, asleep, escape), urgent' = urgent
    PROVE  Says \/ AsksInVain \/ Asks
<1>1. CASE queue = waiting'
  <2>1. Adds
    BY <1>1, QuietFrames DEF Adds
  <2>2. CASE ~MayMove(asleep)
    BY <2>1, <2>2 DEF RequestMotion, Says, motion
  <2>3. CASE MayMove(asleep)
    BY <1>1, <2>1, <2>3 DEF RequestMotion, AsksInVain
  <2> QED  BY <2>2, <2>3
<1>2. CASE queue # waiting'
  <2>1. MayMove(asleep) /\ ~motion_active
    BY <1>2 DEF RequestMotion, MayMove
  <2>2. waiting' = Append(queue, RequestOf(Following(motion_id), escape))
    BY <1>2, <2>1 DEF RequestMotion, Offered
  <2>3. motion_active' /\ motion_id' = Following(motion_id) /\ last_motion_id' = motion_id'
    BY <1>2, <2>1 DEF RequestMotion
  <2> QED  BY <2>1, <2>2, <2>3 DEF Asks
<1> QED  BY <1>1, <1>2

LEMMA HandleDeeds ==
    ASSUME TypeOK, Handle PROVE Says \/ AsksInVain \/ Asks \/ Halted
<1> USE DEF keys, remote, ring, motion
<1>0. waiting \in Seq(Frames) /\ Ids
  BY TypeParts DEF Ring
<1>1. CASE VoiceStop \/ VoiceSleep \/ RemoteStop
  BY <1>1, CancelHalts DEF VoiceStop, VoiceSleep, RemoteStop
<1>2. CASE VoiceMotion
  BY <1>0, <1>2, RequestDeeds DEF VoiceMotion
<1>3. CASE VoiceWake \/ ShowFace
  BY <1>3 DEF VoiceWake, ShowFace, Says, Adds
<1>4. CASE K2Short
  BY <1>4, CancelHalts DEF K2Short, Says, Adds
<1>5. CASE K3Press \/ Shake
  BY <1>5, EngageHalts DEF K3Press, Shake
<1>6. CASE Flash
  <2>1. PICK queue \in Offered(waiting, BrightLight) : RequestMotion(queue, FALSE, TRUE)
    BY <1>6 DEF Flash
  <2>2. queue = waiting \/ queue = Append(waiting, BrightLight)
    BY DEF Offered
  <2>3. queue \in Seq(Frames)
    BY <1>0, <2>2, QuietFrames
  <2> QED  BY <1>0, <1>6, <2>1, <2>2, <2>3, RequestDeeds DEF Flash
<1>7. CASE \E moving \in BOOLEAN : RemoteKey(moving)
  <2>1. PICK moving \in BOOLEAN : RemoteKey(moving)
    BY <1>7
  <2>2. JogTo(moving) \in Frames /\ Quiet(JogTo(moving))
    BY QuietFrames
  <2>3. CASE sleeping \/ emergency
    BY <2>1, <2>3 DEF RemoteKey, Says, Adds
  <2>4. CASE ~(sleeping \/ emergency) /\ ~motion_active
    <3>1. waiting' \in Offered(waiting, JogTo(moving)) /\ UNCHANGED <<motion_active, urgent>>
      BY <2>1, <2>4 DEF RemoteKey
    <3> QED  BY <2>1, <2>2, <2>4, <3>1, OffersAdd DEF RemoteKey, Says
  <2>5. CASE ~(sleeping \/ emergency) /\ motion_active
    <3>1. waiting' \in Offered(<<>>, JogTo(moving)) /\ ~motion_active' /\ urgent' = Cancel
      BY <2>1, <2>5 DEF RemoteKey
    <3>2. waiting' = <<>> \/ waiting' = <<JogTo(moving)>>
      <4>1. \A frame : Append(<<>>, frame) = <<frame>>
        OBVIOUS
      <4>2. waiting' = <<>> \/ waiting' = Append(<<>>, JogTo(moving))
        BY <3>1 DEF Offered
      <4> QED  BY <4>1, <4>2
    <3> QED  BY <2>1, <2>2, <2>5, <3>1, <3>2 DEF RemoteKey, Halted, Halts
  <2> QED  BY <2>3, <2>4, <2>5
<1> QED  BY <1>1, <1>2, <1>3, <1>4, <1>5, <1>6, <1>7 DEF Handle

LEMMA ElapseDeeds ==
    ASSUME Elapse PROVE Says \/ (Released /\ Settled)
<1> USE DEF keys, remote, ring, motion
<1>1. CASE K3Up \/ Dark
  BY <1>1 DEF K3Up, Dark, Says, Adds
<1>2. CASE OverrideEnds
  <2>1. waiting' = waiting \/ waiting' \in Offered(waiting, JogTo(FALSE))
    BY <1>2 DEF OverrideEnds
  <2>2. Adds
    BY <2>1, OffersAdd, QuietFrames DEF Adds
  <2> QED  BY <1>2, <2>2 DEF OverrideEnds, Says
<1>3. CASE K3Long /\ Settled
  BY <1>3 DEF K3Long, EmergencySet, SendStop, Says, Adds, Released
<1> QED  BY <1>1, <1>2, <1>3 DEF Elapse

-----------------------------------------------------------------------------
(* The order is kept. *)

LEMMA IdBounds ==
    ASSUME TypeOK, InOrder, Unwrapped
    PROVE  /\ motion_id \in Nat /\ events \in Nat /\ last_motion_id \in Nat
           /\ scenario.events \in Nat /\ scenario.events < 65535
<1>0. Tallied /\ Ids
  BY TypeParts DEF Outside
<1>1. scenario \in Scenarios /\ events \in 0..scenario.events
  BY <1>0 DEF Tallied
<1>3. motion_id \in Nat /\ last_motion_id \in Nat
  <2>1. \A last \in Nat : 0..last \subseteq Nat
    OBVIOUS
  <2>2. Id \subseteq Nat
    BY <2>1 DEF Id
  <2> QED  BY <1>0, <2>2 DEF Ids
<1>2. scenario.events \in Nat
  BY <1>1, ScenariosAssumption
<1> QED  BY <1>1, <1>2, <1>3 DEF Unwrapped

LEMMA AddsKeep ==
    ASSUME waiting \in Seq(Frames), Adds
    PROVE  /\ RequestIds(waiting') = RequestIds(waiting)
           /\ Increasing(waiting) => Increasing(waiting')
<1>1. CASE waiting' = waiting
  BY <1>1
<1>2. CASE \E frame \in Frames : Quiet(frame) /\ waiting' = Append(waiting, frame)
  <2>1. PICK frame \in Frames : Quiet(frame) /\ waiting' = Append(waiting, frame)
    BY <1>2
  <2> QED  BY <2>1, IdsAppended, IncreasingAppended DEF Quiet
<1> QED  BY <1>1, <1>2 DEF Adds

LEMMA HaltedEmpties ==
    ASSUME Halted \/ Released PROVE RequestIds(waiting') = {} /\ Increasing(waiting')
<1>1. CASE waiting' = <<>>
  BY <1>1, IdsEmpty
<1>2. CASE \E frame \in Frames : Quiet(frame) /\ waiting' = <<frame>>
  <2>1. PICK frame \in Frames : Quiet(frame) /\ waiting' = <<frame>>
    BY <1>2
  <2> QED  BY <2>1 DEF RequestIds, Increasing, Quiet
<1> QED  BY <1>1, <1>2 DEF Halted, Released

LEMMA AsksAppends ==
    ASSUME waiting \in Seq(Frames), Asks
    PROVE  /\ RequestIds(waiting') = RequestIds(waiting) \union {motion_id'}
           /\ Increasing(waiting) /\ Below(RequestIds(waiting), {motion_id'}) => Increasing(waiting')
<1>1. PICK queue \in Seq(Frames), escape \in BOOLEAN :
         /\ queue = waiting \/ queue = Append(waiting, BrightLight)
         /\ waiting' = Append(queue, RequestOf(motion_id', escape))
  BY DEF Asks
<1>2. RequestIds(queue) = RequestIds(waiting) /\ (Increasing(waiting) => Increasing(queue))
  <2>1. CASE queue = waiting
    BY <2>1
  <2>2. CASE queue = Append(waiting, BrightLight)
    <3>1. BrightLight.type # "request"
      BY QuietFrames DEF Quiet
    <3>2. RequestIds(Append(waiting, BrightLight)) = RequestIds(waiting)
      BY <3>1, IdsAppended
    <3>3. Increasing(waiting) => Increasing(Append(waiting, BrightLight))
      BY <3>1, IncreasingAppended
    <3> QED  BY <2>2, <3>2, <3>3
  <2> QED  BY <1>1, <2>1, <2>2
<1>3. RequestOf(motion_id', escape).type = "request" /\ RequestOf(motion_id', escape).id = motion_id'
  BY DEF RequestOf
<1> HIDE DEF RequestOf
<1> QED  BY <1>1, <1>2, <1>3, IdsAppended, IncreasingAppended

LEMMA ReachedSame ==
    ASSUME UNCHANGED <<active, completed_ids, results, pending_results, down>>
    PROVE  Running' = Running /\ AnsweredIds' = AnsweredIds /\ Reached' = Reached
BY DEF Running, AnsweredIds, Reached

LEMMA HandleOrdered == ASSUME TypeOK, InOrder, Unwrapped, Handle PROVE InOrder'
<1>1. waiting \in Seq(Frames) /\ events < scenario.events /\ events' = events + 1
  BY TypeParts DEF Handle, Happens, Ring
<1>2. /\ UNCHANGED <<topics, up>> /\ Running' = Running /\ AnsweredIds' = AnsweredIds
      /\ Reached' = Reached
  BY ReachedSame DEF Handle, line, bridge, robot
<1>3. /\ motion_id \in Nat /\ events \in Nat /\ last_motion_id \in Nat
      /\ motion_id <= events /\ last_motion_id <= motion_id /\ events < 65535
  BY <1>1, IdBounds DEF InOrder
<1>4. Following(motion_id) = motion_id + 1
  BY <1>3 DEF Following
<1>5. Chain(Reached, RequestIds(topics), RequestIds(up), RequestIds(waiting), motion_id)
  BY DEF InOrder
<1>6. motion_id + 1 \in Nat /\ motion_id <= motion_id + 1 /\ motion_id + 1 <= events'
  BY <1>1, <1>3
<1>7. CASE Says \/ AsksInVain
  <2>1. RequestIds(waiting') = RequestIds(waiting) /\ Increasing(waiting')
    BY <1>1, <1>7, AddsKeep DEF Says, AsksInVain, InOrder
  <2>2. last_motion_id' = last_motion_id /\ motion_id' \in {motion_id, motion_id + 1}
    BY <1>4, <1>7 DEF Says, AsksInVain
  <2>3. motion_id' \in Nat /\ motion_id <= motion_id' /\ motion_id' <= events' /\ last_motion_id' <= motion_id'
    BY <1>1, <1>3, <2>2
  <2>4. Chain(Reached, RequestIds(topics), RequestIds(up), RequestIds(waiting'), motion_id')
    BY <1>3, <1>5, <2>1, <2>3, ChainShrinks
  <2> QED  BY <1>2, <2>1, <2>3, <2>4 DEF InOrder
<1>8. CASE Asks
  <2>1. motion_id' = motion_id + 1 /\ last_motion_id' = motion_id'
    BY <1>4, <1>8 DEF Asks
  <2>2. Below(RequestIds(waiting), {motion_id'})
    BY <1>3, <1>5, <2>1 DEF Chain, Below
  <2>3. RequestIds(waiting') = RequestIds(waiting) \union {motion_id'} /\ Increasing(waiting')
    BY <1>1, <1>8, <2>2, AsksAppends DEF InOrder
  <2>4. Chain(Reached, RequestIds(topics), RequestIds(up), RequestIds(waiting'), motion_id')
    BY <1>3, <1>5, <2>1, <2>3, ChainGrows
  <2>5. motion_id' <= events' /\ last_motion_id' <= motion_id'
    BY <1>3, <1>6, <2>1
  <2> QED  BY <1>2, <2>3, <2>4, <2>5 DEF InOrder
<1>9. CASE Halted
  <2>1. RequestIds(waiting') = {} /\ Increasing(waiting')
    BY <1>9, HaltedEmpties
  <2>2. UNCHANGED <<motion_id, last_motion_id>> /\ motion_id <= events'
    BY <1>1, <1>3, <1>9 DEF Halted
  <2>3. Chain(Reached, RequestIds(topics), RequestIds(up), RequestIds(waiting'), motion_id')
    BY <1>3, <1>5, <2>1, <2>2, ChainShrinks
  <2> QED  BY <1>2, <1>3, <2>1, <2>2, <2>3 DEF InOrder
<1> QED  BY <1>7, <1>8, <1>9, HandleDeeds

LEMMA ElapseOrdered == ASSUME TypeOK, InOrder, Unwrapped, Elapse PROVE InOrder'
<1>1. waiting \in Seq(Frames) /\ motion_id \in Nat
  BY TypeParts, IdBounds DEF Ring
<1>2. /\ UNCHANGED <<topics, up, events>> /\ Running' = Running /\ AnsweredIds' = AnsweredIds
      /\ Reached' = Reached
  BY ReachedSame DEF Elapse, outside, line, bridge, robot, tally
<1>3. RequestIds(waiting') \subseteq RequestIds(waiting) /\ Increasing(waiting')
  BY <1>1, ElapseDeeds, AddsKeep, HaltedEmpties DEF Says, InOrder
<1>4. UNCHANGED <<motion_id, last_motion_id>>
  BY ElapseDeeds DEF Says, Released
<1>5. Chain(Reached, RequestIds(topics), RequestIds(up), RequestIds(waiting'), motion_id)
  BY <1>1, <1>3, ChainShrinks DEF InOrder
<1> QED  BY <1>2, <1>3, <1>4, <1>5 DEF InOrder

LEMMA SendUpOrdered == ASSUME TypeOK, InOrder, Unwrapped, SendUp PROVE InOrder'
<1>1. /\ waiting \in Seq(Frames) /\ up \in Seq(Frames \union Stops) /\ motion_id \in Nat
      /\ urgent \in Stops \union {None}
  BY TypeParts, IdBounds DEF Ring, Outside, Lined
<1>2. /\ UNCHANGED <<topics, events, motion_id, last_motion_id>> /\ Running' = Running
      /\ AnsweredIds' = AnsweredIds /\ Reached' = Reached
  BY ReachedSame DEF SendUp, Transmit, bridge, robot, tally, motion
<1>3. CASE urgent # None
  <2>1. waiting' = waiting /\ (up' = up \/ up' = Append(up, urgent))
    BY <1>3 DEF SendUp, Transmit, Outgoing
  <2>2. urgent.type # "request"
    BY <1>1, <1>3, Kinds DEF Stops
  <2>3. RequestIds(up') = RequestIds(up) /\ Increasing(up')
    <3>1. Increasing(up)
      BY DEF InOrder
    <3> QED  BY <1>1, <2>1, <2>2, <3>1, QuietAppended
  <2> QED  BY <1>2, <2>1, <2>3 DEF InOrder
<1>4. CASE urgent = None
  <2>1. waiting # <<>> /\ waiting' = Tail(waiting) /\ (up' = up \/ up' = Append(up, waiting[1]))
    BY <1>4 DEF SendUp, Transmit, Outgoing
  <2>2. /\ RequestIds(waiting) = RequestIds(waiting')
                \union (IF waiting[1].type = "request" THEN {waiting[1].id} ELSE {})
        /\ Increasing(waiting')
        /\ waiting[1].type = "request" => Below({waiting[1].id}, RequestIds(waiting'))
    BY <1>1, <2>1, IdsTail, IncreasingTail DEF InOrder
  <2>3. CASE up' = up
    <3>1. Chain(Reached, RequestIds(topics), RequestIds(up), RequestIds(waiting'), motion_id)
      BY <1>1, <2>2, ChainShrinks DEF InOrder
    <3> QED  BY <1>2, <2>2, <2>3, <3>1 DEF InOrder
  <2>4. CASE up' = Append(up, waiting[1]) /\ waiting[1].type # "request"
    <3>1. Increasing(up)
      BY DEF InOrder
    <3>2. RequestIds(up') = RequestIds(up) /\ Increasing(up')
      BY <1>1, <2>4, <3>1, QuietAppended
    <3> QED  BY <1>2, <2>2, <2>4, <3>1, <3>2 DEF InOrder
  <2>5. CASE up' = Append(up, waiting[1]) /\ waiting[1].type = "request"
    <3> DEFINE id == waiting[1].id
    <3>1. RequestIds(up') = RequestIds(up) \union {id} /\ RequestIds(waiting) = RequestIds(waiting') \union {id}
      BY <1>1, <2>2, <2>5, IdsAppended
    <3>2. Below(RequestIds(up), {id})
      BY <3>1 DEF InOrder, Chain, Below
    <3>3. Increasing(up')
      BY <1>1, <2>5, <3>2, IncreasingAppended DEF InOrder
    <3>4. Chain(Reached, RequestIds(topics), RequestIds(up'), RequestIds(waiting'), motion_id)
      BY <2>2, <2>5, <3>1 DEF InOrder, Chain, Below
    <3> QED  BY <1>2, <2>2, <3>3, <3>4 DEF InOrder
  <2> QED  BY <2>1, <2>3, <2>4, <2>5
<1> QED  BY <1>3, <1>4

LEMMA ReceiveOrdered == ASSUME TypeOK, InOrder, Unwrapped, Receive PROVE InOrder'
<1>1. down \in Seq(Downs) /\ motion_id \in Nat
  BY TypeParts, IdBounds DEF Outside, Lined
<1>2. UNCHANGED <<topics, up, waiting, events, motion_id, last_motion_id>>
  BY DEF Receive, OnStopFrame, OnResult, tally, ring
<1>3. Running' = Running /\ AnsweredIds' \subseteq AnsweredIds
  <2>1. down # <<>> /\ down' = Tail(down)
    BY DEF Receive
  <2>2. ResultIds(down') \subseteq ResultIds(down)
    BY <1>1, <2>1, IdsTail
  <2>3. UNCHANGED <<active, completed_ids, results, pending_results>>
    BY DEF Receive, bridge, robot
  <2> QED  BY <2>2, <2>3 DEF Running, AnsweredIds
<1>4. Reached' \subseteq Reached
  BY <1>3 DEF Reached
<1>5. Chain(Reached', RequestIds(topics), RequestIds(up), RequestIds(waiting), motion_id)
  BY <1>1, <1>4, ChainShrinks DEF InOrder
<1> QED  BY <1>2, <1>3, <1>5 DEF InOrder

-----------------------------------------------------------------------------
(* What the bridge makes of a frame and of a result. *)

LEMMA ValuesJoined ==
    ASSUME NEW S, NEW queue \in Seq(S), NEW more \in Seq(S)
    PROVE  /\ Values(queue \o more) = Values(queue) \union Values(more)
           /\ ResultIds(queue \o more) = ResultIds(queue) \union ResultIds(more)
<1> DEFINE both == queue \o more
<1>1. /\ Len(queue) \in Nat /\ Len(more) \in Nat
      /\ DOMAIN queue = 1..Len(queue) /\ DOMAIN more = 1..Len(more)
      /\ both \in Seq(S) /\ Len(both) = Len(queue) + Len(more)
      /\ \A i \in 1..(Len(queue) + Len(more)) :
            both[i] = IF i <= Len(queue) THEN queue[i] ELSE more[i - Len(queue)]
  BY ConcatProperties, LenProperties
<1>2. DOMAIN both = 1..(Len(queue) + Len(more))
  BY <1>1, LenProperties
<1>3. \A i \in DOMAIN queue : i \in DOMAIN both /\ both[i] = queue[i]
  BY <1>1, <1>2
<1>4. \A i \in DOMAIN more : i + Len(queue) \in DOMAIN both /\ both[i + Len(queue)] = more[i]
  <2> TAKE i \in DOMAIN more
  <2>1. i \in Nat /\ 1 <= i /\ i <= Len(more)
    BY <1>1
  <2>2. i + Len(queue) \in 1..(Len(queue) + Len(more)) /\ ~(i + Len(queue) <= Len(queue))
    BY <1>1, <2>1
  <2>3. (i + Len(queue)) - Len(queue) = i
    BY <1>1, <2>1
  <2> QED  BY <1>1, <1>2, <2>2, <2>3
<1>5. \A i \in DOMAIN both : \/ i \in DOMAIN queue /\ both[i] = queue[i]
                             \/ i - Len(queue) \in DOMAIN more /\ both[i] = more[i - Len(queue)]
  BY <1>1, <1>2
<1> HIDE DEF both
<1>6. Values(both) = Values(queue) \union Values(more)
  BY <1>3, <1>4, <1>5 DEF Values
<1>7. ResultIds(both) = ResultIds(queue) \union ResultIds(more)
  BY <1>3, <1>4, <1>5 DEF ResultIds
<1> QED  BY <1>6, <1>7 DEF both

LEMMA ResultsFramed ==
    ASSUME NEW ids \in Seq(Id)
    PROVE  ResultIds(ResultFrames(ids)) = Values(ids) /\ Engage \notin Values(ResultFrames(ids))
BY DEF ResultFrames, ResultFrame, ResultIds, Values, Engage, Stop

LEMMA AnswerSays ==
    ASSUME NEW frame
    PROVE  /\ ResultIds(Answer(frame)) = {}
           /\ Engage \in Values(Answer(frame)) =>
                 frame = Engage \/ (frame.type = "hello" /\ known = TRUE)
<1>1. /\ Answer(frame) = <<>> \/ Answer(frame) = <<Release>> \/ Answer(frame) = <<Engage>>
      /\ Answer(frame) = <<Engage>> => frame = Engage \/ (frame.type = "hello" /\ known = TRUE)
  <2>1. CASE frame.type = "hello" /\ known # None
    <3>1. Answer(frame) = <<Code(known)>> /\ (Code(known) = Engage \/ Code(known) = Release)
      BY <2>1, Kinds DEF Answer, Code
    <3>2. Code(known) = Engage => known = TRUE
      BY Kinds DEF Code
    <3> QED  BY <2>1, <3>1, <3>2
  <2>2. CASE ~(frame.type = "hello" /\ known # None) /\ frame \in {Engage, Release}
    BY <2>2 DEF Answer
  <2>3. CASE ~(frame.type = "hello" /\ known # None) /\ frame \notin {Engage, Release}
    <3>1. Answer(frame) = <<>>
      BY <2>3 DEF Answer
    <3> QED  BY <3>1
  <2> QED  BY <2>1, <2>2, <2>3
<1>2. ResultIds(<<Release>>) = {} /\ ResultIds(<<Engage>>) = {}
  BY Kinds DEF ResultIds
<1>3. Engage \notin Values(<<Release>>) /\ Engage \notin Values(<<>>)
  BY Kinds DEF Values
<1> QED  BY <1>1, <1>2, <1>3, IdsEmpty

LEMMA DownAfter ==
    ASSUME TypeOK, OnFrame \/ OnHeartbeat
    PROVE  /\ ResultIds(down') = ResultIds(down) \union Values(pending_results)
           /\ pending_results' = <<>>
           /\ Engage \in Values(down') =>
                 \/ Engage \in Values(down)
                 \/ up[1] = Engage \/ (up[1].type = "hello" /\ known = TRUE)
           /\ OnHeartbeat /\ Engage \in Values(down') => Engage \in Values(down)
<1>1. /\ down \in Seq(Downs) /\ pending_results \in Seq(Id) /\ up \in Seq(Frames \union Stops)
      /\ known \in BOOLEAN \union {None}
  BY TypeParts DEF Outside, Lined, Bridged
<1> DEFINE kept == ResultFrames(pending_results)
<1>2. kept \in Seq(Downs) /\ ResultIds(kept) = Values(pending_results) /\ Engage \notin Values(kept)
  BY <1>1, ResultsTyped, ResultsFramed
<1> HIDE DEF kept
<1> DEFINE joined == down \o kept
<1>3. /\ joined \in Seq(Downs)
      /\ Values(joined) = Values(down) \union Values(kept)
      /\ ResultIds(joined) = ResultIds(down) \union ResultIds(kept)
  BY <1>1, <1>2, ValuesJoined, ConcatProperties
<1>4. CASE OnHeartbeat
  BY <1>2, <1>3, <1>4 DEF OnHeartbeat, kept
<1>5. CASE OnFrame /\ ~OnHeartbeat
  <2> DEFINE answer == Answer(up[1])
  <2>1. up # <<>> /\ down' = joined \o answer /\ pending_results' = <<>>
    BY <1>5 DEF OnFrame, kept
  <2>2. up[1] \in Frames \union Stops
    BY <1>1, <2>1
  <2>3. answer \in Seq(Downs)
    BY <1>1, <2>2, AnswerTyped
  <2>4. /\ ResultIds(answer) = {}
        /\ Engage \in Values(answer) => up[1] = Engage \/ (up[1].type = "hello" /\ known = TRUE)
    BY AnswerSays
  <2> HIDE DEF answer, joined
  <2>5. /\ Values(down') = Values(joined) \union Values(answer)
        /\ ResultIds(down') = ResultIds(joined) \union ResultIds(answer)
    BY <1>3, <2>1, <2>3, ValuesJoined
  <2> QED  BY <1>2, <1>3, <1>5, <2>1, <2>4, <2>5
<1> QED  BY <1>4, <1>5

LEMMA TopicsAfter ==
    ASSUME TypeOK, OnFrame
    PROVE  /\ up[1].type = "request" => topics' = Append(topics, Message(up[1], tag))
           /\ up[1].type = "jog" => topics' = Append(topics, Jogged(up[1].moving))
           /\ up[1] = Cancel => topics' = Append(topics, Cancelled)
           /\ up[1] = Engage => topics' = Append(topics, SafetySet(TRUE))
           /\ up[1] = Release => topics' = Append(topics, SafetySet(FALSE))
           /\ up[1].type \notin {"request", "jog"} /\ up[1] \notin Stops => topics' = topics
<1>1. topics' = topics \o Topic(up[1]) /\ topics \in Seq(Topics)
  BY TypeParts DEF OnFrame, Outside, Queued
<1>2. \A m : topics \o <<m>> = Append(topics, m)
  BY <1>1
<1>3. topics \o <<>> = topics
  BY <1>1
<1>4. /\ up[1].type = "request" => Topic(up[1]) = <<Message(up[1], tag)>>
      /\ up[1].type = "jog" => Topic(up[1]) = <<Jogged(up[1].moving)>>
      /\ up[1] = Cancel => Topic(up[1]) = <<Cancelled>>
      /\ up[1] = Engage => Topic(up[1]) = <<SafetySet(TRUE)>>
      /\ up[1] = Release => Topic(up[1]) = <<SafetySet(FALSE)>>
      /\ up[1].type \notin {"request", "jog"} /\ up[1] \notin Stops => Topic(up[1]) = <<>>
  BY Kinds DEF Topic, Stops
<1> QED  BY <1>1, <1>2, <1>3, <1>4

LEMMA QuietTopics ==
    /\ Cancelled.type # "request" /\ Disconnected.type # "request"
    /\ \A latch : SafetySet(latch).type # "request"
    /\ \A moving : Jogged(moving).type # "request"
BY DEF Cancelled, Disconnected, SafetySet, Jogged

LEMMA FrameOrdered == ASSUME TypeOK, InOrder, Unwrapped, OnFrame PROVE InOrder'
<1>1. /\ up \in Seq(Frames \union Stops) /\ up # <<>> /\ up' = Tail(up) /\ topics \in Seq(Topics)
      /\ motion_id \in Nat /\ Increasing(topics) /\ Increasing(up)
  BY TypeParts, IdBounds DEF OnFrame, InOrder, Outside, Lined, Queued
<1>2. /\ UNCHANGED <<waiting, events, motion_id, last_motion_id>>
      /\ UNCHANGED <<active, completed_ids, results>>
  BY DEF OnFrame, app, ring, motion, tally, robot
<1>3. ResultIds(down') = ResultIds(down) \union Values(pending_results) /\ Values(pending_results') = {}
  BY DownAfter, IdsEmpty
<1>4. Running' = Running /\ AnsweredIds' = AnsweredIds /\ Reached' = Reached
  BY <1>2, <1>3 DEF Running, AnsweredIds, Reached
<1>5. /\ RequestIds(up) = RequestIds(up')
                \union (IF up[1].type = "request" THEN {up[1].id} ELSE {})
      /\ Increasing(up')
      /\ up[1].type = "request" => Below({up[1].id}, RequestIds(up'))
  BY <1>1, IdsTail, IncreasingTail
<1>6. CASE up[1].type = "request"
  <2> DEFINE id == up[1].id
  <2>1. RequestIds(up) = RequestIds(up') \union {id} /\ Below({id}, RequestIds(up'))
    BY <1>5, <1>6
  <2>2. Below(RequestIds(topics), {id})
    BY <2>1 DEF InOrder, Chain, Below
  <2>3. Message(up[1], tag).type = "request" /\ Message(up[1], tag).id = id
    BY DEF Message
  <2>4. topics' = Append(topics, Message(up[1], tag))
    BY <1>6, TopicsAfter
  <2> HIDE DEF id
  <2>5. RequestIds(topics') = RequestIds(topics) \union {id} /\ Increasing(topics')
    BY <1>1, <2>2, <2>3, <2>4, RequestAppended
  <2>6. Chain(Reached, RequestIds(topics'), RequestIds(up'), RequestIds(waiting), motion_id)
    BY <2>1, <2>5 DEF InOrder, Chain, Below
  <2> QED  BY <1>2, <1>4, <1>5, <2>5, <2>6 DEF InOrder
<1>7. CASE up[1].type # "request"
  <2>1. RequestIds(topics') = RequestIds(topics) /\ Increasing(topics')
    <3>1. topics' = topics \/ \E m : m.type # "request" /\ topics' = Append(topics, m)
      BY <1>7, TopicsAfter, QuietTopics DEF Stops
    <3> QED  BY <1>1, <3>1, QuietAppended
  <2>2. Chain(Reached, RequestIds(topics'), RequestIds(up'), RequestIds(waiting), motion_id)
    BY <1>1, <1>5, <2>1, ChainShrinks DEF InOrder
  <2> QED  BY <1>2, <1>4, <1>5, <2>1, <2>2 DEF InOrder
<1> QED  BY <1>6, <1>7

LEMMA KeptValues ==
    ASSUME TypeOK, NEW id \in Id PROVE Values(Kept(id)) \subseteq Values(pending_results) \union {id}
<1>1. pending_results \in Seq(Id)
  BY TypeParts DEF Outside, Bridged
<1> DEFINE all == Append(pending_results, id)
<1>2. all \in Seq(Id) /\ all # <<>>
  <2>1. all \in Seq(Id) /\ Len(all) = Len(pending_results) + 1 /\ Len(pending_results) \in Nat
    BY <1>1
  <2> HIDE DEF all
  <2> QED  BY <2>1, EmptySeq
<1>3. Values(all) = Values(pending_results) \union {id}
  BY <1>1, IdsAppended
<1> HIDE DEF all
<1>4. Values(Tail(all)) \subseteq Values(all)
  BY <1>2, IdsTail
<1> QED  BY <1>3, <1>4 DEF Kept, all

LEMMA AnswersKept ==
    ASSUME TypeOK, OnHeartbeat \/ OnMotionResult \/ TagExpires
    PROVE  Running' = Running /\ AnsweredIds' \subseteq AnsweredIds
<1>1. Running' = Running /\ completed_ids' = completed_ids
  BY DEF OnHeartbeat, OnMotionResult, TagExpires, robot, Running
<1>2. CASE OnHeartbeat
  <2>1. ResultIds(down') = ResultIds(down) \union Values(pending_results) /\ Values(pending_results') = {}
    BY <1>2, DownAfter, IdsEmpty
  <2>2. results' = results
    BY <1>2 DEF OnHeartbeat
  <2> QED  BY <1>1, <2>1, <2>2 DEF AnsweredIds
<1>3. CASE OnMotionResult
  <2>1. results # <<>> /\ results' = Tail(results) /\ results \in Seq(Id) /\ down \in Seq(Downs)
    BY <1>3, TypeParts DEF OnMotionResult, Outside, Queued, Lined
  <2> DEFINE id == results[1]
  <2>2. Values(results) = Values(results') \union {id} /\ id \in Id
    BY <2>1, IdsTail
  <2>3. IF plugged THEN down' = Append(down, ResultFrame(id)) /\ UNCHANGED pending_results
        ELSE pending_results' = Kept(id) /\ UNCHANGED down
    BY <1>3, <2>1 DEF OnMotionResult
  <2>4. ResultFrame(id).type = "result" /\ ResultFrame(id).id = id
    BY DEF ResultFrame
  <2> HIDE DEF id
  <2>5. ResultIds(Append(down, ResultFrame(id))) = ResultIds(down) \union {id}
    <3>1. ResultIds(Append(down, ResultFrame(id))) = ResultIds(down)
             \union (IF ResultFrame(id).type = "result" THEN {ResultFrame(id).id} ELSE {})
      BY <2>1, IdsAppended
    <3> QED  BY <2>4, <3>1
  <2>6. Values(Kept(id)) \subseteq Values(pending_results) \union {id}
    BY <2>2, KeptValues
  <2> QED  BY <1>1, <2>2, <2>3, <2>5, <2>6 DEF AnsweredIds
<1>4. CASE TagExpires
  BY <1>4 DEF TagExpires, line, robot, Running, AnsweredIds
<1> QED  BY <1>2, <1>3, <1>4, <1>1

LEMMA BridgeOrdered ==
    ASSUME TypeOK, InOrder, Unwrapped, OnHeartbeat \/ OnMotionResult \/ TagExpires \/ Replug PROVE InOrder'
<1>1. UNCHANGED <<topics, up, waiting, events, motion_id, last_motion_id>>
  BY DEF OnHeartbeat, OnMotionResult, TagExpires, Replug, app, ring, motion, tally, line
<1>2. Running' = Running /\ AnsweredIds' \subseteq AnsweredIds
  BY AnswersKept DEF Replug, line, bridge, robot, Running, AnsweredIds
<1>3. Reached' \subseteq Reached
  BY <1>2 DEF Reached
<1>4. Chain(Reached', RequestIds(topics), RequestIds(up), RequestIds(waiting), motion_id)
  BY <1>3, IdBounds, ChainShrinks DEF InOrder
<1> QED  BY <1>1, <1>2, <1>4 DEF InOrder

LEMMA LossOrdered ==
    ASSUME TypeOK, InOrder, Unwrapped, Noise \/ Unplug PROVE InOrder'
<1>1. /\ up \in Seq(Frames \union Stops) /\ down \in Seq(Downs) /\ topics \in Seq(Topics)
      /\ Increasing(up) /\ Increasing(topics)
      /\ motion_id \in Nat /\ events \in Nat /\ motion_id <= events
  BY TypeParts, IdBounds DEF Outside, Lined, Queued, InOrder
<1>2. /\ UNCHANGED <<waiting, motion_id, last_motion_id>> /\ events' = events + 1
      /\ UNCHANGED <<active, completed_ids, results, pending_results>>
  BY DEF Noise, Unplug, May, Happens, app, ring, motion, bridge, robot
<1>3. RequestIds(topics') = RequestIds(topics) /\ Increasing(topics')
  <2>1. topics' = topics \/ topics' = Append(topics, Disconnected)
    BY DEF Noise, Unplug
  <2> QED  BY <1>1, <2>1, QuietTopics, QuietAppended
<1>4. up' \in {up, <<>>} \/ (up # <<>> /\ up' = Tail(up))
  BY DEF Noise, Unplug
<1>5. RequestIds(up') \subseteq RequestIds(up) /\ Increasing(up')
  BY <1>1, <1>4, IdsEmpty, IdsTail, IncreasingTail
<1>6. down' \in {down, <<>>} \/ (down # <<>> /\ down' = Tail(down))
  BY DEF Noise, Unplug
<1>7. ResultIds(down') \subseteq ResultIds(down)
  BY <1>1, <1>6, IdsEmpty, IdsTail
<1>8. Running' = Running /\ AnsweredIds' \subseteq AnsweredIds /\ Reached' \subseteq Reached
  BY <1>2, <1>7 DEF Running, AnsweredIds, Reached
<1>9. Chain(Reached', RequestIds(topics'), RequestIds(up'), RequestIds(waiting), motion_id)
  BY <1>1, <1>3, <1>5, <1>8, ChainShrinks DEF InOrder
<1> QED  BY <1>1, <1>2, <1>3, <1>5, <1>8, <1>9 DEF InOrder

-----------------------------------------------------------------------------
(* What the executor makes of a message. *)

\* The message it takes, and the topics that are left.
Takes(i) ==
    /\ OnMessage(topics[i])
    /\ \A j \in 1..(i - 1) : topics[j].type # topics[i].type
    /\ topics' = [j \in 1..(Len(topics) - 1) |-> IF j < i THEN topics[j] ELSE topics[j + 1]]

LEMMA TakenLeaves ==
    ASSUME topics \in Seq(Topics), NEW i \in DOMAIN topics, Takes(i), Increasing(topics)
    PROVE  /\ RequestIds(topics') \subseteq RequestIds(topics)
           /\ RequestIds(topics) = RequestIds(topics')
                \union (IF topics[i].type = "request" THEN {topics[i].id} ELSE {})
           /\ Increasing(topics')
           /\ topics[i].type = "request" => Below({topics[i].id}, RequestIds(topics'))
<1> DEFINE From(j) == IF j < i THEN j ELSE j + 1
<1>1. /\ Len(topics) \in Nat /\ DOMAIN topics = 1..Len(topics) /\ DOMAIN topics' = 1..(Len(topics) - 1)
      /\ i \in 1..Len(topics)
  BY DEF Takes
<1>2. \A j \in DOMAIN topics' : From(j) \in DOMAIN topics /\ From(j) # i /\ topics'[j] = topics[From(j)]
  BY <1>1 DEF Takes
<1>3. \A j, k \in DOMAIN topics' : j < k => From(j) < From(k)
  BY <1>1
<1>4. \A k \in DOMAIN topics : k # i => \E j \in DOMAIN topics' : topics'[j] = topics[k]
  <2> TAKE k \in DOMAIN topics
  <2>1. CASE k < i
    <3>1. k \in DOMAIN topics' /\ From(k) = k
      BY <1>1, <2>1
    <3> QED  BY <1>2, <3>1
  <2>2. CASE k > i
    <3>1. k - 1 \in DOMAIN topics' /\ From(k - 1) = k
      BY <1>1, <2>2
    <3> QED  BY <1>2, <3>1
  <2> QED  BY <1>1, <2>1, <2>2
<1>5. topics[i].type = "request" =>
         \A j \in DOMAIN topics' : topics'[j].type = "request" => i < From(j)
  <2> SUFFICES ASSUME topics[i].type = "request", NEW j \in DOMAIN topics', topics'[j].type = "request"
               PROVE  i < From(j)
    OBVIOUS
  <2>1. \A k \in 1..(i - 1) : topics[k].type # "request"
    BY DEF Takes
  <2>2. From(j) \in 1..Len(topics) /\ From(j) # i /\ topics[From(j)].type = "request"
    BY <1>1, <1>2
  <2> QED  BY <1>1, <2>1, <2>2
<1> HIDE DEF From
<1>6. RequestIds(topics') \subseteq RequestIds(topics)
  BY <1>2 DEF RequestIds
<1>7. \A id \in RequestIds(topics) : id \in RequestIds(topics')
         \/ (topics[i].type = "request" /\ id = topics[i].id)
  <2> SUFFICES ASSUME NEW k \in DOMAIN topics, topics[k].type = "request", k # i
               PROVE  topics[k].id \in RequestIds(topics')
    BY DEF RequestIds
  <2> QED  BY <1>4 DEF RequestIds
<1>8. topics[i].type = "request" => topics[i].id \in RequestIds(topics)
  BY DEF RequestIds
<1>9. Increasing(topics')
  BY <1>2, <1>3 DEF Increasing
<1>10. topics[i].type = "request" => Below({topics[i].id}, RequestIds(topics'))
  BY <1>2, <1>5 DEF Increasing, Below, RequestIds
<1> QED  BY <1>6, <1>7, <1>8, <1>9, <1>10

LEMMA DeliverTakes ==
    ASSUME TypeOK, Deliver
    PROVE  /\ \E i \in DOMAIN topics : Takes(i) /\ (i = 1 \/ "overtake" \in scenario.may)
           /\ UNCHANGED <<app, tally, line, port, bridge, given_up>>
BY DEF Deliver, Takes

\* A message ends the motion, is a request that begins one or is refused, or does
\* nothing to it.
LEMMA MessageDeeds ==
    ASSUME TypeOK, NEW message \in Topics, OnMessage(message)
    PROVE  \/ active # None /\ Finish /\ message.type # "request"
           \/ UNCHANGED <<active, completed_ids, results>> /\
                 (message.type = "request" => message.id \in completed_ids)
           \/ /\ message.type = "request" /\ results' = Append(results, message.id)
              /\ UNCHANGED <<active, completed_ids>>
           \/ /\ message.type = "request" /\ ~latched /\ active = None /\ active' = message
              /\ UNCHANGED <<completed_ids, results>>
<1>1. message.type \in {"request", "cancel", "disconnected", "safety", "jog"}
  <2>1. CASE message \in Published
    BY <2>1 DEF Published
  <2>2. CASE message \in {Cancelled, Disconnected}
    BY <2>2 DEF Cancelled, Disconnected
  <2>3. CASE message \in {SafetySet(latch) : latch \in BOOLEAN}
    BY <2>3 DEF SafetySet
  <2>4. CASE message \in {Jogged(moving) : moving \in BOOLEAN}
    BY <2>4 DEF Jogged
  <2> QED  BY <2>1, <2>2, <2>3, <2>4 DEF Topics
<1>2. CASE message.type = "request"
  <2>1. OnRequest(message)
    BY <1>2 DEF OnMessage
  <2> QED  BY <1>2, <2>1 DEF OnRequest, Refused
<1>3. CASE message.type # "request"
  <2>1. StopMotion \/ UNCHANGED <<completed_ids, results, active>>
    BY <1>1, <1>3 DEF OnMessage
  <2> QED  BY <1>3, <2>1 DEF StopMotion
<1> QED  BY <1>2, <1>3

LEMMA FinishAnswers ==
    ASSUME TypeOK, active # None, Finish
    PROVE  /\ Running' = {} /\ Values(results') = Values(results) \union {active.id}
           /\ completed_ids' \subseteq completed_ids \union {active.id}
<1>1. results \in Seq(Id)
  BY TypeParts DEF Outside, Queued
<1>2. results' = Append(results, active.id) /\ active' = None
  BY DEF Finish
<1>3. Values(Append(results, active.id)) = Values(results) \union {active.id}
  BY <1>1, IdsAppended
<1> QED  BY <1>2, <1>3 DEF Finish, Running

LEMMA CompleteOrdered == ASSUME TypeOK, InOrder, Unwrapped, Complete PROVE InOrder'
<1>1. UNCHANGED <<topics, up, waiting, events, motion_id, last_motion_id, pending_results, down>>
  BY DEF Complete, app, ring, motion, tally, line, bridge
<1>2. Running = {active.id} /\ Running' = {} /\ AnsweredIds' \subseteq AnsweredIds \union {active.id}
  BY <1>1, FinishAnswers DEF Complete, Running, AnsweredIds
<1>3. Reached' \subseteq Reached
  BY <1>2 DEF Reached
<1>4. Chain(Reached', RequestIds(topics), RequestIds(up), RequestIds(waiting), motion_id)
  BY <1>3, IdBounds, ChainShrinks DEF InOrder
<1> QED  BY <1>1, <1>2, <1>4 DEF InOrder

LEMMA DeliverOrdered == ASSUME TypeOK, InOrder, Unwrapped, Deliver PROVE InOrder'
<1>1. PICK i \in DOMAIN topics : Takes(i)
  BY DeliverTakes
<1>2. UNCHANGED <<up, waiting, events, motion_id, last_motion_id, pending_results, down>>
  BY DeliverTakes DEF app, ring, motion, tally, line, bridge
<1> DEFINE message == topics[i]
<1>3. topics \in Seq(Topics) /\ message \in Topics /\ results \in Seq(Id) /\ motion_id \in Nat
  BY TypeParts, IdBounds DEF Outside, Queued
<1>4. /\ RequestIds(topics) = RequestIds(topics')
           \union (IF message.type = "request" THEN {message.id} ELSE {})
      /\ Increasing(topics')
      /\ message.type = "request" => Below({message.id}, RequestIds(topics'))
  BY <1>1, <1>3, TakenLeaves DEF InOrder
<1>5. OnMessage(message)
  BY <1>1 DEF Takes
<1> HIDE DEF message
<1>6. CASE active # None /\ Finish
  <2>1. Running = {active.id} /\ Running' = {} /\ AnsweredIds' \subseteq AnsweredIds \union {active.id}
    BY <1>2, <1>6, FinishAnswers DEF Running, AnsweredIds
  <2>2. Reached' \subseteq Reached
    BY <2>1 DEF Reached
  <2>3. Chain(Reached', RequestIds(topics'), RequestIds(up), RequestIds(waiting), motion_id)
    BY <1>3, <1>4, <2>2, ChainShrinks DEF InOrder
  <2> QED  BY <1>2, <1>4, <2>1, <2>3 DEF InOrder
<1>7. CASE UNCHANGED <<active, completed_ids, results>>
  <2>1. Running' = Running /\ AnsweredIds' = AnsweredIds /\ Reached' = Reached
    BY <1>2, <1>7, ReachedSame
  <2>2. Chain(Reached, RequestIds(topics'), RequestIds(up), RequestIds(waiting), motion_id)
    BY <1>3, <1>4, ChainShrinks DEF InOrder
  <2> QED  BY <1>2, <1>4, <2>1, <2>2 DEF InOrder
<1>8. CASE /\ message.type = "request"
           /\ \/ results' = Append(results, message.id) /\ UNCHANGED <<active, completed_ids>>
              \/ active = None /\ active' = message /\ UNCHANGED <<completed_ids, results>>
  <2> DEFINE id == message.id
  <2>1. RequestIds(topics) = RequestIds(topics') \union {id} /\ Below({id}, RequestIds(topics'))
    BY <1>4, <1>8
  <2>2. id \notin Reached
    <3>1. Below(Reached, {id}) /\ id \in 0..motion_id
      BY <2>1 DEF InOrder, Chain, Below
    <3> QED  BY <1>3, <3>1 DEF Below
  <2>3. \/ Running' = Running /\ AnsweredIds' = AnsweredIds \union {id}
        \/ Running' = {id} /\ AnsweredIds' = AnsweredIds
    <3>1. CASE results' = Append(results, id) /\ UNCHANGED <<active, completed_ids>>
      <4>1. Values(Append(results, id)) = Values(results) \union {id}
        BY <1>3, IdsAppended
      <4> QED  BY <1>2, <3>1, <4>1 DEF Running, AnsweredIds
    <3>2. CASE active = None /\ active' = message /\ UNCHANGED <<completed_ids, results>>
      <4>1. message # None
        <5>1. message.type = "request" /\ message \in Topics => message \in Published
          BY <1>3 DEF Topics, Cancelled, Disconnected, SafetySet, Jogged
        <5> QED  BY <1>3, <1>8, <5>1, NothingAssumption
      <4> QED  BY <1>2, <3>2, <4>1 DEF Running, AnsweredIds
    <3> QED  BY <1>8, <3>1, <3>2
  <2> HIDE DEF id
  <2>4. Reached' \subseteq Reached \union {id} /\ Running' \intersect AnsweredIds' = {}
    BY <2>2, <2>3 DEF Reached, InOrder
  <2>5. Chain(Reached', RequestIds(topics'), RequestIds(up), RequestIds(waiting), motion_id)
    BY <2>1, <2>4 DEF InOrder, Chain, Below
  <2> QED  BY <1>2, <1>4, <2>4, <2>5 DEF InOrder
<1> QED  BY <1>3, <1>5, <1>6, <1>7, <1>8, MessageDeeds

-----------------------------------------------------------------------------

\* Nothing changes the scenario.
LEMMA SameScenario == ASSUME [Next]_vars PROVE scenario' = scenario
BY DEF Next, vars, outside, tally, Handle, Elapse, GiveUpMotion, SendUp, Receive, Restart, Noise,
       Unplug, Replug, OnFrame, OnHeartbeat, TagExpires, OnMotionResult, Deliver, Complete,
       Happens, May

LEMMA OrderStep == ASSUME TypeOK, Ordered, Unwrapped, [Next]_vars PROVE Ordered'
<1> SUFFICES ASSUME Without({"reboot"}), InOrder PROVE InOrder'
  BY SameScenario DEF Ordered, Without
<1>1. CASE Handle \/ Elapse \/ SendUp \/ Receive
  BY <1>1, HandleOrdered, ElapseOrdered, SendUpOrdered, ReceiveOrdered
<1>2. CASE GiveUpMotion
  <2>1. UNCHANGED <<topics, up, waiting, events, motion_id, last_motion_id>>
    BY <1>2 DEF GiveUpMotion, GiveUp, tally, line, ring
  <2>2. Running' = Running /\ AnsweredIds' = AnsweredIds /\ Reached' = Reached
    BY <1>2, ReachedSame DEF GiveUpMotion, line, bridge, robot
  <2> QED  BY <2>1, <2>2 DEF InOrder
<1>3. CASE Restart
  BY <1>3 DEF Restart, May, Without
<1>4. CASE Noise \/ Unplug
  BY <1>4, LossOrdered
<1>5. CASE OnFrame
  BY <1>5, FrameOrdered
<1>6. CASE Replug \/ OnHeartbeat \/ TagExpires \/ OnMotionResult
  BY <1>6, BridgeOrdered
<1>7. CASE Deliver \/ Complete
  BY <1>7, DeliverOrdered, CompleteOrdered
<1>8. CASE UNCHANGED vars
  <2>1. UNCHANGED <<topics, up, waiting, events, motion_id, last_motion_id>>
    BY <1>8 DEF vars, app, ring, motion, outside, tally, line
  <2>2. Running' = Running /\ AnsweredIds' = AnsweredIds /\ Reached' = Reached
    BY <1>8, ReachedSame DEF vars, outside, line, bridge, robot
  <2> QED  BY <2>1, <2>2 DEF InOrder
<1> QED  BY <1>1, <1>2, <1>3, <1>4, <1>5, <1>6, <1>7, <1>8 DEF Next

\* The ids stay in order from the robot to the ring, and no motion is answered while it
\* runs, whatever is lost, kept or overtakes.
THEOREM Order == ASSUME Unwrapped PROVE Spec => []Ordered
<1>1. Init => Ordered
  <2> SUFFICES ASSUME Init PROVE InOrder
    BY DEF Ordered
  <2>1. waiting = <<Hello>> /\ up = <<>> /\ topics = <<>> /\ motion_id = 0 /\ last_motion_id = 0 /\ events = 0
    BY DEF Init, AppInit
  <2>2. RequestIds(waiting) = {} /\ Increasing(waiting)
    BY <2>1, QuietFrames DEF RequestIds, Increasing, Quiet
  <2>3. Running = {} /\ AnsweredIds = {} /\ Reached = {}
    BY IdsEmpty DEF Init, Running, AnsweredIds, Reached
  <2> QED  BY <2>1, <2>2, <2>3, IdsEmpty DEF InOrder, Chain, Below
<1>2. TypeOK /\ Ordered /\ [Next]_vars => Ordered'
  BY OrderStep
<1> QED  BY <1>1, <1>2, Typing, PTL DEF Spec

\* A result that reaches the board ends the motion it answers, never the one the robot
\* runs, for every room, limit and mix of disturbances, as long as the ids have not come
\* round.
THEOREM Own_result == ASSUME Unwrapped PROVE Spec => OwnResult
<1> DEFINE Ends == Without({"reboot"}) /\ Receive /\ motion_active /\ ~motion_active'
<1>1. ASSUME TypeOK, Ordered, Ends
      PROVE  Head(down) = Engage \/ active = None \/ active.id # last_motion_id
  <2> SUFFICES ASSUME Head(down) # Engage, active # None PROVE active.id # last_motion_id
    OBVIOUS
  <2>1. down \in Seq(Downs) /\ down # <<>> /\ 1 \in DOMAIN down /\ Head(down) = down[1]
    <3>1. down \in Seq(Downs) /\ down # <<>>
      BY <1>1, TypeParts DEF Receive, Outside, Lined
    <3> QED  BY <3>1, EmptySeq
  <2>2. down[1] \notin Stops
    <3> SUFFICES ASSUME down[1] \in Stops PROVE FALSE
      OBVIOUS
    <3>1. OnStopFrame(down[1])
      BY <1>1, <2>1 DEF Receive
    <3>2. down[1] # Release
      BY <1>1, <3>1 DEF OnStopFrame
    <3>3. down[1] \in Downs /\ Cancel \notin Downs
      BY <2>1, Kinds DEF Downs
    <3> QED  BY <2>1, <3>2, <3>3 DEF Stops
  <2>3. OnResult(down[1].id) /\ down[1].type = "result"
    BY <1>1, <2>1, <2>2 DEF Receive, Downs, Stops
  <2>4. down[1].id = last_motion_id
    BY <1>1, <2>3 DEF OnResult, Answers
  <2>5. last_motion_id \in AnsweredIds
    BY <2>1, <2>3, <2>4 DEF AnsweredIds, ResultIds
  <2>6. Running = {active.id} /\ Running \intersect AnsweredIds = {}
    BY <1>1 DEF Ordered, InOrder, Running
  <2> QED  BY <2>5, <2>6
<1>2. TypeOK /\ Ordered =>
         [Ends => Head(down) = Engage \/ active = None \/ active.id # last_motion_id]_vars
  BY <1>1
<1> QED  BY <1>2, Order, Typing, PTL DEF Spec, OwnResult

-----------------------------------------------------------------------------
(* Where the request is that the board waits for. *)

\* On the ring, the line or a topic, running, or answered and on the way back.
Somewhere ==
    last_motion_id \in RequestIds(waiting) \union RequestIds(up) \union RequestIds(topics)
                       \union Running \union Values(results) \union ResultIds(down)

Lossless == Without({"noise", "reboot", "overtake", "unplug"})
Traced == Lossless => plugged /\ pending_results = <<>> /\ (motion_active => Somewhere)

LEMMA BoardTraced ==
    ASSUME TypeOK, Traced, Lossless, Handle \/ Elapse \/ GiveUpMotion \/ SendUp \/ Receive \/ Restart
    PROVE  plugged' /\ pending_results' = <<>> /\ (motion_active' => Somewhere')
<1>1. /\ plugged /\ pending_results = <<>> /\ (motion_active => Somewhere)
      /\ waiting \in Seq(Frames) /\ up \in Seq(Frames \union Stops) /\ down \in Seq(Downs)
  BY TypeParts DEF Traced, Ring, Outside, Lined
<1>2. UNCHANGED <<plugged, pending_results, topics, results, active>> /\ Running' = Running
  BY DEF Handle, Elapse, GiveUpMotion, SendUp, Receive, Restart, outside, port, bridge, robot, Running
<1> SUFFICES ASSUME motion_active' PROVE Somewhere'
  BY <1>1, <1>2
<1>3. CASE Handle \/ Elapse
  <2>1. UNCHANGED <<up, down>>
    BY <1>3 DEF Handle, Elapse, outside, line
  <2>2. CASE Says \/ AsksInVain
    <3>1. RequestIds(waiting') = RequestIds(waiting)
      BY <1>1, <2>2, AddsKeep DEF Says, AsksInVain
    <3>2. motion_active /\ last_motion_id' = last_motion_id
      BY <2>2 DEF Says, AsksInVain
    <3> QED  BY <1>1, <1>2, <2>1, <3>1, <3>2 DEF Somewhere
  <2>3. CASE Asks
    <3>1. RequestIds(waiting') = RequestIds(waiting) \union {motion_id'} /\ last_motion_id' = motion_id'
      BY <1>1, <2>3, AsksAppends DEF Asks
    <3> QED  BY <3>1 DEF Somewhere
  <2> QED  BY <1>3, <2>2, <2>3, HandleDeeds, ElapseDeeds DEF Halted, Released
<1>4. CASE GiveUpMotion \/ Restart
  BY <1>4 DEF GiveUpMotion, GiveUp, Restart, Reboot
<1>5. CASE SendUp
  <2>1. UNCHANGED <<down, motion_active, last_motion_id>> /\ up' = Append(up, Outgoing)
    BY <1>1, <1>5 DEF SendUp, Transmit, motion
  <2>2. RequestIds(up') = RequestIds(up)
           \union (IF Outgoing.type = "request" THEN {Outgoing.id} ELSE {})
    BY <1>1, <2>1, IdsAppended
  <2>3. RequestIds(waiting) \subseteq RequestIds(waiting')
           \union (IF Outgoing.type = "request" THEN {Outgoing.id} ELSE {})
    <3>1. CASE urgent # None
      BY <1>5, <3>1 DEF SendUp, Transmit
    <3>2. CASE urgent = None
      <4>1. waiting # <<>> /\ waiting' = Tail(waiting) /\ Outgoing = waiting[1]
        BY <1>5, <3>2 DEF SendUp, Transmit, Outgoing
      <4> QED  BY <1>1, <4>1, IdsTail
    <3> QED  BY <3>1, <3>2
  <2> QED  BY <1>1, <1>2, <2>1, <2>2, <2>3 DEF Somewhere
<1>6. CASE Receive
  <2>1. down # <<>> /\ down' = Tail(down) /\ Head(down) = down[1] /\ UNCHANGED <<up, waiting, last_motion_id>>
    <3>1. down # <<>> /\ down' = Tail(down) /\ up' = up
      BY <1>6 DEF Receive
    <3>2. UNCHANGED <<waiting, last_motion_id>>
      BY <1>6 DEF Receive, OnStopFrame, OnResult, ring
    <3> QED  BY <1>1, <3>1, <3>2, EmptySeq
  <2>2. ResultIds(down) = ResultIds(down') \union (IF down[1].type = "result" THEN {down[1].id} ELSE {})
    BY <1>1, <2>1, IdsTail
  <2>3. motion_active /\ (down[1].type = "result" => down[1].id # last_motion_id)
    <3>1. CASE down[1] \in Stops
      BY <1>6, <2>1, <3>1, Kinds DEF Receive, OnStopFrame, Stops
    <3>2. CASE down[1] \notin Stops
      BY <1>6, <2>1, <3>2 DEF Receive, OnResult, Answers
    <3> QED  BY <3>1, <3>2
  <2> QED  BY <1>1, <1>2, <2>1, <2>2, <2>3 DEF Somewhere
<1> QED  BY <1>3, <1>4, <1>5, <1>6

LEMMA BridgeTraced ==
    ASSUME TypeOK, Traced, Lossless,
           Noise \/ Unplug \/ Replug \/ OnFrame \/ OnHeartbeat \/ TagExpires \/ OnMotionResult
    PROVE  plugged' /\ pending_results' = <<>> /\ (motion_active' => Somewhere')
<1>1. /\ plugged /\ pending_results = <<>> /\ (motion_active => Somewhere)
      /\ up \in Seq(Frames \union Stops) /\ down \in Seq(Downs)
      /\ topics \in Seq(Topics) /\ results \in Seq(Id)
  BY TypeParts DEF Traced, Outside, Lined, Queued
<1>2. ~Noise /\ ~Unplug /\ ~Replug
  BY <1>1 DEF Lossless, Without, Noise, Unplug, Replug, May
<1>3. /\ UNCHANGED <<plugged, motion_active, last_motion_id, waiting, active>> /\ Running' = Running
      /\ pending_results' = <<>>
  BY <1>1, <1>2 DEF OnFrame, OnHeartbeat, TagExpires, OnMotionResult, app, motion, ring, robot, port,
         Running
<1> SUFFICES ASSUME motion_active' PROVE Somewhere'
  BY <1>1, <1>3
<1>4. Somewhere
  BY <1>1, <1>3
<1>5. CASE OnFrame
  <2>1. ResultIds(down') = ResultIds(down) \union Values(pending_results) /\ results' = results
    BY <1>5, DownAfter DEF OnFrame
  <2>2. up # <<>> /\ up' = Tail(up)
    BY <1>5 DEF OnFrame
  <2>3. RequestIds(up) = RequestIds(up') \union (IF up[1].type = "request" THEN {up[1].id} ELSE {})
    BY <1>1, <2>2, IdsTail
  <2>4. RequestIds(topics) \union (IF up[1].type = "request" THEN {up[1].id} ELSE {})
           \subseteq RequestIds(topics')
    <3>1. CASE up[1].type = "request"
      <4>1. topics' = Append(topics, Message(up[1], tag))
        BY <1>5, <3>1, TopicsAfter
      <4>2. Message(up[1], tag).type = "request" /\ Message(up[1], tag).id = up[1].id
        BY DEF Message
      <4>3. RequestIds(Append(topics, Message(up[1], tag))) = RequestIds(topics)
               \union (IF Message(up[1], tag).type = "request" THEN {Message(up[1], tag).id} ELSE {})
        BY <1>1, IdsAppended
      <4> QED  BY <3>1, <4>1, <4>2, <4>3
    <3>2. CASE up[1].type # "request"
      <4>1. topics' = topics \/ \E m : topics' = Append(topics, m)
        BY <1>5, <3>2, TopicsAfter DEF Stops
      <4>2. ASSUME NEW m PROVE RequestIds(topics) \subseteq RequestIds(Append(topics, m))
        BY <1>1, IdsAppended
      <4> QED  BY <3>2, <4>1, <4>2
    <3> QED  BY <3>1, <3>2
  <2> QED  BY <1>3, <1>4, <2>1, <2>3, <2>4 DEF Somewhere
<1>6. CASE OnHeartbeat
  BY <1>3, <1>4, <1>6, DownAfter DEF OnHeartbeat, Somewhere
<1>7. CASE TagExpires
  BY <1>3, <1>4, <1>7 DEF TagExpires, line, Somewhere
<1>8. CASE OnMotionResult
  <2>1. /\ results # <<>> /\ results' = Tail(results) /\ UNCHANGED <<up, topics>>
        /\ down' = Append(down, ResultFrame(results[1]))
    BY <1>1, <1>8 DEF OnMotionResult
  <2>2. Values(results) = Values(results') \union {results[1]}
    BY <1>1, <2>1, IdsTail
  <2>3. ResultFrame(results[1]).type = "result" /\ ResultFrame(results[1]).id = results[1]
    BY DEF ResultFrame
  <2>4. ResultIds(Append(down, ResultFrame(results[1]))) = ResultIds(down)
           \union (IF ResultFrame(results[1]).type = "result" THEN {ResultFrame(results[1]).id} ELSE {})
    BY <1>1, IdsAppended
  <2>5. ResultIds(down') = ResultIds(down) \union {results[1]}
    BY <2>1, <2>3, <2>4
  <2> QED  BY <1>3, <1>4, <2>1, <2>2, <2>5 DEF Somewhere
<1> QED  BY <1>2, <1>5, <1>6, <1>7, <1>8

LEMMA RobotTraced ==
    ASSUME TypeOK, InOrder, Unwrapped, Traced, Lossless, Deliver \/ Complete
    PROVE  plugged' /\ pending_results' = <<>> /\ (motion_active' => Somewhere')
<1>1. /\ plugged /\ pending_results = <<>> /\ (motion_active => Somewhere)
      /\ topics \in Seq(Topics) /\ results \in Seq(Id)
  BY TypeParts DEF Traced, Outside, Queued
<1>2. UNCHANGED <<plugged, pending_results, motion_active, last_motion_id, waiting, up, down>>
  BY DEF Deliver, Complete, app, motion, ring, port, bridge, line
<1> SUFFICES ASSUME motion_active' PROVE Somewhere'
  BY <1>1, <1>2
<1>3. Somewhere
  BY <1>1, <1>2
<1>4. ASSUME active # None, Finish
      PROVE  Running \union Values(results) \subseteq Running' \union Values(results')
  BY <1>4, FinishAnswers DEF Running
<1>5. CASE Complete
  BY <1>2, <1>3, <1>4, <1>5 DEF Complete, Somewhere
<1>6. CASE Deliver
  <2>1. PICK i \in DOMAIN topics : Takes(i)
    BY <1>6, DeliverTakes
  <2> DEFINE message == topics[i]
  <2>2. RequestIds(topics) = RequestIds(topics')
           \union (IF message.type = "request" THEN {message.id} ELSE {})
    BY <1>1, <2>1, TakenLeaves DEF InOrder
  <2>3. OnMessage(message) /\ message \in Topics
    BY <1>1, <2>1 DEF Takes
  <2> HIDE DEF message
  <2>4. CASE active # None /\ Finish /\ message.type # "request"
    BY <1>2, <1>3, <1>4, <2>2, <2>4 DEF Somewhere
  <2>5. CASE UNCHANGED <<active, completed_ids, results>> /\
                (message.type = "request" => message.id \in completed_ids)
    <3>1. message.type # "request"
      <4> SUFFICES ASSUME message.type = "request" PROVE FALSE
        OBVIOUS
      <4>1. message.id \in Reached /\ message.id \in RequestIds(topics)
        BY <2>2, <2>5 DEF Reached, AnsweredIds
      <4>2. message.id < message.id /\ message.id \in 0..motion_id
        BY <4>1 DEF InOrder, Chain, Below
      <4> QED  BY <4>2, IdBounds
    <3> QED  BY <1>2, <1>3, <2>2, <2>5, <3>1 DEF Somewhere, Running
  <2>6. CASE /\ message.type = "request" /\ results' = Append(results, message.id)
             /\ UNCHANGED <<active, completed_ids>>
    <3>1. Values(Append(results, message.id)) = Values(results) \union {message.id}
      BY <1>1, IdsAppended
    <3> QED  BY <1>2, <1>3, <2>2, <2>6, <3>1 DEF Somewhere, Running
  <2>7. CASE /\ message.type = "request" /\ active = None /\ active' = message
             /\ UNCHANGED <<completed_ids, results>>
    <3>1. message # None
      <4>1. message.type = "request" /\ message \in Topics => message \in Published
        BY DEF Topics, Cancelled, Disconnected, SafetySet, Jogged
      <4> QED  BY <2>3, <2>7, <4>1, NothingAssumption
    <3> QED  BY <1>2, <1>3, <2>2, <2>7, <3>1 DEF Somewhere, Running
  <2> QED  BY <2>3, <2>4, <2>5, <2>6, <2>7, MessageDeeds
<1> QED  BY <1>5, <1>6

THEOREM Tracing == ASSUME Unwrapped PROVE Spec => []Traced
<1>1. Init => Traced
  BY DEF Init, AppInit, Traced
<1>2. TypeOK /\ Ordered /\ Traced /\ [Next]_vars => Traced'
  <2> SUFFICES ASSUME TypeOK, Ordered, Traced, [Next]_vars, Lossless
               PROVE  plugged' /\ pending_results' = <<>> /\ (motion_active' => Somewhere')
    BY SameScenario DEF Traced, Lossless, Without
  <2>1. InOrder
    BY DEF Ordered, Lossless, Without
  <2>2. CASE UNCHANGED vars
    <3>1. UNCHANGED <<plugged, pending_results, motion_active, last_motion_id, waiting, up, down,
                      topics, results, active>>
      BY <2>2 DEF vars, app, motion, ring, outside, port, bridge, line, robot
    <3> QED  BY <3>1 DEF Traced, Somewhere, Running
  <2> QED  BY <2>1, <2>2, BoardTraced, BridgeTraced, RobotTraced DEF Next
<1> QED  BY <1>1, <1>2, Order, Typing, PTL DEF Spec

\* Once everything has arrived, the board waits for no motion that the robot does not
\* run, for every room, limit and number of steps below the wrap of the ids, if nothing
\* is lost on the line and no message overtakes.
THEOREM No_phantom == ASSUME Unwrapped PROVE Spec => []NoPhantom
<1>1. Traced => NoPhantom
  <2> SUFFICES ASSUME Traced, Lossless, Settled, motion_active
               PROVE  active # None /\ active.id = last_motion_id
    BY DEF NoPhantom, Lossless
  <2>1. last_motion_id \in Running
    BY IdsEmpty DEF Traced, Settled, Somewhere
  <2> QED  BY <2>1 DEF Running
<1> QED  BY <1>1, Tracing, PTL

-----------------------------------------------------------------------------
(* What becomes of every motion that the board does not wait for any more.  Behind
   it comes the stop that ends it, or before it the lock that refuses it. *)

Current(id) == motion_active /\ last_motion_id = id

\* Messages that end a motion, and one on its way behind topic k.
Kills(message) == message.type \in {"cancel", "disconnected"} \/ message = SafetySet(TRUE)
Withdrawn(k) == \E j \in DOMAIN topics : k < j /\ Kills(topics[j])
\* A stop behind frame k of the line, or about to follow it.
StopsBehind(k) == urgent \in Halts \/ \E j \in DOMAIN up : k < j /\ up[j] \in Halts
\* The executor is locked when topic i reaches it.
LockedAt(i) ==
    \/ \E j \in DOMAIN topics : j < i /\ topics[j] = SafetySet(TRUE)
    \/ latched /\ \A j \in DOMAIN topics : j < i => topics[j] # SafetySet(FALSE)
\* The bridge has been told of a lock, and no release follows.
Locks == known = TRUE /\ urgent # Release /\ \A j \in DOMAIN up : up[j] # Release

NoLock == \A j \in DOMAIN topics : topics[j] # SafetySet(TRUE)

RunAccounted ==
    active # None =>
        Current(active.id) \/ active.id \in given_up \/ Withdrawn(0) \/ StopsBehind(0)
TopicsAccounted ==
    \A i \in DOMAIN topics : topics[i].type = "request" =>
        Current(topics[i].id) \/ LockedAt(i) \/ Withdrawn(i) \/ StopsBehind(0)
LineAccounted ==
    \A i \in DOMAIN up : up[i].type = "request" => Current(up[i].id) \/ Locks \/ StopsBehind(i)
RingAccounted == \A id \in RequestIds(waiting) : Current(id) \/ Locks

\* A port that has been closed has told the executor.
Severed ==
    ~connected => /\ active # None => Withdrawn(0)
                  /\ \A i \in DOMAIN topics : topics[i].type = "request" => Withdrawn(i)
Closed == ~plugged => ~connected /\ up = <<>> /\ down = <<>>

\* A lock is followed by a release only when it has arrived everywhere: the key that
\* releases is held until then.
LatchedStops == latched => active = None
KnownArrives == known = TRUE => LockedAt(Len(topics) + 1)
UrgentRelease == urgent = Release => up = <<>> /\ NoLock
LineRelease == \A k \in DOMAIN up : up[k] = Release => k = 1 /\ NoLock
TopicRelease ==
    \A k, j \in DOMAIN topics : topics[k] = SafetySet(FALSE) /\ j < k => topics[j] # SafetySet(TRUE)
EngageLocks == Engage \in Values(down) => Locks

AllAccounted ==
    /\ RunAccounted /\ TopicsAccounted /\ LineAccounted /\ RingAccounted
    /\ Severed /\ Closed /\ LatchedStops /\ KnownArrives
    /\ UrgentRelease /\ LineRelease /\ TopicRelease /\ EngageLocks

Tame == Without({"noise", "reboot", "overtake"})
Accounted == Tame => AllAccounted

-----------------------------------------------------------------------------
(* The board. *)

\* What a step of the board leaves as it is.
LEMMA BoardLeaves ==
    ASSUME AllAccounted,
           UNCHANGED <<topics, up, latched, active, known, connected, plugged>>,
           down' = <<>> \/ down' = down \/ plugged
    PROVE  /\ Severed' /\ Closed' /\ LatchedStops' /\ KnownArrives' /\ LineRelease' /\ TopicRelease'
           /\ \A k : (Withdrawn(k))' <=> Withdrawn(k)
           /\ \A k : (LockedAt(k))' <=> LockedAt(k)
<1>1. \A k : (Withdrawn(k))' <=> Withdrawn(k)
  BY DEF Withdrawn
<1>2. \A k : (LockedAt(k))' <=> LockedAt(k)
  BY DEF LockedAt
<1>3. Severed'
  BY <1>1 DEF AllAccounted, Severed
<1>4. Closed'
  BY DEF AllAccounted, Closed
<1>5. LatchedStops' /\ KnownArrives' /\ LineRelease' /\ TopicRelease'
  BY <1>2 DEF AllAccounted, LatchedStops, KnownArrives, LineRelease, TopicRelease, NoLock
<1> QED  BY <1>1, <1>2, <1>3, <1>4, <1>5

LEMMA HandleAccounted == ASSUME TypeOK, AllAccounted, Handle PROVE AllAccounted'
<1>1. UNCHANGED <<topics, up, down, latched, active, known, connected, plugged, given_up>>
  BY DEF Handle, line, port, bridge, robot
<1>2. /\ Severed' /\ Closed' /\ LatchedStops' /\ KnownArrives' /\ LineRelease' /\ TopicRelease'
      /\ \A k : (Withdrawn(k))' <=> Withdrawn(k)
      /\ \A k : (LockedAt(k))' <=> LockedAt(k)
  BY <1>1, BoardLeaves
<1>3. waiting \in Seq(Frames)
  BY TypeParts DEF Ring
<1>4. CASE Says \/ AsksInVain
  <2>1. RequestIds(waiting') = RequestIds(waiting)
    BY <1>3, <1>4, AddsKeep DEF Says, AsksInVain
  <2>2. urgent' = urgent /\ (motion_active' <=> motion_active) /\ last_motion_id' = last_motion_id
    BY <1>4 DEF Says, AsksInVain
  <2>3. /\ \A id : (Current(id))' <=> Current(id)
        /\ \A k : (StopsBehind(k))' <=> StopsBehind(k)
        /\ Locks' <=> Locks
    BY <1>1, <2>2 DEF Current, StopsBehind, Locks
  <2>4. RunAccounted' /\ TopicsAccounted' /\ LineAccounted' /\ RingAccounted'
    BY <1>1, <1>2, <2>1, <2>3
       DEF AllAccounted, RunAccounted, TopicsAccounted, LineAccounted, RingAccounted
  <2>5. UrgentRelease' /\ EngageLocks'
    BY <1>1, <2>2, <2>3 DEF AllAccounted, UrgentRelease, EngageLocks, NoLock
  <2> QED  BY <1>2, <2>4, <2>5 DEF AllAccounted
<1>5. CASE Asks
  <2>1. RequestIds(waiting') = RequestIds(waiting) \union {motion_id'}
    BY <1>3, <1>5, AsksAppends
  <2>2. urgent' = urgent /\ ~motion_active /\ motion_active' /\ last_motion_id' = motion_id'
    BY <1>5 DEF Asks
  <2>3. /\ \A id : ~Current(id)
        /\ Current(motion_id)'
        /\ \A k : (StopsBehind(k))' <=> StopsBehind(k)
        /\ Locks' <=> Locks
    BY <1>1, <2>2 DEF Current, StopsBehind, Locks
  <2>4. RunAccounted' /\ TopicsAccounted' /\ LineAccounted' /\ RingAccounted'
    BY <1>1, <1>2, <2>1, <2>3
       DEF AllAccounted, RunAccounted, TopicsAccounted, LineAccounted, RingAccounted
  <2>5. UrgentRelease' /\ EngageLocks'
    BY <1>1, <2>2, <2>3 DEF AllAccounted, UrgentRelease, EngageLocks, NoLock
  <2> QED  BY <1>2, <2>4, <2>5 DEF AllAccounted
<1>6. CASE Halted
  <2>1. RequestIds(waiting') = {}
    BY <1>6, HaltedEmpties
  <2>2. urgent' \in Halts /\ urgent' # Release
    BY <1>6, Kinds DEF Halted, Halts
  <2>3. /\ \A k : (StopsBehind(k))'
        /\ Locks => Locks'
    BY <1>1, <2>2 DEF StopsBehind, Locks
  <2>4. RunAccounted' /\ TopicsAccounted' /\ LineAccounted' /\ RingAccounted'
    BY <2>1, <2>3 DEF RunAccounted, TopicsAccounted, LineAccounted, RingAccounted
  <2>5. UrgentRelease' /\ EngageLocks'
    BY <1>1, <2>2, <2>3 DEF AllAccounted, UrgentRelease, EngageLocks
  <2> QED  BY <1>2, <2>4, <2>5 DEF AllAccounted
<1> QED  BY <1>4, <1>5, <1>6, HandleDeeds

LEMMA ElapseAccounted == ASSUME TypeOK, AtRest, AllAccounted, Elapse PROVE AllAccounted'
<1>1. UNCHANGED <<topics, up, down, latched, active, known, connected, plugged, given_up>>
  BY DEF Elapse, outside, line, port, bridge, robot
<1>2. /\ Severed' /\ Closed' /\ LatchedStops' /\ KnownArrives' /\ LineRelease' /\ TopicRelease'
      /\ \A k : (Withdrawn(k))' <=> Withdrawn(k)
      /\ \A k : (LockedAt(k))' <=> LockedAt(k)
  BY <1>1, BoardLeaves
<1>3. waiting \in Seq(Frames)
  BY TypeParts DEF Ring
<1>4. CASE Says
  <2>1. RequestIds(waiting') = RequestIds(waiting)
    BY <1>3, <1>4, AddsKeep DEF Says
  <2>2. urgent' = urgent /\ (motion_active' <=> motion_active) /\ last_motion_id' = last_motion_id
    BY <1>4 DEF Says
  <2>3. /\ \A id : (Current(id))' <=> Current(id)
        /\ \A k : (StopsBehind(k))' <=> StopsBehind(k)
        /\ Locks' <=> Locks
    BY <1>1, <2>2 DEF Current, StopsBehind, Locks
  <2>4. RunAccounted' /\ TopicsAccounted' /\ LineAccounted' /\ RingAccounted'
    BY <1>1, <1>2, <2>1, <2>3
       DEF AllAccounted, RunAccounted, TopicsAccounted, LineAccounted, RingAccounted
  <2>5. UrgentRelease' /\ EngageLocks'
    BY <1>1, <2>2, <2>3 DEF AllAccounted, UrgentRelease, EngageLocks, NoLock
  <2> QED  BY <1>2, <2>4, <2>5 DEF AllAccounted
<1>5. CASE Released /\ Settled
  <2>1. urgent = None /\ up = <<>> /\ down = <<>> /\ topics = <<>> /\ ~motion_active
    BY <1>5 DEF Released, Settled, AtRest
  <2>2. RequestIds(waiting') = {}
    BY <1>5, HaltedEmpties
  <2>3. ~Withdrawn(0) /\ ~StopsBehind(0) /\ \A id : ~Current(id)
    <3>1. None \notin Halts
      BY NoneAssumption DEF Halts, Stops
    <3> QED  BY <2>1, <3>1 DEF Withdrawn, StopsBehind, Current
  <2>4. RunAccounted'
    BY <1>1, <2>3 DEF AllAccounted, RunAccounted
  <2>5. TopicsAccounted' /\ LineAccounted' /\ RingAccounted'
    BY <1>1, <2>1, <2>2 DEF TopicsAccounted, LineAccounted, RingAccounted
  <2>6. UrgentRelease' /\ EngageLocks'
    BY <1>1, <2>1, IdsEmpty DEF UrgentRelease, EngageLocks, NoLock
  <2> QED  BY <1>2, <2>4, <2>5, <2>6 DEF AllAccounted
<1> QED  BY <1>4, <1>5, ElapseDeeds

LEMMA GiveUpAccounted == ASSUME TypeOK, AllAccounted, GiveUpMotion PROVE AllAccounted'
<1>1. /\ UNCHANGED <<topics, up, down, latched, active, known, connected, plugged>>
      /\ UNCHANGED <<waiting, urgent, last_motion_id>>
      /\ ~OnItsWay("request") /\ given_up' = given_up \union {last_motion_id}
  BY DEF GiveUpMotion, GiveUp, ring, line, port, bridge, robot
<1>2. /\ Severed' /\ Closed' /\ LatchedStops' /\ KnownArrives' /\ LineRelease' /\ TopicRelease'
      /\ \A k : (Withdrawn(k))' <=> Withdrawn(k)
      /\ \A k : (LockedAt(k))' <=> LockedAt(k)
  BY <1>1, BoardLeaves
<1>3. /\ \A i \in DOMAIN waiting : waiting[i].type # "request"
      /\ \A i \in DOMAIN up : up[i].type # "request"
      /\ \A i \in DOMAIN topics : topics[i].type # "request"
  BY <1>1 DEF OnItsWay
<1>4. RequestIds(waiting') = {}
  BY <1>1, <1>3 DEF RequestIds
<1>5. TopicsAccounted' /\ LineAccounted' /\ RingAccounted'
  BY <1>1, <1>3, <1>4 DEF TopicsAccounted, LineAccounted, RingAccounted
<1>6. (\A k : (StopsBehind(k))' <=> StopsBehind(k)) /\ (Locks' <=> Locks)
  BY <1>1 DEF StopsBehind, Locks
<1>7. RunAccounted'
  BY <1>1, <1>2, <1>6 DEF AllAccounted, RunAccounted, Current
<1>8. UrgentRelease' /\ EngageLocks'
  BY <1>1, <1>6 DEF AllAccounted, UrgentRelease, EngageLocks, NoLock
<1> QED  BY <1>2, <1>5, <1>7, <1>8 DEF AllAccounted

\* An engaged lock of the robot has passed the bridge; a result names no motion but the
\* one it answers.
LEMMA ReceiveAccounted == ASSUME TypeOK, InOrder, Unwrapped, AllAccounted, Receive PROVE AllAccounted'
<1>1. /\ UNCHANGED <<topics, up, latched, active, known, connected, plugged, given_up>>
      /\ UNCHANGED <<waiting, urgent, last_motion_id>>
      /\ down # <<>> /\ down' = Tail(down)
  <2>1. UNCHANGED <<waiting, urgent, last_motion_id>>
    BY DEF Receive, OnStopFrame, OnResult, ring
  <2> QED  BY <2>1 DEF Receive, port, bridge, robot
<1>2. down \in Seq(Downs) /\ topics \in Seq(Topics) /\ up \in Seq(Frames \union Stops)
  BY TypeParts DEF Outside, Lined, Queued
<1>3. /\ 1 \in DOMAIN down /\ Head(down) = down[1] /\ down[1] \in Values(down)
      /\ Values(down') \subseteq Values(down)
  <2>1. 1 \in DOMAIN down /\ Head(down) = down[1]
    BY <1>1, <1>2, EmptySeq
  <2>2. Values(down') \subseteq Values(down)
    BY <1>1, <1>2, IdsTail
  <2> QED  BY <2>1, <2>2 DEF Values
<1>4. plugged
  BY <1>1 DEF AllAccounted, Closed
<1>5. /\ Severed' /\ Closed' /\ LatchedStops' /\ KnownArrives' /\ LineRelease' /\ TopicRelease'
      /\ \A k : (Withdrawn(k))' <=> Withdrawn(k)
      /\ \A k : (LockedAt(k))' <=> LockedAt(k)
  BY <1>1, <1>4, BoardLeaves
<1>6. (\A k : (StopsBehind(k))' <=> StopsBehind(k)) /\ (Locks' <=> Locks)
  BY <1>1 DEF StopsBehind, Locks
<1>7. UrgentRelease' /\ EngageLocks'
  BY <1>1, <1>3, <1>6 DEF AllAccounted, UrgentRelease, EngageLocks, NoLock
<1>8. CASE motion_active' <=> motion_active
  <2>1. \A id : (Current(id))' <=> Current(id)
    BY <1>1, <1>8 DEF Current
  <2>2. RunAccounted' /\ TopicsAccounted' /\ LineAccounted' /\ RingAccounted'
    BY <1>1, <1>5, <1>6, <2>1
       DEF AllAccounted, RunAccounted, TopicsAccounted, LineAccounted, RingAccounted
  <2> QED  BY <1>5, <1>7, <2>2 DEF AllAccounted
<1>9. CASE down[1] = Engage
  <2>1. Locks /\ LockedAt(Len(topics) + 1)
    BY <1>3, <1>9 DEF AllAccounted, EngageLocks, Locks, KnownArrives
  <2>2. Len(topics) \in Nat /\ DOMAIN topics = 1..Len(topics) /\ \A j \in DOMAIN topics : j < Len(topics) + 1
    BY <1>2
  <2>3. active # None => Withdrawn(0)
    <3>1. \A j \in DOMAIN topics : 0 < j
      BY <2>2
    <3>2. CASE \E j \in DOMAIN topics : topics[j] = SafetySet(TRUE)
      BY <3>1, <3>2 DEF Withdrawn, Kills
    <3>3. CASE latched
      BY <3>3 DEF AllAccounted, LatchedStops
    <3> QED  BY <2>1, <3>2, <3>3 DEF LockedAt
  <2>4. \A i \in DOMAIN topics : topics[i].type = "request" => LockedAt(i) \/ Withdrawn(i)
    <3> SUFFICES ASSUME NEW i \in DOMAIN topics, topics[i].type = "request"
                 PROVE  LockedAt(i) \/ Withdrawn(i)
      OBVIOUS
    <3>1. CASE \E j \in DOMAIN topics : topics[j] = SafetySet(TRUE)
      <4>1. PICK j \in DOMAIN topics : topics[j] = SafetySet(TRUE)
        BY <3>1
      <4>2. j # i
        BY <4>1 DEF SafetySet
      <4>3. j < i \/ i < j
        BY <2>2, <4>2
      <4> QED  BY <4>1, <4>3 DEF LockedAt, Withdrawn, Kills
    <3>2. CASE latched /\ \A j \in DOMAIN topics : topics[j] # SafetySet(FALSE)
      BY <3>2 DEF LockedAt
    <3> QED  BY <2>1, <2>2, <3>1, <3>2 DEF LockedAt
  <2>5. RunAccounted' /\ TopicsAccounted' /\ LineAccounted' /\ RingAccounted'
    BY <1>1, <1>5, <1>6, <2>1, <2>3, <2>4
       DEF RunAccounted, TopicsAccounted, LineAccounted, RingAccounted
  <2> QED  BY <1>5, <1>7, <2>5 DEF AllAccounted
<1>10. CASE down[1].type = "result" /\ down[1].id = last_motion_id
  <2>1. last_motion_id \in AnsweredIds /\ last_motion_id \in Reached
    BY <1>3, <1>10 DEF AnsweredIds, ResultIds, Reached
  <2>2. \A id \in RequestIds(topics) \union RequestIds(up) \union RequestIds(waiting) :
           id # last_motion_id
    <3> SUFFICES ASSUME last_motion_id \in RequestIds(topics) \union RequestIds(up) \union RequestIds(waiting)
                 PROVE  FALSE
      OBVIOUS
    <3>1. last_motion_id < last_motion_id
      BY <2>1 DEF InOrder, Chain, Below
    <3> QED  BY <3>1, IdBounds
  <2>3. active # None => active.id # last_motion_id
    BY <2>1 DEF InOrder, Running
  <2>4. /\ \A i \in DOMAIN topics : topics[i].type = "request" => ~Current(topics[i].id)
        /\ \A i \in DOMAIN up : up[i].type = "request" => ~Current(up[i].id)
        /\ \A id \in RequestIds(waiting) : ~Current(id)
        /\ active # None => ~Current(active.id)
    <3>1. \A i \in DOMAIN topics : topics[i].type = "request" => topics[i].id \in RequestIds(topics)
      BY DEF RequestIds
    <3>2. \A i \in DOMAIN up : up[i].type = "request" => up[i].id \in RequestIds(up)
      BY DEF RequestIds
    <3> QED  BY <2>2, <2>3, <3>1, <3>2 DEF Current
  <2>5. RunAccounted' /\ TopicsAccounted' /\ LineAccounted' /\ RingAccounted'
    BY <1>1, <1>5, <1>6, <2>4
       DEF AllAccounted, RunAccounted, TopicsAccounted, LineAccounted, RingAccounted
  <2> QED  BY <1>5, <1>7, <2>5 DEF AllAccounted
<1>11. CASE ~(motion_active' <=> motion_active)
  <2>1. CASE down[1] \in Stops
    <3>1. OnStopFrame(down[1])
      BY <1>3, <2>1 DEF Receive
    <3>2. down[1] # Release
      BY <1>11, <3>1, TypeParts DEF OnStopFrame, Flags
    <3>3. down[1] \in Downs /\ Cancel \notin Downs
      BY <1>2, <1>3, Kinds DEF Downs
    <3> QED  BY <1>9, <2>1, <3>2, <3>3 DEF Stops
  <2>2. CASE down[1] \notin Stops
    <3>1. OnResult(down[1].id) /\ down[1].type = "result"
      BY <1>2, <1>3, <2>2 DEF Receive, Downs, Stops
    <3>2. down[1].id = last_motion_id
      BY <1>11, <3>1, TypeParts DEF OnResult, Answers, Flags
    <3> QED  BY <1>10, <3>1, <3>2
  <2> QED  BY <2>1, <2>2
<1> QED  BY <1>8, <1>11

LEMMA SendUpAccounted == ASSUME TypeOK, AllAccounted, SendUp PROVE AllAccounted'
<1>1. /\ UNCHANGED <<topics, down, latched, active, known, connected, plugged, given_up>>
      /\ UNCHANGED <<motion_active, last_motion_id>>
  BY DEF SendUp, Transmit, motion, port, bridge, robot
<1>2. /\ waiting \in Seq(Frames) /\ up \in Seq(Frames \union Stops)
      /\ urgent \in Stops \union {None}
  BY TypeParts DEF Ring, Outside, Lined
<1>3. /\ \A k : (Withdrawn(k))' <=> Withdrawn(k)
      /\ \A k : (LockedAt(k))' <=> LockedAt(k)
      /\ \A id : (Current(id))' <=> Current(id)
  BY <1>1 DEF Withdrawn, LockedAt, Current
<1>4. Severed' /\ LatchedStops' /\ KnownArrives' /\ TopicRelease' /\ NoLock' = NoLock
  BY <1>1, <1>3 DEF AllAccounted, Severed, LatchedStops, KnownArrives, TopicRelease, NoLock
<1>5. Closed' /\ up' = (IF plugged THEN Append(up, Outgoing) ELSE up)
  BY <1>1 DEF AllAccounted, Closed, SendUp
<1>6. /\ Len(up) \in Nat /\ DOMAIN up = 1..Len(up)
      /\ plugged => /\ DOMAIN up' = 1..(Len(up) + 1) /\ up'[Len(up) + 1] = Outgoing
                    /\ \A i \in DOMAIN up : up'[i] = up[i] /\ i < Len(up) + 1
  BY <1>2, <1>5
<1>7. CASE urgent # None
  <2>1. waiting' = waiting /\ urgent' = None /\ Outgoing = urgent /\ None \notin Stops
    BY <1>7, NoneAssumption DEF SendUp, Transmit, Outgoing
  <2>2. urgent.type # "request" /\ urgent \in Stops
    BY <1>2, <1>7, Kinds DEF Stops
  <2>3. CASE urgent = Release
    <3>1. up = <<>> /\ NoLock /\ ~Locks /\ ~(\E k : StopsBehind(k))
      BY <2>3, Kinds DEF AllAccounted, UrgentRelease, Locks, StopsBehind, Halts
    <3>2. \A i \in DOMAIN up' : i = 1 /\ up'[i] = Release
      BY <1>5, <2>1, <2>3, <3>1
    <3>3. RunAccounted' /\ TopicsAccounted' /\ RingAccounted'
      BY <1>1, <1>3, <2>1, <3>1 DEF AllAccounted, RunAccounted, TopicsAccounted, RingAccounted
    <3>4. LineAccounted'
      BY <2>2, <2>3, <3>2 DEF LineAccounted
    <3>5. UrgentRelease' /\ LineRelease'
      BY <1>4, <2>1, <3>1, <3>2 DEF UrgentRelease, LineRelease, Stops
    <3>6. EngageLocks'
      BY <1>1, <3>1 DEF AllAccounted, EngageLocks
    <3> QED  BY <1>4, <1>5, <3>3, <3>4, <3>5, <3>6 DEF AllAccounted
  <2>4. CASE urgent # Release /\ plugged
    <3>1. urgent \in Halts /\ urgent # Release
      BY <2>2, <2>4 DEF Stops, Halts
    <3>2. \A k \in {0} \union DOMAIN up : (StopsBehind(k))'
      BY <1>6, <2>1, <2>4, <3>1 DEF StopsBehind
    <3>3. Locks => Locks'
      BY <1>1, <1>6, <2>1, <2>4, <3>1 DEF Locks, Stops
    <3>4. RunAccounted' /\ TopicsAccounted' /\ RingAccounted'
      BY <1>1, <1>3, <2>1, <3>2, <3>3 DEF AllAccounted, RunAccounted, TopicsAccounted, RingAccounted
    <3>5. LineAccounted'
      BY <1>6, <2>1, <2>2, <2>4, <3>2 DEF LineAccounted
    <3>6. UrgentRelease' /\ LineRelease'
      BY <1>4, <1>6, <2>1, <2>4, <3>1 DEF AllAccounted, UrgentRelease, LineRelease, Stops
    <3>7. EngageLocks'
      BY <1>1, <3>3 DEF AllAccounted, EngageLocks
    <3> QED  BY <1>4, <1>5, <3>4, <3>5, <3>6, <3>7 DEF AllAccounted
  <2>5. CASE urgent # Release /\ ~plugged
    <3>1. up = <<>> /\ up' = <<>> /\ ~connected
      BY <1>5, <2>5 DEF AllAccounted, Closed
    <3>2. Locks => Locks'
      BY <1>1, <2>1, <3>1 DEF Locks, Stops
    <3>3. RunAccounted' /\ TopicsAccounted' /\ RingAccounted'
      BY <1>1, <1>3, <2>1, <3>1, <3>2
         DEF AllAccounted, RunAccounted, TopicsAccounted, RingAccounted, Severed
    <3>4. LineAccounted' /\ UrgentRelease' /\ LineRelease'
      BY <2>1, <3>1 DEF LineAccounted, UrgentRelease, LineRelease, Stops
    <3>5. EngageLocks'
      BY <1>1, <3>2 DEF AllAccounted, EngageLocks
    <3> QED  BY <1>4, <1>5, <3>3, <3>4, <3>5 DEF AllAccounted
  <2> QED  BY <2>3, <2>4, <2>5
<1>8. CASE urgent = None
  <2>1. waiting # <<>> /\ waiting' = Tail(waiting) /\ urgent' = urgent /\ Outgoing = waiting[1]
    BY <1>2, <1>8 DEF SendUp, Transmit, Outgoing
  <2>2. /\ RequestIds(waiting') \subseteq RequestIds(waiting)
        /\ Outgoing.type = "request" => Outgoing.id \in RequestIds(waiting)
    BY <1>2, <2>1, IdsTail
  <2>3. Outgoing # Release /\ Outgoing \notin Halts
    <3>1. Outgoing \in Frames
      BY <1>2, <2>1, EmptySeq
    <3>2. Frames \intersect Stops = {}
      BY DEF Frames, Stops, Hello, BrightLight, JogTo, Release, Engage, Cancel, Stop
    <3> QED  BY <3>1, <3>2 DEF Stops, Halts
  <2>4. \A k \in {0} \union DOMAIN up : StopsBehind(k) => (StopsBehind(k))'
    BY <1>5, <1>6, <2>1 DEF StopsBehind
  <2>5. Locks => Locks'
    <3>1. \A j \in DOMAIN up' : (j \in DOMAIN up /\ up'[j] = up[j]) \/ up'[j] = Outgoing
      BY <1>5, <1>6
    <3> QED  BY <1>1, <2>1, <2>3, <3>1 DEF Locks
  <2>6. RunAccounted' /\ TopicsAccounted' /\ RingAccounted'
    BY <1>1, <1>3, <2>2, <2>4, <2>5 DEF AllAccounted, RunAccounted, TopicsAccounted, RingAccounted
  <2>7. LineAccounted'
    <3> SUFFICES ASSUME NEW i \in DOMAIN up', up'[i].type = "request"
                 PROVE  (Current(up[i].id) \/ Locks \/ StopsBehind(i))'
      BY DEF LineAccounted
    <3>1. CASE i \in DOMAIN up /\ up'[i] = up[i]
      BY <1>3, <2>4, <2>5, <3>1 DEF AllAccounted, LineAccounted
    <3>2. CASE up'[i] = Outgoing
      BY <1>3, <2>2, <2>5, <3>2 DEF AllAccounted, RingAccounted
    <3> QED  BY <1>5, <1>6, <3>1, <3>2
  <2>8. UrgentRelease' /\ LineRelease'
    <3>1. urgent' # Release
      BY <1>8, <2>1, NoneAssumption DEF Stops
    <3>2. \A j \in DOMAIN up' : (j \in DOMAIN up /\ up'[j] = up[j]) \/ up'[j] = Outgoing
      BY <1>5, <1>6
    <3> QED  BY <1>4, <2>3, <3>1, <3>2 DEF AllAccounted, UrgentRelease, LineRelease
  <2>9. EngageLocks'
    BY <1>1, <2>5 DEF AllAccounted, EngageLocks
  <2> QED  BY <1>4, <1>5, <2>6, <2>7, <2>8, <2>9 DEF AllAccounted
<1> QED  BY <1>7, <1>8

-----------------------------------------------------------------------------
(* The line and the bridge. *)

\* A message that joins the topics ends what it can, and unlocks nothing before it.
LEMMA TopicJoins ==
    ASSUME topics \in Seq(Topics), NEW message, topics' = Append(topics, message), latched' = latched,
           NEW last \in Nat, last = Len(topics) + 1
    PROVE  /\ \A k : Withdrawn(k) => (Withdrawn(k))'
           /\ Kills(message) => \A k \in {0} \union DOMAIN topics : (Withdrawn(k))'
           /\ \A i \in DOMAIN topics : LockedAt(i) => (LockedAt(i))'
           /\ LockedAt(last) => (LockedAt(last))'
           /\ LockedAt(last) /\ message # SafetySet(FALSE) => (LockedAt(last + 1))'
           /\ message = SafetySet(TRUE) => (LockedAt(last + 1))'
           /\ DOMAIN topics' = DOMAIN topics \union {last}
           /\ Len(topics') = last /\ topics'[last] = message
           /\ \A i \in DOMAIN topics : topics'[i] = topics[i] /\ i < last /\ 0 < i
<1>1. /\ Len(topics) \in Nat /\ DOMAIN topics = 1..Len(topics)
      /\ Len(topics') = last /\ DOMAIN topics' = 1..last /\ topics'[last] = message
      /\ \A i \in DOMAIN topics : topics'[i] = topics[i]
  OBVIOUS
<1>2. /\ DOMAIN topics' = DOMAIN topics \union {last}
      /\ \A i \in DOMAIN topics : i < last /\ 0 < i /\ i \in Nat
      /\ 0 < last /\ last < last + 1
  BY <1>1
<1>3. \A i \in DOMAIN topics : i < last + 1
  BY <1>2
<1>4. \A i \in DOMAIN topics : ~(last < i) /\ i # last
  BY <1>2
<1>5. \A k : Withdrawn(k) => (Withdrawn(k))'
  BY <1>1, <1>2 DEF Withdrawn
<1>6. Kills(message) => \A k \in {0} \union DOMAIN topics : (Withdrawn(k))'
  BY <1>1, <1>2 DEF Withdrawn, Kills
<1>7. \A i \in DOMAIN topics : LockedAt(i) => (LockedAt(i))'
  BY <1>1, <1>2, <1>4 DEF LockedAt
<1>8. LockedAt(last) => (LockedAt(last))'
  <2>1. ~(last < last)
    OBVIOUS
  <2> QED  BY <1>1, <1>2, <2>1 DEF LockedAt
<1>9. LockedAt(last) /\ message # SafetySet(FALSE) => (LockedAt(last + 1))'
  BY <1>1, <1>2, <1>3, <1>4 DEF LockedAt
<1>10. message = SafetySet(TRUE) => (LockedAt(last + 1))'
  BY <1>1, <1>2 DEF LockedAt
<1> QED  BY <1>1, <1>2, <1>5, <1>6, <1>7, <1>8, <1>9, <1>10

LEMMA UnplugAccounted == ASSUME TypeOK, AllAccounted, Unplug PROVE AllAccounted'
<1>1. /\ UNCHANGED <<waiting, urgent, motion_active, last_motion_id, latched, active, known, given_up>>
      /\ ~plugged' /\ ~connected' /\ up' = <<>> /\ down' = <<>>
      /\ topics' = (IF connected THEN Append(topics, Disconnected) ELSE topics)
  BY DEF Unplug, app, ring, motion, bridge, robot
<1>2. topics \in Seq(Topics)
  BY TypeParts DEF Outside, Queued
<1>3. /\ Disconnected.type # "request" /\ Kills(Disconnected)
      /\ Disconnected # SafetySet(TRUE) /\ Disconnected # SafetySet(FALSE)
  BY DEF Disconnected, Kills, SafetySet
<1>4. /\ active' # None => (Withdrawn(0))'
      /\ \A i \in DOMAIN topics' : topics'[i].type = "request" => (Withdrawn(i))'
      /\ KnownArrives' /\ TopicRelease' /\ (NoLock => NoLock')
  <2>1. CASE connected
    <3>1. topics' = Append(topics, Disconnected)
      BY <1>1, <2>1
    <3>0. PICK last \in Nat : last = Len(topics) + 1
      BY <1>2
    <3>2. /\ Kills(Disconnected) => \A k \in {0} \union DOMAIN topics : (Withdrawn(k))'
          /\ LockedAt(last) /\ Disconnected # SafetySet(FALSE) => (LockedAt(last + 1))'
          /\ DOMAIN topics' = DOMAIN topics \union {last}
          /\ Len(topics') = last /\ topics'[last] = Disconnected
          /\ \A i \in DOMAIN topics : topics'[i] = topics[i] /\ i < last /\ 0 < i
      BY <1>1, <1>2, <3>0, <3>1, TopicJoins
    <3>3. KnownArrives'
      <4>1. LockedAt(last) => (LockedAt(Len(topics) + 1))'
        BY <1>3, <3>2
      <4> QED  BY <1>1, <3>0, <4>1 DEF AllAccounted, KnownArrives
    <3>4. TopicRelease' /\ (NoLock => NoLock')
      BY <1>3, <3>2 DEF AllAccounted, TopicRelease, NoLock
    <3>5. \A i \in DOMAIN topics' : topics'[i].type = "request" => (Withdrawn(i))'
      BY <1>3, <3>2
    <3> QED  BY <1>3, <3>2, <3>3, <3>4, <3>5
  <2>2. CASE ~connected
    <3>1. topics' = topics
      BY <1>1, <2>2
    <3>2. \A k : (Withdrawn(k))' <=> Withdrawn(k)
      BY <3>1 DEF Withdrawn
    <3>3. KnownArrives'
      BY <1>1, <3>1 DEF AllAccounted, KnownArrives, LockedAt
    <3> QED  BY <1>1, <2>2, <3>1, <3>2, <3>3 DEF AllAccounted, Severed, TopicRelease, NoLock
  <2> QED  BY <2>1, <2>2
<1>5. Locks => Locks'
  BY <1>1 DEF Locks
<1>6. RunAccounted' /\ TopicsAccounted' /\ LineAccounted' /\ RingAccounted'
  BY <1>1, <1>4, <1>5
     DEF AllAccounted, RunAccounted, TopicsAccounted, LineAccounted, RingAccounted, Current
<1>7. Severed' /\ Closed' /\ LatchedStops'
  BY <1>1, <1>4 DEF AllAccounted, Severed, Closed, LatchedStops
<1>8. UrgentRelease' /\ LineRelease' /\ EngageLocks'
  BY <1>1, <1>4, IdsEmpty DEF AllAccounted, UrgentRelease, LineRelease, EngageLocks
<1> QED  BY <1>4, <1>6, <1>7, <1>8 DEF AllAccounted

\* Steps that move nothing but results, tags and the port.
LEMMA QuietAccounted ==
    ASSUME TypeOK, AllAccounted, Replug \/ OnHeartbeat \/ TagExpires \/ OnMotionResult
    PROVE  AllAccounted'
<1>1. UNCHANGED <<waiting, urgent, motion_active, last_motion_id, up, topics, latched, active, known,
                  given_up>>
  BY DEF Replug, OnHeartbeat, TagExpires, OnMotionResult, app, ring, motion, line, bridge, robot
<1>2. /\ \A k : (Withdrawn(k))' <=> Withdrawn(k)
      /\ \A k : (LockedAt(k))' <=> LockedAt(k)
      /\ \A k : (StopsBehind(k))' <=> StopsBehind(k)
      /\ \A id : (Current(id))' <=> Current(id)
      /\ (Locks' <=> Locks) /\ (NoLock' <=> NoLock)
  BY <1>1 DEF Withdrawn, LockedAt, StopsBehind, Current, Locks, NoLock
<1>3. RunAccounted' /\ TopicsAccounted' /\ LineAccounted' /\ RingAccounted'
  BY <1>1, <1>2 DEF AllAccounted, RunAccounted, TopicsAccounted, LineAccounted, RingAccounted
<1>4. LatchedStops' /\ KnownArrives' /\ UrgentRelease' /\ LineRelease' /\ TopicRelease'
  BY <1>1, <1>2 DEF AllAccounted, LatchedStops, KnownArrives, UrgentRelease, LineRelease, TopicRelease
<1>5. connected' \/ connected' = connected
  BY DEF Replug, OnHeartbeat, TagExpires, OnMotionResult, port
<1>6. Severed'
  BY <1>1, <1>2, <1>5 DEF AllAccounted, Severed
<1>7. Closed'
  BY DEF AllAccounted, Closed, Replug, OnHeartbeat, TagExpires, OnMotionResult, port, line
<1>8. Engage \in Values(down') => Engage \in Values(down)
  <2>1. CASE OnHeartbeat
    BY <2>1, DownAfter
  <2>2. CASE OnMotionResult
    <3>1. down' = down \/ down' = Append(down, ResultFrame(Head(results)))
      BY <2>2 DEF OnMotionResult
    <3>2. \A frame : Values(Append(down, frame)) = Values(down) \union {frame}
      <4>1. down \in Seq(Downs)
        BY TypeParts DEF Outside, Lined
      <4> QED  BY <4>1, IdsAppended
    <3>3. ResultFrame(Head(results)) # Engage
      BY DEF ResultFrame, Engage, Stop
    <3> QED  BY <3>1, <3>2, <3>3
  <2>3. CASE Replug \/ TagExpires
    BY <2>3 DEF Replug, TagExpires, line
  <2> QED  BY <2>1, <2>2, <2>3
<1>9. EngageLocks'
  BY <1>2, <1>8 DEF AllAccounted, EngageLocks
<1> QED  BY <1>3, <1>4, <1>6, <1>7, <1>9 DEF AllAccounted

\* The rest of the line behind the frame that the bridge took.
LEMMA LineMoves ==
    ASSUME TypeOK, OnFrame
    PROVE  /\ up # <<>> /\ up[1] \in Frames \union Stops /\ 1 \in DOMAIN up
           /\ \A i \in DOMAIN up' : i + 1 \in DOMAIN up /\ i + 1 # 1 /\ up'[i] = up[i + 1]
           /\ \A i \in DOMAIN up' : StopsBehind(i + 1) => (StopsBehind(i))'
           /\ StopsBehind(1) => (StopsBehind(0))'
           /\ StopsBehind(0) => (StopsBehind(0))' \/ up[1] \in Halts
<1>1. up \in Seq(Frames \union Stops) /\ up # <<>> /\ up' = Tail(up) /\ urgent' = urgent
  BY TypeParts DEF OnFrame, Outside, Lined, app, ring
<1>2. /\ Len(up) \in Nat \ {0} /\ DOMAIN up = 1..Len(up) /\ DOMAIN up' = 1..(Len(up) - 1)
      /\ up[1] \in Frames \union Stops
  BY <1>1, EmptySeq, HeadTailProperties
<1>3. \A i \in DOMAIN up' : i + 1 \in DOMAIN up /\ i + 1 # 1 /\ up'[i] = up[i + 1]
  BY <1>1, <1>2, HeadTailProperties
<1>4. \A j \in DOMAIN up : j = 1 \/ (j - 1 \in DOMAIN up' /\ up'[j - 1] = up[j] /\ 0 < j - 1)
  BY <1>2, <1>3
<1>5. \A i \in DOMAIN up', j \in DOMAIN up : i + 1 < j => j # 1 /\ i < j - 1
  BY <1>2
<1>6. \A i \in DOMAIN up' : StopsBehind(i + 1) => (StopsBehind(i))'
  BY <1>1, <1>4, <1>5 DEF StopsBehind
<1>7. StopsBehind(1) => (StopsBehind(0))'
  <2>1. \A j \in DOMAIN up : 1 < j => j # 1
    BY <1>2
  <2> QED  BY <1>1, <1>4, <2>1 DEF StopsBehind
<1>8. StopsBehind(0) => (StopsBehind(0))' \/ up[1] \in Halts
  BY <1>1, <1>4 DEF StopsBehind
<1>9. 1 \in DOMAIN up
  BY <1>2
<1> QED  BY <1>1, <1>2, <1>3, <1>6, <1>7, <1>8, <1>9

LEMMA FrameAccounted == ASSUME TypeOK, AllAccounted, OnFrame PROVE AllAccounted'
<1> DEFINE frame == up[1]
<1>1. /\ UNCHANGED <<waiting, urgent, motion_active, last_motion_id, latched, active, given_up, plugged>>
      /\ connected'
      /\ known' = (IF frame \in {Engage, Release} THEN frame = Engage ELSE known)
  BY DEF OnFrame, app, ring, motion, robot
<1>2. topics \in Seq(Topics)
  BY TypeParts DEF Outside, Queued
<1>3. /\ up # <<>> /\ frame \in Frames \union Stops /\ 1 \in DOMAIN up
      /\ \A i \in DOMAIN up' : i + 1 \in DOMAIN up /\ i + 1 # 1 /\ up'[i] = up[i + 1]
      /\ \A i \in DOMAIN up' : StopsBehind(i + 1) => (StopsBehind(i))'
      /\ StopsBehind(1) => (StopsBehind(0))'
      /\ StopsBehind(0) => (StopsBehind(0))' \/ frame \in Halts
  BY LineMoves
<1>4. urgent # Release /\ plugged
  BY <1>3 DEF AllAccounted, UrgentRelease, Closed
<1>5. \A i \in DOMAIN up' : up'[i] # Release
  BY <1>3 DEF AllAccounted, LineRelease
<1>6. Severed' /\ Closed' /\ LatchedStops' /\ UrgentRelease' /\ LineRelease'
  BY <1>1, <1>4, <1>5 DEF AllAccounted, Severed, Closed, LatchedStops, UrgentRelease, LineRelease
<1>7. \A id : (Current(id))' <=> Current(id)
  BY <1>1 DEF Current
<1>8. known' = TRUE <=> frame = Engage \/ (frame # Release /\ known = TRUE)
  BY <1>1, Kinds
<1>9. Locks' <=> known' = TRUE
  BY <1>1, <1>4, <1>5 DEF Locks
<1>10. Engage \in Values(down') =>
          Engage \in Values(down) \/ frame = Engage \/ (frame.type = "hello" /\ known = TRUE)
  BY DownAfter
<1>11. ASSUME Locks PROVE frame # Release /\ known = TRUE
  BY <1>3, <1>11 DEF Locks
<1>12. EngageLocks'
  BY <1>8, <1>9, <1>10, <1>11, Kinds DEF AllAccounted, EngageLocks
<1>13. Locks => Locks'
  BY <1>8, <1>9, <1>11
<1>14. RingAccounted'
  BY <1>1, <1>7, <1>13 DEF AllAccounted, RingAccounted
<1>15. LineAccounted'
  BY <1>3, <1>7, <1>13 DEF AllAccounted, LineAccounted
<1>16. /\ (frame.type = "request" => topics' = Append(topics, Message(frame, tag)))
       /\ (frame.type = "jog" => topics' = Append(topics, Jogged(frame.moving)))
       /\ (frame = Cancel => topics' = Append(topics, Cancelled))
       /\ (frame = Engage => topics' = Append(topics, SafetySet(TRUE)))
       /\ (frame = Release => topics' = Append(topics, SafetySet(FALSE)))
       /\ (frame.type \notin {"request", "jog"} /\ frame \notin Stops => topics' = topics)
  BY TopicsAfter
<1> HIDE DEF frame
<1>17. CASE topics' = topics /\ frame \notin Stops
  <2>1. /\ \A k : (Withdrawn(k))' <=> Withdrawn(k)
        /\ \A k : (LockedAt(k))' <=> LockedAt(k)
    BY <1>1, <1>17 DEF Withdrawn, LockedAt
  <2>2. StopsBehind(0) => (StopsBehind(0))'
    BY <1>3, <1>17 DEF Stops, Halts
  <2>3. RunAccounted' /\ TopicsAccounted'
    BY <1>1, <1>7, <1>17, <2>1, <2>2 DEF AllAccounted, RunAccounted, TopicsAccounted
  <2>4. KnownArrives' /\ TopicRelease'
    BY <1>8, <1>17, <2>1 DEF AllAccounted, KnownArrives, TopicRelease, Stops
  <2> QED  BY <1>6, <1>12, <1>14, <1>15, <2>3, <2>4 DEF AllAccounted
<1>18. ASSUME NEW message, topics' = Append(topics, message),
              message.type = "request" =>
                 frame.type = "request" /\ frame \notin Stops /\ message.id = frame.id,
              frame \in Halts => Kills(message),
              message = SafetySet(TRUE) <=> frame = Engage,
              message = SafetySet(FALSE) <=> frame = Release
       PROVE  AllAccounted'
  <2>0. PICK last \in Nat : last = Len(topics) + 1
    BY <1>2
  <2>1. /\ \A k : Withdrawn(k) => (Withdrawn(k))'
        /\ Kills(message) => \A k \in {0} \union DOMAIN topics : (Withdrawn(k))'
        /\ \A i \in DOMAIN topics : LockedAt(i) => (LockedAt(i))'
        /\ LockedAt(last) => (LockedAt(last))'
        /\ LockedAt(last) /\ message # SafetySet(FALSE) => (LockedAt(last + 1))'
        /\ message = SafetySet(TRUE) => (LockedAt(last + 1))'
        /\ DOMAIN topics' = DOMAIN topics \union {last}
        /\ Len(topics') = last /\ topics'[last] = message
        /\ \A i \in DOMAIN topics : topics'[i] = topics[i] /\ i < last /\ 0 < i
    BY <1>1, <1>2, <1>18, <2>0, TopicJoins
  <2>2. KnownArrives'
    <3>1. known = TRUE => LockedAt(last)
      BY <2>0 DEF AllAccounted, KnownArrives
    <3>2. known' = TRUE => (LockedAt(Len(topics) + 1))'
      BY <1>8, <1>18, <2>1, <3>1
    <3> QED  BY <3>2 DEF KnownArrives
  <2>3. TopicRelease'
    <3>1. frame = Release => NoLock
      BY <1>3 DEF AllAccounted, LineRelease, frame
    <3>2. \A j \in DOMAIN topics : j < last /\ ~(last < j) /\ j # last
      BY <1>2, <2>0
    <3>3. SafetySet(TRUE) # SafetySet(FALSE)
      BY DEF SafetySet
    <3> SUFFICES ASSUME NEW k \in DOMAIN topics', NEW j \in DOMAIN topics',
                        topics'[k] = SafetySet(FALSE), j < k
                 PROVE  topics'[j] # SafetySet(TRUE)
      BY DEF TopicRelease
    <3>4. CASE k = last
      <4>1. j \in DOMAIN topics /\ frame = Release
        <5>1. ~(last < last)
          BY <2>0
        <5> QED  BY <1>18, <2>1, <3>4, <5>1
      <4> QED  BY <2>1, <3>1, <4>1 DEF NoLock
    <3>5. CASE k \in DOMAIN topics
      <4>1. j \in DOMAIN topics
        BY <2>1, <3>2, <3>5
      <4> QED  BY <2>1, <3>5, <4>1 DEF AllAccounted, TopicRelease
    <3> QED  BY <2>1, <3>4, <3>5
  <2>4. RunAccounted'
    BY <1>1, <1>3, <1>7, <1>18, <2>1 DEF AllAccounted, RunAccounted
  <2>5. TopicsAccounted'
    <3> SUFFICES ASSUME NEW i \in DOMAIN topics', topics'[i].type = "request"
                 PROVE  (Current(topics[i].id) \/ LockedAt(i) \/ Withdrawn(i) \/ StopsBehind(0))'
      BY DEF TopicsAccounted
    <3>1. CASE i \in DOMAIN topics
      <4>1. Current(topics[i].id) \/ LockedAt(i) \/ Withdrawn(i) \/ StopsBehind(0)
        BY <2>1, <3>1 DEF AllAccounted, TopicsAccounted
      <4>2. StopsBehind(0) => (StopsBehind(0))' \/ (Withdrawn(i))'
        BY <1>3, <1>18, <2>1, <3>1
      <4> QED  BY <1>7, <2>1, <3>1, <4>1, <4>2
    <3>2. CASE i = last
      <4>1. frame.type = "request" /\ message.id = frame.id
        BY <1>18, <2>1, <3>2
      <4>2. Current(frame.id) \/ Locks \/ StopsBehind(1)
        BY <1>3, <4>1 DEF AllAccounted, LineAccounted, frame
      <4>3. Locks => LockedAt(last)
        BY <2>0 DEF AllAccounted, KnownArrives, Locks
      <4> QED  BY <1>3, <1>7, <2>1, <3>2, <4>1, <4>2, <4>3
    <3> QED  BY <2>1, <3>1, <3>2
  <2> QED  BY <1>6, <1>12, <1>14, <1>15, <2>2, <2>3, <2>4, <2>5 DEF AllAccounted
<1>19. CASE frame.type = "request"
  <2> DEFINE message == Message(frame, tag)
  <2>1. message.type = "request" /\ message.id = frame.id
    BY DEF Message
  <2>2. frame \notin Stops
    BY <1>19, Kinds DEF Stops
  <2>3. \A latch : message # SafetySet(latch)
    BY DEF SafetySet, Message
  <2> QED  BY <1>16, <1>18, <1>19, <2>1, <2>2, <2>3 DEF Stops, Halts
<1>20. CASE frame.type = "jog"
  <2>1. frame \notin Stops
    BY <1>20, Kinds DEF Stops
  <2>2. \A latch : Jogged(frame.moving) # SafetySet(latch)
    BY DEF SafetySet, Jogged
  <2> QED  BY <1>16, <1>18, <1>20, <2>1, <2>2, QuietTopics DEF Stops, Halts
<1>21. CASE frame \in Stops
  <2>1. /\ \A latch : Cancelled # SafetySet(latch)
        /\ SafetySet(TRUE) # SafetySet(FALSE) /\ Kills(Cancelled) /\ Kills(SafetySet(TRUE))
    BY DEF Cancelled, SafetySet, Kills
  <2>2. CASE frame = Cancel
    BY <1>16, <1>18, <2>1, <2>2, QuietTopics, Kinds
  <2>3. CASE frame = Engage
    BY <1>16, <1>18, <2>1, <2>3, QuietTopics, Kinds
  <2>4. CASE frame = Release
    BY <1>16, <1>18, <2>1, <2>4, QuietTopics, Kinds DEF Halts
  <2> QED  BY <1>21, <2>2, <2>3, <2>4 DEF Stops
<1> QED  BY <1>16, <1>17, <1>19, <1>20, <1>21

-----------------------------------------------------------------------------
(* The executor. *)

\* What the first topic does, and what it means to the others that it is gone.
LEMMA FirstTaken ==
    ASSUME TypeOK, TopicRelease, 1 \in DOMAIN topics, Takes(1)
    PROVE  /\ Kills(topics[1]) => active' = None
           /\ latched' => active' = None \/ (latched /\ topics[1] # SafetySet(TRUE))
           /\ \A i \in DOMAIN topics' : i + 1 \in DOMAIN topics /\ topics'[i] = topics[i + 1]
           /\ \A i \in {0} \union DOMAIN topics' : Withdrawn(i + 1) => (Withdrawn(i))'
           /\ Withdrawn(0) => (Withdrawn(0))' \/ Kills(topics[1])
           /\ \A i \in DOMAIN topics : LockedAt(i + 1) => (LockedAt(i))'
           /\ Len(topics') + 1 = Len(topics)
<1> DEFINE message == topics[1]
<1>1. topics \in Seq(Topics) /\ latched \in BOOLEAN
  BY TypeParts DEF Outside, Queued, Driven
<1>2. /\ Len(topics) \in Nat /\ DOMAIN topics = 1..Len(topics) /\ message \in Topics
      /\ Len(topics) - 1 \in Nat
      /\ topics' = [j \in 1..(Len(topics) - 1) |-> topics[j + 1]]
      /\ OnMessage(message)
  BY <1>1 DEF Takes
<1>3. /\ DOMAIN topics' = 1..(Len(topics) - 1) /\ Len(topics') + 1 = Len(topics)
      /\ \A i \in DOMAIN topics' : i + 1 \in DOMAIN topics /\ topics'[i] = topics[i + 1]
  <2>1. DOMAIN topics' = 1..(Len(topics) - 1)
    BY <1>2
  <2>2. Len(topics') = Len(topics) - 1
    <3>1. \A n \in Nat : \A q : q = [j \in 1..n |-> topics[j + 1]] => Len(q) = n
      OBVIOUS
    <3> QED  BY <1>2, <3>1
  <2>3. \A i \in DOMAIN topics' : i + 1 \in DOMAIN topics /\ topics'[i] = topics[i + 1]
    BY <1>2, <2>1
  <2> QED  BY <1>2, <2>1, <2>2, <2>3
<1>4. /\ message.type = "safety" => message \in {SafetySet(TRUE), SafetySet(FALSE)}
      /\ SafetySet(TRUE).type = "safety" /\ SafetySet(FALSE).type = "safety"
      /\ SafetySet(TRUE).latch = TRUE /\ SafetySet(FALSE).latch = FALSE
  <2>1. \A latch \in BOOLEAN : SafetySet(latch) \in {SafetySet(TRUE), SafetySet(FALSE)}
    <3> TAKE latch \in BOOLEAN
    <3>1. latch = TRUE \/ latch = FALSE
      OBVIOUS
    <3> QED  BY <3>1
  <2>2. message.type = "safety" => message \in {SafetySet(latch) : latch \in BOOLEAN}
    BY <1>2 DEF Topics, Published, Cancelled, Disconnected, Jogged
  <2>3. /\ SafetySet(TRUE).type = "safety" /\ SafetySet(FALSE).type = "safety"
        /\ SafetySet(TRUE).latch = TRUE /\ SafetySet(FALSE).latch = FALSE
    BY DEF SafetySet
  <2> QED  BY <2>1, <2>2, <2>3
<1> HIDE DEF message
<1>5. /\ message = SafetySet(TRUE) => latched' = TRUE
      /\ message = SafetySet(FALSE) => latched' = FALSE
      /\ message \notin {SafetySet(TRUE), SafetySet(FALSE)} => latched' = latched
  BY <1>2, <1>4 DEF OnMessage
<1>6. Kills(message) => active' = None
  <2> SUFFICES ASSUME Kills(message) PROVE StopMotion
    BY DEF StopMotion, Finish
  <2>1. CASE message.type \in {"cancel", "disconnected"}
    BY <1>2, <2>1 DEF OnMessage
  <2>2. CASE message = SafetySet(TRUE)
    <3>1. message.type = "safety" /\ message.latch = TRUE
      BY <1>4, <2>2
    <3> QED  BY <1>2, <3>1 DEF OnMessage
  <2> QED  BY <2>1, <2>2 DEF Kills
<1>7. latched' => active' = None \/ (latched /\ message # SafetySet(TRUE))
  BY <1>4, <1>5, <1>6 DEF Kills
<1>8. /\ \A j \in DOMAIN topics : j = 1 \/ (j - 1 \in DOMAIN topics' /\ topics'[j - 1] = topics[j])
      /\ \A j \in DOMAIN topics, i \in {0} \union DOMAIN topics' : i + 1 < j => j # 1 /\ i < j - 1
      /\ \A j \in DOMAIN topics : 0 < j /\ (j # 1 => 0 < j - 1)
      /\ \A j, i \in DOMAIN topics : j < i + 1 /\ j # 1 => j - 1 < i
  BY <1>2, <1>3
<1>9. \A i \in {0} \union DOMAIN topics' : Withdrawn(i + 1) => (Withdrawn(i))'
  BY <1>8 DEF Withdrawn
<1>10. Withdrawn(0) => (Withdrawn(0))' \/ Kills(message)
  BY <1>8 DEF Withdrawn, message
<1>11. ASSUME NEW i \in DOMAIN topics, LockedAt(i + 1) PROVE (LockedAt(i))'
  <2>0. \A j \in DOMAIN topics' : j < i => j + 1 < i + 1
    BY <1>2, <1>3
  <2>1. CASE message = SafetySet(TRUE)
    <3>1. \A k \in DOMAIN topics : 1 < k => topics[k] # SafetySet(FALSE)
      BY <2>1 DEF TopicRelease, message
    <3>2. \A j \in DOMAIN topics' : 1 < j + 1
      BY <1>3
    <3>3. \A j \in DOMAIN topics' : topics'[j] # SafetySet(FALSE)
      BY <1>3, <3>1, <3>2
    <3> QED  BY <1>5, <2>1, <3>3 DEF LockedAt
  <2>2. CASE \E j \in DOMAIN topics : j # 1 /\ j < i + 1 /\ topics[j] = SafetySet(TRUE)
    BY <1>8, <2>2 DEF LockedAt
  <2>3. CASE message # SafetySet(TRUE) /\
             latched /\ \A j \in DOMAIN topics : j < i + 1 => topics[j] # SafetySet(FALSE)
    <3>1. message # SafetySet(FALSE)
      <4>1. 1 < i + 1
        BY <1>2
      <4> QED  BY <2>3, <4>1 DEF message
    <3>2. latched'
      BY <1>5, <2>3, <3>1
    <3> QED  BY <1>3, <2>0, <2>3, <3>2 DEF LockedAt
  <2> QED  BY <1>11, <2>1, <2>2, <2>3 DEF LockedAt, message
<1> QED  BY <1>3, <1>6, <1>7, <1>9, <1>10, <1>11 DEF message

\* Steps of the executor leave the board, the line and the bridge alone.
LEMMA RobotLeaves ==
    ASSUME AllAccounted, Deliver \/ Complete
    PROVE  /\ UNCHANGED <<waiting, urgent, up, down, known, connected, plugged, given_up>>
           /\ \A k : (StopsBehind(k))' <=> StopsBehind(k)
           /\ \A id : (Current(id))' <=> Current(id)
           /\ LineAccounted' /\ RingAccounted' /\ Closed' /\ EngageLocks'
<1>1. UNCHANGED <<waiting, urgent, up, down, known, connected, plugged, given_up,
                  motion_active, last_motion_id>>
  BY DEF Deliver, Complete, app, ring, motion, line, port, bridge
<1>2. /\ \A k : (StopsBehind(k))' <=> StopsBehind(k)
      /\ \A id : (Current(id))' <=> Current(id)
      /\ Locks' <=> Locks
  BY <1>1 DEF StopsBehind, Current, Locks
<1> QED
  BY <1>1, <1>2 DEF AllAccounted, LineAccounted, RingAccounted, Closed, EngageLocks

LEMMA CompleteAccounted == ASSUME TypeOK, AllAccounted, Complete PROVE AllAccounted'
<1>1. UNCHANGED <<topics, latched>> /\ active' = None
  BY DEF Complete, Finish
<1>2. /\ UNCHANGED <<urgent, up, known, connected>>
      /\ \A k : (StopsBehind(k))' <=> StopsBehind(k)
      /\ \A id : (Current(id))' <=> Current(id)
      /\ LineAccounted' /\ RingAccounted' /\ Closed' /\ EngageLocks'
  BY RobotLeaves
<1>3. /\ \A k : (Withdrawn(k))' <=> Withdrawn(k)
      /\ \A k : (LockedAt(k))' <=> LockedAt(k)
      /\ NoLock' <=> NoLock
  BY <1>1 DEF Withdrawn, LockedAt, NoLock
<1>4. RunAccounted' /\ TopicsAccounted' /\ Severed' /\ LatchedStops' /\ KnownArrives'
  BY <1>1, <1>2, <1>3
     DEF AllAccounted, RunAccounted, TopicsAccounted, Severed, LatchedStops, KnownArrives
<1>5. UrgentRelease' /\ LineRelease' /\ TopicRelease'
  BY <1>1, <1>2, <1>3 DEF AllAccounted, UrgentRelease, LineRelease, TopicRelease
<1> QED  BY <1>2, <1>4, <1>5 DEF AllAccounted

LEMMA DeliverAccounted == ASSUME TypeOK, AllAccounted, Tame, Deliver PROVE AllAccounted'
<1>1. 1 \in DOMAIN topics /\ Takes(1)
  BY DeliverTakes DEF Tame, Without
<1> DEFINE message == topics[1]
<1>2. /\ UNCHANGED <<urgent, up, known, connected, given_up>>
      /\ \A k : (StopsBehind(k))' <=> StopsBehind(k)
      /\ \A id : (Current(id))' <=> Current(id)
      /\ LineAccounted' /\ RingAccounted' /\ Closed' /\ EngageLocks'
  BY RobotLeaves
<1>3. /\ Kills(message) => active' = None
      /\ latched' => active' = None \/ (latched /\ message # SafetySet(TRUE))
      /\ \A i \in DOMAIN topics' : i + 1 \in DOMAIN topics /\ topics'[i] = topics[i + 1]
      /\ \A i \in {0} \union DOMAIN topics' : Withdrawn(i + 1) => (Withdrawn(i))'
      /\ Withdrawn(0) => (Withdrawn(0))' \/ Kills(message)
      /\ \A i \in DOMAIN topics : LockedAt(i + 1) => (LockedAt(i))'
      /\ Len(topics') + 1 = Len(topics)
  BY <1>1, FirstTaken DEF AllAccounted
<1>4. topics \in Seq(Topics) /\ message \in Topics /\ OnMessage(message)
  BY <1>1, TypeParts DEF Takes, Outside, Queued
<1>5. \/ active' = None \/ active' = active
      \/ message.type = "request" /\ ~latched /\ active' = message
  BY <1>4, MessageDeeds DEF Finish
<1> HIDE DEF message
<1>6. Len(topics) \in DOMAIN topics /\ \A i \in DOMAIN topics' : i \in DOMAIN topics
  <2>1. DOMAIN topics = 1..Len(topics) /\ Len(topics) \in Nat
    BY <1>4
  <2>2. DOMAIN topics' = 1..(Len(topics) - 1)
    BY <1>1 DEF Takes
  <2> QED  BY <1>1, <2>1, <2>2
<1>7. NoLock => NoLock'
  BY <1>3 DEF NoLock
<1>8. KnownArrives'
  <2>1. LockedAt(Len(topics) + 1) => (LockedAt(Len(topics) + 1))'
    <3>1. PICK last \in DOMAIN topics : last = Len(topics)
      BY <1>6
    <3>2. LockedAt(last + 1) => (LockedAt(last))'
      BY <1>3
    <3> QED  BY <1>3, <3>1, <3>2
  <2> QED  BY <1>2, <2>1 DEF AllAccounted, KnownArrives
<1>9. UrgentRelease' /\ LineRelease'
  BY <1>2, <1>7 DEF AllAccounted, UrgentRelease, LineRelease
<1>10. TopicRelease'
  <2>1. \A j, k \in DOMAIN topics' : j < k => j + 1 < k + 1
    <3>1. \A j \in DOMAIN topics' : j \in Nat
      BY <1>4, <1>6
    <3> QED  BY <3>1
  <2> QED  BY <1>3, <2>1 DEF AllAccounted, TopicRelease
<1>11. LatchedStops'
  BY <1>3, <1>5 DEF AllAccounted, LatchedStops
<1>12. message.type = "request" /\ active' = message =>
          /\ Current(message.id) \/ LockedAt(1) \/ Withdrawn(1) \/ StopsBehind(0)
          /\ ~connected => Withdrawn(1)
  BY <1>1 DEF AllAccounted, TopicsAccounted, Severed, message
<1>13. ~latched => ~LockedAt(1)
  <2>1. \A j \in DOMAIN topics : ~(j < 1)
    BY <1>4
  <2> QED  BY <2>1 DEF LockedAt
<1>14. Withdrawn(1) => (Withdrawn(0))'
  <2>1. 0 + 1 = 1
    OBVIOUS
  <2> QED  BY <1>3, <2>1
<1>15. RunAccounted'
  BY <1>2, <1>3, <1>5, <1>12, <1>13, <1>14 DEF AllAccounted, RunAccounted
<1>16. TopicsAccounted'
  BY <1>2, <1>3, <1>6 DEF AllAccounted, TopicsAccounted
<1>17. Severed'
  BY <1>2, <1>3, <1>5, <1>12, <1>14 DEF AllAccounted, Severed
<1> QED  BY <1>2, <1>8, <1>9, <1>10, <1>11, <1>15, <1>16, <1>17 DEF AllAccounted

-----------------------------------------------------------------------------

LEMMA AccountStep ==
    ASSUME TypeOK, AtRest, Ordered, Unwrapped, Accounted, [Next]_vars PROVE Accounted'
<1> SUFFICES ASSUME Tame PROVE AllAccounted'
  BY SameScenario DEF Accounted, Tame, Without
<1>1. AllAccounted /\ InOrder
  BY DEF Accounted, Ordered, Tame, Without
<1>2. ~Noise /\ ~Restart
  BY DEF Tame, Without, Noise, Restart, May
<1>3. CASE UNCHANGED vars
  <2>1. UNCHANGED <<waiting, urgent, motion_active, last_motion_id, up, down, topics, latched, active,
                    known, connected, plugged, given_up>>
    BY <1>3 DEF vars, app, ring, motion, outside, line, port, bridge, robot
  <2>2. /\ \A k : (Withdrawn(k))' <=> Withdrawn(k)
        /\ \A k : (LockedAt(k))' <=> LockedAt(k)
        /\ \A k : (StopsBehind(k))' <=> StopsBehind(k)
        /\ \A id : (Current(id))' <=> Current(id)
        /\ (Locks' <=> Locks) /\ (NoLock' <=> NoLock)
    BY <2>1 DEF Withdrawn, LockedAt, StopsBehind, Current, Locks, NoLock
  <2>3. RunAccounted' /\ TopicsAccounted' /\ LineAccounted' /\ RingAccounted'
    BY <1>1, <2>1, <2>2 DEF AllAccounted, RunAccounted, TopicsAccounted, LineAccounted, RingAccounted
  <2>4. Severed' /\ Closed' /\ LatchedStops' /\ KnownArrives'
    BY <1>1, <2>1, <2>2 DEF AllAccounted, Severed, Closed, LatchedStops, KnownArrives
  <2>5. UrgentRelease' /\ LineRelease' /\ TopicRelease' /\ EngageLocks'
    BY <1>1, <2>1, <2>2 DEF AllAccounted, UrgentRelease, LineRelease, TopicRelease, EngageLocks
  <2> QED  BY <2>3, <2>4, <2>5 DEF AllAccounted
<1> QED
  BY <1>1, <1>2, <1>3, HandleAccounted, ElapseAccounted, GiveUpAccounted, SendUpAccounted,
     ReceiveAccounted, UnplugAccounted, QuietAccounted, FrameAccounted, DeliverAccounted,
     CompleteAccounted DEF Next

THEOREM Accounting == ASSUME Unwrapped PROVE Spec => []Accounted
<1>1. Init => Accounted
  <2> SUFFICES ASSUME Init PROVE AllAccounted
    BY DEF Accounted
  <2>1. /\ waiting = <<Hello>> /\ urgent = None /\ up = <<>> /\ down = <<>> /\ topics = <<>>
        /\ plugged /\ known = None /\ latched = FALSE /\ active = None /\ ~motion_active
    BY DEF Init, AppInit
  <2>2. RequestIds(waiting) = {}
    BY <2>1, QuietFrames DEF RequestIds, Quiet
  <2>3. RunAccounted /\ TopicsAccounted /\ LineAccounted /\ RingAccounted
    BY <2>1, <2>2 DEF RunAccounted, TopicsAccounted, LineAccounted, RingAccounted
  <2>4. Severed /\ Closed /\ LatchedStops /\ UrgentRelease /\ LineRelease /\ TopicRelease /\ EngageLocks
    BY <2>1, IdsEmpty
       DEF Severed, Closed, LatchedStops, UrgentRelease, LineRelease, TopicRelease, EngageLocks, NoLock
  <2>5. KnownArrives
    BY <2>1, NothingAssumption DEF KnownArrives
  <2> QED  BY <2>3, <2>4, <2>5 DEF AllAccounted
<1>2. IInv /\ TypeOK /\ Ordered /\ Accounted /\ [Next]_vars => Accounted'
  BY AccountStep DEF IInv
<1> QED  BY <1>1, <1>2, Invariance, Order, Typing, PTL DEF Spec

\* Once everything has arrived, the robot runs no motion that the board has stopped,
\* locked or cancelled, for every room, limit and number of steps below the wrap of the
\* ids, with any traffic in the ring and however often the port closes.
THEOREM No_runaway == ASSUME Unwrapped PROVE Spec => []NoRunaway
<1>1. Accounted => NoRunaway
  <2> SUFFICES ASSUME AllAccounted, Settled, active # None
               PROVE  (motion_active /\ last_motion_id = active.id) \/ active.id \in given_up
    BY DEF NoRunaway, Accounted, Tame
  <2>1. ~Withdrawn(0) /\ ~StopsBehind(0)
    BY NoneAssumption DEF Settled, Withdrawn, StopsBehind, Halts, Stops
  <2> QED  BY <2>1 DEF AllAccounted, RunAccounted, Current
<1> QED  BY <1>1, Accounting, PTL
=============================================================================
