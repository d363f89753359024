------------------------------- MODULE StcApp -------------------------------
(***************************************************************************)
(* The application of the STC board (petcargo.c): what speech, keys, the   *)
(* sensors and the frames of the robot do to the emergency stop, to sleep, *)
(* and to the motion the board believes is under way.                      *)
(*                                                                         *)
(* One action is one handler, run to its end by the main loop.  Emotions,  *)
(* faces, sounds and the display are left out, and so are the clocks: what *)
(* waits for a deadline may happen at any time.  A frame is queued and     *)
(* sent as a whole; UartTx has the bytes.                                  *)
(***************************************************************************)
EXTENDS Naturals, Sequences

CONSTANTS
    Room,      \* frames the ring can hold (TX_SLOTS - 1)
    None

ASSUME RoomAssumption == Room \in Nat \ {0}

VARIABLES
    emergency, sleeping, motion_active, motion_id, last_motion_id, light_armed,
    k3,                \* button_k3: "up", "pressed", or "long" once that was told
    k3_can_release,
    remote_direction,  \* is it other than JOG_STOP?
    override,          \* is override_deadline set?
    waiting,           \* the transmit ring, as far as this module fills it
    urgent,            \* the frame in the urgent slot, or None
    crowded,           \* does other traffic compete for the ring?
    engaging,          \* history: this press of K3 engaged the stop
    jogging            \* history: the board asked for a jog in a direction, and has neither
                       \* ended nor cancelled it

motion == <<motion_active, motion_id, last_motion_id, jogging>>
keys == <<k3, k3_can_release, engaging>>
remote == <<remote_direction, override>>
ring == <<waiting, urgent>>
app == <<emergency, sleeping, motion, light_armed, keys, remote, ring, crowded>>

Id == 0..65535           \* 0 only before the first request
RequestId == 1..65535

Stop(code) == [type |-> "stop", code |-> code]
Release == Stop("release")   \* 0
Engage == Stop("engage")     \* 1
Cancel == Stop("cancel")     \* 2
Hello == [type |-> "hello"]
BrightLight == [type |-> "event"]      \* the only event anybody acts on
JogTo(moving) == [type |-> "jog", moving |-> moving]
RequestOf(id, escape) == [type |-> "request", id |-> id, escape |-> escape]

Stops == {Release, Engage, Cancel}
ASSUME NoneAssumption == None \notin Stops
Frames == {Hello, BrightLight} \union {JogTo(moving) : moving \in BOOLEAN}
          \union [type : {"request"}, id : RequestId, escape : BOOLEAN]

AppTypeOK ==
    /\ emergency \in BOOLEAN /\ sleeping \in BOOLEAN /\ motion_active \in BOOLEAN
    /\ motion_id \in Id /\ last_motion_id \in Id
    /\ light_armed \in BOOLEAN
    /\ k3 \in {"up", "pressed", "long"}
    /\ k3_can_release \in BOOLEAN
    /\ remote_direction \in BOOLEAN /\ override \in BOOLEAN
    /\ waiting \in Seq(Frames) /\ Len(waiting) <= Room
    /\ urgent \in Stops \union {None}
    /\ crowded \in BOOLEAN
    /\ engaging \in BOOLEAN /\ jogging \in BOOLEAN

\* petcargo_init
AppInit ==
    /\ emergency = FALSE /\ sleeping = FALSE
    /\ motion_active = FALSE /\ motion_id = 0 /\ last_motion_id = 0
    /\ light_armed = TRUE
    /\ k3 = "up" /\ k3_can_release = FALSE
    /\ remote_direction = FALSE /\ override = FALSE
    /\ waiting = <<Hello>> /\ urgent = None
    /\ crowded \in BOOLEAN
    /\ engaging = FALSE /\ jogging = FALSE

-----------------------------------------------------------------------------
(* Sending. *)

\* The ring after protocol_send of a frame that is not a STOP: tx_enqueue drops
\* it when the ring is full.
Offered(queue, frame) ==
    {Append(queue, frame) : accepted \in IF Len(queue) < Room THEN {TRUE} ELSE {}}
        \union (IF crowded \/ Len(queue) = Room THEN {queue} ELSE {})

\* Mutant: the STOP overtakes what waits.
Overtake(code) == urgent' = code /\ UNCHANGED waiting

\* send_stop: everything that waits is withdrawn.
SendStop(code) == urgent' = code /\ waiting' = <<>>

CancelMotion ==
    /\ SendStop(Cancel)
    /\ motion_active' = FALSE /\ jogging' = FALSE
    /\ UNCHANGED <<motion_id, last_motion_id>>

Following(id) == IF id = 65535 THEN 1 ELSE id + 1

MayMove(asleep) == ~emergency /\ ~asleep /\ ~motion_active

\* request_motion, with the ring as the handler left it so far.
RequestMotion(queue, asleep, escape) ==
    IF ~MayMove(asleep) THEN waiting' = queue /\ UNCHANGED motion
    ELSE LET id == Following(motion_id)
         IN /\ motion_id' = id /\ UNCHANGED jogging
            /\ waiting' \in Offered(queue, RequestOf(id, escape))
            /\ IF waiting' = queue THEN UNCHANGED <<motion_active, last_motion_id>>
               ELSE motion_active' = TRUE /\ last_motion_id' = id

\* emergency_set
EmergencySet(engaged) ==
    IF emergency = engaged THEN UNCHANGED <<emergency, motion, ring>>
    ELSE /\ emergency' = engaged
         /\ motion_active' = FALSE /\ jogging' = FALSE
         /\ SendStop(IF engaged THEN Engage ELSE Release)
         /\ UNCHANGED <<motion_id, last_motion_id>>

-----------------------------------------------------------------------------
(* Speech: voice_command. *)

VoiceStop ==
    /\ CancelMotion
    /\ UNCHANGED <<emergency, sleeping, light_armed, keys, remote, crowded>>

VoiceMotion ==
    /\ RequestMotion(waiting, sleeping, FALSE)
    /\ UNCHANGED <<emergency, sleeping, light_armed, keys, remote, urgent, crowded>>

VoiceSleep ==
    /\ sleeping' = TRUE
    /\ CancelMotion
    /\ UNCHANGED <<emergency, light_armed, keys, remote, crowded>>

VoiceWake ==
    /\ sleeping' = FALSE
    /\ UNCHANGED <<emergency, motion, light_armed, keys, remote, ring, crowded>>

\* Commands 9, 11 and 12, and sample_temperature: a face for some seconds.
ShowFace ==
    /\ override' = TRUE
    /\ UNCHANGED <<emergency, sleeping, motion, light_armed, keys, remote_direction, ring,
                   crowded>>

-----------------------------------------------------------------------------
(* Keys and sensors: handle_inputs, sample_acceleration, sample_light. *)

K2Short ==
    /\ sleeping' = ~sleeping
    /\ IF sleeping' THEN CancelMotion ELSE UNCHANGED <<motion, ring>>
    /\ UNCHANGED <<emergency, light_armed, keys, remote, crowded>>

K3Press ==
    /\ k3 = "up"
    /\ k3' = "pressed"
    /\ k3_can_release' = emergency
    /\ engaging' = ~emergency
    /\ EmergencySet(TRUE)
    /\ UNCHANGED <<sleeping, light_armed, remote, crowded>>

\* Mutant: a long press releases whatever it was that it found.
EveryHold == TRUE

HoldReleases == k3_can_release

K3Long ==
    /\ k3 = "pressed"
    /\ k3' = "long"
    /\ IF HoldReleases
       THEN EmergencySet(FALSE) /\ k3_can_release' = FALSE
       ELSE UNCHANGED <<emergency, motion, ring, k3_can_release>>
    /\ UNCHANGED <<sleeping, light_armed, engaging, remote, crowded>>

K3Up ==
    /\ k3 # "up"
    /\ k3' = "up"
    /\ engaging' = FALSE
    /\ UNCHANGED <<emergency, sleeping, motion, light_armed, k3_can_release,
                   remote, ring, crowded>>

Shake ==
    /\ EmergencySet(TRUE)
    /\ UNCHANGED <<sleeping, light_armed, keys, remote, crowded>>

\* trigger_bright_light: the board wakes up, tells the event, and asks to escape.
Flash ==
    /\ light_armed
    /\ light_armed' = FALSE
    /\ sleeping' = FALSE
    /\ \E queue \in Offered(waiting, BrightLight) : RequestMotion(queue, FALSE, TRUE)
    /\ UNCHANGED <<emergency, keys, remote, urgent, crowded>>

Dark ==
    /\ ~light_armed
    /\ light_armed' = TRUE
    /\ UNCHANGED <<emergency, sleeping, motion, keys, remote, ring, crowded>>

-----------------------------------------------------------------------------
(* The infrared remote: poll_ir. *)

\* The jog that ends the key's jog is withdrawn by the STOP behind it, unless
\* the line was free and it had left.
RemoteStop ==
    /\ CancelMotion
    /\ remote_direction' = FALSE
    /\ UNCHANGED <<emergency, sleeping, light_armed, keys, override, crowded>>

\* Mutant: the face of the jog, and with it the jog, has no end.
NoDeadline == UNCHANGED override

JogDeadline == override' = TRUE

\* A key of a direction, or one without a meaning, which asks for no movement.
RemoteKey(moving) ==
    /\ remote_direction' = moving
    /\ IF sleeping \/ emergency
       THEN UNCHANGED <<motion, ring, override>>
       ELSE /\ jogging' = moving
            /\ JogDeadline
            /\ IF motion_active
               THEN /\ motion_active' = FALSE /\ urgent' = Cancel
                    /\ waiting' \in Offered(<<>>, JogTo(moving))
               ELSE /\ waiting' \in Offered(waiting, JogTo(moving))
                    /\ UNCHANGED <<motion_active, urgent>>
            /\ UNCHANGED <<motion_id, last_motion_id>>
    /\ UNCHANGED <<emergency, sleeping, light_armed, keys, crowded>>

-----------------------------------------------------------------------------
(* The main loop itself: petcargo_run_once. *)

\* motion_deadline
GiveUp ==
    /\ motion_active
    /\ motion_active' = FALSE
    /\ UNCHANGED <<emergency, sleeping, motion_id, last_motion_id, jogging, light_armed, keys,
                   remote, ring, crowded>>

\* override_deadline
OverrideEnds ==
    /\ override
    /\ override' = FALSE
    /\ IF remote_direction
       THEN /\ remote_direction' = FALSE /\ jogging' = FALSE
            /\ waiting' \in Offered(waiting, JogTo(FALSE))
       ELSE UNCHANGED <<remote_direction, jogging, waiting>>
    /\ UNCHANGED <<emergency, sleeping, motion_active, motion_id, last_motion_id, light_armed,
                   keys, urgent, crowded>>

-----------------------------------------------------------------------------
(* Frames from the robot: handle_protocol_frame. *)

\* Mutant: any result ends the motion.
AnyResult(id) == TRUE

Answers(id) == id = last_motion_id

OnResult(id) ==
    /\ motion_active' = (motion_active /\ ~Answers(id))
    /\ UNCHANGED <<emergency, sleeping, motion_id, last_motion_id, jogging, light_armed, keys,
                   remote, ring, crowded>>

OnStopFrame(frame) ==
    /\ motion_active' = (motion_active /\ frame = Release)
    /\ jogging' = (jogging /\ frame # Engage)
    /\ emergency' = IF frame = Cancel THEN emergency ELSE frame = Engage
    /\ UNCHANGED <<sleeping, motion_id, last_motion_id, light_armed, keys, remote, ring,
                   crowded>>

\* The watchdog, or the power switch.
Reboot ==
    /\ emergency' = FALSE /\ sleeping' = FALSE
    /\ motion_active' = FALSE /\ motion_id' = 0 /\ last_motion_id' = 0
    /\ light_armed' = TRUE
    /\ k3' = "up" /\ k3_can_release' = FALSE
    /\ remote_direction' = FALSE /\ override' = FALSE
    /\ waiting' = <<Hello>> /\ urgent' = None
    /\ engaging' = FALSE /\ jogging' = FALSE
    /\ UNCHANGED crowded

\* tx_next, when the frame before is out.
Outgoing == IF urgent # None THEN urgent ELSE Head(waiting)
Transmit ==
    /\ urgent # None \/ waiting # <<>>
    /\ IF urgent # None THEN urgent' = None /\ UNCHANGED waiting
       ELSE waiting' = Tail(waiting) /\ UNCHANGED urgent
    /\ UNCHANGED <<emergency, sleeping, motion, light_armed, keys, remote, crowded>>

Handlers ==
    \/ VoiceStop \/ VoiceMotion \/ VoiceSleep \/ VoiceWake \/ ShowFace
    \/ K2Short \/ K3Press \/ K3Long \/ K3Up \/ Shake \/ Flash \/ Dark
    \/ RemoteStop \/ GiveUp \/ OverrideEnds \/ \E moving \in BOOLEAN : RemoteKey(moving)

\* The board in a world that may do anything.
AppNext ==
    \/ Handlers \/ Reboot \/ Transmit
    \/ \E id \in Id : OnResult(id)
    \/ \E frame \in Stops : OnStopFrame(frame)

AppSpec == AppInit /\ [][AppNext]_app

-----------------------------------------------------------------------------
(* Properties. *)

\* Locked or asleep, the board waits for no motion: none of the handlers that
\* lock it or send it to sleep, and none that asks for a motion, leaves one
\* under way that only its time limit would end.
AtRest == emergency \/ sleeping => ~motion_active

\* firmware/stc/README.md: K3 locks the stop, and releases it when it is let go
\* and then held.  The press that locks never unlocks, however long it is held
\* and whatever else engages or releases the stop meanwhile.
PressNeverReleases ==
    [][K3Long /\ engaging => emergency' = emergency]_app

\* A jog the board has asked for ends without its key being released: as long as the
\* robot may follow it, its end is armed, whatever other key, face, word or stop came
\* in between.
JogLapses == jogging => remote_direction /\ override

\* What the board has set going and no longer watches does not exist.
NothingLingers == AtRest /\ JogLapses
=============================================================================
