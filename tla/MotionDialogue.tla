--------------------------- MODULE MotionDialogue ---------------------------
(***************************************************************************)
(* How the board and the robot agree on a motion.  The board (StcApp) asks *)
(* for it in a frame, the serial bridge turns the frame into a topic and   *)
(* tags it with its source, the executor runs or refuses it, and its       *)
(* result goes back the same way.  Each side may end the motion by itself, *)
(* and the line, the port and the board may fail in between.               *)
(*                                                                         *)
(* The executor is what MotionExecutor promises: one motion at a time,     *)
(* each request answered once.  The web page and the gateway stay out;     *)
(* EmergencyLatch has how the latches of the nodes meet.                   *)
(***************************************************************************)
EXTENDS StcApp, FiniteSets

CONSTANTS
    Scenarios,      \* what may go wrong, and how often anything may happen
    MaxPending,     \* results the bridge keeps for a closed port (8)
    CompletedLimit  \* ids the executor remembers (128)

\* crowd: other traffic fills the ring; noise: the line spoils a frame; unplug:
\* the port closes; reboot: the board starts again; overtake: a message passes an
\* earlier one that goes to another topic.
Everything == {"crowd", "noise", "unplug", "reboot", "overtake"}
ASSUME ScenariosAssumption == Scenarios \subseteq [may : SUBSET Everything, events : Nat]
ASSUME LimitsAssumption == MaxPending \in Nat \ {0} /\ CompletedLimit \in Nat \ {0}

VARIABLES
    scenario,         \* the member of Scenarios this behaviour is about
    events,           \* how many times something happened so far
    up, down,         \* frames on their way to the bridge and to the board
    plugged,          \* the bridge has the port open
    connected,        \* and has heard the board since
    tag,              \* motion_source.pending
    known,            \* the bridge's safety_latched, or None
    pending_results,
    topics,           \* messages from the bridge to the executor, in order
    results,          \* ids on the way back
    latched,          \* the executor's safety_latched
    active,           \* the motion it runs, as it was requested, or None
    completed_ids,
    given_up          \* history: motions whose time limit the board saw first

tally == <<scenario, events>>
line == <<up, down>>
port == <<plugged, connected>>
bridge == <<tag, known, pending_results>>
robot == <<latched, active, completed_ids>>
outside == <<tally, line, port, bridge, topics, results, robot, given_up>>
vars == <<app, outside>>

\* A request as the bridge publishes it.  Whether it is the board's escape is
\* known only to the board.
Message(frame, tagged) ==
    [type |-> "request", id |-> frame.id, escape |-> frame.escape, tagged |-> tagged]
Published == [type : {"request"}, id : Id, escape : BOOLEAN, tagged : BOOLEAN]
ASSUME NothingAssumption == None \notin BOOLEAN \union Published
Cancelled == [type |-> "cancel"]
SafetySet(latch) == [type |-> "safety", latch |-> latch]
Disconnected == [type |-> "disconnected"]
Jogged(moving) == [type |-> "jog", moving |-> moving]
ResultFrame(id) == [type |-> "result", id |-> id]

TypeOK ==
    /\ AppTypeOK
    /\ scenario \in Scenarios /\ events \in 0..scenario.events
    /\ up \in Seq(Frames \union Stops)
    /\ down \in Seq({Release, Engage} \union [type : {"result"}, id : Id])
    /\ plugged \in BOOLEAN /\ connected \in BOOLEAN /\ tag \in BOOLEAN
    /\ known \in BOOLEAN \union {None}
    /\ pending_results \in Seq(Id) /\ Len(pending_results) <= MaxPending
    /\ topics \in Seq(Published \union {Cancelled, Disconnected}
                      \union {SafetySet(latch) : latch \in BOOLEAN}
                      \union {Jogged(moving) : moving \in BOOLEAN})
    /\ results \in Seq(Id)
    /\ latched \in BOOLEAN
    /\ active \in Published \union {None}
    /\ completed_ids \in SUBSET Id /\ Cardinality(completed_ids) <= CompletedLimit
    /\ given_up \in SUBSET Id

Init ==
    /\ scenario \in Scenarios /\ events = 0
    /\ AppInit /\ crowded = ("crowd" \in scenario.may)
    /\ up = <<>> /\ down = <<>> /\ plugged = TRUE /\ connected = FALSE
    /\ tag = FALSE /\ known = None /\ pending_results = <<>>
    /\ topics = <<>> /\ results = <<>>
    /\ latched = FALSE /\ active = None /\ completed_ids = {}
    /\ given_up = {}

Happens == events < scenario.events /\ events' = events + 1 /\ UNCHANGED scenario
May(disturbance) == disturbance \in scenario.may /\ Happens

\* Nothing is on its way.
Settled ==
    /\ waiting = <<>> /\ urgent = None /\ up = <<>> /\ down = <<>>
    /\ topics = <<>> /\ results = <<>> /\ pending_results = <<>>
    /\ plugged /\ connected

-----------------------------------------------------------------------------
(* The board. *)

\* K3 is held for 1.2 s and the time limit of a motion is 16 s or more: what was
\* sent before has arrived, except the result that a limit may cross.
OnItsWay(type) ==
    \/ \E i \in DOMAIN waiting : waiting[i].type = type
    \/ \E i \in DOMAIN up : up[i].type = type
    \/ \E i \in DOMAIN topics : topics[i].type = type

Handle ==
    /\ Happens
    /\ \/ VoiceStop \/ VoiceMotion \/ VoiceSleep \/ VoiceWake \/ ShowFace
       \/ K2Short \/ K3Press \/ Shake \/ Flash \/ RemoteStop
       \/ \E moving \in BOOLEAN : RemoteKey(moving)
    /\ UNCHANGED <<line, port, bridge, topics, results, robot, given_up>>

Elapse ==
    /\ K3Up \/ Dark \/ OverrideEnds \/ (K3Long /\ Settled)
    /\ UNCHANGED outside

GiveUpMotion ==
    /\ GiveUp
    /\ ~OnItsWay("request")
    /\ given_up' = given_up \union {last_motion_id}
    /\ UNCHANGED <<tally, line, port, bridge, topics, results, robot>>

\* A closed port loses what the board sends.
SendUp ==
    /\ Transmit
    /\ up' = IF plugged THEN Append(up, Outgoing) ELSE up
    /\ UNCHANGED <<tally, down, port, bridge, topics, results, robot, given_up>>

Receive ==
    /\ down # <<>>
    /\ down' = Tail(down)
    /\ IF Head(down) \in Stops THEN OnStopFrame(Head(down)) ELSE OnResult(Head(down).id)
    /\ UNCHANGED <<tally, up, port, bridge, topics, results, robot, given_up>>

Restart ==
    /\ May("reboot")
    /\ Reboot
    /\ down' = <<>>
    /\ UNCHANGED <<up, port, bridge, topics, results, robot, given_up>>

-----------------------------------------------------------------------------
(* The line and the port. *)

Noise ==
    /\ May("noise")
    /\ \/ up # <<>> /\ up' = Tail(up) /\ UNCHANGED down
       \/ down # <<>> /\ down' = Tail(down) /\ UNCHANGED up
    /\ UNCHANGED <<app, port, bridge, topics, results, robot, given_up>>

\* close_serial; set_connected tells the executor only of a change.
Unplug ==
    /\ May("unplug")
    /\ plugged
    /\ plugged' = FALSE /\ connected' = FALSE
    /\ up' = <<>> /\ down' = <<>>
    /\ topics' = IF connected THEN Append(topics, Disconnected) ELSE topics
    /\ UNCHANGED <<app, bridge, results, robot, given_up>>

Replug ==
    /\ ~plugged
    /\ plugged' = TRUE
    /\ UNCHANGED <<app, tally, line, connected, bridge, topics, results, robot, given_up>>

-----------------------------------------------------------------------------
(* The serial bridge: handle_frame.  Any frame shows that the board is there, and
   the results that found the port closed go first. *)

ResultFrames(ids) == [i \in DOMAIN ids |-> ResultFrame(ids[i])]
Code(latch) == IF latch THEN Engage ELSE Release

\* What a frame makes the bridge publish.
Topic(frame) ==
    CASE frame.type = "request" -> <<Message(frame, tag)>>
      [] frame.type = "jog"     -> <<Jogged(frame.moving)>>
      [] frame = Cancel         -> <<Cancelled>>
      [] frame = Engage         -> <<SafetySet(TRUE)>>
      [] frame = Release        -> <<SafetySet(FALSE)>>
      [] OTHER                  -> <<>>

\* Mutant: the tracker waits for another event.
NeverTagged(frame) == FALSE

\* note_event and consume: the tag serves one request.
TagAfter(frame) == frame = BrightLight \/ (tag /\ frame.type # "request")

\* What the bridge answers.  It subscribes to the latch it publishes and sends it
\* back to the board; it tells the latch to a board that says hello.
Answer(frame) ==
    CASE frame.type = "hello" /\ known # None -> <<Code(known)>>
      [] frame \in {Engage, Release}          -> <<frame>>
      [] OTHER                                -> <<>>

OnFrame ==
    LET frame == Head(up)
    IN /\ up # <<>>
       /\ up' = Tail(up)
       /\ connected' = TRUE
       /\ pending_results' = <<>>
       /\ down' = down \o ResultFrames(pending_results) \o Answer(frame)
       /\ topics' = topics \o Topic(frame)
       /\ tag' = TagAfter(frame)
       /\ known' = IF frame \in {Engage, Release} THEN frame = Engage ELSE known
       /\ UNCHANGED <<app, tally, plugged, results, robot, given_up>>

\* Heartbeats and telemetry do the same without a topic of interest here.
OnHeartbeat ==
    /\ plugged
    /\ ~connected \/ pending_results # <<>>
    /\ connected' = TRUE
    /\ pending_results' = <<>>
    /\ down' = down \o ResultFrames(pending_results)
    /\ UNCHANGED <<app, tally, up, plugged, tag, known, topics, results, robot, given_up>>

\* The window of MotionSourceTracker.  The escape follows its event on the line at
\* once, well within it.
TagExpires ==
    /\ tag
    /\ ~OnItsWay("request")
    /\ tag' = FALSE
    /\ UNCHANGED <<app, tally, line, port, known, pending_results, topics, results, robot,
                   given_up>>

\* Mutant: everything is kept.
AllKept(id) == Append(pending_results, id)

Kept(id) ==
    LET all == Append(pending_results, id)
    IN IF Len(all) <= MaxPending THEN all ELSE Tail(all)

OnMotionResult ==
    /\ results # <<>>
    /\ results' = Tail(results)
    /\ IF plugged THEN down' = Append(down, ResultFrame(Head(results))) /\ UNCHANGED pending_results
       ELSE pending_results' = Kept(Head(results)) /\ UNCHANGED down
    /\ UNCHANGED <<app, tally, up, port, tag, known, topics, robot, given_up>>

-----------------------------------------------------------------------------
(* The executor. *)

\* finish
Finish ==
    /\ completed_ids' = IF Cardinality(completed_ids \union {active.id}) > CompletedLimit
                        THEN {active.id} ELSE completed_ids \union {active.id}
    /\ results' = Append(results, active.id)
    /\ active' = None

StopMotion == IF active = None THEN UNCHANGED <<completed_ids, results, active>> ELSE Finish

\* Mutant: a refusal is not answered.
RefuseSilently(id) == results

Refused(id) == Append(results, id)

\* on_request.  Whatever the sensors say, it may be refused.
OnRequest(message) ==
    /\ UNCHANGED completed_ids
    /\ IF message.id \in completed_ids THEN UNCHANGED <<results, active>>
       ELSE \/ results' = Refused(message.id) /\ UNCHANGED active
            \/ ~latched /\ active = None /\ active' = message /\ UNCHANGED results

OnMessage(message) ==
    /\ latched' = IF message.type = "safety" THEN message.latch ELSE latched
    /\ CASE message.type = "request"                      -> OnRequest(message)
         [] message.type \in {"cancel", "disconnected"}   -> StopMotion
         [] message.type = "safety"                       ->
               IF message.latch THEN StopMotion ELSE UNCHANGED <<completed_ids, results, active>>
         [] message.type = "jog"                          ->
               IF message.moving /\ ~latched THEN StopMotion
               ELSE UNCHANGED <<completed_ids, results, active>>

\* Each topic keeps its order; a thread of its own serves it.
Deliver ==
    \E i \in DOMAIN topics :
        /\ i = 1 \/ "overtake" \in scenario.may
        /\ \A j \in 1..(i - 1) : topics[j].type # topics[i].type
        /\ OnMessage(topics[i])
        /\ topics' = [j \in 1..(Len(topics) - 1) |-> IF j < i THEN topics[j] ELSE topics[j + 1]]
        /\ UNCHANGED <<app, tally, line, port, bridge, given_up>>

\* The motion ends by itself: complete, blocked, timed out.
Complete ==
    /\ active # None
    /\ Finish
    /\ UNCHANGED <<app, tally, line, port, bridge, topics, latched, given_up>>

Next ==
    \/ Handle \/ Elapse \/ GiveUpMotion \/ SendUp \/ Receive \/ Restart
    \/ Noise \/ Unplug \/ Replug
    \/ OnFrame \/ OnHeartbeat \/ TagExpires \/ OnMotionResult
    \/ Deliver \/ Complete

Spec == Init /\ [][Next]_vars

-----------------------------------------------------------------------------
(* Properties. *)

Without(disturbances) == scenario.may \intersect disturbances = {}

\* When everything has arrived, the robot runs no motion but the one the board
\* waits for, or one whose time limit the board has seen first: whatever stopped,
\* locked or cancelled it on the board has stopped it on the robot, even if it was
\* still in the ring, on the line or in a topic.
NoRunaway ==
    Without({"noise", "reboot", "overtake"}) /\ Settled /\ active # None =>
        \/ motion_active /\ last_motion_id = active.id
        \/ active.id \in given_up

\* And the board waits for no motion that the robot does not run.
NoPhantom ==
    Without({"noise", "reboot", "overtake", "unplug"}) /\ Settled /\ motion_active =>
        active # None /\ active.id = last_motion_id

\* A result ends the motion it answers and no other: the board never takes a
\* motion for over that the robot is running, however late, lost, kept or
\* reordered the frames are.
OwnResult ==
    [][Without({"reboot"}) /\ Receive /\ motion_active /\ ~motion_active' =>
          Head(down) = Engage \/ active = None \/ active.id # last_motion_id]_vars

\* docs/lidar_avoidance.md: the escape from bright light never detours.  The tag
\* by which the executor knows an escape reaches it, as long as the ring takes both
\* the event and the request.
EscapesAreTagged ==
    Without({"crowd", "noise", "unplug"}) =>
        \A i \in DOMAIN topics : topics[i].type = "request" /\ topics[i].escape => topics[i].tagged
=============================================================================
