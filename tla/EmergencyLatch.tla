--------------------------- MODULE EmergencyLatch ---------------------------
(***************************************************************************)
(* The emergency stop as one system.  Four parties each keep a latch: the  *)
(* STC board (app.emergency), the serial bridge, the safety gateway and    *)
(* the motion executor.  They are kept in step by STOP frames on the       *)
(* serial line and by two ROS topics, /petcargo/safety_set, which both the *)
(* bridge and the web dashboard publish, and /petcargo/safety_state, on    *)
(* which the gateway tells the bridge what it holds.                       *)
(*                                                                         *)
(* Each handler is one step.  The STC board sends through UartTx, of which *)
(* only the reserved urgent slot is kept here.  Topics keep their order    *)
(* per publisher and subscriber.  A board that reboots loses what is in    *)
(* its memory, a STOP frame that has not left it included.                 *)
(***************************************************************************)
EXTENDS Naturals, Sequences

CONSTANTS
    Scenarios,      \* what may happen, and how often: one is chosen at the start
    MaxQueue,       \* bound: how many gateway states wait for the bridge
    None

\* What may happen besides the buttons of the board.
Everything == {"cancel", "web", "unplug", "reboot", "restart"}

\* may: the disturbances; events: bound on everything a user or a fault does.
ASSUME ScenariosAssumption == Scenarios \subseteq [may : SUBSET Everything, events : Nat]
ASSUME BoundsAssumption == MaxQueue \in Nat

Publishers == {"bridge", "web"}
Subscribers == {"gateway", "executor", "bridge"}

\* The codes of a STOP frame.
Release == "release"   \* 0
Engage == "engage"     \* 1
Cancel == "cancel"     \* 2: end the motion, leave the latch alone
Hello == "hello"       \* not a STOP frame: what a rebooted board sends first
StopCodes == {Release, Engage, Cancel}
ASSUME NoneAssumption == None \notin BOOLEAN /\ None \notin StopCodes

\* Mutant: no latch is told as "end the motion".
CodeOrCancel(latch) == IF latch THEN Engage ELSE Cancel

Code(latch) == IF latch THEN Engage ELSE Release

VARIABLES
    scenario,     \* the member of Scenarios this behaviour is about
    emergency,    \* STC: app.emergency
    slot,         \* STC: the urgent frame that has not started, or None
    up, down,     \* frames on their way to the bridge and to the board
    plugged,      \* the bridge has the port open
    connected,    \* the bridge has heard the board since
    known,        \* bridge: safety_latched, None until told
    latched,      \* gateway and executor: latched, safety_latched
    set,          \* /petcargo/safety_set, per publisher and subscriber
    states,       \* /petcargo/safety_state on its way to the bridge
    locked,       \* history: the last thing the user did was to engage the stop
    unsaid,       \* history: since K3 was last pressed a reboot took an unsent STOP frame along
    events        \* how many times something happened so far

stc == <<emergency, slot>>
link == <<up, down, plugged, connected>>
ros == <<known, latched, set, states>>
user == <<locked, unsaid>>
tally == <<scenario, events>>
vars == <<stc, link, ros, user, tally>>

TypeOK ==
    /\ scenario \in Scenarios
    /\ emergency \in BOOLEAN
    /\ slot \in StopCodes \union {None}
    /\ up \in Seq(StopCodes \union {Hello})
    /\ down \in Seq({Release, Engage})
    /\ plugged \in BOOLEAN /\ connected \in BOOLEAN
    /\ known \in BOOLEAN \union {None}
    /\ latched \in [{"gateway", "executor"} -> BOOLEAN]
    /\ set \in [Publishers \X Subscribers -> Seq(BOOLEAN)]
    /\ states \in Seq(BOOLEAN)
    /\ locked \in BOOLEAN /\ unsaid \in BOOLEAN
    /\ events \in 0..scenario.events

Silent == [pair \in Publishers \X Subscribers |-> <<>>]

\* The board and the robot are on, the bridge has not heard anything yet.
Init ==
    /\ scenario \in Scenarios
    /\ emergency = FALSE /\ slot = None
    /\ up = <<>> /\ down = <<>> /\ plugged = TRUE /\ connected = FALSE
    /\ known = None
    /\ latched = [node \in {"gateway", "executor"} |-> FALSE]
    /\ set = Silent /\ states = <<>>
    /\ locked = FALSE /\ unsaid = FALSE /\ events = 0

Happens == events < scenario.events /\ events' = events + 1 /\ UNCHANGED scenario
May(disturbance) == disturbance \in scenario.may /\ Happens

Quiet == slot = None /\ up = <<>> /\ down = <<>>

-----------------------------------------------------------------------------
(* The STC board. *)

\* send_stop: tx_enqueue puts the frame in the urgent slot, over what is there.
SlotAfter(code) == code

\* emergency_set(1), by a press of K3 or by a shake.
EngageOnBoard ==
    /\ Happens
    /\ ~emergency
    /\ emergency' = TRUE
    /\ slot' = SlotAfter(Engage)
    /\ locked' = TRUE /\ unsaid' = FALSE
    /\ UNCHANGED <<link, ros>>

\* emergency_set(0).  K3 has to be held for 1.2 s, in which every frame on its
\* way arrives.
ReleaseOnBoard ==
    /\ Happens
    /\ emergency
    /\ Quiet
    /\ emergency' = FALSE
    /\ slot' = SlotAfter(Release)
    /\ locked' = FALSE /\ unsaid' = FALSE
    /\ UNCHANGED <<link, ros>>

\* cancel_motion: the voice's "stop", sleep, or the remote's stop key.
CancelOnBoard ==
    /\ May("cancel")
    /\ slot' = SlotAfter(Cancel)
    /\ UNCHANGED <<emergency, link, ros, user>>

\* Mutant: the frame waits until the board has something else to answer.
TransmitLater ==
    /\ down # <<>>
    /\ slot # None
    /\ slot' = None
    /\ up' = IF plugged THEN Append(up, slot) ELSE up
    /\ UNCHANGED <<emergency, down, plugged, connected, ros, user, tally>>

\* The frame in the slot is sent; a closed port loses it.
Transmit ==
    /\ slot # None
    /\ slot' = None
    /\ up' = IF plugged THEN Append(up, slot) ELSE up
    /\ UNCHANGED <<emergency, down, plugged, connected, ros, user, tally>>

\* handle_protocol_frame, MSG_STOP.
LatchOf(code) == code # Release

OnStop ==
    /\ down # <<>>
    /\ emergency' = LatchOf(Head(down))
    /\ down' = Tail(down)
    /\ UNCHANGED <<slot, up, plugged, connected, ros, user, tally>>

\* What a reset of the board leaves on the line.  A STOP frame that is the newest may
\* still be on its way out; it is then cut short, and the bridge's parser drops it.
AfterReset(line) ==
    {line} \union
    IF line = <<>> \/ line[Len(line)] = Hello THEN {} ELSE {SubSeq(line, 1, Len(line) - 1)}

\* petcargo_init: what the board was told meanwhile is lost, and so is the STOP frame
\* that has not left it; then it says hello.
Reboot ==
    /\ May("reboot")
    /\ emergency' = FALSE
    /\ slot' = None
    /\ down' = <<>>
    /\ \E line \in AfterReset(up) :
          /\ up' = IF plugged THEN Append(line, Hello) ELSE up
          /\ unsaid' = (unsaid \/ slot # None \/ line # up)
    /\ UNCHANGED <<plugged, connected, ros, locked>>

-----------------------------------------------------------------------------
(* The serial bridge. *)

\* send(): a closed port loses the frame.
Sent(code) == IF plugged THEN Append(down, code) ELSE down

\* Mutant: a subscriber that is behind misses the message.
PublishedToIdle(publisher, latch) ==
    [pair \in DOMAIN set |-> IF pair[1] = publisher /\ set[pair] = <<>> THEN <<latch>>
                             ELSE set[pair]]

\* safety_pub.publish of the bridge and of the dashboard.
Published(publisher, latch) ==
    [pair \in DOMAIN set |-> IF pair[1] = publisher THEN Append(set[pair], latch)
                             ELSE set[pair]]

\* Mutant: a rebooted board is only acknowledged.
AckOnly == down

\* MSG_HELLO: the board is told the latch, once the bridge knows it.
Resync == IF known = None THEN down ELSE Sent(Code(known))

\* handle_frame.  Any frame, a heartbeat included, shows that the board is there.
OnFrame ==
    /\ up # <<>>
    /\ up' = Tail(up)
    /\ connected' = TRUE
    /\ CASE Head(up) = Hello  -> down' = Resync /\ UNCHANGED set
         [] Head(up) = Cancel -> UNCHANGED <<down, set>>
         [] OTHER -> set' = Published("bridge", Head(up) = Engage) /\ UNCHANGED down
    /\ UNCHANGED <<stc, plugged, known, latched, states, user, tally>>

OnHeartbeat ==
    /\ plugged /\ ~connected
    /\ connected' = TRUE
    /\ UNCHANGED <<stc, up, down, plugged, ros, user, tally>>

\* on_safety_set: the bridge's own publications come back to it, too.
OnSafetySet(publisher) ==
    LET topic == <<publisher, "bridge">>
    IN /\ set[topic] # <<>>
       /\ known' = Head(set[topic])
       /\ down' = Sent(Code(Head(set[topic])))
       /\ set' = [set EXCEPT ![topic] = Tail(@)]
       /\ UNCHANGED <<stc, up, plugged, connected, latched, states, user, tally>>

\* on_safety_state
OnSafetyState ==
    /\ states # <<>>
    /\ known' = Head(states)
    /\ states' = Tail(states)
    /\ down' = IF known # Head(states) /\ connected THEN Sent(Code(Head(states))) ELSE down
    /\ UNCHANGED <<stc, up, plugged, connected, latched, set, user, tally>>

\* A read or a write fails: close_serial.
Unplug ==
    /\ May("unplug")
    /\ plugged
    /\ plugged' = FALSE /\ connected' = FALSE
    /\ up' = <<>> /\ down' = <<>>
    /\ UNCHANGED <<stc, ros, user>>

\* open_serial.  The board answers the bridge's HELLO with an ACK and no more.
Replug ==
    /\ ~plugged
    /\ plugged' = TRUE
    /\ UNCHANGED <<stc, up, down, connected, ros, user, tally>>

-----------------------------------------------------------------------------
(* The other nodes. *)

\* POST /api/stop
WebStop(latch) ==
    /\ May("web")
    /\ set' = Published("web", latch)
    /\ locked' = latch /\ UNCHANGED unsaid
    /\ UNCHANGED <<stc, link, known, latched, states>>

\* on_safety of the gateway publishes its state, too.
Latch(node, publisher) ==
    LET topic == <<publisher, node>>
    IN /\ set[topic] # <<>>
       /\ latched' = [latched EXCEPT ![node] = Head(set[topic])]
       /\ set' = [set EXCEPT ![topic] = Tail(@)]
       /\ states' = IF node = "gateway" THEN Append(states, Head(set[topic])) ELSE states
       /\ UNCHANGED <<stc, link, known, user, tally>>

\* publish_state at the start, on a change of connection or of reason.
TellState ==
    /\ Len(states) < MaxQueue
    /\ states' = Append(states, latched["gateway"])
    /\ UNCHANGED <<stc, link, known, latched, set, user, tally>>

\* The ROS side is stopped and launched again; the board keeps running.
Restart ==
    /\ May("restart")
    /\ up' = <<>> /\ down' = <<>> /\ plugged' = FALSE /\ connected' = FALSE
    /\ known' = None
    /\ latched' = [node \in DOMAIN latched |-> FALSE]
    /\ set' = Silent /\ states' = <<FALSE>>
    /\ UNCHANGED <<stc, user>>

Deliver ==
    \/ Transmit \/ OnStop \/ OnFrame \/ OnHeartbeat \/ OnSafetyState \/ Replug
    \/ \E publisher \in Publishers :
          OnSafetySet(publisher) \/ Latch("gateway", publisher) \/ Latch("executor", publisher)

Next ==
    \/ Deliver \/ TellState
    \/ EngageOnBoard \/ ReleaseOnBoard \/ CancelOnBoard \/ Reboot
    \/ Unplug \/ Restart \/ \E latch \in BOOLEAN : WebStop(latch)

Spec == Init /\ [][Next]_vars

\* Frames and messages arrive; nothing obliges a user to do anything.
FairSpec ==
    /\ Spec
    /\ WF_vars(Transmit) /\ WF_vars(OnStop) /\ WF_vars(OnFrame) /\ WF_vars(OnHeartbeat)
    /\ WF_vars(OnSafetyState) /\ WF_vars(Replug)
    /\ \A publisher \in Publishers :
          /\ WF_vars(OnSafetySet(publisher))
          /\ \A node \in {"gateway", "executor"} : WF_vars(Latch(node, publisher))

-----------------------------------------------------------------------------
(* Properties. *)

\* Nothing is on its way.
Settled ==
    /\ Quiet /\ plugged /\ connected
    /\ set = Silent /\ states = <<>>

\* docs/test_checklist.md: an emergency stop stays locked, and until it is
\* released every motion is refused.  Once all messages have arrived, a stop that
\* the user engaged last holds on the board and in both ROS nodes.
LockHolds == Settled /\ locked => emergency /\ \A node \in DOMAIN latched : latched[node]

\* The only user is at K3, and only a board that reboots loses a frame.
BoardOnly == scenario.may \subseteq {"reboot"}

\* With the board's buttons alone all latches end up the same, however often and
\* whenever the board reboots: the bridge tells a rebooted board the latch before the
\* board tells anybody.  They end up as the user left them, unless a reboot took the
\* board's last STOP frame along before it had left: then that press, of the stop or
\* of its release, is undone everywhere, on the board as well.
LatchOutlivesBoard ==
    BoardOnly /\ Settled =>
        /\ \A node \in DOMAIN latched : latched[node] <=> emergency
        /\ ~unsaid => (emergency <=> locked)

\* The gateway and the executor keep a latch each, fed by one topic: a stop lost
\* on the serial line, a rebooted board or a restart never leaves one of them
\* latched and the other not, the robot refusing motions without showing why.
LatchesAgree ==
    "web" \notin scenario.may /\ Settled => latched["gateway"] = latched["executor"]

\* serial_bridge.py synchronizes a rebooted board so that K3 can visibly and
\* deliberately release the stop.  Whoever presses last, the web or K3, and even
\* if the board reboots between, the board ends up with the latch of the bridge.
BoardFollows ==
    scenario.may \subseteq {"web", "reboot"} /\ Settled /\ known # None => (emergency <=> known)

\* An engaged stop that leaves the board reaches the gateway and the executor, or is
\* released again.
LockReaches ==
    BoardOnly =>
        (locked /\ ~unsaid ~> (latched["gateway"] /\ latched["executor"]) \/ ~locked \/ unsaid)
=============================================================================
