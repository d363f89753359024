--------------------------- MODULE SafetyGateway ---------------------------
(***************************************************************************)
(* safety_gateway.py, the only publisher of /cmd_vel, with its threads:    *)
(* rospy runs the 50 Hz timer and the callbacks of every publisher it      *)
(* hears in threads of their own, and the node has no lock.  A step is one *)
(* statement that reads or writes a field or publishes.                    *)
(*                                                                         *)
(* Velocities are Zero or Move.  The clock ticks only while no thread is   *)
(* inside a callback: callbacks are short against the lease.               *)
(***************************************************************************)
EXTENDS Naturals

CONSTANTS
    Lease,         \* velocity_lease, in ticks
    MaxMessages,   \* bound: how many messages the node receives
    Zero, Move

ASSUME LeaseAssumption == Lease \in Nat /\ MaxMessages \in Nat
ASSUME VelocitiesAssumption == Zero # Move

Latchers == {"bridge", "web"}   \* both publish /petcargo/safety_set
Threads == {"timer", "executor", "link"} \union Latchers
Reasons == {"startup", "emergency_stop", "ready", "serial_disconnected",
            "velocity_lease_expired", "moving"}
Steps == {"idle", "stamp", "reason", "zero", "link", "lease", "decide", "publish",
          "compare", "mark", "dump", "send"}
Causes == {"latch", "link"}    \* why the robot must not move
Ages == 0..Lease + 1   \* Lease + 1: older than the lease
States == [latched : BOOLEAN, connected : BOOLEAN]

VARIABLES
    command, stamp,   \* self.command, and the age of self.command_time
    connected, latched, reason, published,   \* published: self.published_reason
    output,           \* the last message on /cmd_vel
    state,            \* the last message on /petcargo/safety_state
    pc,               \* the next step of every thread
    verdict, chosen,  \* locals of on_timer: which branch it takes, and `output`
    dumped,           \* the text that a thread has put together for safety_state
    age,              \* history: how old self.command really is
    stale,            \* history: the timer chose a command older than the lease
    late,             \* history: moves published since a cause last set in
    messages          \* how many messages came so far

drive == <<command, stamp, age>>
flags == <<connected, latched>>
local == <<verdict, chosen, stale>>
out == <<output, late>>
told == <<published, state, dumped>>
vars == <<drive, flags, local, out, told, reason, pc, messages>>

TypeOK ==
    /\ command \in {Zero, Move} /\ chosen \in {Zero, Move} /\ output \in {Zero, Move}
    /\ stamp \in Ages /\ age \in Ages
    /\ connected \in BOOLEAN /\ latched \in BOOLEAN /\ stale \in BOOLEAN
    /\ reason \in Reasons /\ published \in Reasons /\ verdict \in Reasons
    /\ state \in States /\ dumped \in [Threads -> States]
    /\ pc \in [Threads -> Steps]
    /\ late \in [Causes -> 0..2] /\ messages \in 0..MaxMessages

\* What the node publishes at the end of __init__, and the value of a local that
\* is not in use any more.
Forgotten == [latched |-> FALSE, connected |-> FALSE]

\* The end of __init__.
Init ==
    /\ command = Zero /\ stamp = Lease + 1 /\ age = 0
    /\ connected = FALSE /\ latched = FALSE
    /\ reason = "startup" /\ published = "startup"
    /\ output = Zero
    /\ state = Forgotten
    /\ pc = [thread \in Threads |-> "idle"]
    /\ verdict = "startup" /\ chosen = Zero
    /\ dumped = [thread \in Threads |-> Forgotten]
    /\ stale = FALSE /\ late = [cause \in Causes |-> 0] /\ messages = 0

At(thread, step, next) == pc[thread] = step /\ pc' = [pc EXCEPT ![thread] = next]
Message == messages < MaxMessages /\ messages' = messages + 1

Blocked(cause) == IF cause = "latch" THEN latched ELSE ~connected

\* output_pub.publish: one message after the other, whatever the thread.
Output(velocity) ==
    /\ output' = velocity
    /\ late' = [cause \in Causes |->
                  IF velocity = Move /\ Blocked(cause) /\ late[cause] < 2
                  THEN late[cause] + 1 ELSE late[cause]]

\* A change of the flags; where a cause has gone, counting starts anew.
SetFlags(c, l) ==
    /\ connected' = c /\ latched' = l
    /\ late' = [cause \in Causes |->
                  IF (cause = "latch" /\ l) \/ (cause = "link" /\ ~c)
                  THEN late[cause] ELSE 0]
    /\ UNCHANGED output

-----------------------------------------------------------------------------
(* publish_state, at the end of every callback but on_command. *)

Mark(thread) ==
    /\ At(thread, "mark", "dump")
    /\ published' = reason
    /\ UNCHANGED <<drive, flags, local, out, state, dumped, reason, messages>>

Dump(thread) ==
    /\ At(thread, "dump", "send")
    /\ dumped' = [dumped EXCEPT ![thread] = [latched |-> latched, connected |-> connected]]
    /\ UNCHANGED <<drive, flags, local, out, published, state, reason, messages>>

Send(thread) ==
    /\ At(thread, "send", "idle")
    /\ state' = dumped[thread]
    /\ dumped' = [dumped EXCEPT ![thread] = Forgotten]
    /\ UNCHANGED <<drive, flags, local, out, published, reason, messages>>

PublishState(thread) == Mark(thread) \/ Dump(thread) \/ Send(thread)

-----------------------------------------------------------------------------
(* on_command *)

\* Mutant: the time is taken before the command is stored.
StampFirst(velocity) ==
    \/ At("executor", "idle", "stamp") /\ Message /\ stamp' = 0 /\ UNCHANGED <<command, age>>
    \/ /\ At("executor", "stamp", "idle") /\ UNCHANGED <<messages, stamp>>
       /\ command' = velocity /\ age' = 0

Command(velocity) ==
    \/ At("executor", "idle", "stamp") /\ Message
       /\ command' = velocity /\ age' = 0 /\ UNCHANGED stamp
    \/ /\ At("executor", "stamp", "idle") /\ UNCHANGED <<messages, command, age>>
       /\ stamp' = 0

OnCommand(velocity) ==
    /\ Command(velocity)
    /\ UNCHANGED <<flags, local, out, told, reason>>

-----------------------------------------------------------------------------
(* on_safety and on_connected *)

OnSafety(thread, latch) ==
    /\ At(thread, "idle", "reason")
    /\ Message
    /\ SetFlags(connected, latch)
    /\ UNCHANGED <<drive, local, told, reason>>

\* The bridge says that it is not connected when it starts, too.
OnConnected(value) ==
    /\ At("link", "idle", IF value THEN "mark" ELSE "reason")
    /\ Message
    /\ SetFlags(value, latched)
    /\ UNCHANGED <<drive, local, told, reason>>

Reason(thread) ==
    /\ At(thread, "reason", "zero")
    /\ reason' = IF thread = "link" THEN "serial_disconnected"
                 ELSE IF latched THEN "emergency_stop" ELSE "ready"
    /\ UNCHANGED <<drive, flags, local, out, told, messages>>

PublishZero(thread) ==
    /\ At(thread, "zero", "mark")
    /\ Output(Zero)
    /\ UNCHANGED <<drive, flags, local, told, reason, messages>>

-----------------------------------------------------------------------------
(* on_timer *)

\* now - command_time > lease
Expired == stamp > Lease

\* One of the three tests: the branch is taken, or the next test comes.
Branch(step, taken, because, next) ==
    /\ At("timer", step, IF taken THEN "decide" ELSE next)
    /\ verdict' = IF taken THEN because ELSE verdict
    /\ UNCHANGED <<drive, flags, chosen, stale, out, told, reason, messages>>

\* Mutants: the latch is left to the callback, which has published a zero; a
\* reason that nobody who reads the topic knows.
SkipLatch == Branch("idle", FALSE, "emergency_stop", "link")
RenamedLatch == Branch("idle", latched, "stopped", "link")

TestLatch == Branch("idle", latched, "emergency_stop", "link")
TestLink == Branch("link", ~connected, "serial_disconnected", "lease")
TestLease ==
    Branch("lease", TRUE, IF Expired THEN "velocity_lease_expired" ELSE "moving", "decide")

Decide ==
    /\ At("timer", "decide", "publish")
    /\ reason' = verdict
    /\ chosen' = IF verdict = "moving" THEN command ELSE Zero
    /\ stale' = (chosen' = Move /\ age > Lease)
    /\ UNCHANGED <<drive, flags, verdict, out, told, messages>>

\* Mutant: when the lease has expired, nothing is published.
PublishMoves ==
    /\ At("timer", "publish", "compare")
    /\ IF verdict = "velocity_lease_expired" THEN UNCHANGED out ELSE Output(chosen)
    /\ chosen' = Zero /\ verdict' = "startup"
    /\ UNCHANGED <<drive, flags, stale, told, reason, messages>>

Publish ==
    /\ At("timer", "publish", "compare")
    /\ Output(chosen)
    /\ chosen' = Zero /\ verdict' = "startup"
    /\ UNCHANGED <<drive, flags, stale, told, reason, messages>>

Compare ==
    /\ At("timer", "compare", IF reason # published THEN "mark" ELSE "idle")
    /\ UNCHANGED <<drive, flags, local, out, told, reason, messages>>

\* Between callbacks time passes.
Idle == \A thread \in Threads : pc[thread] = "idle"

Tick ==
    /\ Idle
    /\ stamp' = IF stamp > Lease THEN stamp ELSE stamp + 1
    /\ age' = IF age > Lease THEN age ELSE age + 1
    /\ UNCHANGED <<command, flags, local, out, told, reason, pc, messages>>

OnTimer == TestLatch \/ TestLink \/ TestLease \/ Decide \/ Publish \/ Compare \/ PublishState("timer")
Continue(thread) == Reason(thread) \/ PublishZero(thread) \/ PublishState(thread)

Next ==
    \/ OnTimer \/ Tick \/ \E value \in BOOLEAN : OnConnected(value)
    \/ \E velocity \in {Zero, Move} : OnCommand(velocity)
    \/ \E thread \in Latchers, latch \in BOOLEAN : OnSafety(thread, latch)
    \/ \E thread \in Latchers \union {"link"} : Continue(thread)

Spec == Init /\ [][Next]_vars

\* The timer thread is scheduled, callbacks that began go on, and time passes.
\* Nothing obliges anyone to send a message.
FairSpec ==
    /\ Spec
    /\ WF_vars(OnTimer)
    /\ SF_vars(Tick)
    /\ WF_vars(\E velocity \in {Zero, Move} : pc["executor"] = "stamp" /\ OnCommand(velocity))
    /\ \A thread \in Latchers \union {"link"} : WF_vars(Continue(thread))

-----------------------------------------------------------------------------
(* Properties. *)

\* A timer pass that looked at the latch before it was set may still publish its
\* move after the callback's zero.  It is the only one: once the stop is latched,
\* or once the board is gone, at most one more move goes out.
OneLateMove == \A cause \in Causes : late[cause] <= 1

\* The lease is on the command, not on its time alone: although on_command takes
\* two steps, the timer never sends a command that is older than the lease.
NoStaleDrive == ~stale

\* When commands stop coming (their number is bounded), the robot stops for good,
\* although nobody tells it to.
SilenceStops == <>[](output = Zero)
=============================================================================
