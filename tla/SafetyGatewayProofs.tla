------------------------ MODULE SafetyGatewayProofs ------------------------
(***************************************************************************)
(* Proofs that at most one move gets past a stop and that no command older *)
(* than the lease is sent, for every lease and any number of messages.     *)
(*                                                                         *)
(* Neither property is inductive.  For OneLateMove the invariant says that *)
(* after the late move the timer has no other in hand; for NoStaleDrive it *)
(* says that command_time is never younger than the command.               *)
(***************************************************************************)
EXTENDS SafetyGateway, TLAPS

\* The timer thread may still send a move although the cause has set in: it has
\* passed the test for it.
InHand(cause) ==
    \/ cause = "latch" /\ pc["timer"] = "link"
    \/ pc["timer"] = "lease"
    \/ pc["timer"] = "decide" /\ verdict = "moving"
    \/ chosen = Move

\* A move is only in hand between the tests and Publish; after a late one there
\* is none, and the cause is still there.
LateInv ==
    /\ late \in [Causes -> {0, 1}]
    /\ \A cause \in Causes : late[cause] = 1 => Blocked(cause) /\ ~InHand(cause)
    /\ chosen = Move => pc["timer"] = "publish"

\* The time that the timer looks at is at least as old as the command, and a
\* command in hand is fresh.
FreshInv ==
    /\ age \in Nat /\ stamp \in Nat
    /\ age <= stamp
    /\ pc["executor"] = "stamp" => age = 0
    /\ pc["timer"] = "decide" /\ verdict = "moving" => age <= Lease
    /\ ~stale

\* Every thread is known, so that a step moves the thread it is about.
Pcs == pc \in [Threads -> Steps]

IInv == Pcs /\ LateInv /\ FreshInv

-----------------------------------------------------------------------------

\* A move of one thread leaves the place of every other thread alone.
LEMMA OthersStay ==
    ASSUME Pcs, NEW thread \in Threads, NEW step, NEW next \in Steps, At(thread, step, next)
    PROVE  /\ Pcs'
           /\ pc[thread] = step /\ pc'[thread] = next
           /\ \A other \in Threads \ {thread} : pc'[other] = pc[other]
BY DEF Pcs, At

\* The node starts unblocked by any late move, with nothing in hand.
LEMMA InitHolds == Init => IInv
BY LeaseAssumption, VelocitiesAssumption
   DEF Init, IInv, Pcs, LateInv, FreshInv, InHand, Causes, Threads, Latchers, Steps

\* What publish_state does concerns neither the moves nor the time.
LEMMA TellingHolds ==
    ASSUME IInv, NEW thread \in Threads, PublishState(thread)
    PROVE  IInv'
<1>1. UNCHANGED <<drive, flags, local, out, reason, messages>>
  BY DEF PublishState, Mark, Dump, Send
<1>2. PICK step \in {"mark", "dump", "send"}, next \in {"dump", "send", "idle"} :
         At(thread, step, next)
  BY DEF PublishState, Mark, Dump, Send
<1>3. /\ Pcs' /\ pc[thread] = step /\ pc'[thread] = next
      /\ \A other \in Threads \ {thread} : pc'[other] = pc[other]
  BY <1>2, OthersStay DEF IInv, Steps
<1>4. /\ pc'["timer"] \in {"link", "lease", "decide"} => pc'["timer"] = pc["timer"]
      /\ pc["timer"] = "publish" => pc'["timer"] = "publish"
      /\ pc'["executor"] = "stamp" => pc["executor"] = "stamp"
  BY <1>3 DEF Threads
<1>5. LateInv'
  BY <1>1, <1>4 DEF IInv, LateInv, InHand, Blocked, flags, local, out
<1>6. FreshInv'
  BY <1>1, <1>4 DEF IInv, FreshInv, drive, local
<1> QED  BY <1>3, <1>5, <1>6 DEF IInv

\* A callback of the link or of a stop takes away moves and adds none.
LEMMA CallbacksHold ==
    ASSUME IInv, NEW thread \in Latchers \union {"link"},
           \/ thread = "link" /\ \E value \in BOOLEAN : OnConnected(value)
           \/ \E latch \in BOOLEAN : OnSafety(thread, latch)
           \/ Continue(thread)
    PROVE  IInv'
<1> USE DEF IInv
<1>1. CASE PublishState(thread)
  BY <1>1, TellingHolds DEF Threads
<1>2. CASE ~PublishState(thread)
  <2>1. PICK step \in Steps, next \in Steps : At(thread, step, next)
    BY <1>2 DEF OnConnected, OnSafety, Continue, Reason, PublishZero, Steps
  <2>2. /\ Pcs' /\ pc'["timer"] = pc["timer"] /\ pc'["executor"] = pc["executor"]
    BY <2>1, OthersStay DEF Threads, Latchers
  <2>3. UNCHANGED <<drive, local>>
    BY <1>2 DEF OnConnected, OnSafety, Continue, Reason, PublishZero
  <2>4. FreshInv'
    BY <2>2, <2>3 DEF FreshInv, drive, local
  <2>5. LateInv'
    <3>1. ASSUME NEW c, NEW l, SetFlags(c, l)
          PROVE  LateInv'
      BY <3>1, <2>2, <2>3 DEF LateInv, SetFlags, Blocked, InHand, Causes, local
    <3>2. CASE Reason(thread)
      BY <3>2, <2>2, <2>3 DEF LateInv, Reason, Blocked, InHand, local, flags, out
    <3>3. CASE PublishZero(thread)
      BY <3>3, <2>2, <2>3, VelocitiesAssumption
         DEF LateInv, PublishZero, Output, Blocked, InHand, Causes, local, flags
    <3>4. CASE \E value \in BOOLEAN : OnConnected(value)
      BY <3>4, <3>1 DEF OnConnected
    <3>5. CASE \E latch \in BOOLEAN : OnSafety(thread, latch)
      BY <3>5, <3>1 DEF OnSafety
    <3> QED  BY <1>2, <3>2, <3>3, <3>4, <3>5 DEF Continue
  <2> QED  BY <2>2, <2>4, <2>5
<1> QED  BY <1>1, <1>2

\* A command is stored before its time, so the time is never the younger one.
LEMMA CommandsHold ==
    ASSUME IInv, NEW velocity \in {Zero, Move}, OnCommand(velocity)
    PROVE  IInv'
<1> USE DEF IInv
<1>1. UNCHANGED <<flags, local, out>>
  BY DEF OnCommand
<1>2. PICK step \in {"idle", "stamp"}, next \in {"idle", "stamp"} : At("executor", step, next)
  BY DEF OnCommand, Command
<1>3. Pcs' /\ pc'["timer"] = pc["timer"]
  BY <1>2, OthersStay DEF Threads, Steps
<1>4. LateInv'
  BY <1>1, <1>3 DEF LateInv, InHand, Blocked, flags, local, out
<1>5. CASE At("executor", "idle", "stamp") /\ age' = 0 /\ UNCHANGED stamp
  BY <1>1, <1>3, <1>4, <1>5, LeaseAssumption DEF FreshInv, local
<1>6. CASE At("executor", "stamp", "idle") /\ stamp' = 0 /\ UNCHANGED <<command, age>>
  <2>1. pc["executor"] = "stamp" /\ pc'["executor"] = "idle"
    BY <1>6, OthersStay DEF Threads, Steps
  <2> QED  BY <2>1, <1>1, <1>3, <1>4, <1>6 DEF FreshInv, local
<1>7. \/ At("executor", "idle", "stamp") /\ age' = 0 /\ UNCHANGED stamp
      \/ At("executor", "stamp", "idle") /\ stamp' = 0 /\ UNCHANGED <<command, age>>
  BY DEF OnCommand, Command
<1> QED  BY <1>5, <1>6, <1>7

\* A pass of the timer takes a move in hand only while the robot is not blocked
\* and the command is fresh, and lays it down when it is published.
LEMMA PassesHold ==
    ASSUME IInv, OnTimer
    PROVE  IInv'
<1> USE DEF IInv
<1>1. CASE PublishState("timer")
  BY <1>1, TellingHolds DEF Threads
<1>2. ASSUME NEW step \in {"idle", "link", "lease"}, NEW taken \in BOOLEAN, NEW because,
             NEW next \in {"link", "lease"}, Branch(step, taken, because, next),
             ~taken => (step = "idle" /\ next = "link" /\ ~latched)
                          \/ (step = "link" /\ next = "lease" /\ connected),
             taken /\ because = "moving" => step = "lease" /\ stamp <= Lease
      PROVE  IInv'
  <2>1. /\ Pcs' /\ pc["timer"] = step
        /\ pc'["timer"] = IF taken THEN "decide" ELSE next
        /\ pc'["executor"] = pc["executor"]
    BY <1>2, OthersStay DEF Branch, Threads, Steps
  <2>2. UNCHANGED <<drive, flags, chosen, stale, out>> /\ (taken => verdict' = because)
    BY <1>2 DEF Branch
  <2>3. LateInv'
    BY <1>2, <2>1, <2>2 DEF LateInv, InHand, Blocked, Causes, flags, out
  <2>4. FreshInv'
    BY <1>2, <2>1, <2>2, LeaseAssumption DEF FreshInv, drive
  <2> QED  BY <2>1, <2>3, <2>4
<1>6. CASE TestLatch
  <2>1. Branch("idle", latched, "emergency_stop", "link")
    BY <1>6 DEF TestLatch
  <2>2. CASE latched
    <3>1. Branch("idle", TRUE, "emergency_stop", "link")
      BY <2>1, <2>2 DEF Branch
    <3> QED  BY <3>1, <1>2
  <2>3. CASE ~latched
    <3>1. Branch("idle", FALSE, "emergency_stop", "link")
      BY <2>1, <2>3 DEF Branch
    <3> QED  BY <3>1, <2>3, <1>2
  <2> QED  BY <2>2, <2>3
<1>7. CASE TestLink
  <2>1. Branch("link", ~connected, "serial_disconnected", "lease")
    BY <1>7 DEF TestLink
  <2>2. CASE ~connected
    <3>1. Branch("link", TRUE, "serial_disconnected", "lease")
      BY <2>1, <2>2 DEF Branch
    <3> QED  BY <3>1, <1>2
  <2>3. CASE connected
    <3>1. Branch("link", FALSE, "serial_disconnected", "lease")
      BY <2>1, <2>3 DEF Branch
    <3> QED  BY <3>1, <2>3, <1>2
  <2> QED  BY <2>2, <2>3
<1>8. CASE TestLease
  <2>1. CASE Expired
    <3>1. Branch("lease", TRUE, "velocity_lease_expired", "lease")
      BY <1>8, <2>1 DEF TestLease, Branch
    <3> QED  BY <3>1, <1>2
  <2>2. CASE ~Expired
    <3>1. Branch("lease", TRUE, "moving", "lease")
      BY <1>8, <2>2 DEF TestLease, Branch
    <3>2. stamp <= Lease
      BY <2>2, LeaseAssumption DEF Expired, FreshInv
    <3> QED  BY <3>1, <3>2, <1>2
  <2> QED  BY <2>1, <2>2
<1>3. CASE Decide
  <2>1. /\ Pcs' /\ pc["timer"] = "decide" /\ pc'["timer"] = "publish"
        /\ pc'["executor"] = pc["executor"]
    BY <1>3, OthersStay DEF Decide, Threads, Steps
  <2>2. chosen' = Move => verdict = "moving"
    BY <1>3, VelocitiesAssumption DEF Decide
  <2>3. LateInv'
    BY <1>3, <2>1, <2>2 DEF Decide, LateInv, InHand, Blocked, Causes, flags, out
  <2>4. ~stale'
    <3>1. ~(chosen' = Move /\ age > Lease)
      BY <2>1, <2>2, LeaseAssumption DEF FreshInv
    <3>2. stale' = (chosen' = Move /\ age > Lease)
      BY <1>3 DEF Decide
    <3> QED  BY <3>1, <3>2, Zenon
  <2>5. FreshInv'
    BY <1>3, <2>1, <2>4 DEF Decide, FreshInv, drive
  <2> QED  BY <2>1, <2>3, <2>5
<1>4. CASE Publish
  <2>1. /\ Pcs' /\ pc["timer"] = "publish" /\ pc'["timer"] = "compare"
        /\ pc'["executor"] = pc["executor"]
    BY <1>4, OthersStay DEF Publish, Threads, Steps
  <2>2. LateInv'
    BY <1>4, <2>1, VelocitiesAssumption
       DEF Publish, Output, LateInv, InHand, Blocked, Causes, flags
  <2>3. FreshInv'
    BY <1>4, <2>1 DEF Publish, FreshInv, drive
  <2> QED  BY <2>1, <2>2, <2>3
<1>5. CASE Compare
  <2>1. /\ Pcs' /\ pc["timer"] = "compare" /\ pc'["timer"] \in {"mark", "idle"}
        /\ pc'["executor"] = pc["executor"]
    BY <1>5, OthersStay DEF Compare, Threads, Steps
  <2>2. LateInv'
    BY <1>5, <2>1 DEF Compare, LateInv, InHand, Blocked, flags, local, out
  <2>3. FreshInv'
    BY <1>5, <2>1 DEF Compare, FreshInv, drive, local
  <2> QED  BY <2>1, <2>2, <2>3
<1> QED  BY <1>1, <1>3, <1>4, <1>5, <1>6, <1>7, <1>8 DEF OnTimer

\* Time passes only between callbacks, when no command waits for its time.
LEMMA TicksHold == IInv /\ Tick => IInv'
<1> SUFFICES ASSUME IInv, Tick PROVE IInv'
  OBVIOUS
<1> USE DEF IInv
<1>1. pc["timer"] = "idle" /\ pc["executor"] = "idle"
  BY DEF Tick, Idle, Threads
<1>2. Pcs' /\ LateInv'
  BY DEF Tick, Pcs, LateInv, InHand, Blocked, flags, local, out
<1>3. FreshInv'
  BY <1>1, LeaseAssumption DEF Tick, FreshInv, local
<1> QED  BY <1>2, <1>3

\* The invariant, from its parts and one lemma per group of actions.
THEOREM Invariance == Spec => []IInv
<1>1. IInv /\ [Next]_vars => IInv'
  <2> SUFFICES ASSUME IInv, [Next]_vars PROVE IInv'
    OBVIOUS
  <2>1. CASE OnTimer
    BY <2>1, PassesHold
  <2>2. CASE Tick
    BY <2>2, TicksHold
  <2>3. CASE \E value \in BOOLEAN : OnConnected(value)
    BY <2>3, CallbacksHold
  <2>4. CASE \E velocity \in {Zero, Move} : OnCommand(velocity)
    BY <2>4, CommandsHold
  <2>5. CASE \E thread \in Latchers, latch \in BOOLEAN : OnSafety(thread, latch)
    BY <2>5, CallbacksHold
  <2>6. CASE \E thread \in Latchers \union {"link"} : Continue(thread)
    BY <2>6, CallbacksHold
  <2>7. CASE UNCHANGED vars
    BY <2>7 DEF vars, drive, flags, local, out, IInv, Pcs, LateInv, FreshInv, InHand, Blocked
  <2> QED  BY <2>1, <2>2, <2>3, <2>4, <2>5, <2>6, <2>7 DEF Next
<1> QED  BY InitHolds, <1>1, PTL DEF Spec

\* Once the stop is latched or the board is gone, at most one more move is
\* published, whatever the threads do and for how long the stop lasts.
THEOREM One_late_move == Spec => []OneLateMove
<1>1. IInv => OneLateMove
  BY DEF IInv, LateInv, OneLateMove
<1> QED  BY <1>1, Invariance, PTL

\* The timer never sends a command that is older than the lease.
THEOREM Commands_are_fresh == Spec => []NoStaleDrive
<1>1. IInv => NoStaleDrive
  BY DEF IInv, FreshInv, NoStaleDrive
<1> QED  BY <1>1, Invariance, PTL

-----------------------------------------------------------------------------
(* Types, action by action: each group of fields by itself. *)

LEMMA TypeInit == Init => TypeOK
<1> SUFFICES ASSUME Init PROVE TypeOK
  OBVIOUS
<1> USE DEF Init
<1>1. /\ command \in {Zero, Move} /\ chosen \in {Zero, Move} /\ output \in {Zero, Move}
      /\ connected \in BOOLEAN /\ latched \in BOOLEAN /\ stale \in BOOLEAN
  OBVIOUS
<1>5. stamp \in Ages /\ age \in Ages /\ messages \in 0..MaxMessages
  BY LeaseAssumption DEF Ages
<1>2. reason \in Reasons /\ published \in Reasons /\ verdict \in Reasons
  BY DEF Reasons
<1>3. state \in States /\ dumped \in [Threads -> States]
  BY DEF States, Forgotten
<1>4. pc \in [Threads -> Steps] /\ late \in [Causes -> 0..2]
  BY DEF Steps
<1> QED  BY <1>1, <1>2, <1>3, <1>4, <1>5 DEF TypeOK

LEMMA TellingTyped ==
    ASSUME TypeOK, NEW thread \in Threads, PublishState(thread) PROVE TypeOK'
<1> USE DEF TypeOK, drive, flags, local, out
<1>1. CASE Mark(thread)
  BY <1>1 DEF Mark, At, Steps
<1>2. CASE Dump(thread)
  BY <1>2 DEF Dump, At, Steps, States
<1>3. CASE Send(thread)
  BY <1>3 DEF Send, At, Steps, States, Forgotten
<1> QED  BY <1>1, <1>2, <1>3 DEF PublishState

LEMMA OutputTyped ==
    ASSUME TypeOK, NEW velocity \in {Zero, Move}, Output(velocity)
    PROVE  output' \in {Zero, Move} /\ late' \in [Causes -> 0..2]
BY DEF TypeOK, Output

LEMMA FlagsTyped ==
    ASSUME TypeOK, NEW c \in BOOLEAN, NEW l \in BOOLEAN, SetFlags(c, l)
    PROVE  connected' \in BOOLEAN /\ latched' \in BOOLEAN /\ late' \in [Causes -> 0..2]
BY DEF TypeOK, SetFlags

LEMMA PassTyped == ASSUME TypeOK, OnTimer PROVE TypeOK'
<1> USE DEF TypeOK, drive, flags, local, told
<1>1. CASE TestLatch \/ TestLink \/ TestLease
  BY <1>1 DEF TestLatch, TestLink, TestLease, Branch, At, Steps, Reasons, out
<1>2. CASE Decide
  BY <1>2 DEF Decide, At, Steps, out
<1>3. CASE Publish
  <2>1. Output(chosen)
    BY <1>3 DEF Publish
  <2>2. output' \in {Zero, Move} /\ late' \in [Causes -> 0..2]
    BY <2>1, OutputTyped
  <2> QED  BY <1>3, <2>2 DEF Publish, At, Steps, Reasons
<1>4. CASE Compare
  BY <1>4 DEF Compare, At, Steps, out
<1>5. CASE PublishState("timer")
  BY <1>5, TellingTyped DEF Threads
<1> QED  BY <1>1, <1>2, <1>3, <1>4, <1>5 DEF OnTimer

LEMMA CallbackTyped ==
    ASSUME TypeOK,
           \/ \E value \in BOOLEAN : OnConnected(value)
           \/ \E thread \in Latchers, latch \in BOOLEAN : OnSafety(thread, latch)
           \/ \E thread \in Latchers \union {"link"} : Continue(thread)
    PROVE  TypeOK'
<1>1. CASE \E value \in BOOLEAN : OnConnected(value)
  <2>1. PICK value \in BOOLEAN : OnConnected(value)
    BY <1>1
  <2>2. latched \in BOOLEAN /\ SetFlags(value, latched)
    BY <2>1 DEF OnConnected, TypeOK
  <2>3. connected' \in BOOLEAN /\ latched' \in BOOLEAN /\ late' \in [Causes -> 0..2]
    BY <2>2, FlagsTyped
  <2>4. messages' \in 0..MaxMessages
    BY <2>1, LeaseAssumption DEF OnConnected, Message, TypeOK
  <2> QED
    BY <2>1, <2>2, <2>3, <2>4
       DEF OnConnected, SetFlags, At, Steps, TypeOK, drive, local, told
<1>2. CASE \E thread \in Latchers, latch \in BOOLEAN : OnSafety(thread, latch)
  <2>1. PICK thread \in Latchers, latch \in BOOLEAN : OnSafety(thread, latch)
    BY <1>2
  <2>2. connected \in BOOLEAN /\ SetFlags(connected, latch)
    BY <2>1 DEF OnSafety, TypeOK
  <2>3. connected' \in BOOLEAN /\ latched' \in BOOLEAN /\ late' \in [Causes -> 0..2]
    BY <2>2, FlagsTyped
  <2>4. messages' \in 0..MaxMessages
    BY <2>1, LeaseAssumption DEF OnSafety, Message, TypeOK
  <2> QED
    BY <2>1, <2>2, <2>3, <2>4
       DEF OnSafety, SetFlags, At, Steps, TypeOK, drive, local, told
<1>3. CASE \E thread \in Latchers \union {"link"} : Continue(thread)
  <2>1. PICK thread \in Latchers \union {"link"} : Continue(thread)
    BY <1>3
  <2>2. thread \in Threads
    BY DEF Threads
  <2>3. CASE Reason(thread)
    BY <2>3 DEF Reason, At, Steps, Reasons, TypeOK, drive, flags, local, out, told
  <2>4. CASE PublishZero(thread)
    <3>1. output' \in {Zero, Move} /\ late' \in [Causes -> 0..2]
      BY <2>4, OutputTyped DEF PublishZero
    <3> QED  BY <2>4, <3>1 DEF PublishZero, At, Steps, TypeOK, drive, flags, local, told
  <2>5. CASE PublishState(thread)
    BY <2>2, <2>5, TellingTyped
  <2> QED  BY <2>1, <2>3, <2>4, <2>5 DEF Continue
<1> QED  BY <1>1, <1>2, <1>3

LEMMA CommandTyped ==
    ASSUME TypeOK, NEW velocity \in {Zero, Move}, OnCommand(velocity) PROVE TypeOK'
<1>1. messages' \in 0..MaxMessages /\ command' \in {Zero, Move}
  BY LeaseAssumption DEF OnCommand, Command, Message, TypeOK
<1>2. stamp' \in Ages /\ age' \in Ages
  BY LeaseAssumption DEF OnCommand, Command, TypeOK, Ages
<1>3. pc' \in [Threads -> Steps]
  BY DEF OnCommand, Command, At, TypeOK, Steps
<1> QED  BY <1>1, <1>2, <1>3 DEF OnCommand, TypeOK, flags, local, out, told

LEMMA TickTyped == ASSUME TypeOK, Tick PROVE TypeOK'
<1>1. stamp' \in Ages /\ age' \in Ages
  BY LeaseAssumption DEF Tick, TypeOK, Ages
<1> QED  BY <1>1 DEF Tick, TypeOK, flags, local, out, told

\* Every field of the node, every local of its threads and what it publishes keep
\* their types, for every lease and any number of messages.
THEOREM Typing == Spec => []TypeOK
<1>1. TypeOK /\ [Next]_vars => TypeOK'
  <2> SUFFICES ASSUME TypeOK, [Next]_vars PROVE TypeOK'
    OBVIOUS
  <2>1. CASE OnTimer
    BY <2>1, PassTyped
  <2>2. CASE Tick
    BY <2>2, TickTyped
  <2>3. CASE \E velocity \in {Zero, Move} : OnCommand(velocity)
    BY <2>3, CommandTyped
  <2>4. CASE \/ \E value \in BOOLEAN : OnConnected(value)
             \/ \E thread \in Latchers, latch \in BOOLEAN : OnSafety(thread, latch)
             \/ \E thread \in Latchers \union {"link"} : Continue(thread)
    BY <2>4, CallbackTyped
  <2>5. CASE UNCHANGED vars
    BY <2>5 DEF vars, TypeOK, drive, flags, local, out, told
  <2> QED  BY <2>1, <2>2, <2>3, <2>4, <2>5 DEF Next
<1> QED  BY TypeInit, <1>1, PTL DEF Spec
=============================================================================
