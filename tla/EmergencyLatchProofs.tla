------------------------- MODULE EmergencyLatchProofs -------------------------
(***************************************************************************)
(* The emergency stop holds: with the buttons of the board and a board     *)
(* that reboots at any time, and for any number of presses, all latches    *)
(* end up the same, and as the user left them if no reboot took the STOP   *)
(* frame along; without the web page no fault leaves one ROS node latched  *)
(* and the other not; and with the web page and reboots the board ends up  *)
(* with the latch of the bridge.                                           *)
(*                                                                         *)
(* The invariants follow the last word on its way: what the user did last  *)
(* is in the slot, or is the last STOP frame on the line, or the last      *)
(* message to each node, or the node's latch; and what the bridge knows,   *)
(* once nothing is on its way to it, is the last thing it told the board.  *)
(***************************************************************************)
EXTENDS EmergencyLatch, SequenceTheorems, TLAPS

LastOf(queue) == queue[Len(queue)]

LEMMA LastAppended ==
    ASSUME NEW S, NEW queue \in Seq(S), NEW e \in S
    PROVE  /\ Append(queue, e) \in Seq(S) /\ Append(queue, e) # <<>>
           /\ LastOf(Append(queue, e)) = e
<1>1. Len(queue) \in Nat /\ Len(Append(queue, e)) = Len(queue) + 1
  OBVIOUS
<1>2. Len(Append(queue, e)) # 0 /\ Len(<<>>) = 0
  BY <1>1
<1>3. Append(queue, e)[Len(queue) + 1] = e
  BY <1>1
<1> QED  BY <1>1, <1>2, <1>3 DEF LastOf

LEMMA LastKept ==
    ASSUME NEW S, NEW queue \in Seq(S), queue # <<>>
    PROVE  /\ Head(queue) \in S /\ Tail(queue) \in Seq(S)
           /\ Tail(queue) = <<>> => LastOf(queue) = Head(queue)
           /\ Tail(queue) # <<>> => LastOf(Tail(queue)) = LastOf(queue)
<1>1. Head(queue) \in S /\ Tail(queue) \in Seq(S)
  BY HeadTailProperties
<1>2. /\ Len(queue) \in Nat \ {0} /\ Len(Tail(queue)) = Len(queue) - 1
      /\ \A i \in 1..Len(Tail(queue)) : Tail(queue)[i] = queue[i + 1]
  BY HeadTailProperties, EmptySeq
<1>3. Head(queue) = queue[1]
  OBVIOUS
<1>4. ASSUME Tail(queue) = <<>> PROVE LastOf(queue) = Head(queue)
  <2>1. Len(Tail(queue)) = 0
    <3>1. Len(<<>>) = 0
      OBVIOUS
    <3> QED  BY <1>4, <3>1
  <2>2. Len(queue) = 1
    <3>1. \A n \in Nat \ {0} : n - 1 = 0 => n = 1
      OBVIOUS
    <3> QED  BY <1>2, <2>1, <3>1
  <2> QED  BY <1>3, <2>2 DEF LastOf
<1>5. ASSUME Tail(queue) # <<>> PROVE LastOf(Tail(queue)) = LastOf(queue)
  <2>1. Len(Tail(queue)) \in Nat \ {0}
    BY <1>1, <1>5, EmptySeq
  <2>2. Tail(queue)[Len(Tail(queue))] = queue[Len(Tail(queue)) + 1]
    BY <1>2, <2>1
  <2>3. Len(Tail(queue)) + 1 = Len(queue)
    BY <1>2
  <2> QED  BY <2>2, <2>3 DEF LastOf
<1> QED  BY <1>1, <1>4, <1>5

-----------------------------------------------------------------------------
(* Types. *)

Queues == [Publishers \X Subscribers -> Seq(BOOLEAN)]

LEMMA PublishedTo ==
    ASSUME set \in Queues, NEW publisher \in Publishers, NEW latch \in BOOLEAN
    PROVE  /\ Published(publisher, latch) \in Queues
           /\ \A p \in Publishers, s \in Subscribers :
                 Published(publisher, latch)[<<p, s>>] =
                     IF p = publisher THEN Append(set[<<p, s>>], latch) ELSE set[<<p, s>>]
<1>1. \A pair \in Publishers \X Subscribers :
         /\ set[pair] \in Seq(BOOLEAN) /\ Append(set[pair], latch) \in Seq(BOOLEAN)
  BY DEF Queues
<1>2. Published(publisher, latch) =
         [pair \in Publishers \X Subscribers |->
             IF pair[1] = publisher THEN Append(set[pair], latch) ELSE set[pair]]
  BY DEF Published, Queues
<1>3. Published(publisher, latch) \in Queues
  BY <1>1, <1>2 DEF Queues
<1>4. ASSUME NEW p \in Publishers, NEW s \in Subscribers
      PROVE  Published(publisher, latch)[<<p, s>>] =
                 IF p = publisher THEN Append(set[<<p, s>>], latch) ELSE set[<<p, s>>]
  <2>1. <<p, s>> \in Publishers \X Subscribers /\ <<p, s>>[1] = p
    OBVIOUS
  <2> QED  BY <1>2, <2>1
<1> QED  BY <1>3, <1>4

LEMMA TakenFrom ==
    ASSUME set \in Queues, NEW publisher \in Publishers, NEW node \in Subscribers,
           set[<<publisher, node>>] # <<>>,
           set' = [set EXCEPT ![<<publisher, node>>] = Tail(@)]
    PROVE  /\ set' \in Queues /\ Head(set[<<publisher, node>>]) \in BOOLEAN
           /\ set'[<<publisher, node>>] = Tail(set[<<publisher, node>>])
           /\ \A p \in Publishers, s \in Subscribers :
                 <<p, s>> # <<publisher, node>> => set'[<<p, s>>] = set[<<p, s>>]
<1> DEFINE topic == <<publisher, node>>
<1>1. topic \in Publishers \X Subscribers
  OBVIOUS
<1>2. set[topic] \in Seq(BOOLEAN)
  BY <1>1 DEF Queues
<1>3. Head(set[topic]) \in BOOLEAN /\ Tail(set[topic]) \in Seq(BOOLEAN)
  BY <1>2, LastKept
<1>4. \A p \in Publishers, s \in Subscribers : <<p, s>> \in Publishers \X Subscribers
  OBVIOUS
<1> HIDE DEF topic
<1>5. set' = [set EXCEPT ![topic] = Tail(set[topic])]
  BY DEF topic
<1> QED  BY <1>1, <1>3, <1>4, <1>5 DEF Queues, topic

\* The parts of TypeOK.
BoardTyped ==
    /\ emergency \in BOOLEAN /\ slot \in StopCodes \union {None}
    /\ locked \in BOOLEAN /\ unsaid \in BOOLEAN
LineTyped ==
    /\ up \in Seq(StopCodes \union {Hello}) /\ down \in Seq({Release, Engage})
    /\ plugged \in BOOLEAN /\ connected \in BOOLEAN
NodesTyped ==
    /\ known \in BOOLEAN \union {None}
    /\ latched \in [{"gateway", "executor"} -> BOOLEAN]
    /\ set \in Queues /\ states \in Seq(BOOLEAN)
TallyTyped == scenario \in Scenarios /\ events \in 0..scenario.events

LEMMA TypeParts == TypeOK <=> BoardTyped /\ LineTyped /\ NodesTyped /\ TallyTyped
BY DEF TypeOK, BoardTyped, LineTyped, NodesTyped, TallyTyped, Queues

LEMMA Codes ==
    /\ Engage \in StopCodes /\ Release \in StopCodes /\ Cancel \in StopCodes
    /\ \A latch : Code(latch) \in {Release, Engage} /\ Code(latch) \in StopCodes
    /\ Hello \notin StopCodes /\ Engage # Release /\ Cancel \notin {Engage, Release}
BY DEF StopCodes, Engage, Release, Cancel, Hello, Code

LEMMA Sending ==
    ASSUME down \in Seq({Release, Engage}), NEW latch
    PROVE  /\ Sent(Code(latch)) \in Seq({Release, Engage})
           /\ Resync \in Seq({Release, Engage})
<1>1. \A c \in {Release, Engage} : Sent(c) \in Seq({Release, Engage})
  BY DEF Sent
<1>2. Sent(Code(latch)) \in Seq({Release, Engage}) /\ Sent(Code(known)) \in Seq({Release, Engage})
  BY <1>1, Codes
<1> QED  BY <1>2 DEF Resync

LEMMA Happening == ASSUME TallyTyped, Happens PROVE TallyTyped' /\ scenario' = scenario
<1>1. scenario.events \in Nat
  BY ScenariosAssumption DEF TallyTyped
<1> QED  BY <1>1 DEF TallyTyped, Happens

LEMMA SilentTyped ==
    /\ Silent \in Queues
    /\ \A p \in Publishers, s \in Subscribers : Silent[<<p, s>>] = <<>>
<1>1. <<>> \in Seq(BOOLEAN)
  OBVIOUS
<1>2. \A p \in Publishers, s \in Subscribers : <<p, s>> \in Publishers \X Subscribers
  OBVIOUS
<1> QED  BY <1>1, <1>2 DEF Silent, Queues

\* A reset leaves frames on the line, and no others.
LEMMA CutShort ==
    ASSUME NEW S, NEW queue \in Seq(S), NEW line \in AfterReset(queue)
    PROVE  line \in Seq(S) /\ \A i \in DOMAIN line : i \in DOMAIN queue /\ line[i] = queue[i]
<1>1. CASE line = queue
  BY <1>1
<1>2. CASE line # queue
  <2>1. queue # <<>> /\ line = SubSeq(queue, 1, Len(queue) - 1)
    BY <1>2 DEF AfterReset
  <2>2. Len(queue) \in Nat /\ Len(queue) # 0
    BY <2>1, EmptySeq
  <2>3. /\ line \in Seq(S) /\ Len(line) = Len(queue) - 1
        /\ \A i \in 1..Len(line) : line[i] = queue[i]
    <3> DEFINE last == Len(queue) - 1
    <3>1. last \in Nat /\ \A i \in 1..last : i \in DOMAIN queue /\ queue[i] \in S
      BY <2>2
    <3>2. line = SubSeq(queue, 1, last)
      BY <2>1
    <3> HIDE DEF last
    <3>3. /\ line \in Seq(S) /\ Len(line) = IF 1 <= last THEN last - 1 + 1 ELSE 0
          /\ \A i \in 1..(last - 1 + 1) : line[i] = queue[1 + i - 1]
      BY <3>1, <3>2, SubSeqProperties
    <3>4. Len(line) = last
      BY <3>1, <3>3
    <3> QED  BY <3>1, <3>3, <3>4 DEF last
  <2>4. DOMAIN line = 1..(Len(queue) - 1) /\ DOMAIN queue = 1..Len(queue)
    BY <2>2, <2>3
  <2> QED  BY <2>2, <2>3, <2>4
<1> QED  BY <1>1, <1>2

LEMMA UserTyped ==
    ASSUME TypeOK,
           EngageOnBoard \/ ReleaseOnBoard \/ CancelOnBoard \/ Reboot \/ Unplug \/ Restart
           \/ \E latch \in BOOLEAN : WebStop(latch)
    PROVE  (BoardTyped /\ LineTyped /\ NodesTyped /\ TallyTyped)'
<1>1. BoardTyped /\ LineTyped /\ NodesTyped /\ TallyTyped
  BY TypeParts
<1>2. TallyTyped'
  BY <1>1, Happening
     DEF EngageOnBoard, ReleaseOnBoard, CancelOnBoard, Reboot, Unplug, Restart, WebStop, May
<1> USE DEF BoardTyped, LineTyped, NodesTyped, user
<1>3. CASE EngageOnBoard \/ ReleaseOnBoard \/ CancelOnBoard
  BY <1>1, <1>2, <1>3, Codes
     DEF EngageOnBoard, ReleaseOnBoard, CancelOnBoard, SlotAfter, link, ros
<1>4. CASE Reboot
  <2>1. up' \in Seq(StopCodes \union {Hello}) /\ unsaid' \in BOOLEAN
    <3>1. PICK line \in AfterReset(up) :
             /\ up' = IF plugged THEN Append(line, Hello) ELSE up
             /\ unsaid' = (unsaid \/ slot # None \/ line # up)
      BY <1>4 DEF Reboot
    <3>2. line \in Seq(StopCodes \union {Hello})
      BY <1>1, <3>1, CutShort
    <3> QED  BY <1>1, <3>1, <3>2
  <2>2. <<>> \in Seq({Release, Engage})
    OBVIOUS
  <2> QED  BY <1>1, <1>2, <1>4, <2>1, <2>2 DEF Reboot, ros
<1>5. CASE Unplug
  <2>1. <<>> \in Seq({Release, Engage}) /\ <<>> \in Seq(StopCodes \union {Hello})
    OBVIOUS
  <2> QED  BY <1>1, <1>2, <1>5, <2>1 DEF Unplug, stc, ros
<1>6. CASE Restart
  <2>1. <<>> \in Seq({Release, Engage}) /\ <<>> \in Seq(StopCodes \union {Hello})
    OBVIOUS
  <2>2. <<FALSE>> \in Seq(BOOLEAN)
    OBVIOUS
  <2>3. latched' \in [{"gateway", "executor"} -> BOOLEAN]
    BY <1>1, <1>6 DEF Restart
  <2> QED  BY <1>1, <1>2, <1>6, <2>1, <2>2, <2>3, SilentTyped DEF Restart, stc
<1>7. CASE \E latch \in BOOLEAN : WebStop(latch)
  <2>1. PICK latch \in BOOLEAN : WebStop(latch)
    BY <1>7
  <2>2. set' \in Queues
    BY <1>1, <2>1, PublishedTo DEF WebStop, Publishers
  <2> QED  BY <1>1, <1>2, <2>1, <2>2 DEF WebStop, stc, link
<1> QED  BY <1>3, <1>4, <1>5, <1>6, <1>7

LEMMA MessageTyped ==
    ASSUME TypeOK, Deliver \/ TellState
    PROVE  (BoardTyped /\ LineTyped /\ NodesTyped /\ TallyTyped)'
<1>1. BoardTyped /\ LineTyped /\ NodesTyped /\ TallyTyped
  BY TypeParts
<1> USE DEF BoardTyped, LineTyped, NodesTyped, TallyTyped, user, tally
<1>2. CASE Transmit
  <2>1. slot \in StopCodes
    BY <1>1, <1>2 DEF Transmit
  <2>2. up' \in Seq(StopCodes \union {Hello})
    BY <1>1, <1>2, <2>1 DEF Transmit
  <2> QED  BY <1>1, <1>2, <2>2 DEF Transmit, ros
<1>3. CASE OnStop
  BY <1>1, <1>3 DEF OnStop, LatchOf, ros
<1>4. CASE OnFrame
  <2>1. up' \in Seq(StopCodes \union {Hello})
    BY <1>1, <1>4 DEF OnFrame
  <2>2. down' = Resync \/ down' = down
    BY <1>4 DEF OnFrame
  <2>3. down' \in Seq({Release, Engage})
    BY <1>1, <2>2, Sending
  <2>4. set' = set \/ set' = Published("bridge", Head(up) = Engage)
    BY <1>4 DEF OnFrame
  <2>5. set' \in Queues
    <3> DEFINE latch == (Head(up) = Engage)
    <3>1. latch \in BOOLEAN /\ "bridge" \in Publishers
      BY DEF Publishers
    <3>2. set' = set \/ set' = Published("bridge", latch)
      BY <2>4
    <3> HIDE DEF latch
    <3> QED  BY <1>1, <3>1, <3>2, PublishedTo
  <2> QED  BY <1>1, <1>4, <2>1, <2>3, <2>5 DEF OnFrame, stc
<1>5. CASE OnHeartbeat \/ Replug
  BY <1>1, <1>5 DEF OnHeartbeat, Replug, stc, ros
<1>6. CASE OnSafetyState
  <2>1. Head(states) \in BOOLEAN /\ states' \in Seq(BOOLEAN)
    BY <1>1, <1>6, LastKept DEF OnSafetyState
  <2>2. down' \in Seq({Release, Engage})
    BY <1>1, <1>6, Sending DEF OnSafetyState
  <2> QED  BY <1>1, <1>6, <2>1, <2>2 DEF OnSafetyState, stc
<1>7. CASE \E publisher \in Publishers : OnSafetySet(publisher)
  <2>1. PICK publisher \in Publishers : OnSafetySet(publisher)
    BY <1>7
  <2>2. "bridge" \in Subscribers
    BY DEF Subscribers
  <2>3. set' \in Queues /\ Head(set[<<publisher, "bridge">>]) \in BOOLEAN
    BY <1>1, <2>1, <2>2, TakenFrom DEF OnSafetySet
  <2>4. down' \in Seq({Release, Engage})
    BY <1>1, <2>1, Sending DEF OnSafetySet
  <2> QED  BY <1>1, <2>1, <2>3, <2>4 DEF OnSafetySet, stc
<1>8. CASE \E publisher \in Publishers : Latch("gateway", publisher) \/ Latch("executor", publisher)
  <2>1. PICK publisher \in Publishers, node \in {"gateway", "executor"} : Latch(node, publisher)
    BY <1>8
  <2>2. node \in Subscribers
    BY DEF Subscribers
  <2>3. set' \in Queues /\ Head(set[<<publisher, node>>]) \in BOOLEAN
    BY <1>1, <2>1, <2>2, TakenFrom DEF Latch
  <2>4. latched' \in [{"gateway", "executor"} -> BOOLEAN]
    <3> DEFINE latch == Head(set[<<publisher, node>>])
    <3>1. latched' = [latched EXCEPT ![node] = latch] /\ latch \in BOOLEAN
      BY <2>1, <2>3 DEF Latch
    <3> HIDE DEF latch
    <3> QED  BY <1>1, <3>1
  <2>5. states' \in Seq(BOOLEAN)
    <3> DEFINE latch == Head(set[<<publisher, node>>])
    <3>1. (states' = states \/ states' = Append(states, latch)) /\ latch \in BOOLEAN
      BY <2>1, <2>3 DEF Latch
    <3> HIDE DEF latch
    <3>2. states \in Seq(BOOLEAN)
      BY <1>1
    <3>3. Append(states, latch) \in Seq(BOOLEAN)
      BY <3>1, <3>2, LastAppended
    <3> QED  BY <3>1, <3>2, <3>3
  <2> QED  BY <1>1, <2>1, <2>3, <2>4, <2>5 DEF Latch, stc, link
<1>9. CASE TellState
  <2>1. latched["gateway"] \in BOOLEAN
    BY <1>1
  <2>2. states' \in Seq(BOOLEAN)
    BY <1>1, <1>9, <2>1 DEF TellState
  <2> QED  BY <1>1, <1>9, <2>2 DEF TellState, stc, link
<1> QED  BY <1>2, <1>3, <1>4, <1>5, <1>6, <1>7, <1>8, <1>9 DEF Deliver

\* Everything keeps its type, for any number of events.
THEOREM Typing == Spec => []TypeOK
<1>1. Init => TypeOK
  <2> SUFFICES ASSUME Init PROVE BoardTyped /\ LineTyped /\ NodesTyped /\ TallyTyped
    BY TypeParts
  <2>1. TallyTyped
    <3>1. scenario.events \in Nat
      BY ScenariosAssumption DEF Init
    <3> QED  BY <3>1 DEF Init, TallyTyped
  <2>2. LineTyped
    <3>1. <<>> \in Seq({Release, Engage}) /\ <<>> \in Seq(StopCodes \union {Hello})
      OBVIOUS
    <3> QED  BY <3>1 DEF Init, LineTyped
  <2>3. NodesTyped
    <3>1. <<>> \in Seq(BOOLEAN)
      OBVIOUS
    <3>2. latched \in [{"gateway", "executor"} -> BOOLEAN]
      BY DEF Init
    <3> QED  BY <3>1, <3>2, SilentTyped DEF Init, NodesTyped
  <2>4. BoardTyped
    BY DEF Init, BoardTyped
  <2> QED  BY <2>1, <2>2, <2>3, <2>4
<1>2. TypeOK /\ [Next]_vars => TypeOK'
  <2> SUFFICES ASSUME TypeOK, [Next]_vars
               PROVE  (BoardTyped /\ LineTyped /\ NodesTyped /\ TallyTyped)'
    <3>1. (TypeOK <=> BoardTyped /\ LineTyped /\ NodesTyped /\ TallyTyped)'
      BY TypeParts, PTL
    <3> QED  BY <3>1
  <2>1. CASE UNCHANGED vars
    BY <2>1, TypeParts
       DEF vars, stc, link, ros, user, tally, BoardTyped, LineTyped, NodesTyped, TallyTyped
  <2> QED  BY <2>1, UserTyped, MessageTyped DEF Next
<1> QED  BY <1>1, <1>2, PTL DEF Spec

-----------------------------------------------------------------------------
(* What the messages on their way to a node will leave it with. *)

Told(node) == set[<<"bridge", node>>]
Final(node) == IF Told(node) = <<>> THEN latched[node] ELSE LastOf(Told(node))
Nodes == {"gateway", "executor"}
WebSilent == \A s \in Subscribers : set[<<"web", s>>] = <<>>

LEMMA AfterPublished ==
    ASSUME TypeOK, NEW latch \in BOOLEAN, set' = Published("bridge", latch), latched' = latched
    PROVE  /\ \A node \in Nodes : Final(node)' = latch
           /\ Told("bridge")' # <<>> /\ LastOf(Told("bridge")') = latch
           /\ Told("gateway")' # <<>>
           /\ WebSilent => WebSilent'
<1>1. set \in Queues /\ "bridge" \in Publishers /\ "web" \in Publishers /\ "web" # "bridge"
  BY TypeParts DEF NodesTyped, Publishers
<1>2. \A p \in Publishers, s \in Subscribers :
         set'[<<p, s>>] = IF p = "bridge" THEN Append(set[<<p, s>>], latch) ELSE set[<<p, s>>]
  BY <1>1, PublishedTo
<1>3. ASSUME NEW s \in Subscribers
      PROVE  Told(s)' # <<>> /\ LastOf(Told(s)') = latch
  <2>1. <<"bridge", s>> \in Publishers \X Subscribers
    BY <1>1
  <2>2. set[<<"bridge", s>>] \in Seq(BOOLEAN)
    BY <1>1, <2>1 DEF Queues
  <2>3. Told(s)' = Append(set[<<"bridge", s>>], latch)
    BY <1>1, <1>2 DEF Told
  <2> QED  BY <2>2, <2>3, LastAppended
<1>4. "gateway" \in Subscribers /\ "executor" \in Subscribers /\ "bridge" \in Subscribers
  BY DEF Subscribers
<1>5. \A node \in Nodes : Final(node)' = latch
  BY <1>3, <1>4 DEF Final, Nodes
<1>6. WebSilent => WebSilent'
  BY <1>1, <1>2 DEF WebSilent
<1> QED  BY <1>3, <1>4, <1>5, <1>6

LEMMA AfterLatch ==
    ASSUME TypeOK, NEW node \in Nodes, Latch(node, "bridge")
    PROVE  /\ \A n \in Nodes : Final(n)' = Final(n)
           /\ Told("bridge")' = Told("bridge")
           /\ Told(node)' = <<>> => latched'[node] = Final(node)
           /\ \A n \in Nodes : n # node => Told(n)' = Told(n) /\ latched'[n] = latched[n]
           /\ WebSilent => WebSilent'
<1>1. /\ set \in Queues /\ "bridge" \in Publishers /\ "web" \in Publishers /\ "web" # "bridge"
      /\ latched \in [Nodes -> BOOLEAN]
  BY TypeParts DEF NodesTyped, Publishers, Nodes
<1>2. node \in Subscribers /\ \A n \in Nodes : n \in Subscribers /\ n # "bridge"
  BY DEF Nodes, Subscribers
<1>3. /\ set[<<"bridge", node>>] # <<>>
      /\ set' = [set EXCEPT ![<<"bridge", node>>] = Tail(@)]
      /\ latched' = [latched EXCEPT ![node] = Head(set[<<"bridge", node>>])]
  BY DEF Latch
<1>4. /\ set'[<<"bridge", node>>] = Tail(set[<<"bridge", node>>])
      /\ \A p \in Publishers, s \in Subscribers :
            <<p, s>> # <<"bridge", node>> => set'[<<p, s>>] = set[<<p, s>>]
  BY <1>1, <1>2, <1>3, TakenFrom
<1>5. Told(node) \in Seq(BOOLEAN) /\ Told(node) # <<>> /\ Told(node)' = Tail(Told(node))
  <2>1. <<"bridge", node>> \in Publishers \X Subscribers
    BY <1>1, <1>2
  <2>2. set[<<"bridge", node>>] \in Seq(BOOLEAN)
    BY <1>1, <2>1 DEF Queues
  <2> QED  BY <1>3, <1>4, <2>2 DEF Told
<1>6. latched'[node] = Head(Told(node))
  <2> DEFINE latch == Head(set[<<"bridge", node>>])
  <2>1. latched' = [latched EXCEPT ![node] = latch]
    BY <1>3
  <2> HIDE DEF latch
  <2>2. latched'[node] = latch
    BY <1>1, <2>1
  <2> QED  BY <2>2 DEF latch, Told
<1>7. \A n \in Nodes : n # node => latched'[n] = latched[n]
  <2> DEFINE latch == Head(set[<<"bridge", node>>])
  <2>1. latched' = [latched EXCEPT ![node] = latch]
    BY <1>3
  <2> HIDE DEF latch
  <2> QED  BY <1>1, <2>1
<1>8. \A n \in Nodes : n # node => Told(n)' = Told(n)
  BY <1>1, <1>2, <1>4 DEF Told
<1>9. Final(node) = LastOf(Told(node))
  BY <1>5 DEF Final
<1>10. Final(node)' = Final(node)
  <2>1. CASE Told(node)' = <<>>
    BY <1>5, <1>6, <1>9, <2>1, LastKept DEF Final
  <2>2. CASE Told(node)' # <<>>
    BY <1>5, <1>9, <2>2, LastKept DEF Final
  <2> QED  BY <2>1, <2>2
<1>11. \A n \in Nodes : Final(n)' = Final(n)
  BY <1>7, <1>8, <1>10 DEF Final
<1>12. Told(node)' = <<>> => latched'[node] = Final(node)
  BY <1>10 DEF Final
<1>13. Told("bridge")' = Told("bridge")
  <2>1. "bridge" \in Subscribers /\ node # "bridge"
    BY <1>2 DEF Subscribers
  <2> QED  BY <1>1, <1>4, <2>1 DEF Told
<1>14. WebSilent => WebSilent'
  BY <1>1, <1>4 DEF WebSilent
<1> QED  BY <1>7, <1>8, <1>11, <1>12, <1>13, <1>14

\* The bridge hears its own message.
LEMMA AfterEcho ==
    ASSUME TypeOK, OnSafetySet("bridge")
    PROVE  /\ \A n \in Nodes : Final(n)' = Final(n) /\ Told(n)' = Told(n)
           /\ Told("bridge") # <<>> /\ known' \in BOOLEAN /\ down' = Sent(Code(known'))
           /\ Told("bridge")' = <<>> => known' = LastOf(Told("bridge"))
           /\ Told("bridge")' # <<>> => LastOf(Told("bridge")') = LastOf(Told("bridge"))
           /\ WebSilent => WebSilent'
<1>1. /\ set \in Queues /\ "bridge" \in Publishers /\ "web" \in Publishers /\ "web" # "bridge"
      /\ "bridge" \in Subscribers
  BY TypeParts DEF NodesTyped, Publishers, Subscribers
<1>2. /\ set[<<"bridge", "bridge">>] # <<>>
      /\ set' = [set EXCEPT ![<<"bridge", "bridge">>] = Tail(@)]
      /\ known' = Head(set[<<"bridge", "bridge">>])
      /\ down' = Sent(Code(Head(set[<<"bridge", "bridge">>]))) /\ latched' = latched
  BY DEF OnSafetySet
<1>3. /\ set'[<<"bridge", "bridge">>] = Tail(set[<<"bridge", "bridge">>])
      /\ Head(set[<<"bridge", "bridge">>]) \in BOOLEAN
      /\ \A p \in Publishers, s \in Subscribers :
            <<p, s>> # <<"bridge", "bridge">> => set'[<<p, s>>] = set[<<p, s>>]
  BY <1>1, <1>2, TakenFrom
<1>4. Told("bridge") \in Seq(BOOLEAN)
  <2>1. <<"bridge", "bridge">> \in Publishers \X Subscribers
    BY <1>1
  <2> QED  BY <1>1, <2>1 DEF Queues, Told
<1>5. \A n \in Nodes : Told(n)' = Told(n)
  <2>1. \A n \in Nodes : n \in Subscribers /\ n # "bridge"
    BY DEF Nodes, Subscribers
  <2> QED  BY <1>1, <1>3, <2>1 DEF Told
<1>6. \A n \in Nodes : Final(n)' = Final(n)
  BY <1>2, <1>5 DEF Final
<1>7. WebSilent => WebSilent'
  BY <1>1, <1>3 DEF WebSilent
<1>8. Told("bridge")' = Tail(Told("bridge")) /\ Told("bridge") # <<>>
      /\ known' = Head(Told("bridge"))
  BY <1>2, <1>3 DEF Told
<1> QED  BY <1>2, <1>3, <1>4, <1>5, <1>6, <1>7, <1>8, LastKept

-----------------------------------------------------------------------------
(* The two ROS nodes. *)

NodesFollow == "web" \notin scenario.may => WebSilent /\ Final("gateway") = Final("executor")

\* Without the web page a message comes from the bridge, or nothing changes for the nodes.
LEMMA NodeSteps ==
    ASSUME WebSilent, [Next]_vars, "web" \notin scenario.may
    PROVE  \/ UNCHANGED <<set, latched>>
           \/ OnFrame /\ \E latch \in BOOLEAN : set' = Published("bridge", latch) /\ latched' = latched
           \/ OnSafetySet("bridge")
           \/ \E node \in Nodes : Latch(node, "bridge")
           \/ Restart
<1>1. \A s \in Subscribers : set[<<"web", s>>] = <<>>
  BY DEF WebSilent
<1>2. "bridge" \in Subscribers /\ "gateway" \in Subscribers /\ "executor" \in Subscribers
  BY DEF Subscribers
<1>3. ~OnSafetySet("web")
  BY <1>1, <1>2 DEF OnSafetySet
<1>4. ~Latch("gateway", "web") /\ ~Latch("executor", "web")
  BY <1>1, <1>2 DEF Latch
<1>5. \A latch \in BOOLEAN : ~WebStop(latch)
  BY DEF WebStop, May
<1>6. CASE UNCHANGED vars
  BY <1>6 DEF vars, ros
<1>7. CASE Transmit \/ OnStop \/ OnHeartbeat \/ OnSafetyState \/ Replug \/ TellState
  BY <1>7 DEF Transmit, OnStop, OnHeartbeat, OnSafetyState, Replug, TellState, ros
<1>8. CASE EngageOnBoard \/ ReleaseOnBoard \/ CancelOnBoard \/ Reboot \/ Unplug
  BY <1>8 DEF EngageOnBoard, ReleaseOnBoard, CancelOnBoard, Reboot, Unplug, ros
<1>9. CASE OnFrame
  <2>1. latched' = latched
    BY <1>9 DEF OnFrame
  <2>2. set' = set \/ set' = Published("bridge", Head(up) = Engage)
    BY <1>9 DEF OnFrame
  <2> QED  BY <1>9, <2>1, <2>2
<1>10. CASE \E publisher \in Publishers :
              OnSafetySet(publisher) \/ Latch("gateway", publisher) \/ Latch("executor", publisher)
  BY <1>3, <1>4, <1>10 DEF Publishers, Nodes
<1> QED  BY <1>5, <1>6, <1>7, <1>8, <1>9, <1>10 DEF Next, Deliver

LEMMA MayKept == [Next]_vars => scenario' = scenario
BY DEF Next, Deliver, Transmit, OnStop, OnFrame, OnHeartbeat, OnSafetyState, Replug, OnSafetySet,
   Latch, TellState, EngageOnBoard, ReleaseOnBoard, CancelOnBoard, Reboot, Unplug, Restart, WebStop,
   May, Happens, vars, tally

LEMMA RestartedNodes ==
    ASSUME Restart
    PROVE  WebSilent' /\ Told("bridge")' = <<>>
           /\ \A node \in Nodes : Told(node)' = <<>> /\ Final(node)' = latched'[node]
<1>1. set' = Silent
  BY DEF Restart
<1>2. \A p \in Publishers, s \in Subscribers : set'[<<p, s>>] = <<>>
  BY <1>1, SilentTyped
<1> QED  BY <1>2 DEF WebSilent, Told, Final, Nodes, Publishers, Subscribers

\* Whatever frame is lost, whoever reboots, and although the two nodes take their
\* messages at different times: once these have arrived, the gateway and the executor
\* hold the same latch.
THEOREM Latches_agree == Spec => []LatchesAgree
<1>1. Init => NodesFollow
  <2> SUFFICES ASSUME Init PROVE WebSilent /\ Final("gateway") = Final("executor")
    BY DEF NodesFollow
  <2>1. \A p \in Publishers, s \in Subscribers : set[<<p, s>>] = <<>>
    BY SilentTyped DEF Init
  <2>2. latched["gateway"] = latched["executor"]
    BY DEF Init
  <2> QED  BY <2>1, <2>2 DEF WebSilent, Final, Told, Publishers, Subscribers
<1>2. TypeOK /\ NodesFollow /\ [Next]_vars => NodesFollow'
  <2> SUFFICES ASSUME TypeOK, NodesFollow, [Next]_vars, "web" \notin scenario.may
               PROVE  (WebSilent /\ Final("gateway") = Final("executor"))'
    BY MayKept DEF NodesFollow
  <2>1. WebSilent /\ Final("gateway") = Final("executor")
    BY DEF NodesFollow
  <2>2. "gateway" \in Nodes /\ "executor" \in Nodes
    BY DEF Nodes
  <2>3. CASE UNCHANGED <<set, latched>>
    BY <2>1, <2>3 DEF WebSilent, Final, Told
  <2>4. CASE \E latch \in BOOLEAN : set' = Published("bridge", latch) /\ latched' = latched
    BY <2>1, <2>2, <2>4, AfterPublished
  <2>5. CASE OnSafetySet("bridge")
    BY <2>1, <2>2, <2>5, AfterEcho
  <2>6. CASE \E node \in Nodes : Latch(node, "bridge")
    BY <2>1, <2>2, <2>6, AfterLatch
  <2>7. CASE Restart
    <3>1. latched'["gateway"] = latched'["executor"]
      <4>1. DOMAIN latched = {"gateway", "executor"}
        BY TypeParts DEF NodesTyped
      <4> QED  BY <2>7, <4>1 DEF Restart
    <3> QED  BY <2>2, <2>7, <3>1, RestartedNodes
  <2> QED  BY <2>1, <2>3, <2>4, <2>5, <2>6, <2>7, NodeSteps
<1>3. NodesFollow => LatchesAgree
  <2> SUFFICES ASSUME NodesFollow, "web" \notin scenario.may, Settled
               PROVE  latched["gateway"] = latched["executor"]
    BY DEF LatchesAgree
  <2>1. \A p \in Publishers, s \in Subscribers : set[<<p, s>>] = <<>>
    BY SilentTyped DEF Settled
  <2> QED  BY <2>1 DEF NodesFollow, Final, Told, Publishers, Subscribers
<1> QED  BY <1>1, <1>2, <1>3, Typing, PTL DEF Spec

-----------------------------------------------------------------------------
(* The board. *)

AllHello(queue) == \A i \in DOMAIN queue : queue[i] = Hello

\* The last STOP frame of the queue, if it has any, is code.
LastWord(queue, code) ==
    \A i \in DOMAIN queue :
        queue[i] # Hello /\ (\A j \in DOMAIN queue : j > i => queue[j] = Hello) => queue[i] = code

\* The last word of the user, from the slot to the nodes, if no reboot took it along.
WordSent == slot # None => slot = Code(locked)
WordOnLine == slot = None => LastWord(up, Code(locked))
WordReached == slot = None /\ AllHello(up) => \A node \in Nodes : Final(node) = locked

\* What the gateway and the bridge tell the bridge.
StateTold == states # <<>> => LastOf(states) = latched["gateway"]
EchoTold == Told("bridge") # <<>> => LastOf(Told("bridge")) = Final("gateway")
BridgeKnows ==
    states = <<>> /\ Told("bridge") = <<>> /\ Told("gateway") = <<>> =>
        known = latched["gateway"] \/ (known = None /\ ~latched["gateway"])

\* What the bridge has told the board.
Unheard ==
    ~connected =>
        /\ down = <<>> /\ Told("bridge") = <<>> /\ Told("gateway") = <<>>
        /\ known # TRUE /\ ~latched["gateway"] /\ \A i \in DOMAIN states : ~states[i]
        /\ slot = None /\ up = <<>> => ~emergency
BoardUntold ==
    known = None /\ slot = None /\ AllHello(up) /\ Told("bridge") = <<>> =>
        down = <<>> /\ ~emergency
BoardTold ==
    known \in BOOLEAN /\ slot = None /\ up = <<>> /\ Told("bridge") = <<>> =>
        /\ down = <<>> => emergency = known
        /\ down # <<>> => LastOf(down) = Code(known)

Peaceful == plugged /\ WebSilent /\ slot # Cancel /\ \A i \in DOMAIN up : up[i] # Cancel

Word == ~unsaid => WordSent /\ WordOnLine /\ WordReached
Knowledge == StateTold /\ EchoTold /\ BridgeKnows
Answered == Unheard /\ BoardUntold /\ BoardTold

IInv == BoardOnly => Peaceful /\ Word /\ Knowledge /\ Answered

LEMMA WordAppended ==
    ASSUME NEW S, NEW queue \in Seq(S), NEW e \in S
    PROVE  /\ AllHello(Append(queue, e)) <=> AllHello(queue) /\ e = Hello
           /\ \A code : LastWord(queue, code) => LastWord(Append(queue, Hello), code)
           /\ e # Hello => LastWord(Append(queue, e), e)
<1> DEFINE last == Len(queue) + 1
<1>1. Len(queue) \in Nat /\ DOMAIN queue = 1..Len(queue)
  OBVIOUS
<1>2. \A x : /\ DOMAIN Append(queue, x) = 1..last
             /\ Append(queue, x)[last] = x
             /\ \A i \in 1..Len(queue) : Append(queue, x)[i] = queue[i]
  BY <1>1
<1>3. /\ \A i \in 1..last : i \in 1..Len(queue) \/ i = last
      /\ \A i \in 1..Len(queue) : i \in 1..last /\ last > i
      /\ last \in 1..last
  BY <1>1
<1> HIDE DEF last
<1>4. AllHello(Append(queue, e)) <=> AllHello(queue) /\ e = Hello
  BY <1>1, <1>2, <1>3 DEF AllHello
<1>5. ASSUME NEW code, LastWord(queue, code) PROVE LastWord(Append(queue, Hello), code)
  <2> DEFINE longer == Append(queue, Hello)
  <2> SUFFICES ASSUME NEW i \in DOMAIN longer, longer[i] # Hello,
                      \A j \in DOMAIN longer : j > i => longer[j] = Hello
               PROVE  longer[i] = code
    BY DEF LastWord
  <2>1. i \in 1..Len(queue)
    BY <1>2, <1>3
  <2>2. \A j \in DOMAIN queue : j > i => queue[j] = Hello
    BY <1>1, <1>2, <1>3
  <2> QED  BY <1>1, <1>2, <1>5, <2>1, <2>2 DEF LastWord
<1>6. ASSUME e # Hello PROVE LastWord(Append(queue, e), e)
  BY <1>2, <1>3, <1>6 DEF LastWord
<1> QED  BY <1>4, <1>5, <1>6

LEMMA WordTaken ==
    ASSUME NEW S, NEW queue \in Seq(S), queue # <<>>
    PROVE  /\ AllHello(queue) <=> Head(queue) = Hello /\ AllHello(Tail(queue))
           /\ \A code : LastWord(queue, code) => LastWord(Tail(queue), code)
           /\ \A code : LastWord(queue, code) /\ Head(queue) # Hello /\ AllHello(Tail(queue)) =>
                           Head(queue) = code
<1> DEFINE rest == Tail(queue)
<1>1. /\ Len(queue) \in Nat \ {0} /\ rest \in Seq(S) /\ Len(rest) = Len(queue) - 1
      /\ \A i \in 1..Len(rest) : rest[i] = queue[i + 1]
  BY HeadTailProperties, EmptySeq
<1>2. DOMAIN queue = 1..Len(queue) /\ DOMAIN rest = 1..Len(rest) /\ Head(queue) = queue[1]
  BY <1>1
<1> HIDE DEF rest
<1>3. /\ 1 \in DOMAIN queue
      /\ \A i \in DOMAIN rest : i + 1 \in DOMAIN queue /\ rest[i] = queue[i + 1] /\ i \in Nat
      /\ \A i \in DOMAIN queue : i = 1 \/ (i > 1 /\ i - 1 \in DOMAIN rest /\ rest[i - 1] = queue[i])
      /\ \A i \in DOMAIN queue : i \in Nat
  BY <1>1, <1>2
<1>4. AllHello(queue) <=> Head(queue) = Hello /\ AllHello(rest)
  BY <1>2, <1>3 DEF AllHello
<1>5. ASSUME NEW code, LastWord(queue, code) PROVE LastWord(rest, code)
  <2> SUFFICES ASSUME NEW i \in DOMAIN rest, rest[i] # Hello,
                      \A j \in DOMAIN rest : j > i => rest[j] = Hello
               PROVE  rest[i] = code
    BY DEF LastWord
  <2>1. ASSUME NEW j \in DOMAIN queue, j > i + 1 PROVE queue[j] = Hello
    <3>1. i \in Nat /\ j \in Nat /\ j # 1
      BY <1>3, <2>1
    <3>2. j - 1 \in DOMAIN rest /\ rest[j - 1] = queue[j]
      BY <1>3, <3>1
    <3>3. j - 1 > i
      BY <2>1, <3>1
    <3> QED  BY <3>2, <3>3
  <2> QED  BY <1>3, <1>5, <2>1 DEF LastWord
<1>6. ASSUME NEW code, LastWord(queue, code), Head(queue) # Hello, AllHello(rest)
      PROVE  Head(queue) = code
  <2>1. ASSUME NEW j \in DOMAIN queue, j > 1 PROVE queue[j] = Hello
    <3>1. j # 1
      BY <1>3, <2>1
    <3>2. j - 1 \in DOMAIN rest /\ rest[j - 1] = queue[j]
      BY <1>3, <3>1
    <3> QED  BY <1>6, <3>2 DEF AllHello
  <2> QED  BY <1>2, <1>3, <1>6, <2>1 DEF LastWord
<1> QED  BY <1>4, <1>5, <1>6 DEF rest

LEMMA AppendedElements ==
    ASSUME NEW S, NEW queue \in Seq(S), NEW e
    PROVE  \A i \in DOMAIN Append(queue, e) :
              Append(queue, e)[i] = e \/ (i \in DOMAIN queue /\ Append(queue, e)[i] = queue[i])
OBVIOUS

LEMMA TakenElements ==
    ASSUME NEW S, NEW queue \in Seq(S), queue # <<>>
    PROVE  /\ 1 \in DOMAIN queue /\ Head(queue) = queue[1]
           /\ \A i \in DOMAIN Tail(queue) : i + 1 \in DOMAIN queue /\ Tail(queue)[i] = queue[i + 1]
<1>1. /\ Len(queue) \in Nat \ {0} /\ Tail(queue) \in Seq(S) /\ Len(Tail(queue)) = Len(queue) - 1
      /\ \A i \in 1..Len(Tail(queue)) : Tail(queue)[i] = queue[i + 1]
  BY HeadTailProperties, EmptySeq
<1>2. DOMAIN Tail(queue) = 1..Len(Tail(queue)) /\ DOMAIN queue = 1..Len(queue)
  BY <1>1
<1> QED  BY <1>1, <1>2

LEMMA SameMessages ==
    ASSUME UNCHANGED <<set, latched>>
    PROVE  /\ \A n \in Nodes : Final(n)' = Final(n)
           /\ \A s \in Subscribers : Told(s)' = Told(s)
           /\ WebSilent => WebSilent'
BY DEF Final, Told, WebSilent, Nodes

Held == BoardOnly /\ TypeOK /\ Peaceful /\ Word /\ Knowledge /\ Answered
Good == Peaceful /\ Word /\ Knowledge /\ Answered

LEMMA Members ==
    /\ "gateway" \in Nodes /\ "executor" \in Nodes
    /\ "gateway" \in Subscribers /\ "executor" \in Subscribers /\ "bridge" \in Subscribers
BY DEF Nodes, Subscribers

LEMMA CodeOfLatch ==
    /\ \A a, b \in BOOLEAN : Code(a) = Code(b) => a = b
    /\ \A a \in BOOLEAN : LatchOf(Code(a)) = a
    /\ \A a \in BOOLEAN, c \in {Engage, Release} : c = Code(a) => (c = Engage) = a
BY DEF Code, LatchOf, Engage, Release

LEMMA PressedHeld ==
    ASSUME Held, EngageOnBoard \/ ReleaseOnBoard PROVE Good'
<1> USE DEF Held
<1>1. UNCHANGED <<link, ros>>
  BY DEF EngageOnBoard, ReleaseOnBoard
<1>2. UNCHANGED <<up, down, plugged, connected, known, latched, set, states>>
  BY <1>1 DEF link, ros
<1>3. slot' = Code(locked') /\ slot' # None /\ slot' # Cancel
  BY Codes, NoneAssumption DEF EngageOnBoard, ReleaseOnBoard, SlotAfter, Code
<1>4. Peaceful'
  BY <1>2, <1>3, SameMessages DEF Peaceful
<1>5. Word'
  BY <1>3 DEF Word, WordSent, WordOnLine, WordReached
<1>6. Knowledge'
  BY <1>2, SameMessages, Members DEF Knowledge, StateTold, EchoTold, BridgeKnows
<1>7. Answered'
  BY <1>2, <1>3, SameMessages, Members DEF Answered, Unheard, BoardUntold, BoardTold
<1> QED  BY <1>4, <1>5, <1>6, <1>7 DEF Good

LEMMA TransmitHeld == ASSUME Held, Transmit PROVE Good'
<1> USE DEF Held
<1>1. /\ UNCHANGED <<emergency, down, plugged, connected, known, latched, set, states, locked, unsaid>>
      /\ plugged
  BY DEF Transmit, ros, user, Peaceful
<1>2. up \in Seq(StopCodes \union {Hello})
  BY TypeParts DEF LineTyped
<1>3. /\ slot \in StopCodes /\ slot # None /\ slot # Cancel /\ slot # Hello
      /\ up' = Append(up, slot) /\ slot' = None
  BY <1>1, TypeParts, Codes DEF Transmit, Peaceful, BoardTyped
<1>4. up' # <<>> /\ ~AllHello(up') /\ LastWord(up', slot)
  BY <1>2, <1>3, LastAppended, WordAppended
<1>5. AllHello(up)' <=> AllHello(up')
  BY DEF AllHello
<1>6. Peaceful'
  <2>1. \A i \in DOMAIN up' : up'[i] # Cancel
    BY <1>2, <1>3, AppendedElements DEF Peaceful
  <2>2. slot' # Cancel
    BY <1>3, Codes, NoneAssumption
  <2> QED  BY <1>1, <2>1, <2>2, SameMessages DEF Peaceful
<1>7. Word'
  <2> SUFFICES ASSUME ~unsaid PROVE WordSent' /\ WordOnLine' /\ WordReached'
    BY <1>1 DEF Word
  <2>1. slot = Code(locked)
    BY <1>3 DEF Word, WordSent
  <2>2. WordOnLine'
    BY <1>1, <1>4, <2>1 DEF WordOnLine, LastWord
  <2> QED  BY <1>3, <1>4, <1>5, <2>2 DEF WordSent, WordReached
<1>8. Knowledge'
  BY <1>1, SameMessages, Members DEF Knowledge, StateTold, EchoTold, BridgeKnows
<1>9. Unheard'
  BY <1>1, <1>4, SameMessages, Members DEF Answered, Unheard
<1>10. BoardUntold' /\ BoardTold'
  BY <1>4, <1>5 DEF BoardUntold, BoardTold
<1> QED  BY <1>6, <1>7, <1>8, <1>9, <1>10 DEF Good, Answered

\* A reset at any time: what the board held is gone, and it is not in the way of HELLO.
LEMMA RebootHeld == ASSUME Held, Reboot PROVE Good'
<1> USE DEF Held
<1>1. /\ UNCHANGED <<plugged, connected, known, latched, set, states, locked>>
      /\ plugged /\ slot' = None /\ down' = <<>> /\ emergency' = FALSE
  BY DEF Reboot, ros, Peaceful
<1>2. PICK line \in AfterReset(up) :
         up' = Append(line, Hello) /\ unsaid' = (unsaid \/ slot # None \/ line # up)
  BY <1>1 DEF Reboot
<1>3. up \in Seq(StopCodes \union {Hello})
  BY TypeParts DEF LineTyped
<1>4. /\ line \in Seq(StopCodes \union {Hello})
      /\ \A i \in DOMAIN line : i \in DOMAIN up /\ line[i] = up[i]
  BY <1>2, <1>3, CutShort
<1>5. up' # <<>>
  BY <1>2, <1>4, LastAppended
<1>6. Peaceful'
  <2>1. \A i \in DOMAIN line : line[i] # Cancel
    BY <1>4 DEF Peaceful
  <2>2. \A i \in DOMAIN up' : up'[i] # Cancel
    BY <1>2, <1>4, <2>1, AppendedElements, Codes
  <2>3. slot' # Cancel
    BY <1>1, Codes, NoneAssumption
  <2> QED  BY <1>1, <2>2, <2>3, SameMessages DEF Peaceful
<1>7. Word'
  <2> SUFFICES ASSUME ~unsaid' PROVE WordSent' /\ WordOnLine' /\ WordReached'
    BY DEF Word
  <2>1. ~unsaid /\ slot = None /\ up' = Append(up, Hello)
    BY <1>2
  <2>2. /\ AllHello(up') <=> AllHello(up)
        /\ LastWord(up, Code(locked)) => LastWord(up', Code(locked))
    BY <1>3, <2>1, WordAppended
  <2>3. WordOnLine'
    BY <1>1, <2>1, <2>2 DEF Word, WordOnLine, LastWord
  <2>4. WordReached'
    <3>1. AllHello(up)' <=> AllHello(up')
      BY DEF AllHello
    <3> QED  BY <1>1, <2>1, <2>2, <3>1, SameMessages DEF Word, WordReached
  <2> QED  BY <1>1, <2>3, <2>4 DEF WordSent
<1>8. Knowledge'
  BY <1>1, SameMessages, Members DEF Knowledge, StateTold, EchoTold, BridgeKnows
<1>9. Answered'
  BY <1>1, <1>5, SameMessages, Members DEF Answered, Unheard, BoardUntold, BoardTold
<1> QED  BY <1>6, <1>7, <1>8, <1>9 DEF Good

LEMMA StopHeld == ASSUME Held, OnStop PROVE Good'
<1> USE DEF Held
<1>1. /\ UNCHANGED <<slot, up, plugged, connected, known, latched, set, states, locked, unsaid>>
      /\ down # <<>> /\ emergency' = LatchOf(Head(down)) /\ down' = Tail(down)
  BY DEF OnStop, ros, user, tally
<1>2. Peaceful' /\ Word'
  BY <1>1, SameMessages
     DEF Peaceful, Word, WordSent, WordOnLine, WordReached, AllHello, LastWord
<1>3. Knowledge'
  BY <1>1, SameMessages, Members DEF Knowledge, StateTold, EchoTold, BridgeKnows
<1>4. Unheard'
  BY <1>1 DEF Answered, Unheard
<1>5. BoardUntold'
  <2>1. AllHello(up)' <=> AllHello(up)
    BY <1>1 DEF AllHello
  <2> QED  BY <1>1, <2>1, SameMessages, Members DEF Answered, BoardUntold
<1>6. BoardTold'
  <2> SUFFICES ASSUME known \in BOOLEAN, slot = None, up = <<>>, Told("bridge") = <<>>
               PROVE  /\ down' = <<>> => emergency' = known
                      /\ down' # <<>> => LastOf(down') = Code(known)
    BY <1>1, SameMessages, Members DEF BoardTold, LastOf
  <2>1. LastOf(down) = Code(known)
    BY <1>1 DEF Answered, BoardTold
  <2>2. down \in Seq({Release, Engage})
    BY TypeParts DEF LineTyped
  <2>3. CASE down' = <<>>
    BY <1>1, <2>1, <2>2, <2>3, LastKept, CodeOfLatch
  <2>4. CASE down' # <<>>
    BY <1>1, <2>1, <2>2, <2>4, LastKept
  <2> QED  BY <2>3, <2>4
<1> QED  BY <1>2, <1>3, <1>4, <1>5, <1>6 DEF Good, Answered

LEMMA FrameHeld == ASSUME Held, OnFrame PROVE Good'
<1> USE DEF Held
<1>1. /\ UNCHANGED <<emergency, slot, plugged, known, latched, states, locked, unsaid>>
      /\ up # <<>> /\ up' = Tail(up) /\ connected' = TRUE /\ plugged
  BY DEF OnFrame, stc, user, tally, Peaceful
<1>2. up \in Seq(StopCodes \union {Hello}) /\ down \in Seq({Release, Engage}) /\ locked \in BOOLEAN
  BY TypeParts DEF LineTyped, BoardTyped
<1>3. /\ AllHello(up) <=> Head(up) = Hello /\ AllHello(up')
      /\ LastWord(up, Code(locked)) => LastWord(up', Code(locked))
      /\ LastWord(up, Code(locked)) /\ Head(up) # Hello /\ AllHello(up') => Head(up) = Code(locked)
  BY <1>1, <1>2, WordTaken
<1>4. ~unsaid => WordSent' /\ WordOnLine'
  <2>1. LastWord(up, Code(locked))' <=> LastWord(up', Code(locked))
    BY <1>1 DEF LastWord
  <2> QED  BY <1>1, <1>3, <2>1 DEF Word, WordSent, WordOnLine
<1>5. /\ \A i \in DOMAIN up' : up'[i] # Cancel
      /\ Head(up) # Cancel
      /\ Head(up) \in StopCodes \union {Hello}
  BY <1>1, <1>2, TakenElements, LastKept DEF Peaceful
<1>6. AllHello(up)' <=> AllHello(up')
  BY DEF AllHello
<1>7. Unheard'
  BY <1>1 DEF Unheard
<1>8. CASE Head(up) = Hello
  <2>1. down' = Resync /\ set' = set
    BY <1>8 DEF OnFrame, Hello, Cancel
  <2>2. Peaceful'
    BY <1>1, <1>5, <2>1, SameMessages DEF Peaceful
  <2>3. ~unsaid => WordReached'
    BY <1>1, <1>3, <1>6, <1>8, <2>1, SameMessages DEF Word, WordReached
  <2>4. Knowledge'
    BY <1>1, <2>1, SameMessages, Members DEF Knowledge, StateTold, EchoTold, BridgeKnows
  <2>5. BoardUntold'
    BY <1>1, <1>3, <1>6, <1>8, <2>1, SameMessages, Members DEF Answered, BoardUntold, Resync
  <2>6. BoardTold'
    <3> SUFFICES ASSUME known \in BOOLEAN
                 PROVE  down' # <<>> /\ LastOf(down') = Code(known)
      BY <1>1, Members DEF BoardTold, LastOf
    <3>1. known # None
      BY NoneAssumption
    <3>2. down' = Append(down, Code(known))
      BY <1>1, <2>1, <3>1 DEF Resync, Sent
    <3> QED  BY <1>2, <3>2, Codes, LastAppended
  <2> QED  BY <1>1, <1>4, <1>7, <2>2, <2>3, <2>4, <2>5, <2>6 DEF Good, Word, Answered
<1>9. CASE Head(up) # Hello
  <2> DEFINE latch == (Head(up) = Engage)
  <2>1. latch \in BOOLEAN /\ set' = Published("bridge", latch) /\ latched' = latched
    BY <1>1, <1>5, <1>9 DEF OnFrame
  <2>2. AllHello(up') /\ slot = None /\ ~unsaid => latch = locked
    <3>1. ASSUME AllHello(up'), slot = None, ~unsaid PROVE Head(up) = Code(locked)
      BY <1>3, <1>9, <3>1 DEF Word, WordOnLine
    <3>2. Head(up) = Code(locked) => (Head(up) = Engage) = locked
      BY <1>2, Codes, CodeOfLatch
    <3> QED  BY <3>1, <3>2
  <2> HIDE DEF latch
  <2>3. /\ \A node \in Nodes : Final(node)' = latch
        /\ Told("bridge")' # <<>> /\ LastOf(Told("bridge")') = latch
        /\ Told("gateway")' # <<>> /\ WebSilent'
    BY <2>1, AfterPublished DEF Peaceful
  <2>4. Peaceful'
    BY <1>1, <1>5, <2>3 DEF Peaceful
  <2>5. ~unsaid => WordReached'
    BY <1>1, <1>6, <2>2, <2>3 DEF WordReached
  <2>6. Knowledge'
    BY <1>1, <2>3, Members DEF Knowledge, StateTold, EchoTold, BridgeKnows, LastOf
  <2>7. BoardUntold' /\ BoardTold'
    BY <2>3 DEF BoardUntold, BoardTold
  <2> QED  BY <1>1, <1>4, <1>7, <2>4, <2>5, <2>6, <2>7 DEF Good, Word, Answered
<1> QED  BY <1>8, <1>9

LEMMA HeartbeatHeld == ASSUME Held, OnHeartbeat PROVE Good'
<1> USE DEF Held
<1>1. /\ UNCHANGED <<emergency, slot, up, down, plugged, known, latched, set, states, locked, unsaid>>
      /\ connected' = TRUE
  BY DEF OnHeartbeat, stc, ros, user, tally
<1>2. Peaceful' /\ Word'
  BY <1>1, SameMessages
     DEF Peaceful, Word, WordSent, WordOnLine, WordReached, AllHello, LastWord
<1>3. Knowledge'
  BY <1>1, SameMessages, Members DEF Knowledge, StateTold, EchoTold, BridgeKnows
<1>4. AllHello(up)' <=> AllHello(up)
  BY <1>1 DEF AllHello
<1>5. Answered'
  BY <1>1, <1>4, SameMessages, Members DEF Answered, Unheard, BoardUntold, BoardTold
<1> QED  BY <1>2, <1>3, <1>5 DEF Good

\* What a step that leaves the board, the way to it and the last messages alone keeps.
LEMMA WordKept ==
    ASSUME Held, UNCHANGED <<slot, up, plugged, locked, unsaid>>,
           \A n \in Nodes : Final(n)' = Final(n), WebSilent => WebSilent'
    PROVE  Peaceful' /\ Word'
<1>1. AllHello(up)' <=> AllHello(up)
  BY DEF AllHello
<1>2. LastWord(up, Code(locked))' <=> LastWord(up, Code(locked))
  BY DEF LastWord
<1> QED  BY <1>1, <1>2 DEF Held, Peaceful, Word, WordSent, WordOnLine, WordReached

LEMMA EchoHeld == ASSUME Held, OnSafetySet("bridge") PROVE Good'
<1> USE DEF Held
<1>1. /\ UNCHANGED <<emergency, slot, up, plugged, connected, latched, states, locked, unsaid>>
  BY DEF OnSafetySet, stc, user, tally
<1>2. /\ \A n \in Nodes : Final(n)' = Final(n) /\ Told(n)' = Told(n)
      /\ Told("bridge") # <<>> /\ known' \in BOOLEAN /\ down' = Sent(Code(known'))
      /\ Told("bridge")' = <<>> => known' = LastOf(Told("bridge"))
      /\ Told("bridge")' # <<>> => LastOf(Told("bridge")') = LastOf(Told("bridge"))
      /\ WebSilent => WebSilent'
  BY AfterEcho
<1>3. Peaceful' /\ Word'
  BY <1>1, <1>2, WordKept
<1>4. Knowledge'
  <2>1. StateTold' /\ EchoTold'
    BY <1>1, <1>2, Members DEF Knowledge, StateTold, EchoTold, LastOf
  <2>2. BridgeKnows'
    BY <1>1, <1>2, Members DEF Knowledge, EchoTold, BridgeKnows, Final
  <2> QED  BY <2>1, <2>2 DEF Knowledge
<1>5. connected
  BY <1>2 DEF Answered, Unheard
<1>6. known' # None
  BY <1>2, NoneAssumption
<1>7. down' = Append(down, Code(known')) /\ down \in Seq({Release, Engage})
  BY <1>2, TypeParts DEF Sent, Peaceful, LineTyped
<1>8. down' # <<>> /\ LastOf(down') = Code(known')
  BY <1>7, Codes, LastAppended
<1>9. Answered'
  <2>1. Code(known)' = Code(known')
    BY DEF Code
  <2> QED  BY <1>1, <1>5, <1>6, <1>8, <2>1 DEF Answered, Unheard, BoardUntold, BoardTold, LastOf
<1> QED  BY <1>3, <1>4, <1>9 DEF Good

LEMMA LatchHeld == ASSUME Held, NEW node \in Nodes, Latch(node, "bridge") PROVE Good'
<1> USE DEF Held
<1>1. /\ UNCHANGED <<emergency, slot, up, down, plugged, connected, known, locked, unsaid>>
      /\ Told(node) # <<>>
  BY DEF Latch, stc, link, user, tally, Told
<1>2. /\ \A n \in Nodes : Final(n)' = Final(n)
      /\ Told("bridge")' = Told("bridge")
      /\ \A n \in Nodes : n # node => Told(n)' = Told(n) /\ latched'[n] = latched[n]
      /\ WebSilent => WebSilent'
  BY AfterLatch
<1>3. Peaceful' /\ Word'
  BY <1>1, <1>2, WordKept
<1>4. EchoTold'
  BY <1>2, Members DEF Knowledge, EchoTold, LastOf
<1>5. AllHello(up)' <=> AllHello(up)
  BY <1>1 DEF AllHello
<1>6. BoardUntold' /\ BoardTold'
  BY <1>1, <1>2, <1>5 DEF Answered, BoardUntold, BoardTold, LastOf, Code
<1>7. CASE node = "executor"
  <2>1. states' = states /\ Told("gateway")' = Told("gateway") /\ latched'["gateway"] = latched["gateway"]
    BY <1>2, <1>7, Members DEF Latch
  <2> QED  BY <1>1, <1>2, <1>3, <1>4, <1>6, <2>1
           DEF Good, Knowledge, Answered, StateTold, BridgeKnows, Unheard, LastOf
<1>8. CASE node = "gateway"
  <2> DEFINE latch == Head(Told("gateway"))
  <2>1. latched' = [latched EXCEPT !["gateway"] = latch] /\ states' = Append(states, latch)
    BY <1>8 DEF Latch, Told
  <2>2. latched \in [Nodes -> BOOLEAN] /\ states \in Seq(BOOLEAN) /\ latch \in BOOLEAN
    <3>1. <<"bridge", "gateway">> \in Publishers \X Subscribers
      BY DEF Publishers, Subscribers
    <3>2. Told("gateway") \in Seq(BOOLEAN)
      BY <3>1, TypeParts DEF NodesTyped, Queues, Told
    <3> QED  BY <1>1, <1>8, <3>2, TypeParts, LastKept DEF NodesTyped, Nodes
  <2> HIDE DEF latch
  <2>3. latched'["gateway"] = latch /\ states' # <<>> /\ LastOf(states') = latch
    BY <2>1, <2>2, Members, LastAppended
  <2>4. connected
    BY <1>1, <1>8 DEF Answered, Unheard
  <2>5. StateTold' /\ BridgeKnows' /\ Unheard'
    BY <1>1, <2>3, <2>4 DEF StateTold, BridgeKnows, Unheard, LastOf
  <2> QED  BY <1>3, <1>4, <1>6, <2>5 DEF Good, Knowledge, Answered
<1> QED  BY <1>7, <1>8 DEF Nodes

LEMMA StateHeld == ASSUME Held, OnSafetyState PROVE Good'
<1> USE DEF Held
<1>1. /\ UNCHANGED <<emergency, slot, up, plugged, connected, latched, set, locked, unsaid>>
      /\ states # <<>> /\ known' = Head(states) /\ states' = Tail(states)
  BY DEF OnSafetyState, stc, user, tally
<1>2. states \in Seq(BOOLEAN) /\ down \in Seq({Release, Engage}) /\ emergency \in BOOLEAN
  BY TypeParts DEF NodesTyped, LineTyped, BoardTyped
<1>3. /\ known' \in BOOLEAN
      /\ states' = <<>> => known' = latched["gateway"]
      /\ states' # <<>> => LastOf(states') = latched["gateway"]
  BY <1>1, <1>2, LastKept DEF Knowledge, StateTold
<1>4. Peaceful' /\ Word'
  BY <1>1, SameMessages, WordKept
<1>5. Knowledge'
  BY <1>1, <1>3, SameMessages, Members DEF Knowledge, StateTold, EchoTold, BridgeKnows, LastOf
<1>6. known' # None
  BY <1>3, NoneAssumption
<1>7. BoardUntold'
  BY <1>6 DEF BoardUntold
<1>8. ASSUME ~connected
      PROVE  known' = FALSE /\ (\A i \in DOMAIN states' : ~states'[i]) /\ down' = down
  <2>1. \A i \in DOMAIN states : ~states[i]
    BY <1>8 DEF Answered, Unheard
  <2>2. ~known' /\ \A i \in DOMAIN states' : ~states'[i]
    BY <1>1, <1>2, <2>1, TakenElements
  <2> QED  BY <1>3, <1>8, <2>2 DEF OnSafetyState
<1>9. Unheard'
  BY <1>1, <1>8, SameMessages, Members DEF Answered, Unheard
<1>10. BoardTold'
  <2> SUFFICES ASSUME slot = None, up = <<>>, Told("bridge") = <<>>
               PROVE  /\ down' = <<>> => emergency = known'
                      /\ down' # <<>> => LastOf(down') = Code(known')
    BY <1>1, SameMessages, Members DEF BoardTold, LastOf, Code
  <2>1. CASE ~connected
    <3>1. down = <<>> /\ ~emergency
      BY <2>1 DEF Answered, Unheard
    <3> QED  BY <1>2, <1>8, <2>1, <3>1
  <2>2. CASE connected /\ known = known'
    <3>1. down' = down
      BY <1>1, <2>2 DEF OnSafetyState
    <3> QED  BY <1>3, <2>2, <3>1 DEF Answered, BoardTold
  <2>3. CASE connected /\ known # known'
    <3>1. down' = Append(down, Code(known'))
      BY <1>1, <2>3 DEF OnSafetyState, Sent, Peaceful
    <3> QED  BY <1>2, <3>1, Codes, LastAppended
  <2> QED  BY <2>1, <2>2, <2>3
<1> QED  BY <1>4, <1>5, <1>7, <1>9, <1>10 DEF Good, Answered

LEMMA TellHeld == ASSUME Held, TellState PROVE Good'
<1> USE DEF Held
<1>1. /\ UNCHANGED <<emergency, slot, up, down, plugged, connected, known, latched, set, locked, unsaid>>
      /\ states' = Append(states, latched["gateway"])
  BY DEF TellState, stc, link, user, tally
<1>2. states \in Seq(BOOLEAN) /\ latched["gateway"] \in BOOLEAN
  BY TypeParts DEF NodesTyped
<1>3. states' # <<>> /\ LastOf(states') = latched["gateway"]
  BY <1>1, <1>2, LastAppended
<1>4. Peaceful' /\ Word'
  BY <1>1, SameMessages, WordKept
<1>5. Knowledge'
  BY <1>1, <1>3, SameMessages, Members DEF Knowledge, StateTold, EchoTold, BridgeKnows, LastOf
<1>6. Unheard'
  <2>1. ASSUME ~connected PROVE \A i \in DOMAIN states' : ~states'[i]
    BY <1>1, <1>2, <2>1, AppendedElements DEF Answered, Unheard
  <2> QED  BY <1>1, <2>1, SameMessages, Members DEF Answered, Unheard
<1>7. AllHello(up)' <=> AllHello(up)
  BY <1>1 DEF AllHello
<1>8. BoardUntold' /\ BoardTold'
  BY <1>1, <1>7, SameMessages, Members DEF Answered, BoardUntold, BoardTold, LastOf, Code
<1> QED  BY <1>4, <1>5, <1>6, <1>8 DEF Good, Answered

LEMMA StutterHeld == ASSUME Held, UNCHANGED vars PROVE Good'
<1> USE DEF Held
<1>1. UNCHANGED <<emergency, slot, up, down, plugged, connected, known, latched, set, states, locked, unsaid>>
  BY DEF vars, stc, link, ros, user
<1>2. Peaceful' /\ Word'
  BY <1>1, SameMessages, WordKept
<1>3. Knowledge'
  BY <1>1, SameMessages, Members DEF Knowledge, StateTold, EchoTold, BridgeKnows
<1>4. AllHello(up)' <=> AllHello(up)
  BY <1>1 DEF AllHello
<1>5. Answered'
  BY <1>1, <1>4, SameMessages, Members DEF Answered, Unheard, BoardUntold, BoardTold
<1> QED  BY <1>2, <1>3, <1>5 DEF Good

\* With the buttons alone nothing else can happen.
LEMMA BoardSteps ==
    ASSUME Held, [Next]_vars
    PROVE  \/ UNCHANGED vars \/ EngageOnBoard \/ ReleaseOnBoard \/ Reboot
           \/ Transmit \/ OnStop \/ OnFrame \/ OnHeartbeat \/ OnSafetyState \/ TellState
           \/ OnSafetySet("bridge") \/ \E node \in Nodes : Latch(node, "bridge")
<1>1. "cancel" \notin scenario.may /\ "web" \notin scenario.may
      /\ "unplug" \notin scenario.may /\ "restart" \notin scenario.may
  BY DEF Held, BoardOnly
<1>2. ~CancelOnBoard /\ ~Unplug /\ ~Restart /\ \A latch \in BOOLEAN : ~WebStop(latch)
  BY <1>1 DEF CancelOnBoard, Unplug, Restart, WebStop, May
<1>3. ~Replug
  BY DEF Held, Peaceful, Replug
<1>4. ~OnSafetySet("web") /\ ~Latch("gateway", "web") /\ ~Latch("executor", "web")
  BY Members DEF Held, Peaceful, WebSilent, OnSafetySet, Latch
<1> QED  BY <1>2, <1>3, <1>4 DEF Next, Deliver, Publishers, Nodes

LEMMA InitGood == ASSUME Init PROVE Good
<1>1. \A p \in Publishers, s \in Subscribers : set[<<p, s>>] = <<>>
  BY SilentTyped DEF Init
<1>2. "web" \in Publishers /\ "bridge" \in Publishers
  BY DEF Publishers
<1>3. (\A s \in Subscribers : Told(s) = <<>>) /\ WebSilent
  BY <1>1, <1>2 DEF Told, WebSilent
<1>4. DOMAIN <<>> = {}
  OBVIOUS
<1>5. \A node \in Nodes : Final(node) = FALSE
  BY <1>3 DEF Final, Init, Nodes, Subscribers
<1>6. Peaceful
  BY <1>3, <1>4, Codes, NoneAssumption DEF Init, Peaceful
<1>7. Word
  BY <1>4, <1>5 DEF Init, Word, WordSent, WordOnLine, WordReached, LastWord
<1>8. Knowledge
  BY <1>3, Members DEF Init, Knowledge, StateTold, EchoTold, BridgeKnows
<1>9. Answered
  BY <1>3, <1>4, Members, NoneAssumption
     DEF Init, Answered, Unheard, BoardUntold, BoardTold
<1> QED  BY <1>6, <1>7, <1>8, <1>9 DEF Good

LEMMA SettledLatches ==
    ASSUME Held, Settled, latched["gateway"] = latched["executor"]
    PROVE  /\ \A node \in Nodes : latched[node] <=> emergency
           /\ ~unsaid => (emergency <=> locked)
<1>1. \A p \in Publishers, s \in Subscribers : set[<<p, s>>] = <<>>
  BY SilentTyped DEF Settled
<1>2. \A s \in Subscribers : Told(s) = <<>>
  BY <1>1 DEF Told, Publishers
<1>3. slot = None /\ up = <<>> /\ down = <<>> /\ states = <<>>
  BY DEF Settled, Quiet
<1>4. AllHello(up)
  BY <1>3 DEF AllHello
<1>5. /\ emergency \in BOOLEAN /\ locked \in BOOLEAN
      /\ latched["gateway"] \in BOOLEAN /\ latched["executor"] \in BOOLEAN
  BY TypeParts DEF Held, BoardTyped, NodesTyped
<1>6. known = latched["gateway"] \/ (known = None /\ ~latched["gateway"])
  BY <1>2, <1>3, Members DEF Held, Knowledge, BridgeKnows
<1>7. emergency = latched["gateway"]
  <2>1. CASE known = latched["gateway"]
    BY <1>2, <1>3, <1>5, <2>1, Members DEF Held, Answered, BoardTold
  <2>2. CASE known = None /\ ~latched["gateway"]
    BY <1>2, <1>3, <1>4, <1>5, <2>2, Members DEF Held, Answered, BoardUntold
  <2> QED  BY <1>6, <2>1, <2>2
<1>8. ASSUME ~unsaid PROVE emergency <=> locked
  <2>1. Final("gateway") = locked
    BY <1>3, <1>4, <1>8, Members DEF Held, Word, WordReached
  <2> QED  BY <1>2, <1>7, <2>1, Members DEF Final
<1> QED  BY <1>5, <1>7, <1>8 DEF Nodes

\* With the buttons of the board alone, for any number of presses and reboots, at any
\* moment: once nothing is on its way, the board, the gateway and the executor hold the
\* same latch, and it is what the user pressed last if no reboot took the STOP frame of
\* that press along before it had left the board.
THEOREM Latch_outlives_board == Spec => []LatchOutlivesBoard
<1>1. Init => IInv
  BY InitGood DEF IInv, Good
<1>2. TypeOK /\ IInv /\ [Next]_vars => IInv'
  <2> SUFFICES ASSUME TypeOK, IInv, [Next]_vars, BoardOnly PROVE Good'
    BY MayKept DEF IInv, Good, BoardOnly
  <2>1. Held
    BY DEF Held, IInv
  <2>2. CASE EngageOnBoard \/ ReleaseOnBoard
    BY <2>1, <2>2, PressedHeld
  <2>3. CASE Reboot \/ Transmit
    BY <2>1, <2>3, RebootHeld, TransmitHeld
  <2>4. CASE OnStop \/ OnFrame \/ OnHeartbeat
    BY <2>1, <2>4, StopHeld, FrameHeld, HeartbeatHeld
  <2>5. CASE OnSafetyState \/ TellState \/ UNCHANGED vars
    BY <2>1, <2>5, StateHeld, TellHeld, StutterHeld
  <2>6. CASE OnSafetySet("bridge") \/ \E node \in Nodes : Latch(node, "bridge")
    BY <2>1, <2>6, EchoHeld, LatchHeld
  <2> QED  BY <2>1, <2>2, <2>3, <2>4, <2>5, <2>6, BoardSteps
<1>3. TypeOK /\ IInv /\ LatchesAgree => LatchOutlivesBoard
  <2> SUFFICES ASSUME TypeOK, IInv, LatchesAgree, BoardOnly, Settled
               PROVE  /\ \A node \in DOMAIN latched : latched[node] <=> emergency
                      /\ ~unsaid => (emergency <=> locked)
    BY DEF LatchOutlivesBoard
  <2>1. Held
    BY DEF Held, IInv
  <2>2. DOMAIN latched = Nodes
    BY TypeParts DEF NodesTyped, Nodes
  <2>3. latched["gateway"] = latched["executor"]
    BY DEF LatchesAgree, BoardOnly
  <2> QED  BY <2>1, <2>2, <2>3, SettledLatches
<1> QED  BY <1>1, <1>2, <1>3, Typing, Latches_agree, PTL DEF Spec

-----------------------------------------------------------------------------
(* The board follows the bridge, although the web page publishes, too.     *)
(*                                                                         *)
(* Once the bridge has been connected and has told the board what it       *)
(* knows, it tells every change.  What it learns before it is connected it *)
(* only keeps; then all there was to learn came from the web page, whose   *)
(* last word reaches the bridge itself and through the gateway, and what   *)
(* the bridge hears directly it sends in any case.                         *)

\* The latch the board has when it has read what is on its way.
BoardWill == IF down = <<>> THEN emergency ELSE LastOf(down) = Engage

\* No step of the scenario loses a frame, and none of them is a cancel.
Steady ==
    /\ plugged /\ slot # Cancel /\ \A i \in DOMAIN up : up[i] # Cancel
    /\ StateTold

BoardSilent == slot = None /\ up = <<>>

\* The bridge has told the board what it knows, unless more comes from there.
Mirrored ==
    connected /\ (BoardSilent /\ Told("bridge") = <<>> /\ known # None => BoardWill = known)

\* The bridge has published nothing, and wish is the last word of the web page.
Web(node) == set[<<"web", node>>]
GatewayWish(wish) == wish = IF Web("gateway") = <<>> THEN latched["gateway"] ELSE LastOf(Web("gateway"))
BridgeWish(wish) ==
    /\ Web("bridge") # <<>> => LastOf(Web("bridge")) = wish
    /\ Web("bridge") = <<>> /\ BoardSilent => BoardWill = wish
    /\ Web("bridge") = <<>> /\ known # None /\ states = <<>> => known \in {wish, latched["gateway"]}
BridgeSilent == \A s \in Subscribers : Told(s) = <<>>
Alone == BridgeSilent /\ \E wish \in BOOLEAN : GatewayWish(wish) /\ BridgeWish(wish)

Following == scenario.may \subseteq {"web", "reboot"}
Followed == Steady /\ (Mirrored \/ Alone)

LEMMA WillSent ==
    ASSUME TypeOK, NEW latch \in BOOLEAN, down' = Append(down, Code(latch))
    PROVE  BoardWill' = latch
<1>1. down \in Seq({Release, Engage}) /\ Code(latch) \in {Release, Engage}
  BY TypeParts, Codes DEF LineTyped
<1>2. down' # <<>> /\ LastOf(down') = Code(latch)
  BY <1>1, LastAppended
<1>3. (Code(latch) = Engage) = latch
  BY <1>1, CodeOfLatch
<1> QED  BY <1>2, <1>3 DEF BoardWill, LastOf

LEMMA WillKept == ASSUME UNCHANGED <<emergency, down>> PROVE BoardWill' = BoardWill
BY DEF BoardWill, LastOf

LEMMA WillRead == ASSUME TypeOK, OnStop PROVE BoardWill' = BoardWill
<1>1. down # <<>> /\ emergency' = LatchOf(Head(down)) /\ down' = Tail(down)
  BY DEF OnStop
<1>2. down \in Seq({Release, Engage})
  BY TypeParts DEF LineTyped
<1>3. /\ Head(down) \in {Release, Engage}
      /\ down' = <<>> => LastOf(down) = Head(down)
      /\ down' # <<>> => LastOf(down') = LastOf(down)
  BY <1>1, <1>2, LastKept
<1>4. LatchOf(Head(down)) = (Head(down) = Engage)
  BY <1>3 DEF LatchOf, Release, Engage
<1> QED  BY <1>1, <1>3, <1>4 DEF BoardWill, LastOf

\* A step that keeps what was told and what the nodes hold keeps it all, as long as
\* what the board will do stays or the board has something to say itself.
LEMMA FollowedKept ==
    ASSUME Followed, UNCHANGED <<plugged, known, latched, set, states>>,
           connected => connected', slot' # Cancel, \A i \in DOMAIN up' : up'[i] # Cancel,
           BoardSilent' => BoardSilent /\ BoardWill' = BoardWill
    PROVE  Followed'
<1>1. \A s \in Subscribers : Told(s)' = Told(s) /\ Web(s)' = Web(s)
  BY DEF Told, Web
<1>2. Steady'
  BY DEF Followed, Steady, StateTold, LastOf
<1>3. ASSUME Mirrored PROVE Mirrored'
  BY <1>1, <1>3, Members DEF Mirrored
<1>4. ASSUME Alone PROVE Alone'
  <2>1. PICK wish \in BOOLEAN : GatewayWish(wish) /\ BridgeWish(wish)
    BY <1>4 DEF Alone
  <2>2. GatewayWish(wish)' /\ BridgeWish(wish)'
    BY <1>1, <2>1, Members DEF GatewayWish, BridgeWish, LastOf
  <2> QED  BY <1>1, <1>4, <2>2 DEF Alone, BridgeSilent
<1> QED  BY <1>2, <1>3, <1>4 DEF Followed

LEMMA BoardFollowed ==
    ASSUME Followed, TypeOK, EngageOnBoard \/ ReleaseOnBoard \/ Transmit \/ Reboot \/ OnStop \/ OnHeartbeat
    PROVE  Followed'
<1>1. UNCHANGED <<plugged, known, latched, set, states>> /\ (connected => connected') /\ plugged
  <2>1. UNCHANGED <<plugged, known, latched, set, states>>
    BY DEF EngageOnBoard, ReleaseOnBoard, Transmit, Reboot, OnStop, OnHeartbeat, link, ros
  <2>2. connected' = connected \/ connected' = TRUE
    BY DEF EngageOnBoard, ReleaseOnBoard, Transmit, Reboot, OnStop, OnHeartbeat, link
  <2> QED  BY <2>1, <2>2 DEF Followed, Steady
<1>2. /\ up \in Seq(StopCodes \union {Hello}) /\ slot \in StopCodes \union {None}
      /\ slot # Cancel /\ \A i \in DOMAIN up : up[i] # Cancel
  BY TypeParts DEF LineTyped, BoardTyped, Followed, Steady
<1>3. CASE EngageOnBoard \/ ReleaseOnBoard
  <2>1. slot' # Cancel /\ slot' # None /\ up' = up
    BY <1>3, Codes, NoneAssumption DEF EngageOnBoard, ReleaseOnBoard, SlotAfter, link
  <2> QED  BY <1>1, <1>2, <2>1, FollowedKept DEF BoardSilent
<1>4. CASE Transmit \/ Reboot
  <2>1. PICK line \in Seq(StopCodes \union {Hello}), e \in StopCodes \union {Hello} :
           /\ up' = Append(line, e) /\ slot' = None /\ e # Cancel
           /\ \A i \in DOMAIN line : line[i] # Cancel
    <3>1. CASE Transmit
      BY <1>1, <1>2, <3>1 DEF Transmit
    <3>2. CASE Reboot
      <4>1. PICK line \in AfterReset(up) : up' = Append(line, Hello) /\ slot' = None
        BY <1>1, <3>2 DEF Reboot
      <4>2. /\ line \in Seq(StopCodes \union {Hello})
            /\ \A i \in DOMAIN line : line[i] # Cancel
        BY <1>2, <4>1, CutShort
      <4>3. Hello # Cancel
        BY Codes
      <4> QED  BY <4>1, <4>2, <4>3
    <3> QED  BY <1>4, <3>1, <3>2
  <2>2. up' # <<>> /\ \A i \in DOMAIN up' : up'[i] # Cancel
    BY <2>1, LastAppended, AppendedElements
  <2>3. slot' # Cancel
    BY <2>1, Codes, NoneAssumption
  <2> QED  BY <1>1, <2>2, <2>3, FollowedKept DEF BoardSilent
<1>5. CASE OnStop
  <2>1. UNCHANGED <<slot, up>> /\ BoardWill' = BoardWill
    BY <1>5, WillRead DEF OnStop
  <2> QED  BY <1>1, <1>2, <2>1, FollowedKept DEF BoardSilent
<1>6. CASE OnHeartbeat
  <2>1. UNCHANGED <<slot, up, emergency, down>>
    BY <1>6 DEF OnHeartbeat, stc
  <2>2. BoardWill' = BoardWill
    BY <2>1, WillKept
  <2> QED  BY <1>1, <1>2, <2>1, <2>2, FollowedKept DEF BoardSilent
<1> QED  BY <1>3, <1>4, <1>5, <1>6

LEMMA FrameFollowed == ASSUME Followed, TypeOK, OnFrame PROVE Followed'
<1>1. /\ UNCHANGED <<emergency, slot, plugged, known, latched, states>>
      /\ up # <<>> /\ up' = Tail(up) /\ connected' = TRUE /\ plugged
  BY DEF OnFrame, stc, Followed, Steady
<1>2. up \in Seq(StopCodes \union {Hello})
  BY TypeParts DEF LineTyped
<1>3. (\A i \in DOMAIN up' : up'[i] # Cancel) /\ Head(up) # Cancel
  BY <1>1, <1>2, TakenElements DEF Followed, Steady
<1>4. Steady'
  BY <1>1, <1>3 DEF Followed, Steady, StateTold, LastOf
<1>5. CASE Head(up) = Hello
  <2>1. down' = Resync
    BY <1>5 DEF OnFrame, Hello, Cancel
  <2>2. known # None => BoardWill' = known
    <3> SUFFICES ASSUME known # None PROVE BoardWill' = known
      OBVIOUS
    <3>1. known \in BOOLEAN
      BY TypeParts DEF NodesTyped
    <3>2. down' = Append(down, Code(known))
      BY <1>1, <2>1 DEF Resync, Sent
    <3> QED  BY <3>1, <3>2, WillSent
  <2> QED  BY <1>1, <1>4, <2>2 DEF Followed, Mirrored
<1>6. CASE Head(up) # Hello
  <2> DEFINE latch == (Head(up) = Engage)
  <2>1. latch \in BOOLEAN /\ set' = Published("bridge", latch) /\ latched' = latched
    BY <1>1, <1>3, <1>6 DEF OnFrame
  <2> HIDE DEF latch
  <2>2. Told("bridge")' # <<>>
    BY <2>1, AfterPublished
  <2> QED  BY <1>1, <1>4, <2>2 DEF Followed, Mirrored
<1> QED  BY <1>5, <1>6

LEMMA HeardFollowed ==
    ASSUME Followed, TypeOK, NEW publisher \in Publishers, OnSafetySet(publisher)
    PROVE  Followed'
<1> DEFINE topic == set[<<publisher, "bridge">>]
<1>1. /\ UNCHANGED <<emergency, slot, up, plugged, connected, latched, states>>
      /\ topic # <<>> /\ known' = Head(topic) /\ down' = Append(down, Code(Head(topic)))
      /\ set' = [set EXCEPT ![<<publisher, "bridge">>] = Tail(@)]
  BY DEF OnSafetySet, stc, Followed, Steady, Sent
<1>2. /\ set \in Queues /\ "bridge" \in Subscribers /\ "gateway" \in Subscribers
      /\ "web" \in Publishers /\ "bridge" \in Publishers
  BY TypeParts DEF NodesTyped, Subscribers, Publishers
<1>3. /\ Head(topic) \in BOOLEAN
      /\ set'[<<publisher, "bridge">>] = Tail(topic)
      /\ \A p \in Publishers, s \in Subscribers :
            <<p, s>> # <<publisher, "bridge">> => set'[<<p, s>>] = set[<<p, s>>]
  BY <1>1, <1>2, TakenFrom
<1>4. topic \in Seq(BOOLEAN)
  <2>1. <<publisher, "bridge">> \in Publishers \X Subscribers
    BY <1>2
  <2> QED  BY <1>2, <2>1 DEF Queues
<1>5. BoardWill' = known'
  BY <1>1, <1>3, WillSent
<1>6. Steady'
  BY <1>1 DEF Followed, Steady, StateTold, LastOf
<1>7. CASE connected
  BY <1>1, <1>5, <1>6, <1>7 DEF Followed, Mirrored
<1>8. CASE ~connected
  <2>1. Alone
    BY <1>8 DEF Followed, Mirrored
  <2>2. publisher = "web"
    BY <1>1, <1>2, <2>1 DEF Alone, BridgeSilent, Told, Publishers
  <2>3. /\ Web("bridge") = topic /\ Web("bridge")' = Tail(topic) /\ Web("gateway")' = Web("gateway")
        /\ BridgeSilent'
    <3>1. \A s \in Subscribers : set'[<<"bridge", s>>] = set[<<"bridge", s>>]
      BY <1>2, <1>3, <2>2
    <3>2. set'[<<"web", "gateway">>] = set[<<"web", "gateway">>]
      BY <1>2, <1>3
    <3> QED  BY <1>3, <2>1, <2>2, <3>1, <3>2 DEF Web, Told, Alone, BridgeSilent
  <2>4. PICK wish \in BOOLEAN : GatewayWish(wish) /\ BridgeWish(wish)
    BY <2>1 DEF Alone
  <2>5. GatewayWish(wish)'
    BY <1>1, <2>3, <2>4 DEF GatewayWish, LastOf
  <2>6. LastOf(topic) = wish
    BY <1>1, <2>3, <2>4 DEF BridgeWish
  <2>7. Tail(topic) # <<>> => LastOf(Tail(topic)) = wish
    BY <1>1, <1>4, <2>6, LastKept
  <2>8. Tail(topic) = <<>> => known' = wish
    BY <1>1, <1>4, <2>6, LastKept
  <2> HIDE DEF topic
  <2>9. BridgeWish(wish)'
    BY <1>5, <2>3, <2>7, <2>8 DEF BridgeWish, LastOf
  <2> QED  BY <1>6, <2>3, <2>5, <2>9 DEF Followed, Alone
<1> QED  BY <1>7, <1>8

LEMMA StateFollowed == ASSUME Followed, TypeOK, OnSafetyState PROVE Followed'
<1>1. /\ UNCHANGED <<emergency, slot, up, plugged, connected, latched, set>>
      /\ states # <<>> /\ known' = Head(states) /\ states' = Tail(states)
      /\ down' = IF known # known' /\ connected THEN Append(down, Code(known')) ELSE down
  BY DEF OnSafetyState, stc, Followed, Steady, Sent
<1>2. states \in Seq(BOOLEAN)
  BY TypeParts DEF NodesTyped
<1>3. /\ known' \in BOOLEAN
      /\ states' = <<>> => known' = latched["gateway"]
      /\ states' # <<>> => LastOf(states') = latched["gateway"]
  BY <1>1, <1>2, LastKept DEF Followed, Steady, StateTold
<1>4. Steady'
  BY <1>1, <1>3 DEF Followed, Steady, StateTold, LastOf
<1>5. \A s \in Subscribers : Told(s)' = Told(s) /\ Web(s)' = Web(s)
  BY <1>1 DEF Told, Web
<1>6. CASE connected /\ known # known'
  <2>1. BoardWill' = known'
    BY <1>1, <1>3, <1>6, WillSent
  <2> QED  BY <1>1, <1>4, <1>6, <2>1 DEF Followed, Mirrored
<1>7. CASE ~connected \/ known = known'
  <2>1. BoardWill' = BoardWill
    BY <1>1, <1>7, WillKept
  <2>2. ASSUME Mirrored PROVE Mirrored'
    BY <1>1, <1>3, <1>5, <1>7, <2>1, <2>2, Members DEF Mirrored, BoardSilent
  <2>3. ASSUME Alone PROVE Alone'
    <3>1. PICK wish \in BOOLEAN : GatewayWish(wish) /\ BridgeWish(wish)
      BY <2>3 DEF Alone
    <3>2. GatewayWish(wish)'
      BY <1>1, <1>5, <3>1, Members DEF GatewayWish, LastOf
    <3>3. BridgeWish(wish)'
      BY <1>1, <1>3, <1>5, <2>1, <3>1, Members DEF BridgeWish, BoardSilent, LastOf
    <3> QED  BY <1>5, <2>3, <3>2, <3>3 DEF Alone, BridgeSilent
  <2> QED  BY <1>4, <2>2, <2>3 DEF Followed
<1> QED  BY <1>6, <1>7

LEMMA LatchFollowed ==
    ASSUME Followed, TypeOK, NEW node \in Nodes, NEW publisher \in Publishers, Latch(node, publisher)
    PROVE  Followed'
<1> DEFINE topic == set[<<publisher, node>>]
           latch == Head(topic)
<1>1. /\ UNCHANGED <<emergency, slot, up, down, plugged, connected, known>>
      /\ topic # <<>> /\ latched' = [latched EXCEPT ![node] = latch]
      /\ set' = [set EXCEPT ![<<publisher, node>>] = Tail(@)]
      /\ states' = IF node = "gateway" THEN Append(states, latch) ELSE states
  BY DEF Latch, stc, link
<1>2. /\ set \in Queues /\ node \in Subscribers /\ node # "bridge" /\ "bridge" \in Subscribers
      /\ "gateway" \in Subscribers /\ "web" \in Publishers /\ "bridge" \in Publishers
      /\ states \in Seq(BOOLEAN) /\ latched \in [Nodes -> BOOLEAN]
  BY TypeParts DEF NodesTyped, Subscribers, Publishers, Nodes
<1>3. /\ latch \in BOOLEAN
      /\ set'[<<publisher, node>>] = Tail(topic)
      /\ \A p \in Publishers, s \in Subscribers :
            <<p, s>> # <<publisher, node>> => set'[<<p, s>>] = set[<<p, s>>]
  BY <1>1, <1>2, TakenFrom
<1>4. topic \in Seq(BOOLEAN)
  <2>1. <<publisher, node>> \in Publishers \X Subscribers
    BY <1>2
  <2> QED  BY <1>2, <2>1 DEF Queues
<1>5. /\ topic = <<>> \/ (Tail(topic) = <<>> => latch = LastOf(topic))
      /\ Tail(topic) # <<>> => LastOf(Tail(topic)) = LastOf(topic)
  BY <1>1, <1>4, LastKept
<1>6. set'[<<"bridge", "bridge">>] = set[<<"bridge", "bridge">>]
      /\ set'[<<"web", "bridge">>] = set[<<"web", "bridge">>]
  BY <1>2, <1>3
<1> HIDE DEF latch
<1>7. BoardWill' = BoardWill /\ (BoardSilent' <=> BoardSilent)
  BY <1>1, WillKept DEF BoardSilent
<1>8. CASE Mirrored
  <2>1. Mirrored'
    BY <1>1, <1>6, <1>7, <1>8 DEF Mirrored, Told
  <2>2. node # "gateway" => Steady'
    <3>1. node # "gateway" => states' = states /\ latched'["gateway"] = latched["gateway"]
      BY <1>1, <1>2, Members
    <3> QED  BY <1>1, <3>1 DEF Followed, Steady, StateTold, LastOf
  <2>3. node = "gateway" => Steady'
    <3>1. node = "gateway" => LastOf(states') = latched'["gateway"]
      BY <1>1, <1>2, <1>3, Members, LastAppended
    <3> QED  BY <1>1, <3>1 DEF Followed, Steady, StateTold, LastOf
  <2> QED  BY <2>1, <2>2, <2>3 DEF Followed
<1>9. CASE Alone
  <2>1. publisher = "web"
    BY <1>1, <1>2, <1>9 DEF Alone, BridgeSilent, Told, Publishers
  <2>2. BridgeSilent'
    <3>1. \A s \in Subscribers : set'[<<"bridge", s>>] = set[<<"bridge", s>>]
      BY <1>2, <1>3, <2>1
    <3> QED  BY <1>9, <3>1 DEF Alone, BridgeSilent, Told
  <2>3. Web("bridge")' = Web("bridge")
    BY <1>6 DEF Web
  <2>4. PICK wish \in BOOLEAN : GatewayWish(wish) /\ BridgeWish(wish)
    BY <1>9 DEF Alone
  <2>5. CASE node = "executor"
    <3>1. states' = states /\ latched'["gateway"] = latched["gateway"]
      BY <1>1, <1>2, <2>5, Members
    <3>2. Web("gateway")' = Web("gateway")
      BY <1>2, <1>3, <2>5 DEF Web
    <3>3. GatewayWish(wish)' /\ BridgeWish(wish)'
      BY <1>1, <1>7, <2>3, <2>4, <3>1, <3>2 DEF GatewayWish, BridgeWish, LastOf
    <3>4. Steady'
      BY <1>1, <3>1 DEF Followed, Steady, StateTold, LastOf
    <3> QED  BY <2>2, <3>3, <3>4 DEF Followed, Alone
  <2>6. CASE node = "gateway"
    <3>1. states' # <<>> /\ LastOf(states') = latch /\ latched'["gateway"] = latch
      BY <1>1, <1>2, <1>3, <2>6, Members, LastAppended
    <3>2. Web("gateway") = topic /\ Web("gateway")' = Tail(topic)
      BY <1>3, <2>1, <2>6 DEF Web
    <3>3. LastOf(topic) = wish
      BY <1>1, <2>4, <3>2 DEF GatewayWish
    <3>4. GatewayWish(wish)'
      <4> HIDE DEF topic
      <4> QED  BY <1>1, <1>5, <3>1, <3>2, <3>3 DEF GatewayWish, LastOf
    <3>5. BridgeWish(wish)'
      BY <1>7, <2>3, <2>4, <3>1 DEF BridgeWish, LastOf
    <3>6. Steady'
      BY <1>1, <3>1 DEF Followed, Steady, StateTold, LastOf
    <3> QED  BY <2>2, <3>4, <3>5, <3>6 DEF Followed, Alone
  <2> QED  BY <2>5, <2>6 DEF Nodes
<1> QED  BY <1>8, <1>9 DEF Followed

LEMMA TellFollowed == ASSUME Followed, TypeOK, TellState PROVE Followed'
<1>1. /\ UNCHANGED <<emergency, slot, up, down, plugged, connected, known, latched, set>>
      /\ states' = Append(states, latched["gateway"])
  BY DEF TellState, stc, link
<1>2. states \in Seq(BOOLEAN) /\ latched["gateway"] \in BOOLEAN
  BY TypeParts DEF NodesTyped
<1>3. states' # <<>> /\ LastOf(states') = latched["gateway"]
  BY <1>1, <1>2, LastAppended
<1>4. Steady'
  BY <1>1, <1>3 DEF Followed, Steady, StateTold, LastOf
<1>5. BoardWill' = BoardWill /\ (BoardSilent' <=> BoardSilent)
  BY <1>1, WillKept DEF BoardSilent
<1>6. \A s \in Subscribers : Told(s)' = Told(s) /\ Web(s)' = Web(s)
  BY <1>1 DEF Told, Web
<1>7. ASSUME Mirrored PROVE Mirrored'
  BY <1>1, <1>5, <1>6, <1>7, Members DEF Mirrored
<1>8. ASSUME Alone PROVE Alone'
  <2>1. PICK wish \in BOOLEAN : GatewayWish(wish) /\ BridgeWish(wish)
    BY <1>8 DEF Alone
  <2>2. GatewayWish(wish)' /\ BridgeWish(wish)'
    BY <1>1, <1>3, <1>5, <1>6, <2>1, Members DEF GatewayWish, BridgeWish, LastOf
  <2> QED  BY <1>6, <1>8, <2>2 DEF Alone, BridgeSilent
<1> QED  BY <1>4, <1>7, <1>8 DEF Followed

LEMMA WebFollowed == ASSUME Followed, TypeOK, NEW latch \in BOOLEAN, WebStop(latch) PROVE Followed'
<1>1. /\ UNCHANGED <<emergency, slot, up, down, plugged, connected, known, latched, states>>
      /\ set' = Published("web", latch)
  BY DEF WebStop, stc, link
<1>2. set \in Queues /\ "web" \in Publishers /\ "bridge" \in Publishers /\ "web" # "bridge"
  BY TypeParts DEF NodesTyped, Publishers
<1>3. \A p \in Publishers, s \in Subscribers :
         set'[<<p, s>>] = IF p = "web" THEN Append(set[<<p, s>>], latch) ELSE set[<<p, s>>]
  BY <1>1, <1>2, PublishedTo
<1>4. ASSUME NEW s \in Subscribers
      PROVE  Told(s)' = Told(s) /\ Web(s)' # <<>> /\ LastOf(Web(s)') = latch
  <2>1. <<"web", s>> \in Publishers \X Subscribers
    BY <1>2
  <2>2. set[<<"web", s>>] \in Seq(BOOLEAN)
    BY <1>2, <2>1 DEF Queues
  <2>3. Web(s)' = Append(set[<<"web", s>>], latch)
    BY <1>2, <1>3 DEF Web
  <2> QED  BY <1>2, <1>3, <2>2, <2>3, LastAppended DEF Told
<1>5. Steady'
  BY <1>1 DEF Followed, Steady, StateTold, LastOf
<1>6. BoardWill' = BoardWill /\ (BoardSilent' <=> BoardSilent)
  BY <1>1, WillKept DEF BoardSilent
<1>7. ASSUME Mirrored PROVE Mirrored'
  BY <1>1, <1>4, <1>6, <1>7, Members DEF Mirrored
<1>8. ASSUME Alone PROVE Alone'
  <2>1. GatewayWish(latch)' /\ BridgeWish(latch)'
    BY <1>4, Members DEF GatewayWish, BridgeWish, LastOf
  <2> QED  BY <1>4, <1>8, <2>1 DEF Alone, BridgeSilent
<1> QED  BY <1>5, <1>7, <1>8 DEF Followed

LEMMA InitFollowed == ASSUME Init PROVE Followed
<1>1. \A p \in Publishers, s \in Subscribers : set[<<p, s>>] = <<>>
  BY SilentTyped DEF Init
<1>2. \A s \in Subscribers : Told(s) = <<>> /\ Web(s) = <<>>
  BY <1>1 DEF Told, Web, Publishers
<1>3. Steady
  <2>1. DOMAIN <<>> = {}
    OBVIOUS
  <2> QED  BY <2>1, Codes, NoneAssumption DEF Init, Steady, StateTold
<1>4. GatewayWish(FALSE) /\ BridgeWish(FALSE)
  BY <1>2, Members DEF Init, GatewayWish, BridgeWish, BoardWill
<1> QED  BY <1>2, <1>3, <1>4 DEF Followed, Alone, BridgeSilent

\* The web page and K3 in any order, the board rebooting between: once nothing is on
\* its way, the board has the latch that the bridge knows.
THEOREM Board_follows == Spec => []BoardFollows
<1> DEFINE Inv == Following => Followed
<1>1. Init => Inv
  BY InitFollowed
<1>2. TypeOK /\ Inv /\ [Next]_vars => Inv'
  <2> SUFFICES ASSUME TypeOK, Followed, [Next]_vars, Following PROVE Followed'
    BY MayKept DEF Following
  <2>1. ~CancelOnBoard /\ ~Unplug /\ ~Restart
    <3>1. "cancel" \notin scenario.may /\ "unplug" \notin scenario.may /\ "restart" \notin scenario.may
      BY DEF Following
    <3> QED  BY <3>1 DEF CancelOnBoard, Unplug, Restart, May
  <2>2. ~Replug
    BY DEF Followed, Steady, Replug
  <2>3. CASE EngageOnBoard \/ ReleaseOnBoard \/ Transmit \/ Reboot \/ OnStop \/ OnHeartbeat
    BY <2>3, BoardFollowed
  <2>4. CASE OnFrame \/ OnSafetyState \/ TellState
    BY <2>4, FrameFollowed, StateFollowed, TellFollowed
  <2>5. CASE \E publisher \in Publishers :
               OnSafetySet(publisher) \/ Latch("gateway", publisher) \/ Latch("executor", publisher)
    BY <2>5, Members, HeardFollowed, LatchFollowed
  <2>6. CASE \E latch \in BOOLEAN : WebStop(latch)
    BY <2>6, WebFollowed
  <2>7. CASE UNCHANGED vars
    <3>1. UNCHANGED <<emergency, slot, up, down, plugged, connected, known, latched, set, states>>
      BY <2>7 DEF vars, stc, link, ros
    <3>2. BoardWill' = BoardWill
      BY <3>1, WillKept
    <3> QED  BY <3>1, <3>2, FollowedKept DEF Followed, Steady, BoardSilent
  <2> QED  BY <2>1, <2>2, <2>3, <2>4, <2>5, <2>6, <2>7 DEF Next, Deliver
<1>3. Inv => BoardFollows
  <2> SUFFICES ASSUME Followed, Settled, known # None PROVE emergency <=> known
    BY DEF BoardFollows, Following
  <2>1. \A p \in Publishers, s \in Subscribers : set[<<p, s>>] = <<>>
    BY SilentTyped DEF Settled
  <2>2. \A s \in Subscribers : Told(s) = <<>> /\ Web(s) = <<>>
    BY <2>1 DEF Told, Web, Publishers
  <2>3. BoardSilent /\ BoardWill = emergency /\ states = <<>>
    BY DEF Settled, Quiet, BoardSilent, BoardWill
  <2>4. CASE Mirrored
    BY <2>2, <2>3, <2>4, Members DEF Mirrored
  <2>5. CASE Alone
    BY <2>2, <2>3, <2>5, Members DEF Alone, GatewayWish, BridgeWish
  <2> QED  BY <2>4, <2>5 DEF Followed
<1> QED  BY <1>1, <1>2, <1>3, Typing, PTL DEF Spec
=============================================================================
