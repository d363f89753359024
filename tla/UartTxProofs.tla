---------------------------- MODULE UartTxProofs ----------------------------
(***************************************************************************)
(* Theorems about UartTx for any set of frames, any ring of at least two   *)
(* slots and any largest frame, proved from one inductive invariant.       *)
(***************************************************************************)
EXTENDS UartTx, SequenceTheorems, TLAPS

USE DEF Ports

\* The lock is held exactly while the main loop handles a queue.
Gate == tx_lock <=> main.pc \in {"room", "copy", "unlock"}

\* The frame being sent, and the room found for it.
CallHolds ==
    /\ main.pc # "idle" => main.frame \in Frames
    /\ At("room") => main.i = 1
    /\ At("copy") =>
          /\ Length[main.frame] \in 1..FrameMax
          /\ main.i <= Length[main.frame] + 1
          /\ IsUrgent \/ Following(tx[main.port].head) # tx[main.port].tail

\* A port marked done neither sends nor waits for the end of a byte; one that is
\* not marked does one of the two.
Handshake ==
    \A p \in Ports : /\ busy[p] => ~tx_done[p] /\ ~ti[p]
                     /\ ~tx_done[p] => busy[p] \/ ti[p]

\* An interrupt requested by the main loop is taken before the next send, so a
\* port found done is still at rest when it is kicked.
AfterKick(p) == IF p = 1 THEN {"test2", "kick2", "idle"} ELSE {"idle"}
Kicks ==
    /\ \A p \in Ports : ti[p] /\ tx_done[p] => main.pc \in AfterKick(p)
    /\ At("kick1") => tx_done[1] /\ ~ti[1]
    /\ At("kick2") => tx_done[2] /\ ~ti[2]

\* A port with work goes on by itself or will be looked at before the send ends.
BeforeKick(p) == {"room", "copy", "unlock", "test1", "kick1"}
                 \union (IF p = 1 THEN {} ELSE {"test2", "kick2"})
Awake ==
    \A p \in Ports : HasWork(tx[p]) => busy[p] \/ ti[p] \/ main.pc \in BeforeKick(p)

Whole(buffer, n, f) ==
    /\ n = Length[f] /\ n \in 1..FrameMax
    /\ \A j \in 1..n : buffer[j] = <<f, j>>
IsFrame(buffer, n) == \E f \in Frames : Whole(buffer, n, f)

\* The slots from tail to head.
InRing(q, k) == IF q.tail <= q.head THEN q.tail <= k /\ k < q.head
                ELSE q.tail <= k \/ k < q.head
RingHolds(q) == \A k \in Slot : InRing(q, k) => IsFrame(q.data[k], q.length[k])

\* The frame being sent and the byte sent last.
ActiveHolds(q, byte) ==
    IF q.size = 0 THEN q.pos = 0 /\ byte = None
    ELSE /\ q.pos \in 1..q.size
         /\ IsFrame(q.active, q.size)
         /\ byte = q.active[q.pos]

CopyingUrgent(p) == At("copy") /\ main.port = p /\ IsUrgent
UrgentHolds(p) ==
    tx[p].urgent_size # 0 => CopyingUrgent(p) \/ IsFrame(tx[p].urgent, tx[p].urgent_size)

Contents ==
    \A p \in Ports : RingHolds(tx[p]) /\ ActiveHolds(tx[p], sbuf[p]) /\ UrgentHolds(p)

\* The bytes copied so far.
Target == IF IsUrgent THEN tx[main.port].urgent ELSE tx[main.port].data[tx[main.port].head]
Copied == At("copy") => \A j \in 1..(main.i - 1) : Target[j] = <<main.frame, j>>

IInv == TypeOK /\ Gate /\ CallHolds /\ Handshake /\ Kicks /\ Awake /\ Contents /\ Copied

-----------------------------------------------------------------------------
(* The ring. *)

\* The slot after a slot is a slot.
LEMMA FollowingInRange == \A s \in Slot : Following(s) \in Slot
  BY SizesAssumption DEF Following, Slot

\* With room in the ring, a publication adds the slot at its head and no other.
LEMMA RingGrows ==
  ASSUME NEW q \in Queue, NEW r \in Queue, NEW k \in Slot,
         Following(q.head) # q.tail, r.tail = q.tail, r.head = Following(q.head),
         InRing(r, k)
  PROVE  InRing(q, k) \/ k = q.head
  <1>1. q.head \in Slot /\ q.tail \in Slot
    BY DEF Queue
  <1> QED  BY <1>1, SizesAssumption DEF InRing, Following, Slot

\* Taking the frame at the tail of a ring that is not empty adds no slot.
LEMMA RingShrinks ==
  ASSUME NEW q \in Queue, NEW r \in Queue, NEW k \in Slot,
         q.tail # q.head, r.head = q.head, r.tail = Following(q.tail), InRing(r, k)
  PROVE  InRing(q, k) /\ InRing(q, q.tail)
  <1>1. q.head \in Slot /\ q.tail \in Slot
    BY DEF Queue
  <1> QED  BY <1>1, SizesAssumption DEF InRing, Following, Slot

\* The tail of a ring that is not empty is in it; its head never is.
LEMMA RingEnds ==
  ASSUME NEW q \in Queue
  PROVE  /\ ~InRing(q, q.head)
         /\ q.tail # q.head => InRing(q, q.tail)
         /\ q.tail = q.head => \A k \in Slot : ~InRing(q, k)
  <1>1. q.head \in Slot /\ q.tail \in Slot
    BY DEF Queue
  <1> QED  BY <1>1, SizesAssumption DEF InRing, Slot

\* The port has memory of the right type at the start, and nothing to send.
LEMMA Start == Init => IInv
  <1> SUFFICES ASSUME Init PROVE IInv
    OBVIOUS
  <1>q. EmptyQueue \in Queue
    BY SizesAssumption DEF EmptyQueue, Queue, Buffer, Blank, Slot
  <1>m. main \in Call
    BY SizesAssumption DEF Init, Call, Steps
  <1>1. TypeOK
    BY <1>q, <1>m DEF Init, TypeOK
  <1>2. Gate /\ CallHolds /\ Handshake /\ Kicks /\ Copied
    BY DEF Init, Gate, CallHolds, Handshake, Kicks, Copied, At, AfterKick
  <1>3. Awake
    BY DEF Init, Awake, HasWork, EmptyQueue
  <1>4. Contents
    BY DEF Init, Contents, RingHolds, InRing, ActiveHolds, UrgentHolds, EmptyQueue, Slot
  <1> QED  BY <1>1, <1>2, <1>3, <1>4 DEF IInv

-----------------------------------------------------------------------------
(* The steps of the main loop that touch no queue. *)

\* A step outside the copy that changes neither queue nor line keeps what the
\* queues hold.
LEMMA ContentsStay ==
  ASSUME Contents, UNCHANGED <<tx, sbuf>>,
         main' = main \/ ~At("copy")
  PROVE  Contents'
  <1>1. \A p \in Ports : UrgentHolds(p)'
    BY DEF Contents, UrgentHolds, CopyingUrgent, At, IsUrgent
  <1>2. \A p \in Ports : RingHolds(tx[p])' /\ ActiveHolds(tx[p], sbuf[p])'
    BY DEF Contents
  <1> QED  BY <1>1, <1>2 DEF Contents

\* A send begins: the lock is taken, nothing is requested.
LEMMA SendKeeps ==
  ASSUME IInv, NEW p \in Ports, NEW f \in Traffic[p], Send(p, f)
  PROVE  IInv'
  <1> USE DEF At
  <1>f. f \in Frames
    BY FramesAssumption
  <1>m. main' \in Call
    BY <1>f, SizesAssumption DEF Send, Call, Steps
  <1>1. TypeOK'
    BY <1>m DEF IInv, TypeOK, Send, Locked
  <1>2. Gate' /\ CallHolds' /\ Copied'
    BY <1>f DEF Send, Locked, Gate, CallHolds, Copied
  <1>3. Handshake' /\ Kicks'
    BY DEF IInv, Send, Handshake, Kicks
  <1>4. Awake'
    BY DEF IInv, Send, Awake, BeforeKick
  <1>5. Contents'
    BY ContentsStay DEF IInv, Send
  <1> QED  BY <1>1, <1>2, <1>3, <1>4, <1>5 DEF IInv

\* The lock is released; the ports are looked at next.
LEMMA UnlockKeeps == ASSUME IInv, Unlock PROVE IInv'
  <1> USE DEF At, Goto
  <1>m. main' \in Call
    BY DEF IInv, TypeOK, Unlock, Call, Steps
  <1>0. main \in Call /\ main.pc = "unlock" /\ main' = [main EXCEPT !.pc = "test1"]
    BY DEF IInv, TypeOK, Unlock
  <1>1. TypeOK'
    BY <1>m DEF IInv, TypeOK, Unlock
  <1>2. Gate' /\ CallHolds' /\ Copied'
    BY <1>0 DEF IInv, Unlock, Gate, CallHolds, Copied, Call
  <1>3. Handshake' /\ Kicks'
    BY <1>0 DEF IInv, Unlock, Handshake, Kicks, Call, AfterKick
  <1>4. Awake'
    BY <1>0 DEF IInv, Unlock, Awake, BeforeKick, Call
  <1>5. Contents'
    BY <1>0, ContentsStay DEF IInv, Unlock
  <1> QED  BY <1>1, <1>2, <1>3, <1>4, <1>5 DEF IInv

\* A port found done is at rest; one not done needs no kick.
LEMMA TestKeeps ==
  ASSUME IInv,
         \/ Test(1, "test1", "kick1", "test2")
         \/ Test(2, "test2", "kick2", "idle")
  PROVE  IInv'
  <1> USE DEF At, Goto
  <1>u. UNCHANGED <<tx, tx_lock, tx_done, ti, busy, sbuf>>
    BY DEF Test
  <1>0. /\ main \in Call
        /\ \/ main.pc = "test1" /\ main' = [main EXCEPT !.pc = IF tx_done[1] THEN "kick1" ELSE "test2"]
           \/ main.pc = "test2" /\ main' = [main EXCEPT !.pc = IF tx_done[2] THEN "kick2" ELSE "idle"]
    BY DEF IInv, TypeOK, Test, MustKick
  <1>m. main' \in Call
    BY <1>0 DEF Call, Steps
  <1>1. TypeOK'
    BY <1>m, <1>u DEF IInv, TypeOK
  <1>2. Gate' /\ CallHolds' /\ Copied'
    BY <1>0, <1>u DEF IInv, Gate, CallHolds, Copied, Call
  <1>3. Handshake' /\ Kicks'
    BY <1>0, <1>u DEF IInv, Handshake, Kicks, Call, AfterKick
  <1>4. Awake'
    BY <1>0, <1>u DEF IInv, Awake, BeforeKick, Call, Handshake
  <1>5. Contents'
    BY <1>0, <1>u, ContentsStay DEF IInv
  <1> QED  BY <1>1, <1>2, <1>3, <1>4, <1>5 DEF IInv

\* A kick requests the interrupt of a port at rest.
LEMMA KickKeeps ==
  ASSUME IInv, Kick(1, "kick1", "test2") \/ Kick(2, "kick2", "idle")
  PROVE  IInv'
  <1> USE DEF At, Goto
  <1>u. UNCHANGED <<tx, tx_lock, tx_done, busy, sbuf>>
    BY DEF Kick
  <1>0. /\ main \in Call /\ ti \in [Ports -> BOOLEAN]
        /\ \/ main.pc = "kick1" /\ main' = [main EXCEPT !.pc = "test2"] /\ ti' = [ti EXCEPT ![1] = TRUE]
           \/ main.pc = "kick2" /\ main' = [main EXCEPT !.pc = "idle"] /\ ti' = [ti EXCEPT ![2] = TRUE]
    BY DEF IInv, TypeOK, Kick
  <1>m. main' \in Call
    BY <1>0 DEF Call, Steps
  <1>1. TypeOK'
    BY <1>m, <1>0, <1>u DEF IInv, TypeOK
  <1>2. Gate' /\ CallHolds' /\ Copied'
    BY <1>0, <1>u DEF IInv, Gate, CallHolds, Copied, Call
  <1>3. Handshake' /\ Kicks'
    BY <1>0, <1>u DEF IInv, Handshake, Kicks, Call, AfterKick
  <1>4. Awake'
    BY <1>0, <1>u DEF IInv, Awake, BeforeKick, Call
  <1>5. Contents'
    BY <1>0, <1>u, ContentsStay DEF IInv
  <1> QED  BY <1>1, <1>2, <1>3, <1>4, <1>5 DEF IInv

-----------------------------------------------------------------------------
(* The steps of the main loop that write to a queue. *)

\* Room is found, or the frame is refused; an urgent one empties the ring.
LEMMA FindRoomKeeps == ASSUME IInv, FindRoom PROVE IInv'
  <1> USE DEF At, Goto
  <1> DEFINE p == main.port
             q == tx[p]
  <1>u. UNCHANGED <<tx_lock, tx_done, ti, busy, sbuf>>
    BY DEF FindRoom
  <1>0. /\ main \in Call /\ main.pc = "room" /\ main.frame \in Frames
        /\ tx \in [Ports -> Queue] /\ p \in Ports /\ q \in Queue
    BY DEF IInv, TypeOK, FindRoom, Call, CallHolds
  <1>1. CASE ~Fits(q)
    <2>1. tx' = tx /\ main' = [main EXCEPT !.pc = "unlock"]
      BY <1>1 DEF FindRoom
    <2>m. main' \in Call
      BY <1>0, <2>1 DEF Call, Steps
    <2>2. TypeOK'
      BY <2>1, <2>m, <1>u DEF IInv, TypeOK
    <2>3. Gate' /\ CallHolds' /\ Copied'
      BY <1>0, <2>1, <1>u DEF IInv, Gate, CallHolds, Copied, Call
    <2>4. Handshake' /\ Kicks'
      BY <1>0, <2>1, <1>u DEF IInv, Handshake, Kicks, Call, AfterKick
    <2>5. Awake'
      BY <1>0, <2>1, <1>u DEF IInv, Awake, BeforeKick, Call
    <2>6. Contents'
      BY <1>0, <2>1, <1>u, ContentsStay DEF IInv
    <2> QED  BY <2>2, <2>3, <2>4, <2>5, <2>6 DEF IInv
  <1>2. CASE Fits(q)
    <2> DEFINE r == [q EXCEPT !.tail = TailAfter(q)]
    <2>1. main' = [main EXCEPT !.pc = "copy"] /\ tx' = [tx EXCEPT ![p] = r]
      BY <1>2, <1>0 DEF FindRoom
    <2>m. /\ main' \in Call /\ main'.pc = "copy" /\ main'.port = p
          /\ main'.frame = main.frame /\ main'.i = main.i
          /\ IsUrgent' = IsUrgent
      BY <1>0, <2>1 DEF Call, Steps, IsUrgent
    <2>r. /\ r \in Queue
          /\ r.tail = (IF IsUrgent THEN q.head ELSE q.tail)
          /\ r.head = q.head /\ r.data = q.data /\ r.length = q.length
          /\ r.active = q.active /\ r.pos = q.pos /\ r.size = q.size
          /\ r.urgent = q.urgent /\ r.urgent_size = q.urgent_size
      BY <1>0 DEF Queue, TailAfter
    <2>p. /\ tx'[p] = r
          /\ \A o \in Ports : o # p => tx'[o] = tx[o]
          /\ tx' \in [Ports -> Queue]
      BY <2>1, <2>r, <1>0
    <2>2. TypeOK'
      BY <2>p, <2>m, <1>u DEF IInv, TypeOK
    <2>3. Gate'
      BY <1>0, <2>m, <1>u DEF IInv, Gate
    <2>i. main.i = 1
      BY <1>0 DEF IInv, CallHolds
    <2>4. CallHolds' /\ Copied'
      BY <1>0, <1>2, <2>m, <2>p, <2>r, <2>i DEF IInv, CallHolds, Copied, Fits
    <2>5. Handshake' /\ Kicks'
      BY <1>0, <2>m, <1>u DEF IInv, Handshake, Kicks, AfterKick
    <2>6. Awake'
      BY <1>0, <2>m, <1>u DEF Awake, BeforeKick
    <2>7. Contents'
      <3> SUFFICES ASSUME NEW o \in Ports
                   PROVE  (RingHolds(tx[o]) /\ ActiveHolds(tx[o], sbuf[o]) /\ UrgentHolds(o))'
        BY DEF Contents
      <3>0. RingHolds(tx[o]) /\ ActiveHolds(tx[o], sbuf[o]) /\ UrgentHolds(o)
        BY DEF IInv, Contents
      <3>1. CASE o # p
        BY <3>0, <3>1, <2>p, <2>m, <1>0, <1>u DEF UrgentHolds, CopyingUrgent
      <3>2. CASE o = p
        <4>0. tx'[o] = r /\ sbuf'[o] = sbuf[p]
          BY <3>2, <2>p, <1>u
        <4>1. RingHolds(tx'[o])
          BY <3>0, <3>2, <4>0, <2>r, RingEnds DEF RingHolds, InRing
        <4>2. ActiveHolds(tx'[o], sbuf'[o])
          BY <3>0, <3>2, <4>0, <2>r DEF ActiveHolds
        <4>3. UrgentHolds(o)'
          BY <3>0, <3>2, <4>0, <2>r, <2>m, <1>0 DEF UrgentHolds, CopyingUrgent
        <4> QED  BY <4>1, <4>2, <4>3
      <3> QED  BY <3>1, <3>2
    <2> QED  BY <2>2, <2>3, <2>4, <2>5, <2>6, <2>7 DEF IInv
  <1> QED  BY <1>1, <1>2

\* A byte is copied to the urgent frame or to the slot at the head, which no
\* handler reads.
LEMMA CopyByteKeeps == ASSUME IInv, CopyByte PROVE IInv'
  <1> USE DEF At, Goto
  <1> DEFINE p == main.port
             q == tx[p]
             byte == <<main.frame, main.i>>
             r == IF IsUrgent THEN [q EXCEPT !.urgent[main.i] = byte]
                  ELSE [q EXCEPT !.data[q.head][main.i] = byte]
  <1>u. UNCHANGED <<tx_lock, tx_done, ti, busy, sbuf>>
    BY DEF CopyByte
  <1>0. /\ main \in Call /\ main.pc = "copy" /\ main.frame \in Frames
        /\ tx \in [Ports -> Queue] /\ p \in Ports /\ q \in Queue
        /\ Length[main.frame] \in 1..FrameMax /\ main.i \in 1..Length[main.frame]
        /\ main' = [main EXCEPT !.i = main.i + 1]
    BY FramesAssumption, SizesAssumption DEF IInv, TypeOK, CopyByte, Call, CallHolds
  <1>f. main.i \in 1..FrameMax /\ byte \in Byte
    BY <1>0, SizesAssumption DEF Byte
  <1>m. /\ main' \in Call /\ main'.pc = "copy" /\ main'.port = p
        /\ main'.frame = main.frame /\ main'.i = main.i + 1
        /\ IsUrgent' = IsUrgent
    BY <1>0, <1>f, SizesAssumption DEF Call, IsUrgent
  <1>b. \A buffer \in Buffer : [buffer EXCEPT ![main.i] = byte] \in Buffer
    BY <1>f DEF Buffer
  <1>d. /\ q.head \in Slot /\ q.data \in [Slot -> Buffer] /\ q.urgent \in Buffer
        /\ q.data[q.head] \in Buffer
    BY <1>0 DEF Queue
  <1>e. [q.data EXCEPT ![q.head][main.i] = byte] \in [Slot -> Buffer]
    <2>1. [q.data[q.head] EXCEPT ![main.i] = byte] \in Buffer
      BY <1>b, <1>d
    <2> QED  BY <2>1, <1>d
  <1>r. /\ r \in Queue
        /\ r.tail = q.tail /\ r.head = q.head /\ r.length = q.length
        /\ r.active = q.active /\ r.pos = q.pos /\ r.size = q.size
        /\ r.urgent_size = q.urgent_size
    <2>1. CASE IsUrgent
      BY <2>1, <1>0, <1>b, <1>d DEF Queue
    <2>2. CASE ~IsUrgent
      BY <2>2, <1>0, <1>e, <1>d DEF Queue
    <2> QED  BY <2>1, <2>2
  <1>p. /\ tx'[p] = r
        /\ \A o \in Ports : o # p => tx'[o] = tx[o]
        /\ tx' \in [Ports -> Queue]
    <2>1. CASE IsUrgent
      BY <2>1, <1>0, <1>r DEF CopyByte
    <2>2. CASE ~IsUrgent
      BY <2>2, <1>0, <1>r DEF CopyByte
    <2> QED  BY <2>1, <2>2
  <1>1. TypeOK'
    BY <1>p, <1>m, <1>u DEF IInv, TypeOK
  <1>2. Gate'
    BY <1>0, <1>m, <1>u DEF IInv, Gate
  <1>3. CallHolds'
    <2>1. tx'[main'.port].head = q.head /\ tx'[main'.port].tail = q.tail
      BY <1>m, <1>p, <1>r
    <2>2. IsUrgent \/ Following(q.head) # q.tail
      BY <1>0 DEF IInv, CallHolds
    <2>3. main'.i <= Length[main.frame] + 1
      BY <1>0, <1>m
    <2> HIDE DEF r
    <2> QED  BY <2>1, <2>2, <2>3, <1>0, <1>m DEF CallHolds
  <1>4. Handshake' /\ Kicks'
    BY <1>0, <1>m, <1>u DEF IInv, Handshake, Kicks, AfterKick
  <1>5. Awake'
    BY <1>0, <1>m, <1>u DEF Awake, BeforeKick
  <1>t. /\ IsUrgent => r.urgent = [q.urgent EXCEPT ![main.i] = byte] /\ r.data = q.data
        /\ ~IsUrgent => /\ r.urgent = q.urgent
                        /\ r.data = [q.data EXCEPT ![q.head] = [q.data[q.head] EXCEPT ![main.i] = byte]]
    BY <1>0 DEF Queue
  <1>6. Copied'
    <2>1. \A j \in 1..(main.i - 1) : Target[j] = <<main.frame, j>>
      BY <1>0 DEF IInv, Copied
    <2>2. Target' = [Target EXCEPT ![main.i] = byte] /\ Target \in Buffer
      BY <1>t, <1>m, <1>p, <1>r, <1>d DEF Target
    <2>3. \A j \in 1..main.i : Target'[j] = <<main.frame, j>>
      BY <2>1, <2>2, <1>0, <1>f DEF Buffer
    <2> QED  BY <2>3, <1>m, <1>0 DEF Copied
  <1>7. Contents'
    <2> SUFFICES ASSUME NEW o \in Ports
                 PROVE  RingHolds(tx'[o]) /\ ActiveHolds(tx'[o], sbuf'[o]) /\ UrgentHolds(o)'
      BY DEF Contents
    <2>0. RingHolds(tx[o]) /\ ActiveHolds(tx[o], sbuf[o]) /\ UrgentHolds(o)
      BY DEF IInv, Contents
    <2>1. CASE o # p
      BY <2>0, <2>1, <1>p, <1>m, <1>0, <1>u DEF UrgentHolds, CopyingUrgent
    <2>2. CASE o = p
      <3>0. tx'[o] = r /\ sbuf'[o] = sbuf[p]
        BY <2>2, <1>p, <1>u
      <3>1. RingHolds(tx'[o])
        <4> SUFFICES ASSUME NEW k \in Slot, InRing(r, k) PROVE IsFrame(r.data[k], r.length[k])
          BY <3>0 DEF RingHolds
        <4>1. InRing(q, k) /\ k # q.head
          BY <1>r, <1>0, RingEnds DEF InRing
        <4>2. r.data[k] = q.data[k] /\ r.length[k] = q.length[k]
          BY <4>1, <1>t, <1>r, <1>d
        <4>3. IsFrame(q.data[k], q.length[k])
          BY <4>1, <2>0, <2>2 DEF RingHolds
        <4> QED  BY <4>2, <4>3
      <3>2. ActiveHolds(tx'[o], sbuf'[o])
        BY <2>0, <2>2, <3>0, <1>r DEF ActiveHolds
      <3>3. UrgentHolds(o)'
        BY <2>0, <2>2, <3>0, <1>r, <1>t, <1>m, <1>0 DEF UrgentHolds, CopyingUrgent
      <3> QED  BY <3>1, <3>2, <3>3
    <2> QED  BY <2>1, <2>2
  <1> QED  BY <1>1, <1>2, <1>3, <1>4, <1>5, <1>6, <1>7 DEF IInv

\* A whole frame is published in the urgent place or at the head of the ring.
LEMMA PublishKeeps == ASSUME IInv, Publish PROVE IInv'
  <1> USE DEF At, Goto
  <1> DEFINE p == main.port
             q == tx[p]
             n == Length[main.frame]
             r == IF IsUrgent THEN [q EXCEPT !.urgent_size = n]
                  ELSE [q EXCEPT !.length[q.head] = n, !.head = Following(q.head)]
  <1>u. UNCHANGED <<tx_lock, tx_done, ti, busy, sbuf>>
    BY DEF Publish
  <1>0. /\ main \in Call /\ main.pc = "copy" /\ main.frame \in Frames
        /\ tx \in [Ports -> Queue] /\ p \in Ports /\ q \in Queue
        /\ n \in 1..FrameMax /\ main.i = n + 1
        /\ main' = [main EXCEPT !.pc = "unlock"]
        /\ IsUrgent \/ Following(q.head) # q.tail
    BY FramesAssumption, SizesAssumption DEF IInv, TypeOK, Publish, Call, CallHolds
  <1>m. /\ main' \in Call /\ main'.pc = "unlock"
        /\ main'.frame = main.frame
    BY <1>0 DEF Call, Steps
  <1>d. /\ q.head \in Slot /\ q.length \in [Slot -> 0..FrameMax]
        /\ Following(q.head) \in Slot
        /\ n \in 0..FrameMax
    BY <1>0, FollowingInRange, SizesAssumption DEF Queue
  <1>r. /\ r \in Queue
        /\ r.tail = q.tail /\ r.data = q.data /\ r.urgent = q.urgent
        /\ r.active = q.active /\ r.pos = q.pos /\ r.size = q.size
        /\ IsUrgent => r.urgent_size = n /\ r.head = q.head /\ r.length = q.length
        /\ ~IsUrgent => /\ r.urgent_size = q.urgent_size /\ r.head = Following(q.head)
                        /\ r.length = [q.length EXCEPT ![q.head] = n]
    <2>1. CASE IsUrgent
      BY <2>1, <1>0, <1>d DEF Queue
    <2>2. CASE ~IsUrgent
      <3>1. [q.length EXCEPT ![q.head] = n] \in [Slot -> 0..FrameMax]
        BY <1>d
      <3> QED  BY <2>2, <3>1, <1>0, <1>d DEF Queue
    <2> QED  BY <2>1, <2>2
  <1>p. /\ tx'[p] = r
        /\ \A o \in Ports : o # p => tx'[o] = tx[o]
        /\ tx' \in [Ports -> Queue]
    BY <1>0, <1>r DEF Publish
  <1>1. TypeOK'
    BY <1>p, <1>m, <1>u DEF IInv, TypeOK
  <1>2. Gate' /\ CallHolds' /\ Copied'
    BY <1>0, <1>m, <1>u DEF IInv, Gate, CallHolds, Copied
  <1>3. Handshake' /\ Kicks'
    BY <1>0, <1>m, <1>u DEF IInv, Handshake, Kicks, AfterKick
  <1>4. Awake'
    BY <1>0, <1>m, <1>u DEF Awake, BeforeKick
  <1>w. Whole(Target, n, main.frame)
    BY <1>0 DEF IInv, Copied, Whole
  <1>5. Contents'
    <2> SUFFICES ASSUME NEW o \in Ports
                 PROVE  RingHolds(tx'[o]) /\ ActiveHolds(tx'[o], sbuf'[o]) /\ UrgentHolds(o)'
      BY DEF Contents
    <2>0. RingHolds(tx[o]) /\ ActiveHolds(tx[o], sbuf[o]) /\ UrgentHolds(o)
      BY DEF IInv, Contents
    <2>1. CASE o # p
      BY <2>0, <2>1, <1>p, <1>m, <1>0, <1>u DEF UrgentHolds, CopyingUrgent
    <2>2. CASE o = p
      <3>0. tx'[o] = r /\ sbuf'[o] = sbuf[p]
        BY <2>2, <1>p, <1>u
      <3>1. RingHolds(tx'[o])
        <4> SUFFICES ASSUME NEW k \in Slot, InRing(r, k) PROVE IsFrame(r.data[k], r.length[k])
          BY <3>0 DEF RingHolds
        <4>1. CASE IsUrgent
          BY <4>1, <1>r, <2>0, <2>2 DEF RingHolds, InRing
        <4>2. CASE ~IsUrgent /\ k = q.head
          BY <4>2, <1>r, <1>w, <1>d, <1>0 DEF Target, IsFrame
        <4>3. CASE ~IsUrgent /\ k # q.head
          <5>1. InRing(q, k)
            BY <4>3, <1>0, <1>r, RingGrows
          <5>2. r.length[k] = q.length[k] /\ r.data[k] = q.data[k]
            BY <4>3, <1>r, <1>d
          <5> QED  BY <5>1, <5>2, <2>0, <2>2 DEF RingHolds
        <4> QED  BY <4>1, <4>2, <4>3
      <3>2. ActiveHolds(tx'[o], sbuf'[o])
        BY <2>0, <2>2, <3>0, <1>r DEF ActiveHolds
      <3>3. UrgentHolds(o)'
        <4>1. CASE IsUrgent
          BY <4>1, <2>2, <3>0, <1>r, <1>w, <1>0 DEF UrgentHolds, Target, IsFrame
        <4>2. CASE ~IsUrgent
          BY <4>2, <2>0, <2>2, <3>0, <1>r DEF UrgentHolds, CopyingUrgent
        <4> QED  BY <4>1, <4>2
      <3> QED  BY <3>1, <3>2, <3>3
    <2> QED  BY <2>1, <2>2
  <1> QED  BY <1>1, <1>2, <1>3, <1>4, <1>5 DEF IInv

-----------------------------------------------------------------------------
(* The interrupts and the hardware. *)

\* What tx_next leaves: a frame being sent, and its next byte, which follows the
\* byte before.
LEMMA NextByte ==
  ASSUME NEW q \in Queue, NEW last, HasWork(q), RingHolds(q), ActiveHolds(q, last),
         q.urgent_size # 0 => IsFrame(q.urgent, q.urgent_size)
  PROVE  LET l == Loaded(q)
             r == [l EXCEPT !.pos = l.pos + 1]
             byte == l.active[l.pos + 1]
         IN /\ r \in Queue
            /\ byte \in Byte
            /\ RingHolds(r)
            /\ ActiveHolds(r, byte)
            /\ r.urgent = q.urgent /\ r.urgent_size \in {0, q.urgent_size}
            /\ Follows(byte, last)
  <1> DEFINE l == Loaded(q)
             r == [l EXCEPT !.pos = l.pos + 1]
             byte == l.active[l.pos + 1]
  <1>q. /\ q.head \in Slot /\ q.tail \in Slot /\ q.data \in [Slot -> Buffer]
        /\ q.length \in [Slot -> 0..FrameMax] /\ q.active \in Buffer
        /\ q.pos \in 0..FrameMax /\ q.size \in 0..FrameMax
        /\ q.urgent \in Buffer /\ q.urgent_size \in 0..FrameMax
        /\ Following(q.tail) \in Slot /\ FrameMax \in Nat \ {0} /\ 0 \in 0..FrameMax
    BY FollowingInRange, SizesAssumption DEF Queue
  <1>w. ASSUME NEW buffer, NEW n, IsFrame(buffer, n), NEW j \in 1..n
        PROVE  \E f \in Frames : /\ n = Length[f] /\ n \in 1..FrameMax
                                 /\ buffer[j] = <<f, j>> /\ buffer[j] \in Byte
    <2>1. PICK f \in Frames : Whole(buffer, n, f)
      BY <1>w DEF IsFrame
    <2>2. n = Length[f] /\ n \in 1..FrameMax /\ buffer[j] = <<f, j>>
      BY <2>1 DEF Whole
    <2>3. <<f, j>> \in Byte
      BY <2>2, <1>q, <1>w DEF Byte
    <2> QED  BY <2>2, <2>3
  <1>e. ASSUME NEW buffer, NEW n, IsFrame(buffer, n)
        PROVE  n \in 1..FrameMax
    BY <1>e DEF IsFrame, Whole
  <1>1. CASE q.pos # q.size
    <2>0. l = q
      BY <1>1 DEF Loaded
    <2>1. q.size # 0 /\ q.pos \in 1..q.size /\ IsFrame(q.active, q.size) /\ last = q.active[q.pos]
      BY <1>1 DEF ActiveHolds
    <2>2. q.pos + 1 \in 1..q.size /\ q.pos + 1 \in 0..FrameMax
      BY <2>1, <1>1, <1>q
    <2>r. /\ r \in Queue
          /\ r.head = q.head /\ r.tail = q.tail /\ r.data = q.data /\ r.length = q.length
          /\ r.active = q.active /\ r.size = q.size /\ r.pos = q.pos + 1
          /\ r.urgent = q.urgent /\ r.urgent_size = q.urgent_size
      BY <2>0, <2>2 DEF Queue
    <2>3. PICK f \in Frames : Whole(q.active, q.size, f)
      BY <2>1 DEF IsFrame
    <2>4. /\ last = <<f, q.pos>> /\ q.active[q.pos + 1] = <<f, q.pos + 1>>
          /\ q.size = Length[f]
      BY <2>1, <2>2, <2>3 DEF Whole
    <2>5. Follows(byte, last)
      BY <2>4, <2>0, <1>1, NoneAssumption, <1>q DEF Follows, Ended
    <2>6. byte \in Byte
      BY <2>4, <2>0, <1>q DEF Byte
    <2>7. RingHolds(r)
      BY <2>r DEF RingHolds, InRing
    <2>8. ActiveHolds(r, byte)
      BY <2>r, <2>1, <2>2, <2>0 DEF ActiveHolds
    <2> QED  BY <2>r, <2>5, <2>6, <2>7, <2>8
  <1>2. CASE q.pos = q.size
    <2>0. Ended(last)
      <3>1. CASE q.size = 0
        BY <3>1 DEF ActiveHolds, Ended
      <3>2. CASE q.size # 0
        <4>1. q.size \in 1..q.size /\ IsFrame(q.active, q.size) /\ last = q.active[q.size]
          BY <3>2, <1>2, <1>q DEF ActiveHolds
        <4>2. PICK f \in Frames : q.size = Length[f] /\ q.active[q.size] = <<f, q.size>>
          BY <4>1, <1>w
        <4> QED  BY <4>1, <4>2 DEF Ended
      <3> QED  BY <3>1, <3>2
    <2>s. ASSUME NEW buffer \in Buffer, NEW n, IsFrame(buffer, n),
                 l.active = buffer, l.size = n, l.pos = 0, r.pos = 1,
                 r.active = buffer, r.size = n
          PROVE  byte \in Byte /\ ActiveHolds(r, byte) /\ Follows(byte, last)
      <3>1. n \in 1..FrameMax /\ 1 \in 1..n
        BY <2>s, <1>e, <1>q
      <3>2. PICK f \in Frames : buffer[1] = <<f, 1>> /\ buffer[1] \in Byte
        BY <2>s, <1>w, <3>1
      <3>3. byte = buffer[1]
        BY <2>s
      <3>4. Follows(byte, last)
        BY <3>2, <3>3, <2>0 DEF Follows
      <3>5. ActiveHolds(r, byte)
        BY <2>s, <3>1, <3>3 DEF ActiveHolds
      <3> QED  BY <3>2, <3>3, <3>4, <3>5
    <2>1. CASE q.urgent_size # 0
      <3>0. l = [q EXCEPT !.active = q.urgent, !.size = q.urgent_size, !.urgent_size = 0, !.pos = 0]
        BY <1>2, <2>1 DEF Loaded
      <3>l. /\ l \in Queue
            /\ l.head = q.head /\ l.tail = q.tail /\ l.data = q.data /\ l.length = q.length
            /\ l.active = q.urgent /\ l.size = q.urgent_size /\ l.pos = 0
            /\ l.urgent = q.urgent /\ l.urgent_size = 0
        BY <3>0, <1>q DEF Queue
      <3>h. 0 + 1 \in 0..FrameMax
        BY <1>q
      <3>r. /\ r \in Queue
            /\ r.head = q.head /\ r.tail = q.tail /\ r.data = q.data /\ r.length = q.length
            /\ r.active = q.urgent /\ r.size = q.urgent_size /\ r.pos = 1
            /\ r.urgent = q.urgent /\ r.urgent_size = 0
        <4> HIDE DEF l
        <4> QED  BY <3>l, <3>h DEF Queue
      <3>1. RingHolds(r)
        BY <3>r DEF RingHolds, InRing
      <3>2. byte \in Byte /\ ActiveHolds(r, byte) /\ Follows(byte, last)
        BY <2>s, <2>1, <3>r, <3>l, <1>q
      <3> QED  BY <3>r, <3>1, <3>2
    <2>2. CASE q.urgent_size = 0
      <3>t. q.tail # q.head
        BY <1>2, <2>2 DEF HasWork
      <3>f. InRing(q, q.tail) /\ IsFrame(q.data[q.tail], q.length[q.tail])
        BY <3>t, <1>q, RingEnds DEF RingHolds
      <3>0. l = [q EXCEPT !.active = q.data[q.tail], !.size = q.length[q.tail],
                          !.tail = Following(q.tail), !.pos = 0]
        BY <1>2, <2>2 DEF Loaded
      <3>d. q.data[q.tail] \in Buffer /\ q.length[q.tail] \in 0..FrameMax
        BY <1>q
      <3>l. /\ l \in Queue
            /\ l.head = q.head /\ l.tail = Following(q.tail)
            /\ l.data = q.data /\ l.length = q.length
            /\ l.active = q.data[q.tail] /\ l.size = q.length[q.tail] /\ l.pos = 0
            /\ l.urgent = q.urgent /\ l.urgent_size = q.urgent_size
        BY <3>0, <3>d, <1>q DEF Queue
      <3>h. 0 + 1 \in 0..FrameMax
        BY <1>q
      <3>r. /\ r \in Queue
            /\ r.head = q.head /\ r.tail = Following(q.tail)
            /\ r.data = q.data /\ r.length = q.length
            /\ r.active = q.data[q.tail] /\ r.size = q.length[q.tail] /\ r.pos = 1
            /\ r.urgent = q.urgent /\ r.urgent_size = q.urgent_size
        <4> HIDE DEF l
        <4> QED  BY <3>l, <3>h DEF Queue
      <3>1. RingHolds(r)
        BY <3>r, <3>t, RingShrinks DEF RingHolds
      <3>2. byte \in Byte /\ ActiveHolds(r, byte) /\ Follows(byte, last)
        BY <2>s, <3>f, <3>r, <3>l, <3>d
      <3> QED  BY <3>r, <3>1, <3>2
    <2> QED  BY <2>1, <2>2, <1>q
  <1> QED  BY <1>1, <1>2

\* A handler sends the next byte, or finds the lock held or nothing to send.
LEMMA InterruptKeeps == ASSUME IInv, NEW p \in Ports, Interrupt(p) PROVE IInv'
  <1>u. /\ UNCHANGED <<tx_lock, main>>
        /\ ti[p] /\ ti' = [ti EXCEPT ![p] = FALSE]
        /\ ~busy[p]
    BY DEF IInv, Handshake, Interrupt
  <1>t. /\ tx \in [Ports -> Queue] /\ ti \in [Ports -> BOOLEAN]
        /\ busy \in [Ports -> BOOLEAN] /\ tx_done \in [Ports -> BOOLEAN]
        /\ sbuf \in [Ports -> Byte \union {None}]
    BY DEF IInv, TypeOK
  <1>1. CASE ~(~tx_lock /\ HasWork(tx[p]))
    <2>1. UNCHANGED <<tx, sbuf, busy>> /\ tx_done' = [tx_done EXCEPT ![p] = TRUE]
      BY <1>1 DEF Interrupt, GoIdle
    <2>2. TypeOK'
      BY <2>1, <1>u, <1>t DEF IInv, TypeOK
    <2>3. Gate' /\ CallHolds' /\ Copied'
      BY <2>1, <1>u DEF IInv, Gate, CallHolds, Copied, At, IsUrgent, Target
    <2>4. Handshake' /\ Kicks'
      BY <2>1, <1>u, <1>t DEF IInv, Handshake, Kicks, At
    <2>5. Awake'
      BY <2>1, <1>u, <1>t, <1>1 DEF IInv, Awake, Gate, BeforeKick
    <2>6. Contents'
      BY <2>1, <1>u, ContentsStay DEF IInv
    <2> QED  BY <2>2, <2>3, <2>4, <2>5, <2>6 DEF IInv
  <1>2. CASE ~tx_lock /\ HasWork(tx[p])
    <2> DEFINE q == tx[p]
               l == Loaded(q)
               r == [l EXCEPT !.pos = l.pos + 1]
               byte == l.active[l.pos + 1]
    <2>0. /\ tx' = [tx EXCEPT ![p] = [Loaded(tx[p]) EXCEPT !.pos = @ + 1]]
          /\ sbuf' = [sbuf EXCEPT ![p] = byte]
          /\ busy' = [busy EXCEPT ![p] = TRUE]
          /\ tx_done' = [tx_done EXCEPT ![p] = FALSE]
      BY <1>2 DEF Interrupt, SendByte
    <2>g. ~At("copy") /\ main.pc \notin {"room", "copy", "unlock"}
      BY <1>2 DEF IInv, Gate, At
    <2>c. /\ RingHolds(q) /\ ActiveHolds(q, sbuf[p])
          /\ q.urgent_size # 0 => IsFrame(q.urgent, q.urgent_size)
      BY <2>g DEF IInv, Contents, UrgentHolds, CopyingUrgent
    <2>n. /\ r \in Queue
          /\ byte \in Byte
          /\ RingHolds(r)
          /\ ActiveHolds(r, byte)
          /\ r.urgent = q.urgent /\ r.urgent_size \in {0, q.urgent_size}
      BY <1>2, <2>c, <1>t, NextByte
    <2>p. /\ tx'[p] = r /\ sbuf'[p] = byte
          /\ \A o \in Ports : o # p => tx'[o] = tx[o] /\ sbuf'[o] = sbuf[o]
          /\ tx' \in [Ports -> Queue] /\ sbuf' \in [Ports -> Byte \union {None}]
      BY <2>0, <2>n, <1>t
    <2> HIDE DEF l, r, byte
    <2>2. TypeOK'
      BY <2>0, <2>p, <1>u, <1>t DEF IInv, TypeOK
    <2>3. Gate' /\ CallHolds' /\ Copied'
      BY <2>g, <1>u DEF IInv, Gate, CallHolds, Copied, At
    <2>4. Handshake' /\ Kicks'
      BY <2>0, <1>u, <1>t DEF IInv, Handshake, Kicks, At
    <2>5. Awake'
      BY <2>0, <2>p, <1>u, <1>t DEF IInv, Awake
    <2>6. Contents'
      <3> SUFFICES ASSUME NEW o \in Ports
                   PROVE  RingHolds(tx'[o]) /\ ActiveHolds(tx'[o], sbuf'[o]) /\ UrgentHolds(o)'
        BY DEF Contents
      <3>0. RingHolds(tx[o]) /\ ActiveHolds(tx[o], sbuf[o]) /\ UrgentHolds(o)
        BY DEF IInv, Contents
      <3>1. CASE o # p
        BY <3>0, <3>1, <2>p, <2>g, <1>u DEF UrgentHolds, CopyingUrgent, At
      <3>2. CASE o = p
        <4>1. UrgentHolds(o)'
          BY <3>2, <2>p, <2>n, <2>c DEF UrgentHolds
        <4> QED  BY <4>1, <3>2, <2>p, <2>n
      <3> QED  BY <3>1, <3>2
    <2> QED  BY <2>2, <2>3, <2>4, <2>5, <2>6 DEF IInv
  <1> QED  BY <1>1, <1>2

\* A byte has left: the port asks for the next one.
LEMMA ByteOutKeeps == ASSUME IInv, NEW p \in Ports, ByteOut(p) PROVE IInv'
  <1>u. /\ UNCHANGED <<tx, tx_lock, tx_done, sbuf, main>>
        /\ busy[p] /\ busy' = [busy EXCEPT ![p] = FALSE]
        /\ ti' = [ti EXCEPT ![p] = TRUE] /\ ~tx_done[p]
    BY DEF IInv, Handshake, ByteOut
  <1>t. ti \in [Ports -> BOOLEAN] /\ busy \in [Ports -> BOOLEAN]
    BY DEF IInv, TypeOK
  <1>1. TypeOK'
    BY <1>u, <1>t DEF IInv, TypeOK
  <1>2. Gate' /\ CallHolds' /\ Copied'
    BY <1>u DEF IInv, Gate, CallHolds, Copied, At, IsUrgent, Target
  <1>3. Handshake' /\ Kicks'
    BY <1>u, <1>t DEF IInv, Handshake, Kicks, At
  <1>4. Awake'
    BY <1>u, <1>t DEF IInv, Awake
  <1>5. Contents'
    BY <1>u, ContentsStay DEF IInv
  <1> QED  BY <1>1, <1>2, <1>3, <1>4, <1>5 DEF IInv

\* A step that changes nothing.
LEMMA StutterKeeps == ASSUME IInv, UNCHANGED vars PROVE IInv'
  <1>u. UNCHANGED <<tx, tx_lock, tx_done, ti, busy, sbuf, main>>
    BY DEF vars
  <1>1. TypeOK' /\ Gate' /\ CallHolds' /\ Copied' /\ Handshake' /\ Kicks' /\ Awake'
    BY <1>u DEF IInv, TypeOK, Gate, CallHolds, Copied, Handshake, Kicks, Awake, At, IsUrgent, Target
  <1>2. Contents'
    BY <1>u, ContentsStay DEF IInv
  <1> QED  BY <1>1, <1>2 DEF IInv

\* Every step keeps the invariant.
LEMMA Step == IInv /\ [Next]_vars => IInv'
  <1> SUFFICES ASSUME IInv, [Next]_vars PROVE IInv'
    OBVIOUS
  <1>1. CASE \E p \in Ports : \E f \in Traffic[p] : Send(p, f)
    BY <1>1, SendKeeps
  <1>2. CASE FindRoom
    BY <1>2, FindRoomKeeps
  <1>3. CASE CopyByte
    BY <1>3, CopyByteKeeps
  <1>4. CASE Publish
    BY <1>4, PublishKeeps
  <1>5. CASE Unlock
    BY <1>5, UnlockKeeps
  <1>6. CASE Test(1, "test1", "kick1", "test2") \/ Test(2, "test2", "kick2", "idle")
    BY <1>6, TestKeeps
  <1>7. CASE Kick(1, "kick1", "test2") \/ Kick(2, "kick2", "idle")
    BY <1>7, KickKeeps
  <1>8. CASE \E p \in Ports : Interrupt(p)
    BY <1>8, InterruptKeeps
  <1>9. CASE \E p \in Ports : ByteOut(p)
    BY <1>9, ByteOutKeeps
  <1>10. CASE UNCHANGED vars
    BY <1>10, StutterKeeps
  <1> QED
    BY <1>1, <1>2, <1>3, <1>4, <1>5, <1>6, <1>7, <1>8, <1>9, <1>10 DEF Next, MainStep

-----------------------------------------------------------------------------
(* The theorems. *)

\* The inductive invariant holds of every execution of the two ports.
THEOREM Invariance == Spec => []IInv
  BY Start, Step, PTL DEF Spec

\* Indices stay in the buffers and the ring, whatever is sent.
THEOREM Typing == Spec => []TypeOK
  <1>1. IInv => TypeOK
    BY DEF IInv
  <1> QED  BY <1>1, Invariance, PTL

\* No wake-up is lost although one lock silences both handlers: once a send is
\* over, a port with something to send is sending or about to.
THEOREM Wakeups == Spec => []NoLostWakeup
  <1>1. IInv => NoLostWakeup
    BY DEF IInv, Awake, NoLostWakeup, At, BeforeKick
  <1> QED  BY <1>1, Invariance, PTL

\* No byte is written over one still in the shift register.
THEOREM Overruns == Spec => NoOverrun
  <1>1. IInv /\ [Next]_vars =>
            [\A p \in Ports : Interrupt(p) /\ tx_done'[p] = FALSE => ~busy[p]]_vars
    BY DEF IInv, Handshake, Interrupt
  <1> QED  BY <1>1, Invariance, PTL DEF Spec, NoOverrun

\* Only whole frames leave a port, byte after byte in their order.
THEOREM Frames_are_whole == Spec => WholeFrames
  <1>1. ASSUME IInv, NEW p \in Ports, Interrupt(p), busy'[p]
        PROVE  Follows(sbuf'[p], sbuf[p])
    <2>t. /\ tx \in [Ports -> Queue] /\ sbuf \in [Ports -> Byte \union {None}]
          /\ busy \in [Ports -> BOOLEAN]
      BY <1>1 DEF IInv, TypeOK
    <2>1. ~tx_lock /\ HasWork(tx[p])
      <3>1. ~busy[p]
        BY <1>1 DEF IInv, Handshake, Interrupt
      <3> QED  BY <1>1, <3>1 DEF Interrupt, GoIdle
    <2>2. sbuf' = [sbuf EXCEPT ![p] = Loaded(tx[p]).active[Loaded(tx[p]).pos + 1]]
      BY <1>1, <2>1 DEF Interrupt, SendByte
    <2>3. sbuf'[p] = Loaded(tx[p]).active[Loaded(tx[p]).pos + 1]
      BY <2>2, <2>t
    <2>4. ~At("copy")
      BY <1>1, <2>1 DEF IInv, Gate, At
    <2>5. /\ RingHolds(tx[p]) /\ ActiveHolds(tx[p], sbuf[p])
          /\ tx[p].urgent_size # 0 => IsFrame(tx[p].urgent, tx[p].urgent_size)
      BY <1>1, <2>4 DEF IInv, Contents, UrgentHolds, CopyingUrgent
    <2>6. Follows(Loaded(tx[p]).active[Loaded(tx[p]).pos + 1], sbuf[p])
      BY <2>1, <2>5, <2>t, NextByte
    <2> QED  BY <2>3, <2>6
  <1>2. IInv /\ [Next]_vars =>
            [\A p \in Ports : Interrupt(p) /\ busy'[p] => Follows(sbuf'[p], sbuf[p])]_vars
    BY <1>1
  <1> QED  BY <1>2, Invariance, PTL DEF Spec, WholeFrames

-----------------------------------------------------------------------------
(* The queue in the ring. *)

\* How many frames wait in a ring, and where the k-th of them is.
Count(q) == (q.head + Slots - q.tail) % Slots
Nth(q, k) == (q.tail + k - 1) % Slots
Ring(q) == [k \in 1..Count(q) |-> FrameIn(q.data[Nth(q, k)])]

\* What waits in the ring is in it, and there is always one place free.
LEMMA RingPlaces ==
  ASSUME NEW q \in Queue
  PROVE  /\ Count(q) \in 0..(Slots - 1)
         /\ Count(q) = (IF q.tail <= q.head THEN q.head - q.tail ELSE q.head + Slots - q.tail)
         /\ \A k \in 1..Count(q) :
               /\ Nth(q, k) = (IF q.tail + k - 1 < Slots THEN q.tail + k - 1
                               ELSE q.tail + k - 1 - Slots)
               /\ Nth(q, k) \in Slot /\ InRing(q, Nth(q, k))
  <1>1. q.head \in 0..(Slots - 1) /\ q.tail \in 0..(Slots - 1) /\ Slots \in Nat \ {0, 1}
    BY SizesAssumption DEF Queue, Slot
  <1>2. ASSUME NEW a \in Nat, a < Slots + Slots
        PROVE  a % Slots = IF a < Slots THEN a ELSE a - Slots
    BY <1>1, <1>2
  <1>3. Count(q) = (IF q.tail <= q.head THEN q.head - q.tail ELSE q.head + Slots - q.tail)
    BY <1>1, <1>2 DEF Count
  <1>4. ASSUME NEW k \in 1..Count(q)
        PROVE  Nth(q, k) = (IF q.tail + k - 1 < Slots THEN q.tail + k - 1
                            ELSE q.tail + k - 1 - Slots)
    <2>1. PICK a \in Nat : a = q.tail + k - 1 /\ a < Slots + Slots
      BY <1>1, <1>3
    <2>2. Nth(q, k) = a % Slots
      BY <2>1 DEF Nth
    <2>3. a % Slots = IF a < Slots THEN a ELSE a - Slots
      BY <2>1, <1>2
    <2> QED  BY <2>1, <2>2, <2>3, <1>1, <1>3
  <1>5. ASSUME NEW k \in 1..Count(q)
        PROVE  Nth(q, k) \in Slot /\ InRing(q, Nth(q, k))
    BY <1>1, <1>3, <1>4 DEF Slot, InRing
  <1> QED  BY <1>1, <1>3, <1>4, <1>5

\* The frame in a buffer that holds one.
LEMMA FrameHeld == ASSUME NEW buffer, NEW n, NEW f \in Frames, Whole(buffer, n, f)
                   PROVE  FrameIn(buffer) = f
  BY DEF Whole, FrameIn

\* The ring is a sequence of frames.
LEMMA RingIsQueue ==
  ASSUME NEW q \in Queue, RingHolds(q)
  PROVE  /\ Ring(q) \in Seq(Frames) /\ Len(Ring(q)) = Count(q)
         /\ \A k \in 1..Count(q) : Ring(q)[k] = FrameIn(q.data[Nth(q, k)])
  <1>1. ASSUME NEW k \in 1..Count(q) PROVE FrameIn(q.data[Nth(q, k)]) \in Frames
    BY RingPlaces, FrameHeld DEF RingHolds, IsFrame
  <1>2. Count(q) \in Nat
    BY RingPlaces, SizesAssumption
  <1> QED  BY <1>1, <1>2 DEF Ring

\* Nothing waits where head and tail meet.
LEMMA RingEmpty == ASSUME NEW q \in Queue PROVE Ring(q) = <<>> <=> q.head = q.tail
  <1>1. Count(q) = 0 <=> q.head = q.tail
    BY RingPlaces, SizesAssumption DEF Queue, Slot
  <1>2. Count(q) \in Nat
    BY RingPlaces, SizesAssumption
  <1>3. ASSUME Count(q) = 0 PROVE Ring(q) = <<>>
    BY <1>3 DEF Ring
  <1>4. ASSUME Ring(q) = <<>> PROVE Count(q) = 0
    <2>1. DOMAIN Ring(q) = 1..Count(q)
      BY DEF Ring
    <2> QED  BY <2>1, <1>2, <1>4
  <1> QED  BY <1>1, <1>3, <1>4

\* Two rings with the same frames in the same places are the same queue.
LEMMA RingSame ==
  ASSUME NEW q \in Queue, NEW r \in Queue, r.head = q.head, r.tail = q.tail,
         \A k \in Slot : InRing(q, k) => FrameIn(r.data[k]) = FrameIn(q.data[k])
  PROVE  Ring(r) = Ring(q)
  <1>1. Count(r) = Count(q) /\ \A k \in 1..Count(q) : Nth(r, k) = Nth(q, k)
    BY DEF Count, Nth
  <1>2. ASSUME NEW k \in 1..Count(q)
        PROVE  FrameIn(r.data[Nth(r, k)]) = FrameIn(q.data[Nth(q, k)])
    BY <1>1, RingPlaces
  <1> QED  BY <1>1, <1>2 DEF Ring

\* A published frame is the last of the queue.
LEMMA RingAppends ==
  ASSUME NEW q \in Queue, NEW r \in Queue, RingHolds(q), RingHolds(r),
         Following(q.head) # q.tail,
         r.tail = q.tail, r.head = Following(q.head), r.data = q.data
  PROVE  /\ Count(q) < Slots - 1
         /\ Ring(r) = Append(Ring(q), FrameIn(q.data[q.head]))
  <1>1. q.head \in 0..(Slots - 1) /\ q.tail \in 0..(Slots - 1) /\ Slots \in Nat \ {0, 1}
    BY SizesAssumption DEF Queue, Slot
  <1>2. Count(q) \in Nat /\ Count(q) < Slots - 1 /\ Count(r) = Count(q) + 1
    BY <1>1, RingPlaces DEF Following
  <1>3. Nth(r, Count(r)) = q.head
    BY <1>1, <1>2, RingPlaces DEF Following
  <1>4. \A k \in 1..Count(q) : Nth(r, k) = Nth(q, k)
    BY DEF Nth
  <1>5. /\ Ring(q) \in Seq(Frames) /\ Ring(r) \in Seq(Frames)
        /\ Len(Ring(q)) = Count(q) /\ Len(Ring(r)) = Count(r)
        /\ \A k \in 1..Count(q) : Ring(q)[k] = FrameIn(q.data[Nth(q, k)])
        /\ \A k \in 1..Count(r) : Ring(r)[k] = FrameIn(q.data[Nth(r, k)])
    BY RingIsQueue
  <1>6. FrameIn(q.data[q.head]) \in Frames
    <2>1. Ring(r)[Count(r)] \in Frames /\ Count(r) \in 1..Count(r)
      BY <1>5, <1>2
    <2> QED  BY <2>1, <1>5, <1>3
  <1> DEFINE a == Append(Ring(q), FrameIn(q.data[q.head]))
  <1>7. /\ a \in Seq(Frames) /\ Len(a) = Count(q) + 1
        /\ \A k \in 1..(Count(q) + 1) : a[k] = IF k <= Count(q) THEN Ring(q)[k] ELSE FrameIn(q.data[q.head])
    BY <1>5, <1>6, <1>2
  <1>8. \A k \in 1..Len(Ring(r)) : Ring(r)[k] = a[k]
    BY <1>2, <1>3, <1>4, <1>5, <1>7
  <1> HIDE DEF a
  <1>9. Ring(r) = a
    BY <1>5, <1>7, <1>8, <1>2, SeqEqual
  <1> QED  BY <1>2, <1>9 DEF a

\* A frame is taken at the front of the queue.
LEMMA RingLoses ==
  ASSUME NEW q \in Queue, NEW r \in Queue, RingHolds(q), RingHolds(r),
         q.tail # q.head,
         r.tail = Following(q.tail), r.head = q.head, r.data = q.data
  PROVE  /\ Ring(q) # <<>> /\ Head(Ring(q)) = FrameIn(q.data[q.tail])
         /\ Ring(r) = Tail(Ring(q))
  <1>1. q.head \in 0..(Slots - 1) /\ q.tail \in 0..(Slots - 1) /\ Slots \in Nat \ {0, 1}
    BY SizesAssumption DEF Queue, Slot
  <1>2. Count(r) \in Nat /\ Count(q) = Count(r) + 1
    BY <1>1, RingPlaces DEF Following
  <1>3. Nth(q, 1) = q.tail
    BY <1>1, <1>2, RingPlaces
  <1>4. \A k \in 1..Count(r) : Nth(r, k) = Nth(q, k + 1)
    BY <1>1, <1>2, RingPlaces DEF Following
  <1>5. /\ Ring(q) \in Seq(Frames) /\ Ring(r) \in Seq(Frames)
        /\ Len(Ring(q)) = Count(q) /\ Len(Ring(r)) = Count(r)
        /\ \A k \in 1..Count(q) : Ring(q)[k] = FrameIn(q.data[Nth(q, k)])
        /\ \A k \in 1..Count(r) : Ring(r)[k] = FrameIn(q.data[Nth(r, k)])
    BY RingIsQueue
  <1>6. /\ Ring(q) # <<>> /\ Head(Ring(q)) = Ring(q)[1]
    BY <1>5, <1>2
  <1>7. /\ Tail(Ring(q)) \in Seq(Frames) /\ Len(Tail(Ring(q))) = Count(r)
        /\ \A k \in 1..Count(r) : Tail(Ring(q))[k] = Ring(q)[k + 1]
    BY <1>5, <1>6, <1>2, HeadTailProperties
  <1>8. \A k \in 1..Len(Ring(r)) : Ring(r)[k] = Tail(Ring(q))[k]
    BY <1>2, <1>4, <1>5, <1>7
  <1>9. Ring(r) = Tail(Ring(q))
    BY <1>5, <1>7, <1>8, SeqEqual
  <1>10. 1 \in 1..Count(q)
    BY <1>2
  <1> QED  BY <1>3, <1>5, <1>6, <1>9, <1>10

-----------------------------------------------------------------------------
(* Each port implements TxLink: every step is one of TxLink's or changes nothing
   it knows of. *)

Link(p) == INSTANCE TxLink WITH
    Frames <- Frames, Length <- Length, Capacity <- Slots - 1, None <- None,
    waiting <- Waiting(p), urgent <- Urgent(p), line <- sbuf[p]

LinkStep(p) == [Link(p)!LinkNext]_(Link(p)!linkVars)

\* What waits at a port is what its ring holds.
LEMMA WaitingIsRing == \A p \in Ports : Waiting(p) = Ring(tx[p])
  BY DEF Waiting, Ring, Count, Nth

\* A step that changes neither the queue of a port, nor its line, nor its urgent frame.
LEMMA Stutters ==
  ASSUME NEW p \in Ports, tx'[p] = tx[p], sbuf'[p] = sbuf[p], Urgent(p)' = Urgent(p)
  PROVE  LinkStep(p)
  BY DEF LinkStep, Link!linkVars, Waiting

\* The urgent frame stays as long as queue and copy do.
LEMMA SameUrgent ==
  ASSUME NEW p \in Ports, tx'[p] = tx[p], CopyingUrgent(p)' <=> CopyingUrgent(p),
         CopyingUrgent(p) => main'.frame = main.frame
  PROVE  Urgent(p)' = Urgent(p)
  BY DEF Urgent, CopyingUrgent

\* The steps that touch no queue.
LEMMA MainLinks ==
  ASSUME IInv, IInv', NEW p \in Ports,
         \/ \E o \in Ports : \E f \in Traffic[o] : Send(o, f)
         \/ Unlock
         \/ Test(1, "test1", "kick1", "test2") \/ Test(2, "test2", "kick2", "idle")
         \/ Kick(1, "kick1", "test2") \/ Kick(2, "kick2", "idle")
         \/ \E o \in Ports : ByteOut(o)
         \/ UNCHANGED vars
  PROVE  LinkStep(p)
  <1>1. tx' = tx /\ sbuf' = sbuf
    BY DEF Send, Unlock, Test, Kick, ByteOut, vars
  <1>2. main' = main \/ (~At("copy") /\ ~At("copy")')
    <2>1. main \in Call
      BY DEF IInv, TypeOK
    <2> QED  BY <2>1 DEF Send, Unlock, Test, Kick, ByteOut, vars, At, Goto, Call
  <1>3. (CopyingUrgent(p)' <=> CopyingUrgent(p)) /\ (CopyingUrgent(p) => main'.frame = main.frame)
    BY <1>2 DEF CopyingUrgent, At, IsUrgent
  <1> QED  BY <1>1, <1>3, SameUrgent, Stutters

\* Room for an urgent frame is its acceptance; room in the ring is not yet one.
LEMMA FindRoomLinks == ASSUME IInv, IInv', FindRoom, NEW p \in Ports PROVE LinkStep(p)
  <1>0. /\ main \in Call /\ tx \in [Ports -> Queue] /\ main.port \in Ports
        /\ main.pc = "room" /\ main.frame \in Frames /\ sbuf' = sbuf
        /\ tx' \in [Ports -> Queue]
    BY DEF IInv, TypeOK, FindRoom, At, Call, CallHolds
  <1>1. CASE ~Fits(tx[main.port])
    <2>1. tx' = tx /\ main' = [main EXCEPT !.pc = "unlock"]
      BY <1>1 DEF FindRoom, Goto
    <2>2. ~CopyingUrgent(p) /\ ~CopyingUrgent(p)'
      BY <1>0, <2>1 DEF CopyingUrgent, At, Call
    <2> QED  BY <1>0, <2>1, <2>2, SameUrgent, Stutters
  <1>2. CASE Fits(tx[main.port])
    <2>1. /\ tx' = [tx EXCEPT ![main.port].tail = TailAfter(tx[main.port])]
          /\ main' = [main EXCEPT !.pc = "copy"]
      BY <1>2 DEF FindRoom, Goto
    <2>2. /\ main'.pc = "copy" /\ main'.port = main.port /\ main'.frame = main.frame
          /\ IsUrgent' = IsUrgent /\ ~CopyingUrgent(p)
      BY <1>0, <2>1 DEF Call, IsUrgent, CopyingUrgent, At
    <2>3. CASE p # main.port
      <3>1. tx'[p] = tx[p]
        BY <1>0, <2>1, <2>3
      <3>2. ~CopyingUrgent(p)'
        BY <2>2, <2>3 DEF CopyingUrgent
      <3> QED  BY <1>0, <2>2, <3>1, <3>2, SameUrgent, Stutters
    <2>4. CASE p = main.port
      <3>1. /\ tx'[p].head = tx[p].head /\ tx'[p].data = tx[p].data
            /\ tx'[p].tail = TailAfter(tx[p])
            /\ tx'[p].urgent = tx[p].urgent /\ tx'[p].urgent_size = tx[p].urgent_size
        BY <1>0, <2>1, <2>4 DEF Queue
      <3>2. CASE IsUrgent
        <4>1. Waiting(p)' = <<>>
          <5>1. Ring(tx'[p]) = <<>>
            BY <3>1, <3>2, <1>0, RingEmpty DEF TailAfter
          <5>2. Waiting(p)' = Ring(tx'[p])
            BY DEF Waiting, Ring, Count, Nth
          <5> QED  BY <5>1, <5>2
        <4>2. Urgent(p)' = main.frame
          BY <2>2, <2>4, <3>2 DEF Urgent, At
        <4>3. Link(p)!AcceptUrgent(main.frame)
          BY <4>1, <4>2, <1>0 DEF Link!AcceptUrgent
        <4> QED  BY <4>3, <1>0 DEF LinkStep, Link!LinkNext
      <3>3. CASE ~IsUrgent
        <4>1. Waiting(p)' = Waiting(p)
          BY <3>1, <3>3 DEF Waiting, TailAfter
        <4>2. Urgent(p)' = Urgent(p)
          BY <3>1, <3>3, <2>2 DEF Urgent
        <4> QED  BY <4>1, <4>2, <1>0 DEF LinkStep, Link!linkVars
      <3> QED  BY <3>2, <3>3
    <2> QED  BY <2>3, <2>4
  <1> QED  BY <1>1, <1>2

\* A byte copied to a place nobody reads is no step of the link.
LEMMA CopyByteLinks == ASSUME IInv, IInv', CopyByte, NEW p \in Ports PROVE LinkStep(p)
  <1>0. /\ main \in Call /\ tx \in [Ports -> Queue] /\ main.port \in Ports
        /\ main.pc = "copy" /\ sbuf' = sbuf /\ tx' \in [Ports -> Queue]
        /\ main' = [main EXCEPT !.i = main.i + 1]
    BY DEF IInv, TypeOK, CopyByte, At, Call
  <1>1. /\ main'.pc = "copy" /\ main'.port = main.port /\ main'.frame = main.frame
        /\ IsUrgent' = IsUrgent
    BY <1>0 DEF Call, IsUrgent
  <1>2. CopyingUrgent(p)' <=> CopyingUrgent(p)
    BY <1>0, <1>1 DEF CopyingUrgent, At
  <1>3. CASE p # main.port
    <2>1. tx'[p] = tx[p]
      BY <1>0, <1>3 DEF CopyByte
    <2> QED  BY <1>0, <1>1, <1>2, <2>1, SameUrgent, Stutters
  <1>4. CASE p = main.port /\ IsUrgent
    <2>1. tx'[p].head = tx[p].head /\ tx'[p].tail = tx[p].tail /\ tx'[p].data = tx[p].data
      BY <1>0, <1>4 DEF CopyByte, Queue
    <2>2. Waiting(p)' = Waiting(p)
      BY <2>1 DEF Waiting
    <2>3. Urgent(p)' = Urgent(p)
      BY <1>0, <1>1, <1>4 DEF Urgent, At
    <2> QED  BY <1>0, <2>2, <2>3 DEF LinkStep, Link!linkVars
  <1>5. CASE p = main.port /\ ~IsUrgent
    <2>1. /\ tx'[p].head = tx[p].head /\ tx'[p].tail = tx[p].tail
          /\ tx'[p].urgent = tx[p].urgent /\ tx'[p].urgent_size = tx[p].urgent_size
          /\ \A k \in Slot : k # tx[p].head => tx'[p].data[k] = tx[p].data[k]
      BY <1>0, <1>5 DEF CopyByte, Queue
    <2>2. Ring(tx'[p]) = Ring(tx[p])
      BY <1>0, <2>1, RingSame, RingEnds
    <2>3. Waiting(p)' = Waiting(p)
      <3>1. Waiting(p)' = Ring(tx'[p])
        BY DEF Waiting, Ring, Count, Nth
      <3> QED  BY <3>1, <2>2, WaitingIsRing
    <2>4. Urgent(p)' = Urgent(p)
      BY <1>1, <1>5, <2>1 DEF Urgent
    <2> QED  BY <1>0, <2>3, <2>4 DEF LinkStep, Link!linkVars
  <1> QED  BY <1>3, <1>4, <1>5

\* Publication is the acceptance of a frame of the ring.
LEMMA PublishLinks == ASSUME IInv, IInv', Publish, NEW p \in Ports PROVE LinkStep(p)
  <1> DEFINE n == Length[main.frame]
  <1>0. /\ main \in Call /\ tx \in [Ports -> Queue] /\ main.port \in Ports
        /\ main.pc = "copy" /\ main.frame \in Frames /\ sbuf' = sbuf
        /\ tx' \in [Ports -> Queue] /\ main' = [main EXCEPT !.pc = "unlock"]
        /\ n \in 1..FrameMax /\ main.i = n + 1
        /\ IsUrgent \/ Following(tx[main.port].head) # tx[main.port].tail
    BY FramesAssumption, SizesAssumption DEF IInv, TypeOK, Publish, At, Goto, Call, CallHolds
  <1>1. ~At("copy")'
    BY <1>0 DEF At, Call
  <1>w. Whole(Target, n, main.frame)
    BY <1>0 DEF IInv, Copied, Whole, At
  <1>h. RingHolds(tx[p]) /\ RingHolds(tx'[p])
    BY DEF IInv, Contents
  <1>2. CASE p # main.port
    <2>1. tx'[p] = tx[p]
      BY <1>0, <1>2 DEF Publish
    <2>2. ~CopyingUrgent(p) /\ ~CopyingUrgent(p)'
      BY <1>1, <1>2 DEF CopyingUrgent, At
    <2> QED  BY <1>0, <2>1, <2>2, SameUrgent, Stutters
  <1>3. CASE p = main.port /\ IsUrgent
    <2>1. /\ tx'[p].head = tx[p].head /\ tx'[p].tail = tx[p].tail /\ tx'[p].data = tx[p].data
          /\ tx'[p].urgent = tx[p].urgent /\ tx'[p].urgent_size = n
      BY <1>0, <1>3 DEF Publish, Queue
    <2>2. Waiting(p)' = Waiting(p)
      BY <2>1 DEF Waiting
    <2>3. FrameIn(tx[p].urgent) = main.frame
      BY <1>w, <1>3, <1>0, FrameHeld DEF Target
    <2>4. Urgent(p) = main.frame
      BY <1>0, <1>3 DEF Urgent, At
    <2>5. Urgent(p)' = main.frame
      BY <1>0, <1>1, <2>1, <2>3 DEF Urgent, At
    <2> QED  BY <1>0, <2>2, <2>4, <2>5 DEF LinkStep, Link!linkVars
  <1>4. CASE p = main.port /\ ~IsUrgent
    <2>1. /\ tx'[p].head = Following(tx[p].head) /\ tx'[p].tail = tx[p].tail
          /\ tx'[p].data = tx[p].data
          /\ tx'[p].urgent = tx[p].urgent /\ tx'[p].urgent_size = tx[p].urgent_size
      BY <1>0, <1>4 DEF Publish, Queue
    <2>2. FrameIn(tx[p].data[tx[p].head]) = main.frame
      BY <1>w, <1>4, <1>0, FrameHeld DEF Target
    <2>3. Count(tx[p]) < Slots - 1 /\ Ring(tx'[p]) = Append(Ring(tx[p]), main.frame)
      BY <1>0, <1>4, <1>h, <2>1, <2>2, RingAppends
    <2>4. Waiting(p)' = Append(Waiting(p), main.frame) /\ Len(Waiting(p)) < Slots - 1
      <3>1. Waiting(p)' = Ring(tx'[p])
        BY DEF Waiting, Ring, Count, Nth
      <3>2. Len(Ring(tx[p])) = Count(tx[p])
        BY <1>0, <1>h, RingIsQueue
      <3> QED  BY <3>1, <3>2, <2>3, WaitingIsRing
    <2>5. Urgent(p)' = Urgent(p)
      BY <1>1, <1>4, <2>1 DEF Urgent, At
    <2>6. Link(p)!Accept(main.frame)
      BY <1>0, <2>4, <2>5 DEF Link!Accept
    <2> QED  BY <2>6, <1>0 DEF LinkStep, Link!LinkNext
  <1> QED  BY <1>2, <1>3, <1>4

\* An interrupt goes on with a frame, or starts the urgent or the oldest one.
LEMMA InterruptLinks ==
  ASSUME IInv, IInv', NEW o \in Ports, Interrupt(o), NEW p \in Ports
  PROVE  LinkStep(p)
  <1>0. /\ tx \in [Ports -> Queue] /\ tx' \in [Ports -> Queue] /\ main' = main
        /\ sbuf \in [Ports -> Byte \union {None}]
    BY DEF IInv, TypeOK, Interrupt
  <1>c. CopyingUrgent(p)' <=> CopyingUrgent(p)
    BY <1>0 DEF CopyingUrgent, At, IsUrgent
  <1>1. CASE p # o \/ ~(~tx_lock /\ HasWork(tx[o]))
    <2>1. tx'[p] = tx[p] /\ sbuf'[p] = sbuf[p]
      BY <1>0, <1>1 DEF Interrupt, SendByte, GoIdle
    <2> QED  BY <1>0, <1>c, <2>1, SameUrgent, Stutters
  <1>2. CASE p = o /\ ~tx_lock /\ HasWork(tx[p])
    <2> DEFINE q == tx[p]
               l == Loaded(q)
    <2>0. /\ tx'[p] = [l EXCEPT !.pos = l.pos + 1]
          /\ sbuf'[p] = l.active[l.pos + 1]
      BY <1>0, <1>2 DEF Interrupt, SendByte
    <2>g. ~At("copy") /\ ~At("copy")'
      BY <1>0, <1>2 DEF IInv, Gate, At
    <2>c. /\ RingHolds(q) /\ RingHolds(tx'[p]) /\ ActiveHolds(q, sbuf[p])
          /\ q.urgent_size # 0 => IsFrame(q.urgent, q.urgent_size)
      BY <2>g DEF IInv, Contents, UrgentHolds, CopyingUrgent
    <2>q. /\ q \in Queue /\ q.pos \in Nat /\ q.size \in Nat /\ q.tail \in Slot
          /\ tx'[p] \in Queue
      BY <1>0, SizesAssumption DEF Queue
    <2>u. Urgent(p) = (IF q.urgent_size # 0 THEN FrameIn(q.urgent) ELSE None)
      BY <2>g DEF Urgent
    <2>v. Urgent(p)' = (IF tx'[p].urgent_size # 0 THEN FrameIn(tx'[p].urgent) ELSE None)
      BY <2>g DEF Urgent
    <2>w. Waiting(p) = Ring(q) /\ Waiting(p)' = Ring(tx'[p])
      BY DEF Waiting, Ring, Count, Nth
    <2>1. CASE q.pos # q.size
      <3>1. /\ tx'[p].head = q.head /\ tx'[p].tail = q.tail /\ tx'[p].data = q.data
            /\ tx'[p].urgent = q.urgent /\ tx'[p].urgent_size = q.urgent_size
            /\ sbuf'[p] = q.active[q.pos + 1]
        BY <2>0, <2>1, <2>q DEF Loaded, Queue
      <3>2. PICK f \in Frames : Whole(q.active, q.size, f) /\ q.pos \in 1..q.size
                                /\ sbuf[p] = q.active[q.pos]
        BY <2>1, <2>c DEF ActiveHolds, IsFrame
      <3>3. /\ sbuf[p] = <<f, q.pos>> /\ sbuf'[p] = <<f, q.pos + 1>> /\ q.pos < Length[f]
        BY <3>1, <3>2, <2>1, <2>q DEF Whole
      <3>4. sbuf[p] # None
        BY <3>3, <2>q, NoneAssumption
      <3>5. Waiting(p)' = Waiting(p) /\ Urgent(p)' = Urgent(p)
        BY <3>1, <2>u, <2>v DEF Waiting
      <3>6. Link(p)!Continue
        BY <3>3, <3>4, <3>5 DEF Link!Continue, Link!MidFrame
      <3> QED  BY <3>6 DEF LinkStep, Link!LinkNext
    <2>2. CASE q.pos = q.size
      <3>m. ~Link(p)!MidFrame
        <4>1. CASE q.size = 0
          BY <4>1, <2>c DEF ActiveHolds, Link!MidFrame
        <4>2. CASE q.size # 0
          <5>1. PICK f \in Frames : Whole(q.active, q.size, f) /\ q.pos \in 1..q.size
                                    /\ sbuf[p] = q.active[q.pos]
            BY <4>2, <2>c DEF ActiveHolds, IsFrame
          <5>2. sbuf[p] = <<f, Length[f]>> /\ Length[f] \in Nat
            BY <5>1, <2>2, <2>q DEF Whole
          <5> QED  BY <5>2 DEF Link!MidFrame
        <4> QED  BY <4>1, <4>2
      <3>1. CASE q.urgent_size # 0
        <4>1. l = [q EXCEPT !.active = q.urgent, !.size = q.urgent_size, !.urgent_size = 0, !.pos = 0]
          BY <2>2, <3>1 DEF Loaded
        <4>2. /\ tx'[p].head = q.head /\ tx'[p].tail = q.tail /\ tx'[p].data = q.data
              /\ tx'[p].urgent_size = 0
              /\ sbuf'[p] = q.urgent[1]
          BY <2>0, <4>1, <2>q DEF Queue
        <4>3. PICK f \in Frames : Whole(q.urgent, q.urgent_size, f)
          BY <3>1, <2>c DEF IsFrame
        <4>4. sbuf'[p] = <<f, 1>> /\ Urgent(p) = f /\ Urgent(p)' = None
          BY <4>2, <4>3, <3>1, <2>u, <2>v, FrameHeld DEF Whole
        <4>5. f # None
          BY NoneAssumption
        <4>6. Waiting(p)' = Waiting(p)
          BY <4>2 DEF Waiting
        <4>7. Link(p)!StartUrgent
          BY <3>m, <4>4, <4>5, <4>6 DEF Link!StartUrgent
        <4> QED  BY <4>7 DEF LinkStep, Link!LinkNext
      <3>2. CASE q.urgent_size = 0
        <4>t. q.tail # q.head
          BY <1>2, <2>2, <3>2 DEF HasWork
        <4>1. l = [q EXCEPT !.active = q.data[q.tail], !.size = q.length[q.tail],
                            !.tail = Following(q.tail), !.pos = 0]
          BY <2>2, <3>2 DEF Loaded
        <4>2. /\ tx'[p].head = q.head /\ tx'[p].tail = Following(q.tail)
              /\ tx'[p].data = q.data /\ tx'[p].urgent_size = 0
              /\ sbuf'[p] = q.data[q.tail][1]
          BY <2>0, <4>1, <2>q, <3>2 DEF Queue
        <4>3. PICK f \in Frames : Whole(q.data[q.tail], q.length[q.tail], f)
          BY <4>t, <2>q, <2>c, RingEnds DEF RingHolds, IsFrame
        <4>4. sbuf'[p] = <<f, 1>> /\ FrameIn(q.data[q.tail]) = f
          BY <4>2, <4>3, FrameHeld DEF Whole
        <4>5. Urgent(p) = None /\ Urgent(p)' = None
          BY <3>2, <4>2, <2>u, <2>v
        <4>6. /\ Ring(q) # <<>> /\ Head(Ring(q)) = f /\ Ring(tx'[p]) = Tail(Ring(q))
          BY <4>t, <4>2, <4>4, <2>q, <2>c, RingLoses
        <4>7. Link(p)!StartWaiting
          BY <3>m, <4>4, <4>5, <4>6, <2>w DEF Link!StartWaiting
        <4> QED  BY <4>7 DEF LinkStep, Link!LinkNext
      <3> QED  BY <3>1, <3>2, <2>q
    <2> QED  BY <2>1, <2>2
  <1> QED  BY <1>1, <1>2

\* Every step of the two ports, seen from one of them.
LEMMA StepLinks == ASSUME IInv, IInv', [Next]_vars, NEW p \in Ports PROVE LinkStep(p)
  BY MainLinks, FindRoomLinks, CopyByteLinks, PublishLinks, InterruptLinks DEF Next, MainStep

\* The link begins empty.
LEMMA StartLinks == ASSUME Init, NEW p \in Ports PROVE Link(p)!LinkInit
  <1>1. EmptyQueue \in Queue
    BY SizesAssumption DEF EmptyQueue, Queue, Buffer, Blank, Slot
  <1>2. Waiting(p) = <<>>
    BY <1>1, RingEmpty, WaitingIsRing DEF Init, EmptyQueue
  <1> QED  BY <1>2 DEF Init, EmptyQueue, Urgent, At, Link!LinkInit

\* runtime.h: each port keeps whole frames in their order, one STOP frame before the
\* others, and never more than the ring is made for.
THEOREM Ports_are_links == Spec => PortsAreLinks
  <1>1. Init => Link1!LinkInit /\ Link2!LinkInit
    BY StartLinks DEF Link!LinkInit, Link1!LinkInit, Link2!LinkInit
  <1>2. IInv /\ IInv' /\ [Next]_vars => [Link1!LinkNext]_(Link1!linkVars)
    <2>1. IInv /\ IInv' /\ [Next]_vars => LinkStep(1)
      BY StepLinks
    <2> QED  BY <2>1 DEF LinkStep, Link!LinkNext, Link!Accept, Link!AcceptUrgent, Link!Continue,
                Link!StartUrgent, Link!StartWaiting, Link!MidFrame, Link!linkVars,
                Link1!LinkNext, Link1!Accept, Link1!AcceptUrgent, Link1!Continue,
                Link1!StartUrgent, Link1!StartWaiting, Link1!MidFrame, Link1!linkVars
  <1>3. IInv /\ IInv' /\ [Next]_vars => [Link2!LinkNext]_(Link2!linkVars)
    <2>1. IInv /\ IInv' /\ [Next]_vars => LinkStep(2)
      BY StepLinks
    <2> QED  BY <2>1 DEF LinkStep, Link!LinkNext, Link!Accept, Link!AcceptUrgent, Link!Continue,
                Link!StartUrgent, Link!StartWaiting, Link!MidFrame, Link!linkVars,
                Link2!LinkNext, Link2!Accept, Link2!AcceptUrgent, Link2!Continue,
                Link2!StartUrgent, Link2!StartWaiting, Link2!MidFrame, Link2!linkVars
  <1> QED  BY <1>1, <1>2, <1>3, Invariance, PTL
           DEF Spec, PortsAreLinks, Link1!LinkSpec, Link2!LinkSpec
=============================================================================
