------------------------------- MODULE UartTx -------------------------------
(***************************************************************************)
(* The transmit side of the two serial ports of the STC board              *)
(* (firmware/stc/src/runtime.c and hal.c): a ring of waiting frames and a  *)
(* reserved urgent slot per port, filled by the main loop and emptied byte *)
(* by byte by the transmit interrupts, with one flag, tx_lock, shared by   *)
(* both ports to keep the interrupts out while a frame is copied.          *)
(*                                                                         *)
(* A step of the main loop is one access to state an interrupt can see; an *)
(* interrupt handler is one step, since both have the same priority and    *)
(* only the display interrupt, which touches none of this, preempts them.  *)
(* The receive half of the handlers and the dropped counters, which are    *)
(* only displayed, are left out.                                           *)
(***************************************************************************)
EXTENDS Naturals, Sequences

CONSTANTS
    Frames,     \* the frames the program may send
    Length,     \* how many bytes each has
    FrameMax,   \* TX_FRAME_MAX
    Slots,      \* TX_SLOTS, a power of two
    Stops,      \* the frames sent as urgent: those of type MSG_STOP
    Traffic,    \* the frames sent on each port
    None        \* memory never written

Ports == {1, 2}
Slot == 0..(Slots - 1)

ASSUME FramesAssumption ==
    /\ Length \in [Frames -> Nat]
    /\ Stops \subseteq Frames
    /\ Traffic \in [Ports -> SUBSET Frames]
ASSUME SizesAssumption == FrameMax \in Nat \ {0} /\ Slots \in Nat \ {0, 1}
ASSUME NoneAssumption == None \notin Frames \union (Frames \X Nat)

VARIABLES
    tx,         \* tx1 and tx2
    tx_lock,
    tx_done,    \* uart1_tx_done and uart2_tx_done
    ti,         \* TI and bit 1 of S2CON: the transmit interrupt is requested
    busy,       \* the shift register holds a byte not yet on the line
    sbuf,       \* the byte last written to SBUF and S2BUF
    main        \* where the main loop is in hal_uart1_send or hal_uart2_write

vars == <<tx, tx_lock, tx_done, ti, busy, sbuf, main>>

Byte == Frames \X Nat
Buffer == [1..FrameMax -> Byte \union {None}]
Queue == [head : Slot, tail : Slot, data : [Slot -> Buffer],
          length : [Slot -> 0..FrameMax],
          active : Buffer, pos : 0..FrameMax, size : 0..FrameMax,
          urgent : Buffer, urgent_size : 0..FrameMax]
Steps == {"idle", "room", "copy", "unlock", "test1", "kick1", "test2", "kick2"}
Call == [pc : Steps, port : Ports, frame : Frames \union {None}, i : 1..(FrameMax + 1)]

TypeOK ==
    /\ tx \in [Ports -> Queue]
    /\ tx_lock \in BOOLEAN
    /\ tx_done \in [Ports -> BOOLEAN]
    /\ ti \in [Ports -> BOOLEAN]
    /\ busy \in [Ports -> BOOLEAN]
    /\ sbuf \in [Ports -> Byte \union {None}]
    /\ main \in Call

Blank == [i \in 1..FrameMax |-> None]
EmptyQueue ==
    [head |-> 0, tail |-> 0, data |-> [s \in Slot |-> Blank], length |-> [s \in Slot |-> 0],
     active |-> Blank, pos |-> 0, size |-> 0, urgent |-> Blank, urgent_size |-> 0]

Init ==
    /\ tx = [p \in Ports |-> EmptyQueue]
    /\ tx_lock = FALSE
    /\ tx_done = [p \in Ports |-> TRUE]
    /\ ti = [p \in Ports |-> FALSE]
    /\ busy = [p \in Ports |-> FALSE]
    /\ sbuf = [p \in Ports |-> None]
    /\ main = [pc |-> "idle", port |-> 1, frame |-> None, i |-> 1]

-----------------------------------------------------------------------------
(* The main loop: hal_uart1_send and hal_uart2_write with tx_enqueue. *)

At(step) == main.pc = step
Goto(step) == main' = [main EXCEPT !.pc = step]

\* Mutant: the mask is forgotten.
FollowingUnmasked(slot) == slot + 1

\* (slot + 1) & (TX_SLOTS - 1)
Following(slot) == IF slot + 1 = Slots THEN 0 ELSE slot + 1

Locked == TRUE

\* Whatever leads from one send to the next takes far longer than a requested
\* interrupt waits, so none is requested when a send begins.
Send(p, f) ==
    /\ At("idle")
    /\ \A port \in Ports : ~ti[port]
    /\ main' = [pc |-> "room", port |-> p, frame |-> f, i |-> 1]
    /\ tx_lock' = Locked
    /\ UNCHANGED <<tx, tx_done, ti, busy, sbuf>>

\* Only UART1 carries STOP frames; hal_uart2_write never asks for urgency.
IsUrgent == main.port = 1 /\ main.frame \in Stops

\* Mutant: a full ring is written over.
FitsAlways(q) == Length[main.frame] \in 1..FrameMax

Fits(q) ==
    /\ Length[main.frame] \in 1..FrameMax
    /\ IsUrgent \/ Following(q.head) # q.tail

\* An urgent frame empties the ring: q->tail = q->head.
TailAfter(q) == IF IsUrgent THEN q.head ELSE q.tail

\* Mutant: a send to a full port waits for room, with the lock held.
SpinForRoom ==
    /\ At("room")
    /\ IF Fits(tx[main.port])
       THEN tx' = [tx EXCEPT ![main.port].tail = TailAfter(tx[main.port])] /\ Goto("copy")
       ELSE UNCHANGED <<tx, main>>
    /\ UNCHANGED <<tx_lock, tx_done, ti, busy, sbuf>>

FindRoom ==
    /\ At("room")
    /\ IF Fits(tx[main.port])
       THEN tx' = [tx EXCEPT ![main.port].tail = TailAfter(tx[main.port])] /\ Goto("copy")
       ELSE UNCHANGED tx /\ Goto("unlock")
    /\ UNCHANGED <<tx_lock, tx_done, ti, busy, sbuf>>

CopyByte ==
    /\ At("copy")
    /\ main.i <= Length[main.frame]
    /\ LET byte == <<main.frame, main.i>>
       IN tx' = IF IsUrgent
                THEN [tx EXCEPT ![main.port].urgent[main.i] = byte]
                ELSE [tx EXCEPT ![main.port].data[tx[main.port].head][main.i] = byte]
    /\ main' = [main EXCEPT !.i = @ + 1]
    /\ UNCHANGED <<tx_lock, tx_done, ti, busy, sbuf>>

Publish ==
    /\ At("copy")
    /\ main.i > Length[main.frame]
    /\ LET q == tx[main.port]
           n == Length[main.frame]
       IN tx' = [tx EXCEPT ![main.port] =
                   IF IsUrgent THEN [q EXCEPT !.urgent_size = n]
                   ELSE [q EXCEPT !.length[q.head] = n, !.head = Following(q.head)]]
    /\ Goto("unlock")
    /\ UNCHANGED <<tx_lock, tx_done, ti, busy, sbuf>>

Unlock ==
    /\ At("unlock")
    /\ tx_lock' = FALSE
    /\ Goto("test1")
    /\ UNCHANGED <<tx, tx_done, ti, busy, sbuf>>

\* Mutants: each function looks at its own port only; the flag is not tested.
OwnPortDone(p) == tx_done[p] /\ p = main.port
AnyTime(p) == TRUE

\* if(uart1_tx_done) TI=1; if(uart2_tx_done) S2CON|=0x02; - for both ports,
\* whichever was written to, since the lock keeps both handlers out.
MustKick(p) == tx_done[p]

Test(p, step, kick, next) ==
    /\ At(step)
    /\ Goto(IF MustKick(p) THEN kick ELSE next)
    /\ UNCHANGED <<tx, tx_lock, tx_done, ti, busy, sbuf>>

Kick(p, step, next) ==
    /\ At(step)
    /\ ti' = [ti EXCEPT ![p] = TRUE]
    /\ Goto(next)
    /\ UNCHANGED <<tx, tx_lock, tx_done, busy, sbuf>>

MainStep ==
    \/ FindRoom \/ CopyByte \/ Publish \/ Unlock
    \/ Test(1, "test1", "kick1", "test2") \/ Kick(1, "kick1", "test2")
    \/ Test(2, "test2", "kick2", "idle") \/ Kick(2, "kick2", "idle")

-----------------------------------------------------------------------------
(* The transmit interrupts and the hardware. *)

\* tx_next has something to return.
HasWork(q) == q.pos # q.size \/ q.urgent_size # 0 \/ q.tail # q.head

\* tx_next up to its last line: the queue with an unfinished frame in active.
\* (Bytes past size are never read.)
Loaded(q) ==
    IF q.pos # q.size THEN q
    ELSE IF q.urgent_size # 0
    THEN [q EXCEPT !.active = q.urgent, !.size = q.urgent_size, !.urgent_size = 0, !.pos = 0]
    ELSE [q EXCEPT !.active = q.data[q.tail], !.size = q.length[q.tail],
                   !.tail = Following(q.tail), !.pos = 0]

\* The rest of the handlers' "if (TI)": a byte into SBUF.
SendByte(p) ==
    LET q == Loaded(tx[p])
    IN /\ tx' = [tx EXCEPT ![p] = [q EXCEPT !.pos = @ + 1]]
       /\ sbuf' = [sbuf EXCEPT ![p] = q.active[q.pos + 1]]
       /\ busy' = [busy EXCEPT ![p] = TRUE]
       /\ tx_done' = [tx_done EXCEPT ![p] = FALSE]

GoIdle(p) ==
    /\ tx_done' = [tx_done EXCEPT ![p] = TRUE]
    /\ UNCHANGED <<tx, sbuf, busy>>

Interrupt(p) ==
    /\ ti[p]
    /\ ti' = [ti EXCEPT ![p] = FALSE]
    /\ IF ~tx_lock /\ HasWork(tx[p]) THEN SendByte(p) ELSE GoIdle(p)
    /\ UNCHANGED <<tx_lock, main>>

ByteOut(p) ==
    /\ busy[p]
    /\ busy' = [busy EXCEPT ![p] = FALSE]
    /\ ti' = [ti EXCEPT ![p] = TRUE]
    /\ UNCHANGED <<tx, tx_lock, tx_done, sbuf, main>>

Next ==
    \/ \E p \in Ports : \E f \in Traffic[p] : Send(p, f)
    \/ MainStep
    \/ \E p \in Ports : Interrupt(p) \/ ByteOut(p)

Spec == Init /\ [][Next]_vars

\* A send that has begun goes on, a requested interrupt is taken, a byte takes
\* a bounded time; nothing obliges the program to send.
FairSpec ==
    /\ Spec
    /\ WF_vars(MainStep)
    /\ \A p \in Ports : WF_vars(Interrupt(p)) /\ WF_vars(ByteOut(p))

-----------------------------------------------------------------------------
(* Properties. *)

\* With the main loop out of the send functions, a port with something to send
\* has a byte on the line or its interrupt requested.  Nothing else would ever
\* start it again before the next send.
NoLostWakeup ==
    \A p \in Ports : At("idle") /\ HasWork(tx[p]) => busy[p] \/ ti[p]

\* A handler never writes to a shift register that still holds a byte, although
\* the main loop requests interrupts that no finished byte stands behind.
NoOverrun ==
    [][\A p \in Ports : Interrupt(p) /\ tx_done'[p] = FALSE => ~busy[p]]_vars

\* Bytes leave a port as whole frames: each is the next byte of the frame before
\* it or, after the last byte of that frame, the first of another.  No half-copied
\* slot and no half-overwritten urgent frame reaches the line.
Ended(byte) == byte = None \/ byte[2] = Length[byte[1]]
Follows(byte, last) ==
    IF Ended(last) THEN byte \in Frames \X {1}
    ELSE byte = <<last[1], last[2] + 1>>
WholeFrames ==
    [][\A p \in Ports : Interrupt(p) /\ busy'[p] => Follows(sbuf'[p], sbuf[p])]_vars

\* A port never comes to rest with something left to send: bytes keep going out.
KeepsSending ==
    \A p \in Ports :
        \/ []<>(~HasWork(tx[p]))
        \/ []<><<Interrupt(p) /\ busy'[p]>>_vars

-----------------------------------------------------------------------------
(* Each port implements TxLink. *)

\* The frame a buffer holds, told by its first byte.
FrameIn(buffer) == buffer[1][1]

\* What waits in the ring from tail to head, oldest first.
Waiting(p) ==
    LET q == tx[p]
    IN [k \in 1..((q.head + Slots - q.tail) % Slots) |->
            FrameIn(q.data[(q.tail + k - 1) % Slots])]

\* An urgent frame counts as accepted when it empties the ring: the lock is held
\* and it has only to be copied.
Urgent(p) ==
    IF At("copy") /\ main.port = p /\ IsUrgent THEN main.frame
    ELSE IF tx[p].urgent_size # 0 THEN FrameIn(tx[p].urgent) ELSE None

Link1 == INSTANCE TxLink WITH
    Frames <- Frames, Length <- Length, Capacity <- Slots - 1, None <- None,
    waiting <- Waiting(1), urgent <- Urgent(1), line <- sbuf[1]
Link2 == INSTANCE TxLink WITH
    Frames <- Frames, Length <- Length, Capacity <- Slots - 1, None <- None,
    waiting <- Waiting(2), urgent <- Urgent(2), line <- sbuf[2]

\* runtime.h: "One active frame, three waiting frames, and a reserved urgent
\* STOP frame"; every accepted frame goes out whole and in order, except those a
\* STOP frame withdrew before they started.
PortsAreLinks == Link1!LinkSpec /\ Link2!LinkSpec
=============================================================================
