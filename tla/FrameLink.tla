------------------------------ MODULE FrameLink ------------------------------
(***************************************************************************)
(* How frames come out of a serial line again.  The STC board takes bytes  *)
(* from a receive ring filled by an interrupt (hal.c) and parses them one  *)
(* by one, giving up a broken frame with all it has read of it             *)
(* (protocol.c).  The bridge keeps what it has read and looks for the next *)
(* header inside a broken frame, too (protocol.py, FrameParser).           *)
(*                                                                         *)
(* The two directions do not touch each other: a behaviour is about one of *)
(* them.  A checksum is taken to tell the frames that were sent from       *)
(* everything else.                                                        *)
(***************************************************************************)
EXTENDS Integers, Sequences, SequencesExt

CONSTANTS
    Frames,        \* the frames that may be sent, as sequences of bytes
    Noise,         \* the bytes a disturbance may put on the line
    MAX_PAYLOAD,
    UART_RX_SIZE,  \* size of the receive ring, a power of two
    MaxUnread,     \* bound: how many bytes the bridge lets pile up
    MaxFrames,     \* bound: how many frames are sent
    MaxFaults      \* bound: how many bytes are disturbed

AA == 170
V55 == 85
Bytes == 0..255
Overhead == 8      \* header, version, type, number, length, two bytes of check

ASSUME FramesAssumption ==
    \A frame \in Frames :
        /\ frame \in Seq(Bytes)
        /\ Len(frame) >= Overhead
        /\ frame[1] = AA /\ frame[2] = V55
        /\ frame[6] <= MAX_PAYLOAD /\ Len(frame) = Overhead + frame[6]
ASSUME NoiseAssumption == Noise \subseteq Bytes
ASSUME SizesAssumption ==
    /\ UART_RX_SIZE \in Nat \ {0, 1} /\ MAX_PAYLOAD \in Nat
    /\ MaxUnread \in Nat /\ MaxFrames \in Nat /\ MaxFaults \in Nat

VARIABLES
    receiver,   \* whose parser this behaviour is about: "board" or "bridge"
    rest,       \* the bytes of the frame being sent that are not on the line yet
    waiting,    \* bytes received and not parsed: the ring, or the port's buffer
    state,      \* board: parser_state
    got,        \* board: what the parser has of a frame; bridge: _buffer
    sent,       \* history: the frames sent
    hurt,       \* history: the frame being sent was disturbed
    calm,       \* history: bytes of whole frames since the last disturbance
    intact,     \* history: the frames that arrived undisturbed
    received,   \* history: the frames the parser returned
    faults      \* how many bytes were disturbed

line == <<rest, waiting>>
parser == <<state, got>>
history == <<sent, hurt, calm, intact, received, faults>>
vars == <<receiver, line, parser, history>>

TypeOK ==
    /\ receiver \in {"board", "bridge"}
    /\ rest \in Seq(Bytes)
    /\ waiting \in Seq(Bytes)
    /\ receiver = "board" => Len(waiting) < UART_RX_SIZE
    /\ state \in {"aa", "55", "head", "payload", "crc"}
    /\ got \in Seq(Bytes)
    /\ Len(got) < Overhead + MAX_PAYLOAD
    /\ sent \in Seq(Frames) /\ intact \in Seq(Frames) /\ received \in Seq(Frames)
    /\ hurt \in BOOLEAN
    /\ calm \in Nat
    /\ faults \in 0..MaxFaults

Init ==
    /\ receiver \in {"board", "bridge"}
    /\ rest = <<>> /\ waiting = <<>>
    /\ state = "aa" /\ got = <<>>
    /\ sent = <<>> /\ hurt = FALSE /\ calm = 0
    /\ intact = <<>> /\ received = <<>> /\ faults = 0

-----------------------------------------------------------------------------
(* The line. *)

\* protocol_send or encode_frame.  A number in each frame tells it from others.
Send(frame) ==
    /\ rest = <<>>
    /\ Len(sent) < MaxFrames
    /\ \A i \in DOMAIN sent : sent[i] # frame
    /\ rest' = frame
    /\ sent' = Append(sent, frame)
    /\ hurt' = FALSE
    /\ UNCHANGED <<receiver, waiting, parser, calm, intact, received, faults>>

\* Mutant: the ring is taken for full one byte too late.
RoomForOneMore == Len(waiting) < UART_RX_SIZE

\* uart1_isr keeps one place of the ring free; the bridge has the system's buffer.
HasRoom == Len(waiting) < IF receiver = "board" THEN UART_RX_SIZE - 1 ELSE MaxUnread

Disturbed == faults < MaxFaults /\ faults' = faults + 1

\* Nothing behind its own header looks like one.
Plain(frame) == \A i \in 2..(Len(frame) - 1) : frame[i] # AA \/ frame[i + 1] # V55

\* The last byte of an undisturbed frame is in.
Arrived ==
    IF Len(rest) > 1 \/ hurt THEN UNCHANGED <<calm, intact>>
    ELSE /\ intact' = Append(intact, Last(sent))
         /\ calm' = IF Plain(Last(sent)) THEN calm + Len(Last(sent)) ELSE 0

ByteIn ==
    /\ rest # <<>>
    /\ HasRoom
    /\ waiting' = Append(waiting, Head(rest))
    /\ rest' = Tail(rest)
    /\ Arrived
    /\ UNCHANGED <<receiver, parser, sent, hurt, received, faults>>

\* The line loses a byte, or the interrupt finds the ring full (uart1_lost).
ByteLost ==
    /\ rest # <<>>
    /\ Disturbed
    /\ rest' = Tail(rest)
    /\ hurt' = TRUE /\ calm' = 0
    /\ UNCHANGED <<receiver, waiting, parser, sent, intact, received>>

\* Another byte comes instead of the one sent, or while nothing is sent.
ByteWrong(byte) ==
    /\ HasRoom
    /\ Disturbed
    /\ rest # <<>> => byte # Head(rest)
    /\ waiting' = Append(waiting, byte)
    /\ rest' = IF rest = <<>> THEN rest ELSE Tail(rest)
    /\ hurt' = TRUE /\ calm' = 0
    /\ UNCHANGED <<receiver, parser, sent, intact, received>>

-----------------------------------------------------------------------------
(* The board: protocol_poll, one byte of the ring.  Between two bytes the  *)
(* interrupt may put more into the ring, and after a frame the main loop   *)
(* does whatever else it has to do.                                        *)

\* Mutant: any length is believed.
AnyLength(length) == IF length = 0 THEN "crc" ELSE "payload"

AfterLength(length) ==
    IF length > MAX_PAYLOAD THEN "aa" ELSE IF length = 0 THEN "crc" ELSE "payload"

\* The state after a byte was read in this one; frame holds the bytes after 55.
StateAfter(byte, frame) ==
    CASE state = "aa" -> IF byte = AA THEN "55" ELSE "aa"
      [] state = "55" -> IF byte = V55 THEN "head" ELSE IF byte = AA THEN "55" ELSE "aa"
      [] state = "head" -> IF Len(frame) < 4 THEN "head" ELSE AfterLength(byte)
      [] state = "payload" -> IF Len(frame) < 4 + frame[4] THEN "payload" ELSE "crc"
      [] state = "crc" -> IF Len(frame) < 4 + frame[4] + 2 THEN "crc" ELSE "aa"

Poll ==
    LET byte == Head(waiting)
        frame == IF state \in {"aa", "55"} THEN <<>> ELSE Append(got, byte)
        whole == <<AA, V55>> \o frame
        next == StateAfter(byte, frame)
    IN /\ receiver = "board"
       /\ waiting # <<>>
       /\ waiting' = Tail(waiting)
       /\ state' = next
       /\ got' = IF next \in {"aa", "55"} THEN <<>> ELSE frame
       /\ received' = IF state = "crc" /\ next = "aa" /\ whole \in Frames
                      THEN Append(received, whole) ELSE received
       /\ UNCHANGED <<receiver, rest, sent, hurt, calm, intact, faults>>

-----------------------------------------------------------------------------
(* The bridge: FrameParser.feed. *)

\* Mutant: the search begins at the end.
LastHeaderAt(buffer) ==
    LET at == {i \in 1..(Len(buffer) - 1) : buffer[i] = AA /\ buffer[i + 1] = V55}
    IN IF at = {} THEN 0 ELSE CHOOSE i \in at : \A j \in at : i >= j

\* Where the first header begins, 0 if there is none.
HeaderAt(buffer) ==
    LET at == {i \in 1..(Len(buffer) - 1) : buffer[i] = AA /\ buffer[i + 1] = V55}
    IN IF at = {} THEN 0 ELSE CHOOSE i \in at : \A j \in at : i <= j

\* Mutant: a frame with a wrong check is thrown away with all its bytes.
WithoutFrame(buffer) == SubSeq(buffer, Overhead + buffer[6] + 1, Len(buffer))

\* A false header: only its first byte goes, the rest is searched again.
WithoutFalseHeader(buffer) == Tail(buffer)

\* The loop of feed: what is left in the buffer, and the frames that came out.
Fed[buffer \in Seq(Bytes)] ==
    LET at == HeaderAt(buffer)
        size == Overhead + buffer[6]
        frame == SubSeq(buffer, 1, size)
        after == SubSeq(buffer, size + 1, Len(buffer))
    IN CASE at = 0 ->
              [left |-> IF buffer # <<>> /\ Last(buffer) = AA THEN <<AA>> ELSE <<>>,
               frames |-> <<>>]
         [] at > 1 -> Fed[SubSeq(buffer, at, Len(buffer))]
         [] at = 1 /\ Len(buffer) < Overhead -> [left |-> buffer, frames |-> <<>>]
         [] at = 1 /\ Len(buffer) >= Overhead /\ buffer[6] > MAX_PAYLOAD ->
              Fed[WithoutFalseHeader(buffer)]
         [] at = 1 /\ Len(buffer) >= Overhead /\ buffer[6] <= MAX_PAYLOAD ->
              IF Len(buffer) < size THEN [left |-> buffer, frames |-> <<>>]
              ELSE IF frame \in Frames
              THEN [left |-> Fed[after].left, frames |-> <<frame>> \o Fed[after].frames]
              ELSE Fed[WithoutFalseHeader(buffer)]

\* read(in_waiting or 1) and feed.
Feed ==
    LET fed == Fed[got \o waiting]
    IN /\ receiver = "bridge"
       /\ waiting # <<>>
       /\ waiting' = <<>>
       /\ got' = fed.left
       /\ received' = received \o fed.frames
       /\ UNCHANGED <<receiver, rest, state, sent, hurt, calm, intact, faults>>

Next ==
    \/ \E frame \in Frames : Send(frame)
    \/ ByteIn \/ ByteLost \/ \E byte \in Noise : ByteWrong(byte)
    \/ Poll \/ Feed

Spec == Init /\ [][Next]_vars

-----------------------------------------------------------------------------
(* Properties. *)

Parsed == rest = <<>> /\ waiting = <<>>

\* docs/stc-code-and-communications.md: after a wrong check or length the parser
\* searches for AA 55 again.  On the board it may do so in the middle of a later
\* frame; but once undisturbed frames of the length of the longest frame without its
\* header have passed that do not look like a header inside, it is between frames
\* again, whatever it had seen before.
BackInStep ==
    receiver = "board" /\ Parsed /\ calm >= MAX_PAYLOAD + 6 => state \in {"aa", "55"}

\* The bridge's "incremental parser that resynchronizes after noise and CRC
\* failures" costs no frame but the disturbed ones: every other frame was returned, or
\* still waits, whole, behind a header that promises more.
Holds(buffer, frame) ==
    \E i \in 1..(Len(buffer) - Len(frame) + 1) :
        SubSeq(buffer, i, i + Len(frame) - 1) = frame
NothingLost ==
    receiver = "bridge" =>
        \A i \in DOMAIN intact :
            \/ \E j \in DOMAIN received : received[j] = intact[i]
            \/ Holds(got \o waiting, intact[i])

\* No frame begins inside another one: of two frames that overlap, some byte differs.  A
\* frame whose last byte is AA is not apart from the next: should the line lose that byte,
\* the next frame's first would complete it, and the next frame would be lost.
Apart ==
    \A f, g \in Frames : \A i \in 2..Len(f) :
        \E k \in i..Len(f) : k - i + 1 <= Len(g) /\ f[k] # g[k - i + 1]

\* The undisturbed frames come out of it once each and in the order they were sent, as
\* long as the disturbances are too few to make up a frame.
Returned == SelectSeq(received, LAMBDA frame : \E i \in DOMAIN intact : intact[i] = frame)
InOrder == receiver = "bridge" => IsPrefix(Returned, intact)
=============================================================================
