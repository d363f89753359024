--------------------------- MODULE FrameLinkProofs ---------------------------
(***************************************************************************)
(* The board's parser finds the frames again, for every set of frames and  *)
(* every size of payload and ring: whatever it takes for a frame ends      *)
(* within the length of the longest one, and from then on undisturbed      *)
(* frames keep it in step.  The bridge's parser loses no undisturbed frame *)
(* at all, for every set of frames that do not begin inside one another.   *)
(*                                                                         *)
(* On the board, the invariant says where in the undisturbed part of the   *)
(* line the parser is.  Places are counted from the end of the line: a     *)
(* place d is where d bytes are left, so that reading changes none of      *)
(* them.  At the bridge, the loop of feed leaves an end of what it was     *)
(* given; whatever fits there as a frame, or the beginning of one, comes   *)
(* out as a frame or is left at the same place.                            *)
(***************************************************************************)
EXTENDS FrameLink, SequenceTheorems, WellFoundedInduction, TLAPS

Idle == state \in {"aa", "55"}

\* What the parser has of a frame fits the state it is in.
ParserInv ==
    /\ Idle => got = <<>>
    /\ state = "head" => Len(got) <= 3
    /\ state \in {"payload", "crc"} => 4 <= Len(got) /\ got[4] <= MAX_PAYLOAD
    /\ state = "payload" => Len(got) < 4 + got[4]
    /\ state = "crc" => 4 + got[4] <= Len(got) /\ Len(got) < 6 + got[4]

BoardTyped ==
    /\ TypeOK /\ ParserInv
    /\ rest # <<>> => sent # <<>>
    /\ hurt => calm = 0

Typed ==
    /\ TypeOK
    /\ rest # <<>> => sent # <<>>
    /\ hurt => calm = 0

LEMMA BytesAreNaturals == \A b \in Bytes : b \in Nat
BY DEF Bytes

LEMMA FrameFacts ==
    ASSUME NEW f \in Frames
    PROVE  /\ f \in Seq(Bytes) /\ Len(f) \in Nat /\ Len(f) = 8 + f[6] /\ 8 <= Len(f)
           /\ f[1] = AA /\ f[2] = V55 /\ f[6] \in Nat /\ f[6] <= MAX_PAYLOAD
           /\ f # <<>> /\ Head(f) = f[1]
           /\ \A k \in 1..Len(f) : f[k] \in Bytes
<1>1. /\ f \in Seq(Bytes) /\ Len(f) \in Nat /\ f[1] = AA /\ f[2] = V55
      /\ f[6] <= MAX_PAYLOAD /\ Len(f) = 8 + f[6] /\ 8 <= Len(f)
  BY FramesAssumption DEF Overhead
<1>2. \A k \in 1..Len(f) : f[k] \in Bytes
  BY <1>1
<1>3. f[6] \in Nat
  <2>1. 6 \in 1..Len(f)
    BY <1>1
  <2>2. f[6] \in Bytes
    BY <1>2, <2>1
  <2> QED  BY <2>2 DEF Bytes
<1>4. f # <<>>
  <2>1. Len(<<>>) = 0
    OBVIOUS
  <2> QED  BY <1>1, <2>1
<1> QED  BY <1>1, <1>2, <1>3, <1>4

\* Reading the first byte of a sequence.
LEMMA Reading ==
    ASSUME NEW S, NEW s \in Seq(S), s # <<>>
    PROVE  /\ Head(s) \in S /\ Head(s) = s[1] /\ Tail(s) \in Seq(S)
           /\ Len(s) \in Nat /\ Len(s) >= 1 /\ Len(Tail(s)) = Len(s) - 1
           /\ \A i \in 1..(Len(s) - 1) : Tail(s)[i] = s[i + 1]
<1>1. Len(s) \in Nat /\ Len(s) # 0
  BY EmptySeq
<1> QED  BY <1>1, HeadTailProperties

\* One byte of protocol_poll: what it reads and what it does with it.
LEMMA PollStep ==
    ASSUME BoardTyped, Poll
    PROVE  /\ waiting # <<>> /\ waiting' = Tail(waiting) /\ Head(waiting) \in Bytes
           /\ UNCHANGED <<receiver, rest, sent, hurt, calm, intact, faults>>
           /\ state = "aa" => got' = <<>> /\ state' = IF Head(waiting) = AA THEN "55" ELSE "aa"
           /\ state = "55" => /\ got' = <<>>
                              /\ state' = IF Head(waiting) = V55 THEN "head"
                                          ELSE IF Head(waiting) = AA THEN "55" ELSE "aa"
           /\ ~Idle => /\ state' = StateAfter(Head(waiting), Append(got, Head(waiting)))
                       /\ got' = IF state' \in {"aa", "55"} THEN <<>> ELSE Append(got, Head(waiting))
           /\ received' = received \/ \E f \in Frames : received' = Append(received, f)
<1>1. waiting # <<>> /\ waiting' = Tail(waiting) /\ waiting \in Seq(Bytes)
  BY DEF Poll, BoardTyped, TypeOK
<1>2. Head(waiting) \in Bytes
  BY <1>1, Reading
<1>3. UNCHANGED <<receiver, rest, sent, hurt, calm, intact, faults>>
  BY DEF Poll
<1>4. state = "aa" => got' = <<>> /\ state' = IF Head(waiting) = AA THEN "55" ELSE "aa"
  BY DEF Poll, StateAfter
<1>5. state = "55" => /\ got' = <<>>
                      /\ state' = IF Head(waiting) = V55 THEN "head"
                                  ELSE IF Head(waiting) = AA THEN "55" ELSE "aa"
  BY DEF Poll, StateAfter
<1>6. ~Idle => /\ state' = StateAfter(Head(waiting), Append(got, Head(waiting)))
               /\ got' = IF state' \in {"aa", "55"} THEN <<>> ELSE Append(got, Head(waiting))
  BY DEF Poll, Idle
<1>7. received' = received \/ \E f \in Frames : received' = Append(received, f)
  BY DEF Poll
<1> QED  BY <1>1, <1>2, <1>3, <1>4, <1>5, <1>6, <1>7

LEMMA GotLonger ==
    ASSUME BoardTyped, NEW byte \in Bytes
    PROVE  /\ Append(got, byte) \in Seq(Bytes)
           /\ Len(got) \in Nat /\ Len(Append(got, byte)) = Len(got) + 1
           /\ \A i \in 1..Len(got) : Append(got, byte)[i] = got[i]
           /\ Append(got, byte)[Len(got) + 1] = byte
           /\ Len(got) >= 4 => got[4] \in Nat /\ Append(got, byte)[4] = got[4]
<1>1. got \in Seq(Bytes)
  BY DEF BoardTyped, TypeOK
<1>2. Len(got) \in Nat /\ \A i \in 1..Len(got) : got[i] \in Bytes
  BY <1>1
<1>3. /\ Append(got, byte) \in Seq(Bytes) /\ Len(Append(got, byte)) = Len(got) + 1
      /\ \A i \in 1..Len(got) : Append(got, byte)[i] = got[i]
      /\ Append(got, byte)[Len(got) + 1] = byte
  BY <1>1
<1>4. Len(got) >= 4 => got[4] \in Nat /\ Append(got, byte)[4] = got[4]
  <2> SUFFICES ASSUME Len(got) >= 4 PROVE got[4] \in Nat /\ Append(got, byte)[4] = got[4]
    OBVIOUS
  <2>1. 4 \in 1..Len(got)
    BY <1>2
  <2>2. got[4] \in Nat
    BY <1>2, <2>1, BytesAreNaturals
  <2>3. Append(got, byte)[4] = got[4]
    BY <1>3, <2>1
  <2> QED  BY <2>2, <2>3
<1> QED  BY <1>2, <1>3, <1>4

\* The bytes the parser will read at most before it is between frames.
Need == IF state = "head" THEN MAX_PAYLOAD + 6 - Len(got) ELSE 6 + got[4] - Len(got)

\* A frame that is read, true or false, comes to its end.
LEMMA FrameRead ==
    ASSUME BoardTyped, Poll, ~Idle
    PROVE  /\ ParserInv' /\ state' \in {"aa", "head", "payload", "crc"}
           /\ Need \in Int /\ Need >= 1
           /\ ~Idle' => /\ got' = Append(got, Head(waiting))
                        /\ Need' \in Int /\ Need' <= Need - 1
           /\ Idle' => /\ state' = "aa" /\ got' = <<>>
                       /\ \/ state = "head" /\ Len(got) = 3 /\ Head(waiting) > MAX_PAYLOAD
                          \/ state = "crc" /\ Len(got) = 5 + got[4]
<1> DEFINE byte == Head(waiting)
           frame == Append(got, byte)
<1>1. /\ byte \in Bytes /\ byte \in Nat /\ state' = StateAfter(byte, frame)
      /\ got' = IF state' \in {"aa", "55"} THEN <<>> ELSE frame
  <2>1. byte \in Bytes
    BY PollStep
  <2>2. byte \in Nat
    BY <2>1 DEF Bytes
  <2> QED  BY <2>1, <2>2, PollStep
<1>2. /\ frame \in Seq(Bytes) /\ Len(got) \in Nat /\ Len(frame) = Len(got) + 1
      /\ frame[Len(got) + 1] = byte
      /\ Len(got) >= 4 => got[4] \in Nat /\ frame[4] = got[4]
  BY <1>1, GotLonger
<1>3. state \in {"head", "payload", "crc"} /\ ParserInv /\ MAX_PAYLOAD \in Nat
  BY SizesAssumption DEF BoardTyped, TypeOK, Idle
<1>4. Len(<<>>) = 0
  OBVIOUS
<1> HIDE DEF byte, frame
<1>5. CASE state = "head"
  <2>1. Len(got) <= 3
    BY <1>3, <1>5 DEF ParserInv
  <2>2. Need = MAX_PAYLOAD + 6 - Len(got)
    BY <1>5 DEF Need
  <2>3. CASE Len(got) < 3
    <3>1. state' = "head"
      BY <1>1, <1>2, <1>5, <2>3 DEF StateAfter
    <3>2. got' = frame
      BY <1>1, <3>1
    <3>3. Need' = MAX_PAYLOAD + 6 - Len(frame)
      BY <3>1, <3>2 DEF Need
    <3>4. ParserInv' /\ ~Idle'
      BY <1>2, <2>3, <3>1, <3>2 DEF ParserInv, Idle
    <3> QED  BY <1>2, <1>3, <2>1, <2>2, <3>1, <3>2, <3>3, <3>4 DEF byte, frame
  <2>4. CASE Len(got) = 3
    <3>1. state' = AfterLength(byte) /\ frame[4] = byte /\ Len(frame) = 4
      BY <1>1, <1>2, <1>5, <2>4 DEF StateAfter
    <3>2. CASE byte > MAX_PAYLOAD
      <4>1. state' = "aa" /\ got' = <<>>
        BY <1>1, <3>1, <3>2 DEF AfterLength
      <4> QED  BY <1>2, <1>3, <1>4, <1>5, <2>2, <2>4, <3>2, <4>1 DEF ParserInv, Idle, byte
    <3>3. CASE ~(byte > MAX_PAYLOAD)
      <4>1. state' = (IF byte = 0 THEN "crc" ELSE "payload") /\ got' = frame
        BY <1>1, <3>1, <3>3 DEF AfterLength
      <4>2. Need' = 6 + byte - 4
        BY <3>1, <4>1 DEF Need
      <4>3. ParserInv' /\ ~Idle' /\ state' \in {"payload", "crc"}
        <5>1. CASE byte = 0
          <6>1. state' = "crc" /\ Len(got') = 4 /\ got'[4] = 0 /\ 0 <= MAX_PAYLOAD
            BY <1>3, <3>1, <4>1, <5>1
          <6> QED  BY <6>1 DEF ParserInv, Idle
        <5>2. CASE byte # 0
          <6>1. state' = "payload" /\ Len(got') = 4 /\ got'[4] = byte
            BY <3>1, <4>1, <5>2
          <6>2. 4 < 4 + byte /\ byte <= MAX_PAYLOAD
            BY <1>1, <1>3, <3>3, <5>2
          <6> QED  BY <6>1, <6>2 DEF ParserInv, Idle
        <5> QED  BY <5>1, <5>2
      <4>4. Need' \in Int /\ Need' <= Need - 1 /\ Need >= 1 /\ Need \in Int
        BY <1>1, <1>3, <2>2, <2>4, <3>3, <4>2
      <4> QED  BY <4>1, <4>3, <4>4 DEF byte, frame
    <3> QED  BY <3>2, <3>3
  <2>5. Len(got) < 3 \/ Len(got) = 3
    <3>1. \A n \in Nat : n <= 3 => n < 3 \/ n = 3
      OBVIOUS
    <3> QED  BY <1>2, <2>1, <3>1
  <2> QED  BY <2>3, <2>4, <2>5
<1>6. CASE state = "payload"
  <2>1. 4 <= Len(got) /\ got[4] <= MAX_PAYLOAD /\ Len(got) < 4 + got[4]
    BY <1>3, <1>6 DEF ParserInv
  <2>2. Need = 6 + got[4] - Len(got) /\ got[4] \in Nat /\ frame[4] = got[4]
    BY <1>2, <1>6, <2>1 DEF Need
  <2>3. state' = IF Len(frame) < 4 + got[4] THEN "payload" ELSE "crc"
    BY <1>1, <1>6, <2>2 DEF StateAfter
  <2>4. got' = frame /\ state' \in {"payload", "crc"} /\ ~Idle'
    BY <1>1, <2>3 DEF Idle
  <2>5. Need' = 6 + got[4] - Len(frame)
    BY <2>2, <2>4 DEF Need
  <2>6. ParserInv'
    BY <1>2, <2>1, <2>2, <2>3, <2>4 DEF ParserInv, Idle
  <2> QED  BY <1>2, <2>1, <2>2, <2>4, <2>5, <2>6 DEF byte, frame
<1>7. CASE state = "crc"
  <2>1. 4 <= Len(got) /\ got[4] <= MAX_PAYLOAD /\ 4 + got[4] <= Len(got) /\ Len(got) < 6 + got[4]
    BY <1>3, <1>7 DEF ParserInv
  <2>2. Need = 6 + got[4] - Len(got) /\ got[4] \in Nat /\ frame[4] = got[4]
    BY <1>2, <1>7, <2>1 DEF Need
  <2>3. state' = IF Len(frame) < 4 + got[4] + 2 THEN "crc" ELSE "aa"
    BY <1>1, <1>7, <2>2 DEF StateAfter
  <2>4. CASE Len(frame) < 6 + got[4]
    <3>1. state' = "crc" /\ got' = frame /\ ~Idle'
      BY <1>1, <1>2, <2>2, <2>3, <2>4 DEF Idle
    <3>2. Need' = 6 + got[4] - Len(frame)
      BY <2>2, <3>1 DEF Need
    <3>3. ParserInv'
      BY <1>2, <2>1, <2>2, <2>4, <3>1 DEF ParserInv, Idle
    <3> QED  BY <1>2, <2>1, <2>2, <3>1, <3>2, <3>3 DEF byte, frame
  <2>5. CASE ~(Len(frame) < 6 + got[4])
    <3>1. state' = "aa" /\ got' = <<>>
      BY <1>1, <1>2, <2>2, <2>3, <2>5
    <3>2. Len(got) = 5 + got[4]
      BY <1>2, <2>1, <2>2, <2>5
    <3> QED  BY <1>2, <1>4, <1>7, <2>2, <3>1, <3>2 DEF ParserInv, Idle
  <2> QED  BY <2>4, <2>5
<1> QED  BY <1>3, <1>5, <1>6, <1>7

-----------------------------------------------------------------------------
(* Types, as far as the board goes. *)

LEMMA PollTyped == ASSUME receiver = "board", BoardTyped, Poll PROVE BoardTyped'
<1>1. /\ waiting \in Seq(Bytes) /\ waiting # <<>> /\ waiting' = Tail(waiting)
      /\ UNCHANGED <<receiver, rest, sent, hurt, calm, intact, faults>>
  BY PollStep DEF BoardTyped, TypeOK
<1>2. waiting' \in Seq(Bytes) /\ Len(waiting') < UART_RX_SIZE
  <2>1. Len(waiting) < UART_RX_SIZE /\ UART_RX_SIZE \in Nat
    BY SizesAssumption DEF BoardTyped, TypeOK
  <2> QED  BY <1>1, <2>1, Reading
<1>3. received' \in Seq(Frames)
  <2>1. received \in Seq(Frames)
    BY DEF BoardTyped, TypeOK
  <2>2. received' = received \/ \E f \in Frames : received' = Append(received, f)
    BY PollStep
  <2> QED  BY <2>1, <2>2
<1>4. ParserInv' /\ state' \in {"aa", "55", "head", "payload", "crc"} /\ got' \in Seq(Bytes)
  <2>1. CASE Idle
    <3>1. got' = <<>> /\ state' \in {"aa", "55", "head"}
      BY <2>1, PollStep DEF Idle
    <3>2. Len(<<>>) = 0 /\ <<>> \in Seq(Bytes)
      OBVIOUS
    <3> QED  BY <3>1, <3>2 DEF ParserInv, Idle
  <2>2. CASE ~Idle
    <3>1. got' = <<>> \/ got' = Append(got, Head(waiting))
      BY <2>2, FrameRead
    <3>2. got' \in Seq(Bytes)
      <4>1. Append(got, Head(waiting)) \in Seq(Bytes)
        BY PollStep, GotLonger
      <4>2. <<>> \in Seq(Bytes)
        OBVIOUS
      <4> QED  BY <3>1, <4>1, <4>2
    <3> QED  BY <2>2, <3>2, FrameRead
  <2> QED  BY <2>1, <2>2
<1>5. Len(got') < Overhead + MAX_PAYLOAD
  <2>1. got' \in Seq(Bytes) /\ Len(<<>>) = 0 /\ MAX_PAYLOAD \in Nat
    BY <1>4, SizesAssumption
  <2>2. Len(got') \in Nat
    BY <2>1
  <2>3. Len(got') >= 4 => got'[4] \in Nat
    <3>1. Len(got') >= 4 => 4 \in 1..Len(got')
      BY <2>2
    <3>2. Len(got') >= 4 => got'[4] \in Bytes
      BY <2>1, <3>1
    <3> QED  BY <3>2, BytesAreNaturals
  <2> QED  BY <1>4, <2>1, <2>2, <2>3 DEF ParserInv, Idle, Overhead
<1> QED  BY <1>1, <1>2, <1>3, <1>4, <1>5 DEF BoardTyped, TypeOK

\* The line is the same for both receivers.
LEMMA LineKeepsTypes ==
    ASSUME Typed,
           ByteIn \/ ByteLost \/ (\E byte \in Noise : ByteWrong(byte))
    PROVE  Typed'
<1>1. /\ waiting \in Seq(Bytes) /\ rest \in Seq(Bytes) /\ sent \in Seq(Frames)
      /\ UART_RX_SIZE \in Nat /\ Len(waiting) \in Nat
      /\ intact \in Seq(Frames) /\ calm \in Nat /\ faults \in 0..MaxFaults /\ MaxFaults \in Nat
  BY SizesAssumption DEF Typed, TypeOK
<1>2. UNCHANGED <<receiver, state, got, sent, received>>
  BY DEF ByteIn, ByteLost, ByteWrong, parser
<1>3. (rest' = Tail(rest) /\ rest # <<>>) \/ rest' = rest
  BY DEF ByteIn, ByteLost, ByteWrong
<1>4. rest' \in Seq(Bytes) /\ (rest' # <<>> => rest # <<>>)
  BY <1>1, <1>3, Reading
<1>5. waiting' = waiting \/ (HasRoom /\ \E byte \in Bytes : waiting' = Append(waiting, byte))
  <2>1. rest # <<>> => Head(rest) \in Bytes
    BY <1>1, Reading
  <2> QED  BY <2>1, NoiseAssumption DEF ByteIn, ByteLost, ByteWrong
<1>6. waiting' \in Seq(Bytes) /\ (receiver = "board" => Len(waiting') < UART_RX_SIZE)
  <2>1. receiver = "board" => Len(waiting) < UART_RX_SIZE
    BY DEF Typed, TypeOK
  <2>2. CASE waiting' = waiting
    BY <1>1, <2>1, <2>2
  <2>3. CASE HasRoom /\ \E byte \in Bytes : waiting' = Append(waiting, byte)
    <3>1. receiver = "board" => Len(waiting) < UART_RX_SIZE - 1
      BY <2>3 DEF HasRoom
    <3>2. waiting' \in Seq(Bytes) /\ Len(waiting') = Len(waiting) + 1
      BY <1>1, <2>3
    <3> QED  BY <1>1, <3>1, <3>2
  <2> QED  BY <1>5, <2>2, <2>3
<1>7. CASE ByteIn
  <2>1. UNCHANGED <<hurt, faults>> /\ Arrived /\ rest # <<>>
    BY <1>7 DEF ByteIn
  <2>2. Last(sent) \in Frames
    <3>1. sent # <<>>
      BY <2>1 DEF Typed
    <3>2. Len(sent) \in 1..Len(sent)
      BY <1>1, <3>1, EmptySeq
    <3> QED  BY <1>1, <3>2 DEF Last
  <2>3. Len(Last(sent)) \in Nat
    BY <2>2, FrameFacts
  <2>4. intact' \in Seq(Frames) /\ calm' \in Nat /\ (hurt' => calm' = 0)
    <3>1. hurt => calm' = calm /\ calm = 0
      BY <2>1 DEF Arrived, Typed
    <3>2. intact' = intact \/ intact' = Append(intact, Last(sent))
      BY <2>1 DEF Arrived
    <3>3. calm' \in {calm, calm + Len(Last(sent)), 0}
      BY <2>1 DEF Arrived
    <3>4. intact' \in Seq(Frames)
      BY <1>1, <2>2, <3>2
    <3> QED  BY <1>1, <2>1, <2>3, <3>1, <3>3, <3>4
  <2> QED  BY <1>1, <1>2, <1>4, <1>6, <2>1, <2>4 DEF Typed, TypeOK
<1>8. CASE ByteLost \/ \E byte \in Noise : ByteWrong(byte)
  <2>1. hurt' = TRUE /\ calm' = 0 /\ intact' = intact /\ faults' = faults + 1 /\ faults < MaxFaults
    BY <1>8 DEF ByteLost, ByteWrong, Disturbed
  <2>2. faults' \in 0..MaxFaults
    BY <1>1, <2>1
  <2> QED  BY <1>1, <1>2, <1>4, <1>6, <2>1, <2>2 DEF Typed, TypeOK
<1> QED  BY <1>7, <1>8

LEMMA LineTyped ==
    ASSUME receiver = "board", BoardTyped,
           ByteIn \/ ByteLost \/ (\E byte \in Noise : ByteWrong(byte))
    PROVE  BoardTyped'
<1>1. Typed'
  BY LineKeepsTypes DEF BoardTyped, Typed
<1>2. UNCHANGED <<receiver, state, got>>
  BY DEF ByteIn, ByteLost, ByteWrong, parser
<1>3. ParserInv'
  BY <1>2 DEF BoardTyped, ParserInv, Idle
<1> QED  BY <1>1, <1>3 DEF BoardTyped, Typed

LEMMA SendKeepsTypes ==
    ASSUME Typed, NEW frame \in Frames, Send(frame) PROVE Typed'
<1>1. /\ UNCHANGED <<receiver, waiting, state, got, calm, intact, received, faults>>
      /\ rest' = frame /\ sent' = Append(sent, frame) /\ hurt' = FALSE
  BY DEF Send, parser
<1>2. sent' \in Seq(Frames) /\ sent' # <<>>
  <2>1. sent \in Seq(Frames)
    BY DEF Typed, TypeOK
  <2> QED  BY <1>1, <2>1
<1>3. rest' \in Seq(Bytes)
  BY <1>1, FrameFacts
<1> QED  BY <1>1, <1>2, <1>3 DEF Typed, TypeOK

LEMMA SendTyped ==
    ASSUME receiver = "board", BoardTyped, NEW frame \in Frames, Send(frame) PROVE BoardTyped'
<1>1. Typed'
  BY SendKeepsTypes DEF BoardTyped, Typed
<1>2. UNCHANGED <<receiver, state, got>>
  BY DEF Send, parser
<1>3. ParserInv'
  BY <1>2 DEF BoardTyped, ParserInv, Idle
<1> QED  BY <1>1, <1>3 DEF BoardTyped, Typed

LEMMA InitTyped == Init => BoardTyped
<1> SUFFICES ASSUME Init PROVE BoardTyped
  OBVIOUS
<1>1. <<>> \in Seq(Bytes) /\ <<>> \in Seq(Frames) /\ Len(<<>>) = 0
  OBVIOUS
<1>2. UART_RX_SIZE \in Nat /\ 0 < UART_RX_SIZE /\ 0 < Overhead + MAX_PAYLOAD /\ 0 \in 0..MaxFaults
  BY SizesAssumption DEF Overhead
<1> QED  BY <1>1, <1>2 DEF Init, BoardTyped, TypeOK, ParserInv, Idle

\* Where the board receives, everything keeps its type: the ring of the interrupt never
\* holds more than it has room for, and the parser never more than a frame.
THEOREM Board_typing == Spec => [](receiver = "board" => TypeOK /\ BoardTyped)
<1> DEFINE Inv == receiver = "board" => BoardTyped
<1>1. Init => Inv
  BY InitTyped
<1>2. Inv /\ [Next]_vars => Inv'
  <2> SUFFICES ASSUME Inv, [Next]_vars, receiver' = "board" PROVE BoardTyped'
    OBVIOUS
  <2>1. receiver = "board" /\ BoardTyped
    BY DEF Next, Send, ByteIn, ByteLost, ByteWrong, Poll, Feed, vars
  <2>2. CASE UNCHANGED vars
    BY <2>1, <2>2 DEF vars, line, parser, history, BoardTyped, TypeOK, ParserInv, Idle
  <2>3. ~Feed
    BY <2>1 DEF Feed
  <2> HIDE DEF Inv
  <2> QED  BY <2>1, <2>2, <2>3, PollTyped, LineTyped, SendTyped DEF Next
<1>3. Inv => (receiver = "board" => TypeOK /\ BoardTyped)
  BY DEF BoardTyped
<1> QED  BY <1>1, <1>2, <1>3, PTL DEF Spec

-----------------------------------------------------------------------------
(* Frames on the line. *)

PlainFrames == {f \in Frames : Plain(f)}

\* At place d a frame begins, and where it ends there is a cut again.
Starts(f, d, stream, cuts) ==
    /\ Len(f) <= d /\ d - Len(f) \in cuts
    /\ \A k \in 1..Len(f) : stream[Len(stream) - d + k] = f[k]

\* The cuts are places between frames; from any of them on there are only frames.
CutsOf(cuts, stream) ==
    /\ cuts \subseteq Nat /\ 0 \in cuts
    /\ \A d \in cuts : 0 < d /\ d <= Len(stream) => \E f \in PlainFrames : Starts(f, d, stream, cuts)

\* Of a frame the first j bytes have been read, the others come next.
Within(f, j, stream, cuts) ==
    /\ j \in 1..(Len(f) - 1) /\ Len(stream) + j - Len(f) \in cuts
    /\ \A k \in (j + 1)..Len(f) : stream[k - j] = f[k]

LEMMA CutsRead ==
    ASSUME NEW s \in Seq(Bytes), s # <<>>, NEW cuts, CutsOf(cuts, s)
    PROVE  /\ CutsOf(cuts, Tail(s))
           /\ Len(s) \in cuts => \E f \in PlainFrames : Head(s) = AA /\ Within(f, 1, Tail(s), cuts)
<1> DEFINE n == Len(s)
           t == Tail(s)
<1>1. /\ t \in Seq(Bytes) /\ n \in Nat /\ n >= 1 /\ Len(t) = n - 1 /\ Head(s) = s[1]
      /\ \A i \in 1..(n - 1) : t[i] = s[i + 1]
  BY Reading
<1>2. /\ cuts \subseteq Nat /\ 0 \in cuts
      /\ \A d \in cuts : 0 < d /\ d <= n => \E f \in PlainFrames : Starts(f, d, s, cuts)
  BY DEF CutsOf
<1> HIDE DEF n, t
<1>3. \A f \in PlainFrames : Len(f) \in Nat /\ 8 <= Len(f) /\ f[1] = AA
  BY FrameFacts DEF PlainFrames
<1>4. ASSUME NEW d \in cuts, 0 < d, d <= Len(t)
      PROVE  \E f \in PlainFrames : Starts(f, d, t, cuts)
  <2>1. d \in Nat /\ d <= n /\ d <= n - 1
    BY <1>1, <1>2, <1>4
  <2>2. PICK f \in PlainFrames : Starts(f, d, s, cuts)
    BY <1>2, <1>4, <2>1
  <2>3. /\ Len(f) <= d /\ d - Len(f) \in cuts /\ Len(f) \in Nat
        /\ \A k \in 1..Len(f) : s[n - d + k] = f[k]
    BY <1>3, <2>2 DEF Starts, n
  <2>4. ASSUME NEW k \in 1..Len(f) PROVE t[Len(t) - d + k] = f[k]
    <3>1. n - 1 - d + k \in 1..(n - 1) /\ (n - 1 - d + k) + 1 = n - d + k
      BY <1>1, <2>1, <2>3
    <3>2. t[n - 1 - d + k] = s[n - d + k]
      BY <1>1, <3>1
    <3> QED  BY <1>1, <2>3, <3>2
  <2> QED  BY <2>3, <2>4 DEF Starts
<1>5. ASSUME n \in cuts
      PROVE  \E f \in PlainFrames : Head(s) = AA /\ Within(f, 1, t, cuts)
  <2>1. PICK f \in PlainFrames : Starts(f, n, s, cuts)
    BY <1>1, <1>2, <1>5
  <2>2. /\ Len(f) <= n /\ n - Len(f) \in cuts /\ Len(f) \in Nat /\ 8 <= Len(f) /\ f[1] = AA
        /\ \A k \in 1..Len(f) : s[n - n + k] = f[k]
    BY <1>3, <2>1 DEF Starts, n
  <2>3. \A k \in 1..Len(f) : s[k] = f[k]
    <3>1. \A k \in 1..Len(f) : n - n + k = k
      BY <1>1, <2>2
    <3> QED  BY <2>2, <3>1
  <2>4. ASSUME NEW k \in (1 + 1)..Len(f) PROVE t[k - 1] = f[k]
    <3>1. k - 1 \in 1..(n - 1) /\ (k - 1) + 1 = k /\ k \in 1..Len(f)
      BY <1>1, <2>2
    <3>2. t[k - 1] = s[k]
      BY <1>1, <3>1
    <3> QED  BY <2>3, <3>1, <3>2
  <2>5. 1 \in 1..(Len(f) - 1) /\ Len(t) + 1 - Len(f) = n - Len(f)
    BY <1>1, <2>2
  <2>6. Head(s) = AA
    <3>1. 1 \in 1..Len(f)
      BY <2>2
    <3> QED  BY <1>1, <2>2, <2>3, <3>1
  <2> QED  BY <2>2, <2>4, <2>5, <2>6 DEF Within
<1> QED  BY <1>2, <1>4, <1>5 DEF CutsOf, n, t

LEMMA WithinRead ==
    ASSUME NEW s \in Seq(Bytes), NEW cuts, cuts \subseteq Nat,
           NEW f \in PlainFrames, NEW j \in Nat, Within(f, j, s, cuts)
    PROVE  /\ s # <<>> /\ Head(s) = f[j + 1] /\ j \in 1..(Len(f) - 1)
           /\ j + 1 < Len(f) => Within(f, j + 1, Tail(s), cuts)
           /\ j + 1 = Len(f) => Len(Tail(s)) \in cuts
<1> DEFINE n == Len(s)
<1>1. /\ Len(f) \in Nat /\ j \in 1..(Len(f) - 1) /\ n + j - Len(f) \in cuts
      /\ \A k \in (j + 1)..Len(f) : s[k - j] = f[k]
  BY FrameFacts DEF PlainFrames, Within
<1>2. n \in Nat
  OBVIOUS
<1>3. n + j - Len(f) \in Nat
  BY <1>1
<1> HIDE DEF n
<1>4. n >= 1 /\ n >= Len(f) - j
  BY <1>1, <1>2, <1>3
<1>5. s # <<>>
  <2>1. Len(<<>>) = 0
    OBVIOUS
  <2> QED  BY <1>4, <2>1 DEF n
<1>6. /\ Len(Tail(s)) = n - 1 /\ Head(s) = s[1]
      /\ \A i \in 1..(n - 1) : Tail(s)[i] = s[i + 1]
  BY <1>5, Reading DEF n
<1>7. Head(s) = f[j + 1]
  <2>1. j + 1 \in (j + 1)..Len(f) /\ (j + 1) - j = 1
    BY <1>1
  <2> QED  BY <1>1, <1>6, <2>1
<1>8. ASSUME j + 1 < Len(f) PROVE Within(f, j + 1, Tail(s), cuts)
  <2>1. j + 1 \in 1..(Len(f) - 1) /\ Len(Tail(s)) + (j + 1) - Len(f) = n + j - Len(f)
    <3>1. \A l, k, i \in Nat :
             i \in 1..(l - 1) /\ i + 1 < l => i + 1 \in 1..(l - 1) /\ (k - 1) + (i + 1) - l = k + i - l
      OBVIOUS
    <3> DEFINE l == Len(f)
    <3>2. l \in Nat /\ j \in 1..(l - 1) /\ j + 1 < l /\ j \in Nat
      BY <1>1, <1>8
    <3>3. Len(Tail(s)) = n - 1
      BY <1>6
    <3> HIDE DEF l
    <3>4. j + 1 \in 1..(l - 1) /\ (n - 1) + (j + 1) - l = n + j - l
      BY <1>2, <3>1, <3>2
    <3> QED  BY <3>3, <3>4 DEF l
  <2>2. ASSUME NEW k \in ((j + 1) + 1)..Len(f) PROVE Tail(s)[k - (j + 1)] = f[k]
    <3>1. /\ k - (j + 1) \in 1..(n - 1) /\ (k - (j + 1)) + 1 = k - j /\ k \in (j + 1)..Len(f)
      BY <1>1, <1>2, <1>4
    <3>2. Tail(s)[k - (j + 1)] = s[k - j]
      BY <1>6, <3>1
    <3> QED  BY <1>1, <3>1, <3>2
  <2> QED  BY <1>1, <2>1, <2>2 DEF Within
<1>9. ASSUME j + 1 = Len(f) PROVE Len(Tail(s)) \in cuts
  <2>1. n - 1 = n + j - Len(f)
    BY <1>1, <1>2, <1>9
  <2> QED  BY <1>1, <1>6, <2>1
<1> QED  BY <1>1, <1>5, <1>7, <1>8, <1>9

\* The cuts when another frame is sent.
With(cuts, f) == {0} \union {d + Len(f) : d \in cuts}

LEMMA CutsSent ==
    ASSUME NEW s \in Seq(Bytes), NEW cuts, CutsOf(cuts, s), NEW f \in PlainFrames
    PROVE  /\ CutsOf(With(cuts, f), s \o f)
           /\ \A d \in cuts : d + Len(f) \in With(cuts, f)
           /\ \A g \in PlainFrames, j \in Nat :
                 Within(g, j, s, cuts) => Within(g, j, s \o f, With(cuts, f))
<1> DEFINE n == Len(s)
           m == Len(f)
           t == s \o f
           more == With(cuts, f)
<1>1. /\ f \in Seq(Bytes) /\ n \in Nat /\ m \in Nat /\ 8 <= m
      /\ \A g \in PlainFrames : g \in Seq(Bytes) /\ Len(g) \in Nat /\ 8 <= Len(g)
  BY FrameFacts DEF PlainFrames
<1>2. /\ t \in Seq(Bytes) /\ Len(t) = n + m
      /\ \A i \in 1..n : t[i] = s[i]
      /\ \A i \in 1..m : t[n + i] = f[i]
  <2>1. /\ t \in Seq(Bytes) /\ Len(t) = n + m
        /\ \A i \in 1..(n + m) : t[i] = IF i <= n THEN s[i] ELSE f[i - n]
    BY <1>1, ConcatProperties
  <2> HIDE DEF n, m, t
  <2>2. \A i \in 1..n : i \in 1..(n + m) /\ i <= n
    BY <1>1
  <2>3. \A i \in 1..m : n + i \in 1..(n + m) /\ ~(n + i <= n) /\ (n + i) - n = i
    BY <1>1
  <2> QED  BY <2>1, <2>2, <2>3
<1>3. /\ cuts \subseteq Nat /\ 0 \in cuts
      /\ \A d \in cuts : 0 < d /\ d <= n => \E g \in PlainFrames : Starts(g, d, s, cuts)
  BY DEF CutsOf
<1>4. /\ more \subseteq Nat /\ 0 \in more
      /\ \A d \in cuts : d + m \in more
      /\ \A e \in more : e = 0 \/ \E d \in cuts : e = d + m
  BY <1>1, <1>3 DEF With
<1> HIDE DEF n, m, t, more
<1>5. ASSUME NEW e \in more, 0 < e, e <= Len(t)
      PROVE  \E g \in PlainFrames : Starts(g, e, t, more)
  <2>1. PICK d \in cuts : e = d + m
    BY <1>4, <1>5
  <2>2. d \in Nat /\ d <= n
    BY <1>1, <1>2, <1>3, <1>5, <2>1
  <2>3. CASE d = 0
    <3>1. m <= e /\ e - m = 0 /\ Len(t) - e = n
      BY <1>1, <1>2, <2>1, <2>3
    <3>2. \A k \in 1..m : t[Len(t) - e + k] = f[k]
      BY <1>2, <3>1
    <3>3. Starts(f, e, t, more)
      BY <1>4, <3>1, <3>2 DEF Starts, m
    <3> QED  BY <3>3
  <2>4. CASE d # 0
    <3>1. PICK g \in PlainFrames : Starts(g, d, s, cuts)
      BY <1>3, <2>2, <2>4
    <3>2. /\ Len(g) <= d /\ d - Len(g) \in cuts /\ Len(g) \in Nat
          /\ \A k \in 1..Len(g) : s[n - d + k] = g[k]
      BY <1>1, <3>1 DEF Starts, n
    <3>3. Len(g) <= e /\ e - Len(g) \in more
      <4>1. e - Len(g) = (d - Len(g)) + m /\ Len(g) <= e
        BY <1>1, <2>1, <2>2, <3>2
      <4> QED  BY <1>4, <3>2, <4>1
    <3>4. ASSUME NEW k \in 1..Len(g) PROVE t[Len(t) - e + k] = g[k]
      <4>1. Len(t) - e + k = n - d + k /\ n - d + k \in 1..n
        BY <1>1, <1>2, <2>1, <2>2, <3>2
      <4> QED  BY <1>2, <3>2, <4>1
    <3> QED  BY <3>3, <3>4 DEF Starts
  <2> QED  BY <2>3, <2>4
<1>6. ASSUME NEW g \in PlainFrames, NEW j \in Nat, Within(g, j, s, cuts)
      PROVE  Within(g, j, t, more)
  <2>1. /\ Len(g) \in Nat /\ j \in 1..(Len(g) - 1) /\ n + j - Len(g) \in cuts
        /\ \A k \in (j + 1)..Len(g) : s[k - j] = g[k]
    BY <1>1, <1>6 DEF Within, n
  <2>2. n + j - Len(g) \in Nat
    BY <1>3, <2>1
  <2>3. Len(t) + j - Len(g) = (n + j - Len(g)) + m
    BY <1>1, <1>2, <2>1
  <2>4. ASSUME NEW k \in (j + 1)..Len(g) PROVE t[k - j] = g[k]
    <3>1. k - j \in 1..n
      BY <1>1, <2>1, <2>2
    <3> QED  BY <1>2, <2>1, <3>1
  <2> QED  BY <1>4, <2>1, <2>3, <2>4 DEF Within
<1> QED  BY <1>3, <1>4, <1>5, <1>6 DEF CutsOf, n, m, t, more

-----------------------------------------------------------------------------
(* Where the parser is. *)

Line == waiting \o rest

\* Nothing of the frame being sent is disturbed or looks like a header.
Clean == rest = <<>> \/ (~hurt /\ Plain(Last(sent)))

\* The bytes of undisturbed frames at the end of the line, those already read included.
Total == calm + (IF rest = <<>> THEN 0 ELSE Len(Last(sent)))

\* In a false frame, which ends in time.
Stray == ~Idle /\ Need + Total - Len(Line) <= MAX_PAYLOAD + 6

\* In step with frame f, or between frames although f is being read.
InSync(f, j) ==
    \/ j = 1 /\ state = "55"
    \/ j >= 2 /\ ~Idle /\ Len(got) = j - 2 /\ \A m \in 1..(j - 2) : got[m] = f[m + 2]
Skipping(f, j) == Idle /\ (state = "55" => j >= 2 /\ f[j] = AA)

Reached(cuts) ==
    \/ Len(Line) \in cuts /\ (Idle \/ Stray)
    \/ \E f \in PlainFrames, j \in Nat :
          Within(f, j, Line, cuts) /\ (Stray \/ InSync(f, j) \/ Skipping(f, j))

Placed ==
    Clean => \E cuts : CutsOf(cuts, Line) /\ Total \in cuts /\ (Len(Line) < Total => Reached(cuts))

LEMMA NeedBound ==
    ASSUME BoardTyped, ~Idle PROVE Need \in Int /\ 1 <= Need /\ Need <= MAX_PAYLOAD + 6
<1>1. /\ got \in Seq(Bytes) /\ Len(got) \in Nat /\ MAX_PAYLOAD \in Nat /\ ParserInv
      /\ state \in {"head", "payload", "crc"}
  BY SizesAssumption DEF BoardTyped, TypeOK, Idle
<1>2. Len(got) >= 4 => got[4] \in Nat
  <2>1. Len(got) >= 4 => 4 \in 1..Len(got)
    BY <1>1
  <2> QED  BY <1>1, <2>1, BytesAreNaturals
<1>3. CASE state = "head"
  <2>1. Len(got) <= 3 /\ Need = MAX_PAYLOAD + 6 - Len(got)
    BY <1>1, <1>3 DEF ParserInv, Need
  <2> QED  BY <1>1, <2>1
<1>4. CASE state \in {"payload", "crc"}
  <2>1. /\ 4 <= Len(got) /\ got[4] <= MAX_PAYLOAD /\ Len(got) < 6 + got[4]
        /\ Need = 6 + got[4] - Len(got) /\ got[4] \in Nat
    <3>1. 4 <= Len(got) /\ got[4] <= MAX_PAYLOAD /\ Need = 6 + got[4] - Len(got)
      BY <1>1, <1>4 DEF ParserInv, Need
    <3>2. got[4] \in Nat
      BY <1>1, <1>2, <3>1
    <3>3. Len(got) < 4 + got[4] \/ Len(got) < 6 + got[4]
      BY <1>1, <1>4 DEF ParserInv
    <3> QED  BY <1>1, <3>1, <3>2, <3>3
  <2> QED  BY <1>1, <2>1
<1> QED  BY <1>1, <1>3, <1>4

LEMMA PlainFacts ==
    ASSUME NEW f \in PlainFrames
    PROVE  /\ f \in Seq(Bytes) /\ Len(f) \in Nat /\ 8 <= Len(f) /\ Len(f) = 8 + f[6]
           /\ f[2] = V55 /\ f[6] \in Nat /\ f[6] <= MAX_PAYLOAD
           /\ \A i \in 2..(Len(f) - 1) : f[i] # AA \/ f[i + 1] # V55
BY FrameFacts DEF PlainFrames, Plain

\* In step the parser stays in step, until the end of the frame.
LEMMA SyncStep ==
    ASSUME BoardTyped, Poll, NEW f \in PlainFrames, NEW j \in 1..(Len(f) - 1), InSync(f, j),
           Head(waiting) = f[j + 1]
    PROVE  /\ j + 1 < Len(f) => InSync(f, j + 1)'
           /\ j + 1 = Len(f) => Idle'
<1> DEFINE L == Len(f)
           z == f[6]
<1>1. /\ L \in Nat /\ L = 8 + z /\ z \in Nat /\ z <= MAX_PAYLOAD /\ MAX_PAYLOAD \in Nat
      /\ f[2] = V55 /\ j \in Nat /\ 1 <= j /\ j <= L - 1
  BY PlainFacts, SizesAssumption
<1> HIDE DEF L
<1>2. CASE j = 1 /\ state = "55"
  <2>1. state' = "head" /\ got' = <<>>
    BY <1>1, <1>2, PollStep
  <2>2. Len(got') = 0 /\ ~Idle'
    BY <2>1 DEF Idle
  <2>3. InSync(f, 2)'
    BY <2>2 DEF InSync
  <2>4. 1 + 1 = 2 /\ 2 # L
    BY <1>1
  <2> QED  BY <1>2, <2>3, <2>4 DEF L
<1>3. CASE j >= 2 /\ ~Idle /\ Len(got) = j - 2 /\ \A m \in 1..(j - 2) : got[m] = f[m + 2]
  <2>1. /\ Append(got, f[j + 1]) \in Seq(Bytes) /\ Len(Append(got, f[j + 1])) = j - 1
        /\ \A i \in 1..(j - 2) : Append(got, f[j + 1])[i] = got[i]
        /\ Append(got, f[j + 1])[j - 1] = f[j + 1]
    <3>1. f[j + 1] \in Bytes
      BY PollStep
    <3>2. (j - 2) + 1 = j - 1
      BY <1>1
    <3> QED  BY <1>3, <3>1, <3>2, GotLonger
  <2>2. ~Idle' => got' = Append(got, f[j + 1])
    BY <1>3, FrameRead
  <2>3. Idle' => \/ state = "head" /\ j - 2 = 3 /\ f[j + 1] > MAX_PAYLOAD
                 \/ state = "crc" /\ j - 2 = 5 + got[4]
    BY <1>3, FrameRead
  <2>4. j - 2 >= 4 => got[4] = z
    <3>1. j - 2 >= 4 => 4 \in 1..(j - 2)
      BY <1>1
    <3>2. 4 + 2 = 6
      OBVIOUS
    <3> QED  BY <1>3, <3>1, <3>2
  <2>5. ASSUME Idle' PROVE j + 1 = L
    <3>1. CASE state = "head" /\ j - 2 = 3 /\ f[j + 1] > MAX_PAYLOAD
      <4>1. j + 1 = 6
        BY <1>1, <3>1
      <4> QED  BY <1>1, <3>1, <4>1
    <3>2. CASE state = "crc" /\ j - 2 = 5 + got[4]
      <4>1. j - 2 >= 4
        BY <1>3, <3>2 DEF BoardTyped, ParserInv
      <4> QED  BY <1>1, <2>4, <3>2, <4>1
    <3> QED  BY <2>3, <2>5, <3>1, <3>2
  <2>6. ASSUME ~Idle' PROVE InSync(f, j + 1)' /\ j + 1 # L
    <3>1. got' = Append(got, f[j + 1])
      BY <2>2, <2>6
    <3>2. Len(got') = (j + 1) - 2 /\ j + 1 >= 2
      BY <1>1, <2>1, <3>1
    <3>3. ASSUME NEW m \in 1..((j + 1) - 2) PROVE got'[m] = f[m + 2]
      <4>1. CASE m = j - 1
        <5>1. m + 2 = j + 1
          BY <1>1, <4>1
        <5> QED  BY <2>1, <3>1, <4>1, <5>1
      <4>2. CASE m # j - 1
        <5>1. m \in 1..(j - 2)
          BY <1>1, <4>2
        <5> QED  BY <1>3, <2>1, <3>1, <5>1
      <4> QED  BY <4>1, <4>2
    <3>4. InSync(f, j + 1)'
      BY <2>6, <3>2, <3>3 DEF InSync
    <3>5. ASSUME j + 1 = L PROVE FALSE
      <4>1. j - 1 = 6 + z /\ j - 2 >= 4
        BY <1>1, <3>5
      <4>2. got'[4] = z
        <5>1. 4 \in 1..(j - 2)
          BY <1>1, <4>1
        <5> QED  BY <2>1, <2>4, <3>1, <4>1, <5>1
      <4>3. Len(got') = 6 + z
        BY <2>1, <3>1, <4>1
      <4>4. ParserInv' /\ state' \in {"head", "payload", "crc"}
        BY <1>3, <2>6, FrameRead DEF Idle
      <4>5. Len(got') <= 3 \/ Len(got') < 4 + z \/ Len(got') < 6 + z
        BY <4>2, <4>4 DEF ParserInv
      <4> QED  BY <1>1, <4>3, <4>5
    <3> QED  BY <3>4, <3>5
  <2> QED  BY <1>1, <2>5, <2>6 DEF L
<1> QED  BY <1>2, <1>3 DEF InSync

\* Between frames the parser finds no header within one.
LEMMA SkipStep ==
    ASSUME BoardTyped, Poll, NEW f \in PlainFrames, NEW j \in 1..(Len(f) - 1), Skipping(f, j),
           Head(waiting) = f[j + 1]
    PROVE  Skipping(f, j + 1)' /\ Idle'
<1>1. Len(f) \in Nat /\ f[2] = V55 /\ \A i \in 2..(Len(f) - 1) : f[i] # AA \/ f[i + 1] # V55
  BY PlainFacts
<1>2. j \in Nat /\ 1 <= j /\ j + 1 >= 2 /\ j <= Len(f) - 1
  BY <1>1
<1>3. CASE state = "aa"
  <2>1. state' = IF f[j + 1] = AA THEN "55" ELSE "aa"
    BY <1>3, PollStep
  <2> QED  BY <1>2, <2>1 DEF Skipping, Idle
<1>4. CASE state = "55"
  <2>1. j >= 2 /\ f[j] = AA
    BY <1>4 DEF Skipping
  <2>2. j \in 2..(Len(f) - 1)
    BY <1>1, <1>2, <2>1
  <2>3. f[j + 1] # V55
    BY <1>1, <2>1, <2>2
  <2>4. state' = IF f[j + 1] = AA THEN "55" ELSE "aa"
    BY <1>4, <2>3, PollStep
  <2> QED  BY <1>2, <2>4 DEF Skipping, Idle
<1> QED  BY <1>3, <1>4 DEF Skipping, Idle

LEMMA LineFacts ==
    ASSUME BoardTyped
    PROVE  /\ waiting \in Seq(Bytes) /\ rest \in Seq(Bytes) /\ Line \in Seq(Bytes) /\ Len(Line) \in Nat
           /\ sent \in Seq(Frames) /\ calm \in Nat /\ Total \in Nat
           /\ rest # <<>> => Last(sent) \in Frames
<1>1. waiting \in Seq(Bytes) /\ rest \in Seq(Bytes) /\ sent \in Seq(Frames) /\ calm \in Nat
  BY DEF BoardTyped, TypeOK
<1>2. Line \in Seq(Bytes) /\ Len(Line) \in Nat
  BY <1>1 DEF Line
<1>3. rest # <<>> => Last(sent) \in Frames
  <2>1. sent # <<>> => Len(sent) \in 1..Len(sent)
    BY <1>1, EmptySeq
  <2> QED  BY <1>1, <2>1 DEF BoardTyped, Last
<1>4. Total \in Nat
  BY <1>1, <1>3, FrameFacts DEF Total
<1> QED  BY <1>1, <1>2, <1>3, <1>4

LEMMA PollPlaced == ASSUME receiver = "board", BoardTyped, Placed, Poll PROVE Placed'
<1> DEFINE n == Len(Line)
           T == Total
<1>1. /\ waiting # <<>> /\ waiting' = Tail(waiting)
      /\ UNCHANGED <<rest, sent, hurt, calm>>
  BY PollStep
<1>2. Total' = T /\ Clean' = Clean
  BY <1>1 DEF Total, Clean
<1>3. Line \in Seq(Bytes) /\ Line # <<>> /\ Head(Line) = Head(waiting) /\ Line' = Tail(Line)
  <2>1. waiting \in Seq(Bytes) /\ rest \in Seq(Bytes) /\ waiting # <<>>
    BY <1>1, LineFacts
  <2>2. \A w, r \in Seq(Bytes) :
           w # <<>> => w \o r # <<>> /\ Head(w \o r) = Head(w) /\ Tail(w \o r) = Tail(w) \o r
    <3> SUFFICES ASSUME NEW w \in Seq(Bytes), NEW r \in Seq(Bytes), w # <<>>
                 PROVE  w \o r # <<>> /\ Head(w \o r) = Head(w) /\ Tail(w \o r) = Tail(w) \o r
      OBVIOUS
    <3>1. /\ w \o r \in Seq(Bytes) /\ Len(w \o r) = Len(w) + Len(r)
          /\ \A i \in 1..(Len(w) + Len(r)) : (w \o r)[i] = IF i <= Len(w) THEN w[i] ELSE r[i - Len(w)]
      BY ConcatProperties
    <3>2. /\ Tail(w) \in Seq(Bytes) /\ Len(w) \in Nat /\ Len(w) >= 1 /\ Len(Tail(w)) = Len(w) - 1
          /\ Head(w) = w[1] /\ \A i \in 1..(Len(w) - 1) : Tail(w)[i] = w[i + 1]
      BY Reading
    <3>3. w \o r # <<>>
      BY ConcatEqualIffEmpty
    <3>4. /\ Tail(w \o r) \in Seq(Bytes) /\ Len(Tail(w \o r)) = Len(w) + Len(r) - 1
          /\ Head(w \o r) = (w \o r)[1]
          /\ \A i \in 1..(Len(w) + Len(r) - 1) : Tail(w \o r)[i] = (w \o r)[i + 1]
      BY <3>1, <3>3, Reading
    <3>5. /\ Tail(w) \o r \in Seq(Bytes) /\ Len(Tail(w) \o r) = Len(w) - 1 + Len(r)
          /\ \A i \in 1..(Len(w) - 1 + Len(r)) :
                (Tail(w) \o r)[i] = IF i <= Len(w) - 1 THEN Tail(w)[i] ELSE r[i - (Len(w) - 1)]
      BY <3>2, ConcatProperties
    <3>6. Len(r) \in Nat
      OBVIOUS
    <3>7. Head(w \o r) = Head(w)
      <4>1. 1 \in 1..(Len(w) + Len(r)) /\ 1 <= Len(w)
        BY <3>2, <3>6
      <4> QED  BY <3>1, <3>2, <3>4, <4>1
    <3>8. ASSUME NEW i \in 1..(Len(w) + Len(r) - 1) PROVE Tail(w \o r)[i] = (Tail(w) \o r)[i]
      <4>1. i + 1 \in 1..(Len(w) + Len(r)) /\ i \in 1..(Len(w) - 1 + Len(r))
        BY <3>2, <3>6
      <4>2. CASE i <= Len(w) - 1
        <5>1. i \in 1..(Len(w) - 1) /\ i + 1 <= Len(w)
          BY <3>2, <3>6, <4>2
        <5> QED  BY <3>1, <3>2, <3>4, <3>5, <4>1, <4>2, <5>1
      <4>3. CASE ~(i <= Len(w) - 1)
        <5>1. ~(i + 1 <= Len(w)) /\ (i + 1) - Len(w) = i - (Len(w) - 1)
          BY <3>2, <3>6, <4>3
        <5> QED  BY <3>1, <3>4, <3>5, <4>1, <4>3, <5>1
      <4> QED  BY <4>2, <4>3
    <3>9. Len(Tail(w \o r)) = Len(Tail(w) \o r)
      BY <3>2, <3>4, <3>5, <3>6
    <3>10. Tail(w \o r) = Tail(w) \o r
      BY <3>4, <3>5, <3>8, <3>9, SeqEqual
    <3> QED  BY <3>3, <3>7, <3>10
  <2> QED  BY <1>1, <2>1, <2>2, LineFacts DEF Line
<1>4. n \in Nat /\ Len(Line') = n - 1 /\ T \in Nat
  BY <1>3, Reading, LineFacts
<1> SUFFICES ASSUME Clean PROVE \E cuts : CutsOf(cuts, Line') /\ T \in cuts
                                          /\ (Len(Line') < T => Reached(cuts)')
  BY <1>2 DEF Placed
<1>5. PICK cuts : CutsOf(cuts, Line) /\ T \in cuts /\ (n < T => Reached(cuts))
  BY DEF Placed
<1>6. CutsOf(cuts, Line') /\ cuts \subseteq Nat
  BY <1>3, <1>5, CutsRead DEF CutsOf
<1> SUFFICES ASSUME n - 1 < T PROVE Reached(cuts)'
  BY <1>4, <1>5, <1>6
<1>7. Stray => Stray' \/ state' = "aa"
  <2> SUFFICES ASSUME ~Idle, Need + T - n <= MAX_PAYLOAD + 6, ~Idle' PROVE Stray'
    <3>1. Idle' /\ Stray => state' = "aa"
      BY FrameRead DEF Stray
    <3> QED  BY <3>1 DEF Stray
  <2>1. Need \in Int /\ Need' \in Int /\ Need' <= Need - 1 /\ MAX_PAYLOAD \in Nat
    BY FrameRead, SizesAssumption
  <2>2. Need' + T - (n - 1) <= MAX_PAYLOAD + 6
    <3>1. \A a, b, r, k, c \in Int :
             b <= a - 1 /\ a + r - k <= c => b + r - (k - 1) <= c
      OBVIOUS
    <3>2. T \in Int /\ n \in Int /\ MAX_PAYLOAD + 6 \in Int
      BY <1>4, <2>1
    <3> HIDE DEF n, T
    <3> QED  BY <2>1, <3>1, <3>2
  <2> QED  BY <1>2, <1>4, <2>2 DEF Stray
<1>8. CASE n \in cuts /\ (Idle \/ Stray)
  <2>1. PICK f \in PlainFrames : Head(waiting) = AA /\ Within(f, 1, Line', cuts)
    BY <1>3, <1>5, <1>8, CutsRead
  <2>2. CASE Idle
    <3>1. state' = "55"
      BY <2>1, <2>2, PollStep DEF Idle, AA, V55
    <3>2. InSync(f, 1)'
      BY <3>1 DEF InSync
    <3> QED  BY <2>1, <3>2 DEF Reached
  <2>3. CASE Stray
    <3>1. state' = "aa" => Skipping(f, 1)'
      BY DEF Skipping, Idle
    <3> QED  BY <1>7, <2>1, <2>3, <3>1 DEF Reached
  <2> QED  BY <1>8, <2>2, <2>3
<1>9. CASE \E f \in PlainFrames, j \in Nat :
              Within(f, j, Line, cuts) /\ (Stray \/ InSync(f, j) \/ Skipping(f, j))
  <2>1. PICK f \in PlainFrames, j \in Nat :
           Within(f, j, Line, cuts) /\ (Stray \/ InSync(f, j) \/ Skipping(f, j))
    BY <1>9
  <2>2. /\ Head(waiting) = f[j + 1] /\ j \in 1..(Len(f) - 1)
        /\ j + 1 < Len(f) => Within(f, j + 1, Line', cuts)
        /\ j + 1 = Len(f) => Len(Line') \in cuts
    BY <1>3, <1>6, <2>1, WithinRead
  <2>3. j + 1 < Len(f) \/ j + 1 = Len(f)
    BY <2>2, PlainFacts
  <2>4. state' = "aa" => Idle' /\ Skipping(f, j + 1)'
    BY DEF Skipping, Idle
  <2>5. CASE j + 1 < Len(f)
    <3>1. Stray' \/ InSync(f, j + 1)' \/ Skipping(f, j + 1)'
      BY <1>7, <2>1, <2>2, <2>4, <2>5, SyncStep, SkipStep
    <3> QED  BY <2>2, <2>5, <3>1 DEF Reached
  <2>6. CASE j + 1 = Len(f)
    <3>1. Idle' \/ Stray'
      BY <1>7, <2>1, <2>2, <2>4, <2>6, SyncStep, SkipStep
    <3> QED  BY <2>2, <2>6, <3>1 DEF Reached
  <2> QED  BY <2>3, <2>5, <2>6
<1>10. CASE n = T
  <2>1. Idle \/ Stray
    <3>1. ~Idle => Need \in Int /\ Need <= MAX_PAYLOAD + 6
      BY NeedBound
    <3>2. ~Idle => Need + T - n <= MAX_PAYLOAD + 6
      <4> HIDE DEF n, T
      <4> QED  BY <1>4, <1>10, <3>1, SizesAssumption
    <3> QED  BY <3>2 DEF Stray
  <2> QED  BY <1>5, <1>8, <1>10, <2>1
<1>11. CASE n < T
  BY <1>5, <1>8, <1>9, <1>11 DEF Reached
<1>12. n = T \/ n < T
  <2> HIDE DEF n, T
  <2> QED  BY <1>4
<1> QED  BY <1>10, <1>11, <1>12

\* Nothing but the end of the line is known of a line that was just disturbed.
LEMMA NothingTold == ASSUME Total' = 0, Line' \in Seq(Bytes) PROVE Placed'
<1>1. Len(Line') \in Nat
  OBVIOUS
<1>2. CutsOf({0}, Line') /\ 0 \in {0}
  BY DEF CutsOf
<1>3. ~(Len(Line') < 0)
  BY <1>1
<1> QED  BY <1>2, <1>3 DEF Placed

LEMMA BytePlaced ==
    ASSUME receiver = "board", BoardTyped, Placed, BoardTyped',
           ByteIn \/ ByteLost \/ (\E byte \in Noise : ByteWrong(byte))
    PROVE  Placed'
<1>1. /\ waiting \in Seq(Bytes) /\ rest \in Seq(Bytes) /\ calm \in Nat
      /\ Line' \in Seq(Bytes) /\ UNCHANGED <<state, got, sent>>
  <2>1. Line' \in Seq(Bytes)
    BY DEF BoardTyped, TypeOK, Line
  <2> QED  BY <2>1, LineFacts DEF ByteIn, ByteLost, ByteWrong, parser
<1>2. CASE ByteLost \/ \E byte \in Noise : ByteWrong(byte)
  <2>1. hurt' = TRUE /\ calm' = 0
    BY <1>2 DEF ByteLost, ByteWrong
  <2>2. CASE rest' = <<>>
    <3>1. Total' = 0
      BY <2>1, <2>2 DEF Total
    <3> QED  BY <1>1, <3>1, NothingTold
  <2>3. CASE rest' # <<>>
    BY <2>1, <2>3 DEF Placed, Clean
  <2> QED  BY <2>2, <2>3
<1>3. CASE ByteIn
  <2>1. /\ rest # <<>> /\ waiting' = Append(waiting, Head(rest)) /\ rest' = Tail(rest)
        /\ hurt' = hurt /\ Arrived
    BY <1>3 DEF ByteIn
  <2>2. /\ Head(rest) \in Bytes /\ Tail(rest) \in Seq(Bytes) /\ Len(rest) \in Nat /\ Len(rest) >= 1
        /\ Len(Tail(rest)) = Len(rest) - 1
    BY <1>1, <2>1, Reading
  <2>3. Line' = Line
    <3>1. Append(waiting, Head(rest)) = waiting \o <<Head(rest)>>
      BY <1>1, <2>2, AppendIsConcat
    <3>2. <<Head(rest)>> \o Tail(rest) = rest
      BY <1>1, <2>1
    <3>3. <<Head(rest)>> \in Seq(Bytes)
      BY <2>2
    <3>4. (waiting \o <<Head(rest)>>) \o Tail(rest) = waiting \o (<<Head(rest)>> \o Tail(rest))
      BY <1>1, <2>2, <3>3, ConcatAssociative
    <3> QED  BY <2>1, <3>1, <3>2, <3>4 DEF Line
  <2>4. rest' = <<>> <=> Len(rest) = 1
    <3>1. Tail(rest) # <<>> => Len(Tail(rest)) \in Nat \ {0}
      BY <2>2, EmptySeq
    <3>2. Len(<<>>) = 0
      OBVIOUS
    <3> QED  BY <2>1, <2>2, <3>1, <3>2
  <2>5. CASE rest' # <<>>
    <3>1. calm' = calm
      BY <2>1, <2>2, <2>4, <2>5 DEF Arrived
    <3>2. Total' = Total /\ Clean' = Clean
      BY <1>1, <2>1, <2>5, <3>1 DEF Total, Clean
    <3>3. (Idle' <=> Idle) /\ (Stray' <=> Stray)
      BY <1>1, <2>3, <3>2 DEF Idle, Stray, Need
    <3>4. \A cuts : Reached(cuts) => Reached(cuts)'
      BY <1>1, <2>3, <3>3 DEF Reached, InSync, Skipping
    <3> QED  BY <2>3, <3>2, <3>4 DEF Placed
  <2>6. CASE rest' = <<>>
    <3>1. CASE ~hurt /\ Plain(Last(sent))
      <4>1. calm' = calm + Len(Last(sent))
        BY <2>1, <2>4, <2>6, <3>1 DEF Arrived
      <4>2. Total' = Total
        <5>1. Total' = calm' + 0 /\ Total = calm + Len(Last(sent))
          BY <2>1, <2>6 DEF Total
        <5>2. Len(Last(sent)) \in Nat
          BY <2>1, LineFacts, FrameFacts
        <5> QED  BY <1>1, <4>1, <5>1, <5>2
      <4>3. Clean
        BY <3>1 DEF Clean
      <4>4. (Idle' <=> Idle) /\ (Stray' <=> Stray)
        BY <1>1, <2>3, <4>2 DEF Idle, Stray, Need
      <4>5. \A cuts : Reached(cuts) => Reached(cuts)'
        BY <1>1, <2>3, <4>4 DEF Reached, InSync, Skipping
      <4> QED  BY <2>3, <4>2, <4>3, <4>5 DEF Placed
    <3>2. CASE hurt \/ ~Plain(Last(sent))
      <4>1. calm' = 0
        BY <2>1, <2>4, <2>6, <3>2 DEF Arrived, BoardTyped
      <4>2. Total' = 0
        BY <2>6, <4>1 DEF Total
      <4> QED  BY <1>1, <4>2, NothingTold
    <3> QED  BY <3>1, <3>2
  <2> QED  BY <2>5, <2>6
<1> QED  BY <1>2, <1>3

LEMMA SendPlaced ==
    ASSUME receiver = "board", BoardTyped, Placed, NEW frame \in Frames, Send(frame) PROVE Placed'
<1>1. /\ UNCHANGED <<waiting, state, got, calm>>
      /\ rest = <<>> /\ rest' = frame /\ sent' = Append(sent, frame) /\ hurt' = FALSE
  BY DEF Send, parser
<1>2. Last(sent') = frame /\ frame \in Seq(Bytes) /\ frame # <<>> /\ Len(frame) \in Nat
  <2>1. sent \in Seq(Frames)
    BY LineFacts
  <2>2. Len(sent') = Len(sent) + 1 /\ sent'[Len(sent) + 1] = frame
    BY <1>1, <2>1
  <2> QED  BY <2>2, FrameFacts DEF Last
<1> SUFFICES ASSUME Plain(frame) PROVE Placed'
  BY <1>1, <1>2 DEF Placed, Clean
<1>3. frame \in PlainFrames
  BY DEF PlainFrames
<1>4. /\ Line \in Seq(Bytes) /\ Line = waiting /\ Line' = Line \o frame
      /\ Len(Line) \in Nat /\ Len(Line') = Len(Line) + Len(frame)
  BY <1>1, <1>2, LineFacts, ConcatEmptySeq, ConcatProperties DEF Line
<1>5. Total \in Nat /\ Total' = Total + Len(frame)
  <2>1. Total = calm /\ Total' = calm + Len(frame) /\ calm \in Nat
    BY <1>1, <1>2, LineFacts DEF Total
  <2> QED  BY <2>1
<1>6. Clean
  BY <1>1 DEF Clean
<1>7. PICK cuts : CutsOf(cuts, Line) /\ Total \in cuts /\ (Len(Line) < Total => Reached(cuts))
  BY <1>6 DEF Placed
<1> DEFINE more == With(cuts, frame)
<1>8. /\ CutsOf(more, Line') /\ Total' \in more
      /\ \A d \in cuts : d + Len(frame) \in more
      /\ \A g \in PlainFrames, j \in Nat : Within(g, j, Line, cuts) => Within(g, j, Line', more)
  BY <1>3, <1>4, <1>5, <1>7, CutsSent
<1> HIDE DEF more
<1>9. (Idle' <=> Idle) /\ (Stray => Stray')
  <2>1. (Idle' <=> Idle) /\ Need' = Need
    BY <1>1 DEF Idle, Need
  <2>2. ~Idle => Need + Total' - Len(Line') = Need + Total - Len(Line)
    <3>1. ~Idle => Need \in Int
      BY NeedBound
    <3> QED  BY <1>2, <1>4, <1>5, <3>1
  <2> QED  BY <2>1, <2>2 DEF Stray
<1>10. ASSUME Reached(cuts) PROVE Reached(more)'
  <2>1. CASE Len(Line) \in cuts /\ (Idle \/ Stray)
    BY <1>4, <1>8, <1>9, <2>1 DEF Reached
  <2>2. CASE \E f \in PlainFrames, j \in Nat :
                Within(f, j, Line, cuts) /\ (Stray \/ InSync(f, j) \/ Skipping(f, j))
    <3>1. PICK f \in PlainFrames, j \in Nat :
             Within(f, j, Line, cuts) /\ (Stray \/ InSync(f, j) \/ Skipping(f, j))
      BY <2>2
    <3>2. Stray' \/ InSync(f, j)' \/ Skipping(f, j)'
      BY <1>1, <1>9, <3>1 DEF InSync, Skipping
    <3> QED  BY <1>8, <3>1, <3>2 DEF Reached
  <2> QED  BY <1>10, <2>1, <2>2 DEF Reached
<1>11. Len(Line') < Total' => Len(Line) < Total
  BY <1>2, <1>4, <1>5
<1> QED  BY <1>7, <1>8, <1>10, <1>11 DEF Placed

\* Whatever bytes a disturbance left the parser with: once as many undisturbed bytes
\* have passed as the longest frame has without its header, the board's parser is
\* between frames again when all is read.
THEOREM Back_in_step == Spec => []BackInStep
<1> DEFINE Inv == receiver = "board" => BoardTyped /\ Placed
<1>1. Init => Inv
  <2> SUFFICES ASSUME Init PROVE Placed
    BY InitTyped
  <2>1. rest = <<>> /\ waiting = <<>> /\ calm = 0
    BY DEF Init
  <2>2. Total = 0 /\ Line = <<>>
    BY <2>1 DEF Total, Line
  <2>3. Len(Line) = 0
    BY <2>2
  <2>4. CutsOf({0}, Line) /\ 0 \in {0}
    BY <2>3 DEF CutsOf
  <2>5. ~(0 < 0)
    OBVIOUS
  <2> QED  BY <2>2, <2>3, <2>4, <2>5 DEF Placed
<1>2. Inv /\ [Next]_vars => Inv'
  <2> SUFFICES ASSUME Inv, [Next]_vars, receiver' = "board" PROVE (BoardTyped /\ Placed)'
    OBVIOUS
  <2>1. receiver = "board" /\ BoardTyped /\ Placed
    BY DEF Next, Send, ByteIn, ByteLost, ByteWrong, Poll, Feed, vars
  <2>2. CASE UNCHANGED vars
    <3>1. UNCHANGED <<receiver, rest, waiting, state, got, sent, hurt, calm, intact, received, faults>>
      BY <2>2 DEF vars, line, parser, history
    <3>2. BoardTyped'
      BY <2>1, <3>1 DEF BoardTyped, TypeOK, ParserInv, Idle
    <3>3. Placed'
      BY <2>1, <3>1
         DEF Placed, Clean, Total, Line, Reached, Stray, Need, Idle, InSync, Skipping
    <3> QED  BY <3>2, <3>3
  <2>3. ~Feed
    BY <2>1 DEF Feed
  <2> HIDE DEF Inv
  <2> QED  BY <2>1, <2>2, <2>3, PollTyped, LineTyped, SendTyped, PollPlaced, BytePlaced, SendPlaced
           DEF Next
<1>3. Inv => BackInStep
  <2> SUFFICES ASSUME BoardTyped, Placed, Parsed, calm >= MAX_PAYLOAD + 6 PROVE Idle
    BY DEF BackInStep, Idle
  <2>1. Line = <<>> /\ Total = calm + 0 /\ Clean
    BY DEF Parsed, Line, Total, Clean
  <2>2. Len(Line) = 0 /\ calm \in Nat /\ MAX_PAYLOAD \in Nat
    BY <2>1, LineFacts, SizesAssumption
  <2>3. Total = calm /\ 0 < Total
    BY <2>1, <2>2
  <2>4. PICK cuts : CutsOf(cuts, Line) /\ Reached(cuts)
    BY <2>1, <2>2, <2>3 DEF Placed
  <2>5. ~Stray
    <3> SUFFICES ASSUME Stray PROVE FALSE
      OBVIOUS
    <3>1. Need \in Int /\ 1 <= Need /\ Need + calm - 0 <= MAX_PAYLOAD + 6
      BY <2>2, <2>3, NeedBound DEF Stray
    <3> QED  BY <2>2, <3>1
  <2>6. \A f \in PlainFrames, j \in Nat : ~Within(f, j, Line, cuts)
    <3> SUFFICES ASSUME NEW f \in PlainFrames, NEW j \in Nat, Within(f, j, Line, cuts) PROVE FALSE
      OBVIOUS
    <3>1. 0 + j - Len(f) \in Nat /\ j \in 1..(Len(f) - 1)
      BY <2>2, <2>4 DEF Within, CutsOf
    <3> QED  BY <3>1, PlainFacts
  <2> QED  BY <2>4, <2>5, <2>6 DEF Reached
<1> QED  BY <1>1, <1>2, <1>3, PTL DEF Spec

-----------------------------------------------------------------------------
(* The bridge's loop.  Each pass leaves less of the buffer, so the recursion of Fed
   defines a function; what holds of it is shown by taking the shortest buffer for
   which it might fail. *)

LEMMA Least ==
    ASSUME NEW T, T \subseteq Nat, T # {}
    PROVE  \E m \in T : \A k \in T : m <= k
<1> DEFINE R == OpToRel(<, Nat)
<1>1. IsWellFoundedOn(R, Nat)
  BY NatLessThanWellFounded
<1>2. \E m \in T : \A k \in T : ~(<<k, m>> \in R)
  <2> HIDE DEF R
  <2> QED  BY <1>1, WFMin
<1>3. PICK m \in T : \A k \in T : ~(<<k, m>> \in R)
  BY <1>2
<1>4. ASSUME NEW k \in T PROVE m <= k
  <2>1. ~(<<k, m>> \in R)
    BY <1>3
  <2>2. <<k, m>> \in Nat \X Nat
    OBVIOUS
  <2>3. ~ (k < m)
    BY <2>1, <2>2 DEF OpToRel
  <2> QED  BY <2>3
<1> QED  BY <1>3, <1>4

\* If good holds of a buffer as soon as it holds of all shorter ones, it holds of all.
LEMMA Shortest ==
    ASSUME NEW good,
           \A b \in Seq(Bytes) :
               (\A c \in Seq(Bytes) : Len(c) < Len(b) => c \in good) => b \in good
    PROVE  \A b \in Seq(Bytes) : b \in good
<1> DEFINE Bad == {b \in Seq(Bytes) : b \notin good}
           T == {Len(b) : b \in Bad}
<1> SUFFICES ASSUME Bad # {} PROVE FALSE
  OBVIOUS
<1>0. \A b \in Seq(Bytes) : Len(b) \in Nat
  OBVIOUS
<1>1. T \subseteq Nat /\ T # {}
  <2> HIDE DEF Bad
  <2>1. Bad \subseteq Seq(Bytes)
    BY DEF Bad
  <2>2. \A t \in T : \E b \in Bad : t = Len(b)
    OBVIOUS
  <2>3. T \subseteq Nat
    BY <1>0, <2>1, <2>2
  <2>4. T # {}
    OBVIOUS
  <2> QED  BY <2>3, <2>4
<1>2. PICK m \in T : \A k \in T : m <= k
  <2> HIDE DEF T
  <2> QED  BY <1>1, Least
<1>3. PICK b \in Bad : m = Len(b)
  OBVIOUS
<1>4. ASSUME NEW c \in Seq(Bytes), Len(c) < Len(b) PROVE c \in good
  <2> SUFFICES ASSUME c \notin good PROVE FALSE
    OBVIOUS
  <2>1. Len(c) \in T
    OBVIOUS
  <2>2. m <= Len(c)
    <3> HIDE DEF T
    <3> QED  BY <1>2, <2>1
  <2>3. Len(c) \in Nat /\ Len(b) \in Nat
    BY <1>0
  <2> QED  BY <1>3, <1>4, <2>2, <2>3
<1> QED  BY <1>3, <1>4

\* What is left behind the first k - 1 bytes.
LEMMA Cut ==
    ASSUME NEW S, NEW s \in Seq(S), NEW k \in 1..(Len(s) + 1)
    PROVE  LET t == SubSeq(s, k, Len(s)) IN
           /\ t \in Seq(S) /\ Len(t) = Len(s) - k + 1
           /\ \A i \in 1..Len(t) : t[i] = s[i + (k - 1)]
<1> DEFINE n == Len(s)
<1>1. n \in Nat
  OBVIOUS
<1>2. \A i \in k..n : s[i] \in S
  OBVIOUS
<1>3. SubSeq(s, k, n) = [i \in 1..(n - k + 1) |-> s[i + k - 1]]
  BY <1>1
<1>4. n - k + 1 \in Nat
  BY <1>1
<1>5. [i \in 1..(n - k + 1) |-> s[i + k - 1]] \in Seq(S)
  <2>1. \A i \in 1..(n - k + 1) : i + k - 1 \in k..n
    BY <1>1
  <2>2. \A i \in 1..(n - k + 1) : s[i + k - 1] \in S
    BY <1>2, <2>1
  <2> QED  BY <1>4, <2>2
<1>6. Len([i \in 1..(n - k + 1) |-> s[i + k - 1]]) = n - k + 1
  BY <1>4
<1> QED  BY <1>1, <1>3, <1>4, <1>5, <1>6

LEMMA HeaderFacts ==
    ASSUME NEW b \in Seq(Bytes)
    PROVE  /\ HeaderAt(b) = 0 \/ HeaderAt(b) \in 1..(Len(b) - 1)
           /\ HeaderAt(b) = 0 => \A i \in 1..(Len(b) - 1) : ~(b[i] = AA /\ b[i + 1] = V55)
           /\ HeaderAt(b) # 0 => \A i \in 1..(Len(b) - 1) :
                 b[i] = AA /\ b[i + 1] = V55 => HeaderAt(b) <= i
           /\ HeaderAt(b) # 0 => b[HeaderAt(b)] = AA /\ b[HeaderAt(b) + 1] = V55
<1> DEFINE at == {i \in 1..(Len(b) - 1) : b[i] = AA /\ b[i + 1] = V55}
<1>1. CASE at = {}
  BY <1>1 DEF HeaderAt
<1>2. CASE at # {}
  <2>1. at \subseteq Nat
    OBVIOUS
  <2>2. \E i \in at : \A j \in at : i <= j
    <3> HIDE DEF at
    <3> QED  BY <1>2, <2>1, Least
  <2>3. HeaderAt(b) = CHOOSE i \in at : \A j \in at : i <= j
    BY <1>2 DEF HeaderAt
  <2>4. HeaderAt(b) \in at /\ \A j \in at : HeaderAt(b) <= j
    <3> HIDE DEF at
    <3> QED  BY <2>2, <2>3
  <2>5. HeaderAt(b) # 0
    BY <2>4
  <2> QED  BY <2>4, <2>5
<1> QED  BY <1>1, <1>2

From(b, k) == SubSeq(b, k, Len(b))

LEMMA FromFacts ==
    ASSUME NEW b \in Seq(Bytes), NEW k \in 1..(Len(b) + 1)
    PROVE  /\ From(b, k) \in Seq(Bytes) /\ Len(From(b, k)) = Len(b) - k + 1
           /\ \A i \in 1..(Len(b) - k + 1) : From(b, k)[i] = b[i + (k - 1)]
<1> DEFINE t == SubSeq(b, k, Len(b))
<1>1. t \in Seq(Bytes) /\ Len(t) = Len(b) - k + 1 /\ \A i \in 1..Len(t) : t[i] = b[i + (k - 1)]
  BY Cut
<1> QED  BY <1>1 DEF From

LEMMA TailIs ==
    ASSUME NEW b \in Seq(Bytes), b # <<>>
    PROVE  Tail(b) = From(b, 2) /\ 2 \in 1..(Len(b) + 1)
<1>1. Len(b) \in Nat /\ Len(b) >= 1
  BY Reading
<1>2. Tail(b) \in Seq(Bytes) /\ Len(Tail(b)) = Len(b) - 1
      /\ \A i \in 1..(Len(b) - 1) : Tail(b)[i] = b[i + 1]
  BY Reading
<1>3. 2 \in 1..(Len(b) + 1)
  BY <1>1
<1>4. From(b, 2) \in Seq(Bytes) /\ Len(From(b, 2)) = Len(b) - 2 + 1
      /\ \A i \in 1..(Len(b) - 2 + 1) : From(b, 2)[i] = b[i + (2 - 1)]
  BY <1>3, FromFacts
<1>5. Len(Tail(b)) = Len(From(b, 2))
  BY <1>1, <1>2, <1>4
<1>6. ASSUME NEW i \in 1..Len(Tail(b)) PROVE Tail(b)[i] = From(b, 2)[i]
  BY <1>1, <1>2, <1>4
<1> QED  BY <1>2, <1>3, <1>4, <1>5, <1>6, SeqEqual

Size(b) == Overhead + b[6]
Foremost(b) == SubSeq(b, 1, Size(b))

\* The equation of Fed, about any function in its place.
FedBody(f, buffer) ==
    LET at == HeaderAt(buffer)
        size == Overhead + buffer[6]
        frame == SubSeq(buffer, 1, size)
        after == SubSeq(buffer, size + 1, Len(buffer))
    IN CASE at = 0 ->
              [left |-> IF buffer # <<>> /\ Last(buffer) = AA THEN <<AA>> ELSE <<>>,
               frames |-> <<>>]
         [] at > 1 -> f[SubSeq(buffer, at, Len(buffer))]
         [] at = 1 /\ Len(buffer) < Overhead -> [left |-> buffer, frames |-> <<>>]
         [] at = 1 /\ Len(buffer) >= Overhead /\ buffer[6] > MAX_PAYLOAD ->
              f[WithoutFalseHeader(buffer)]
         [] at = 1 /\ Len(buffer) >= Overhead /\ buffer[6] <= MAX_PAYLOAD ->
              IF Len(buffer) < size THEN [left |-> buffer, frames |-> <<>>]
              ELSE IF frame \in Frames
              THEN [left |-> f[after].left, frames |-> <<frame>> \o f[after].frames]
              ELSE f[WithoutFalseHeader(buffer)]

\* The ways a pass of the loop can go: no header, bytes in front of one, a frame that is
\* not all there, a false header, a frame.
Bare(b) == HeaderAt(b) = 0
Behind(b) == HeaderAt(b) \in 2..(Len(b) - 1)
Short(b) ==
    HeaderAt(b) = 1
    /\ (Len(b) < Overhead \/ (Len(b) >= Overhead /\ b[6] <= MAX_PAYLOAD /\ Len(b) < Size(b)))
Misled(b) ==
    HeaderAt(b) = 1 /\ Len(b) >= Overhead
    /\ (b[6] > MAX_PAYLOAD \/ (Len(b) >= Size(b) /\ Foremost(b) \notin Frames))
Framed(b) ==
    HeaderAt(b) = 1 /\ Len(b) >= Overhead /\ b[6] <= MAX_PAYLOAD
    /\ Len(b) >= Size(b) /\ Foremost(b) \in Frames

LEMMA SixthByte ==
    ASSUME NEW b \in Seq(Bytes), Len(b) >= Overhead
    PROVE  b[6] \in Nat /\ b[6] \in Bytes /\ Size(b) \in Nat /\ Size(b) >= Overhead
<1>1. Len(b) \in Nat /\ Len(b) >= 8
  BY DEF Overhead
<1>2. 6 \in 1..Len(b)
  BY <1>1
<1>3. b[6] \in Bytes
  BY <1>2
<1>4. b[6] \in Nat
  BY <1>3, BytesAreNaturals
<1> QED  BY <1>3, <1>4 DEF Size, Overhead

LEMMA Ways ==
    ASSUME NEW f, NEW b \in Seq(Bytes)
    PROVE  /\ Bare(b) \/ Behind(b) \/ Short(b) \/ Misled(b) \/ Framed(b)
           /\ Bare(b) => FedBody(f, b) =
                 [left |-> IF b # <<>> /\ Last(b) = AA THEN <<AA>> ELSE <<>>, frames |-> <<>>]
           /\ Behind(b) => FedBody(f, b) = f[From(b, HeaderAt(b))]
           /\ Short(b) => FedBody(f, b) = [left |-> b, frames |-> <<>>]
           /\ Misled(b) => FedBody(f, b) = f[From(b, 2)]
           /\ Framed(b) => FedBody(f, b) =
                 [left |-> f[From(b, Size(b) + 1)].left,
                  frames |-> <<Foremost(b)>> \o f[From(b, Size(b) + 1)].frames]
<1>0. Len(b) \in Nat
  OBVIOUS
<1>1. HeaderAt(b) = 0 \/ HeaderAt(b) \in 1..(Len(b) - 1)
  BY HeaderFacts
<1>2. Len(b) >= Overhead => b[6] \in Nat /\ Size(b) \in Nat
  BY SixthByte
<1>3. Bare(b) \/ Behind(b) \/ Short(b) \/ Misled(b) \/ Framed(b)
  <2>1. CASE HeaderAt(b) = 0
    BY <2>1 DEF Bare
  <2>2. CASE HeaderAt(b) # 0 /\ HeaderAt(b) # 1
    BY <2>2, <1>0, <1>1 DEF Behind
  <2>3. CASE HeaderAt(b) = 1
    <3>1. CASE Len(b) < Overhead
      BY <2>3, <3>1 DEF Short
    <3>2. CASE Len(b) >= Overhead
      BY <2>3, <3>2, <1>0, <1>2, SizesAssumption DEF Short, Misled, Framed
    <3> QED  BY <1>0, <3>1, <3>2 DEF Overhead
  <2> QED  BY <2>1, <2>2, <2>3
<1>4. Bare(b) => FedBody(f, b) =
          [left |-> IF b # <<>> /\ Last(b) = AA THEN <<AA>> ELSE <<>>, frames |-> <<>>]
  BY DEF Bare, FedBody
<1>5. Behind(b) => FedBody(f, b) = f[From(b, HeaderAt(b))]
  <2>1. Behind(b) => HeaderAt(b) # 0 /\ HeaderAt(b) > 1 /\ HeaderAt(b) # 1
    BY DEF Behind
  <2> QED  BY <2>1 DEF FedBody, From
<1>6. HeaderAt(b) = 1 => b # <<>>
  <2>1. HeaderAt(b) = 1 => Len(b) # 0
    BY <1>0, <1>1
  <2> QED  BY <2>1
<1>7. HeaderAt(b) = 1 => WithoutFalseHeader(b) = From(b, 2)
  BY <1>6, TailIs DEF WithoutFalseHeader
<1>8. HeaderAt(b) = 1 => ~(HeaderAt(b) > 1) /\ HeaderAt(b) # 0
  OBVIOUS
<1>9. Short(b) => FedBody(f, b) = [left |-> b, frames |-> <<>>]
  <2>1. CASE HeaderAt(b) = 1 /\ Len(b) < Overhead
    <3>1. ~(Len(b) >= Overhead)
      BY <2>1, <1>0 DEF Overhead
    <3> QED  BY <2>1, <3>1, <1>8 DEF FedBody
  <2>2. CASE HeaderAt(b) = 1 /\ Len(b) >= Overhead /\ b[6] <= MAX_PAYLOAD /\ Len(b) < Size(b)
    <3>1. ~(Len(b) < Overhead)
      BY <2>2, <1>0 DEF Overhead
    <3>2. ~(b[6] > MAX_PAYLOAD)
      BY <2>2, <1>2, SizesAssumption
    <3> QED  BY <2>2, <3>1, <3>2, <1>8 DEF FedBody, Size
  <2> QED  BY <2>1, <2>2 DEF Short
<1>10. Misled(b) => FedBody(f, b) = f[From(b, 2)]
  <2>0. SUFFICES ASSUME Misled(b) PROVE FedBody(f, b) = f[From(b, 2)]
    OBVIOUS
  <2>1. /\ ~(Len(b) < Overhead) /\ HeaderAt(b) = 1 /\ Len(b) >= Overhead
        /\ WithoutFalseHeader(b) = From(b, 2)
    BY <2>0, <1>0, <1>7 DEF Misled, Overhead
  <2>2. CASE b[6] > MAX_PAYLOAD
    <3>1. ~(b[6] <= MAX_PAYLOAD)
      BY <2>1, <2>2, <1>2, SizesAssumption
    <3> QED  BY <2>1, <2>2, <3>1, <1>8 DEF FedBody
  <2>3. CASE ~(b[6] > MAX_PAYLOAD)
    <3>1. b[6] <= MAX_PAYLOAD
      BY <2>1, <2>3, <1>2, SizesAssumption
    <3>2. ~(Len(b) < Size(b)) /\ Foremost(b) \notin Frames
      BY <2>0, <2>1, <2>3, <1>0, <1>2 DEF Misled
    <3> QED  BY <2>1, <2>3, <3>1, <3>2, <1>8 DEF FedBody, Size, Foremost
  <2> QED  BY <2>2, <2>3
<1>11. Framed(b) => FedBody(f, b) =
          [left |-> f[From(b, Size(b) + 1)].left,
           frames |-> <<Foremost(b)>> \o f[From(b, Size(b) + 1)].frames]
  <2>0. SUFFICES ASSUME Framed(b)
                 PROVE  FedBody(f, b) = [left |-> f[From(b, Size(b) + 1)].left,
                                         frames |-> <<Foremost(b)>> \o f[From(b, Size(b) + 1)].frames]
    OBVIOUS
  <2>1. /\ ~(Len(b) < Overhead) /\ HeaderAt(b) = 1 /\ Len(b) >= Overhead
        /\ b[6] <= MAX_PAYLOAD /\ Foremost(b) \in Frames
    BY <2>0, <1>0 DEF Framed, Overhead
  <2>2. ~(b[6] > MAX_PAYLOAD) /\ ~(Len(b) < Size(b))
    BY <2>0, <2>1, <1>0, <1>2, SizesAssumption DEF Framed
  <2> QED  BY <2>1, <2>2, <1>8 DEF FedBody, Size, Foremost, From
<1> QED  BY <1>3, <1>4, <1>5, <1>9, <1>10, <1>11

\* Whatever the next pass looks at is shorter.
LEMMA Shorter ==
    ASSUME NEW b \in Seq(Bytes)
    PROVE  /\ Behind(b) => /\ From(b, HeaderAt(b)) \in Seq(Bytes)
                           /\ Len(From(b, HeaderAt(b))) < Len(b)
           /\ Misled(b) => From(b, 2) \in Seq(Bytes) /\ Len(From(b, 2)) < Len(b)
           /\ Framed(b) => /\ From(b, Size(b) + 1) \in Seq(Bytes)
                          /\ Len(From(b, Size(b) + 1)) < Len(b)
<1>0. Len(b) \in Nat
  OBVIOUS
<1>1. ASSUME NEW k \in 2..(Len(b) + 1) PROVE From(b, k) \in Seq(Bytes) /\ Len(From(b, k)) < Len(b)
  <2>1. k \in 1..(Len(b) + 1) /\ k \in Int /\ k >= 2
    BY <1>0
  <2>2. From(b, k) \in Seq(Bytes) /\ Len(From(b, k)) = Len(b) - k + 1
    BY <2>1, FromFacts
  <2> QED  BY <1>0, <2>1, <2>2
<1>2. Behind(b) => HeaderAt(b) \in 2..(Len(b) + 1)
  BY <1>0 DEF Behind
<1>3. Misled(b) => 2 \in 2..(Len(b) + 1)
  BY <1>0 DEF Misled, Overhead
<1>4. Framed(b) => Size(b) + 1 \in 2..(Len(b) + 1)
  <2> SUFFICES ASSUME Framed(b) PROVE Size(b) + 1 \in 2..(Len(b) + 1)
    OBVIOUS
  <2>1. Size(b) \in Nat /\ Size(b) >= Overhead
    BY SixthByte DEF Framed
  <2>2. Len(b) >= Size(b)
    BY DEF Framed
  <2> QED  BY <1>0, <2>1, <2>2 DEF Overhead
<1> QED  BY <1>1, <1>2, <1>3, <1>4

\* A pass depends on the loop only where it goes on.
LEMMA Local ==
    ASSUME NEW f, NEW g, NEW b \in Seq(Bytes),
           \A c \in Seq(Bytes) : Len(c) < Len(b) => f[c] = g[c]
    PROVE  FedBody(f, b) = FedBody(g, b)
<1>1. CASE Bare(b)
  BY <1>1, Ways
<1>2. CASE Behind(b)
  <2>1. f[From(b, HeaderAt(b))] = g[From(b, HeaderAt(b))]
    BY <1>2, Shorter
  <2> QED  BY <1>2, <2>1, Ways
<1>3. CASE Short(b)
  BY <1>3, Ways
<1>4. CASE Misled(b)
  <2>1. f[From(b, 2)] = g[From(b, 2)]
    BY <1>4, Shorter
  <2> QED  BY <1>4, <2>1, Ways
<1>5. CASE Framed(b)
  <2>1. f[From(b, Size(b) + 1)] = g[From(b, Size(b) + 1)]
    BY <1>5, Shorter
  <2> QED  BY <1>5, <2>1, Ways
<1> QED  BY <1>1, <1>2, <1>3, <1>4, <1>5, Ways

\* f is the loop on the buffers of at most n bytes.
UpTo(n) == {b \in Seq(Bytes) : Len(b) <= n}
Good(f, n) == f = [b \in UpTo(n) |-> FedBody(f, b)]

LEMMA GoodsAgree ==
    ASSUME NEW n \in Nat, NEW m \in Nat, NEW f, NEW g, Good(f, n), Good(g, m)
    PROVE  \A b \in Seq(Bytes) : Len(b) <= n /\ Len(b) <= m => f[b] = g[b]
<1> DEFINE good == {b \in Seq(Bytes) : Len(b) <= n /\ Len(b) <= m => f[b] = g[b]}
<1>1. ASSUME NEW b \in Seq(Bytes), \A c \in Seq(Bytes) : Len(c) < Len(b) => c \in good
      PROVE  b \in good
  <2> SUFFICES ASSUME Len(b) <= n /\ Len(b) <= m PROVE f[b] = g[b]
    OBVIOUS
  <2>1. ASSUME NEW c \in Seq(Bytes), Len(c) < Len(b) PROVE f[c] = g[c]
    <3>1. Len(c) \in Nat /\ Len(b) \in Nat
      OBVIOUS
    <3>2. Len(c) <= n /\ Len(c) <= m
      BY <2>1, <3>1
    <3> QED  BY <1>1, <2>1, <3>2
  <2>2. FedBody(f, b) = FedBody(g, b)
    <3> HIDE DEF good
    <3> QED  BY <2>1, Local
  <2>3. b \in UpTo(n) /\ b \in UpTo(m)
    BY DEF UpTo
  <2>4. f[b] = FedBody(f, b)
    BY <2>3 DEF Good
  <2>5. g[b] = FedBody(g, b)
    BY <2>3 DEF Good
  <2> QED  BY <2>2, <2>4, <2>5
<1>2. \A b \in Seq(Bytes) : b \in good
  <2> HIDE DEF good
  <2> QED  BY <1>1, Shortest
<1> QED  BY <1>2

TheLoop == [b \in Seq(Bytes) |-> (CHOOSE f : Good(f, Len(b)))[b]]

LEMMA LoopIsGood ==
    \A b \in Seq(Bytes) : TheLoop[b] = FedBody(TheLoop, b)
<1> DEFINE good == {b \in Seq(Bytes) : TheLoop[b] = FedBody(TheLoop, b)}
<1>1. ASSUME NEW b \in Seq(Bytes), \A c \in Seq(Bytes) : Len(c) < Len(b) => c \in good
      PROVE  b \in good
  <2> DEFINE n == Len(b)
             g == [c \in UpTo(n) |-> IF Len(c) < n THEN TheLoop[c] ELSE FedBody(TheLoop, c)]
  <2>0. n \in Nat
    OBVIOUS
  <2>1. ASSUME NEW c \in UpTo(n) PROVE g[c] = FedBody(g, c)
    <3>0. c \in Seq(Bytes) /\ Len(c) <= n /\ Len(c) \in Nat
      BY DEF UpTo
    <3>1. ASSUME NEW d \in Seq(Bytes), Len(d) < Len(c) PROVE TheLoop[d] = g[d]
      <4>1. Len(d) \in Nat
        OBVIOUS
      <4>2. Len(d) < n
        BY <3>0, <3>1, <4>1, <2>0
      <4>3. d \in UpTo(n)
        BY <4>1, <4>2, <2>0 DEF UpTo
      <4> HIDE DEF n
      <4> QED  BY <4>2, <4>3
    <3>2. FedBody(TheLoop, c) = FedBody(g, c)
      <4> HIDE DEF g
      <4> QED  BY <3>0, <3>1, Local
    <3>3. g[c] = FedBody(TheLoop, c)
      <4>1. CASE Len(c) < n
        <5>1. c \in good
          BY <1>1, <3>0, <4>1
        <5>2. TheLoop[c] = FedBody(TheLoop, c)
          BY <5>1
        <5> HIDE DEF n
        <5> QED  BY <4>1, <5>2
      <4>2. CASE ~(Len(c) < n)
        <5> HIDE DEF n
        <5> QED  BY <4>2
      <4> QED  BY <4>1, <4>2
    <3> QED  BY <3>2, <3>3
  <2>2. Good(g, n)
    <3>1. g = [c \in UpTo(n) |-> g[c]]
      <4> HIDE DEF n
      <4> QED  OBVIOUS
    <3> HIDE DEF g, n
    <3> QED  BY <2>1, <3>1 DEF Good
  <2> DEFINE h == CHOOSE f : Good(f, n)
  <2>3. Good(h, n)
    <3> HIDE DEF g, n
    <3> QED  BY <2>2
  <2>4. h[b] = g[b]
    <3> HIDE DEF g, h
    <3>1. n <= n
      BY <2>0
    <3> QED  BY <2>0, <2>2, <2>3, <3>1, GoodsAgree
  <2>5. TheLoop[b] = h[b]
    BY DEF TheLoop
  <2>6. g[b] = FedBody(TheLoop, b)
    <3>1. b \in UpTo(n) /\ ~(Len(b) < n)
      BY <2>0 DEF UpTo
    <3> HIDE DEF n
    <3> QED  BY <3>1
  <2> QED  BY <2>4, <2>5, <2>6
<1>2. \A b \in Seq(Bytes) : b \in good
  <2> HIDE DEF good
  <2> QED  BY <1>1, Shortest
<1> QED  BY <1>2

\* The loop of feed: the equation defines a function.
LEMMA FedIs ==
    \A b \in Seq(Bytes) : Fed[b] = FedBody(Fed, b)
<1>1. TheLoop = [b \in Seq(Bytes) |-> FedBody(TheLoop, b)]
  <2>1. TheLoop = [b \in Seq(Bytes) |-> TheLoop[b]]
    BY DEF TheLoop
  <2> QED  BY <2>1, LoopIsGood
<1>2. \A f : f = [buffer \in Seq(Bytes) |-> FedBody(f, buffer)]
               => Fed = [buffer \in Seq(Bytes) |-> FedBody(Fed, buffer)]
  BY SMT DEF Fed, FedBody
<1> QED  BY <1>1, <1>2

\* One pass of the loop: where it stops, and where it goes on.
LEMMA Pass ==
    ASSUME NEW b \in Seq(Bytes)
    PROVE  /\ Bare(b) \/ Behind(b) \/ Short(b) \/ Misled(b) \/ Framed(b)
           /\ Bare(b) => /\ Fed[b].left = IF b # <<>> /\ Last(b) = AA THEN <<AA>> ELSE <<>>
                         /\ Fed[b].frames = <<>>
           /\ Behind(b) => Fed[b] = Fed[From(b, HeaderAt(b))]
           /\ Short(b) => Fed[b].left = b /\ Fed[b].frames = <<>>
           /\ Misled(b) => Fed[b] = Fed[From(b, 2)]
           /\ Framed(b) =>
                 /\ Fed[b].left = Fed[From(b, Size(b) + 1)].left
                 /\ Fed[b].frames = <<Foremost(b)>> \o Fed[From(b, Size(b) + 1)].frames
<1> DEFINE l == IF b # <<>> /\ Last(b) = AA THEN <<AA>> ELSE <<>>
           fs == <<Foremost(b)>> \o Fed[From(b, Size(b) + 1)].frames
           k == Fed[From(b, Size(b) + 1)].left
           other == [left |-> k, frames |-> fs]
<1>1. Fed[b] = FedBody(Fed, b)
  BY FedIs
<1>2. Bare(b) => Fed[b] = [left |-> l, frames |-> <<>>]
  <2> HIDE DEF Fed
  <2> QED  BY <1>1, Ways
<1>3. Short(b) => Fed[b] = [left |-> b, frames |-> <<>>]
  <2> HIDE DEF Fed
  <2> QED  BY <1>1, Ways
<1>4. Framed(b) => Fed[b] = other
  <2> HIDE DEF Fed
  <2> QED  BY <1>1, Ways
<1>5. other.left = k /\ other.frames = fs
  <2> HIDE DEF k, fs
  <2> QED  OBVIOUS
<1>6. Bare(b) => Fed[b].left = l /\ Fed[b].frames = <<>>
  <2> HIDE DEF l
  <2> QED  BY <1>2
<1>7. Short(b) => Fed[b].left = b /\ Fed[b].frames = <<>>
  BY <1>3
<1>8. Framed(b) => Fed[b].left = k /\ Fed[b].frames = fs
  <2> HIDE DEF other
  <2> QED  BY <1>4, <1>5
<1>9. /\ Bare(b) \/ Behind(b) \/ Short(b) \/ Misled(b) \/ Framed(b)
      /\ Behind(b) => Fed[b] = Fed[From(b, HeaderAt(b))]
      /\ Misled(b) => Fed[b] = Fed[From(b, 2)]
  <2> HIDE DEF Fed
  <2> QED  BY <1>1, Ways
<1> QED  BY <1>6, <1>7, <1>8, <1>9

\* What feed returns and what it keeps.
FedTyped(b) ==
    /\ Fed[b].left \in Seq(Bytes) /\ Len(Fed[b].left) < Overhead + MAX_PAYLOAD
    /\ Fed[b].frames \in Seq(Frames)

LEMMA FeedTypes == \A b \in Seq(Bytes) : FedTyped(b)
<1> DEFINE good == {b \in Seq(Bytes) : FedTyped(b)}
<1>1. ASSUME NEW b \in Seq(Bytes), \A c \in Seq(Bytes) : Len(c) < Len(b) => c \in good
      PROVE  b \in good
  <2>1. CASE Bare(b)
    <3>1. Fed[b].left = (IF b # <<>> /\ Last(b) = AA THEN <<AA>> ELSE <<>>)
          /\ Fed[b].frames = <<>>
      BY <2>1, Pass
    <3>2. AA \in Bytes
      BY DEF AA, Bytes
    <3>3. Fed[b].left \in Seq(Bytes) /\ Len(Fed[b].left) <= 1
      BY <3>1, <3>2
    <3>4. Len(Fed[b].left) < Overhead + MAX_PAYLOAD
      BY <3>3, SizesAssumption DEF Overhead
    <3>5. Fed[b].frames \in Seq(Frames)
      BY <3>1
    <3> QED  BY <3>3, <3>4, <3>5 DEF FedTyped
  <2>2. CASE Behind(b)
    <3>1. From(b, HeaderAt(b)) \in good
      BY <1>1, <2>2, Shorter
    <3>2. Fed[b] = Fed[From(b, HeaderAt(b))]
      BY <2>2, Pass
    <3> QED  BY <3>1, <3>2 DEF FedTyped
  <2>3. CASE Short(b)
    <3>1. Fed[b].left = b /\ Fed[b].frames = <<>>
      BY <2>3, Pass
    <3>2. Len(b) < Overhead + MAX_PAYLOAD
      <4>1. CASE Len(b) < Overhead
        BY <4>1, SizesAssumption DEF Overhead
      <4>2. CASE Len(b) >= Overhead /\ b[6] <= MAX_PAYLOAD /\ Len(b) < Size(b)
        <5>1. b[6] \in Nat
          BY <4>2, SixthByte
        <5> QED  BY <4>2, <5>1, SizesAssumption DEF Size, Overhead
      <4> QED  BY <2>3, <4>1, <4>2 DEF Short
    <3>3. Fed[b].frames \in Seq(Frames)
      BY <3>1
    <3> QED  BY <3>1, <3>2, <3>3 DEF FedTyped
  <2>4. CASE Misled(b)
    <3>1. From(b, 2) \in good
      BY <1>1, <2>4, Shorter
    <3>2. Fed[b] = Fed[From(b, 2)]
      BY <2>4, Pass
    <3> QED  BY <3>1, <3>2 DEF FedTyped
  <2>5. CASE Framed(b)
    <3> DEFINE c == From(b, Size(b) + 1)
    <3>1. c \in good
      BY <1>1, <2>5, Shorter
    <3>2. /\ Fed[b].left = Fed[c].left
          /\ Fed[b].frames = <<Foremost(b)>> \o Fed[c].frames
      BY <2>5, Pass
    <3>3. Foremost(b) \in Frames
      BY <2>5 DEF Framed
    <3>4. Fed[c].frames \in Seq(Frames)
      BY <3>1 DEF FedTyped
    <3>5. Fed[b].frames \in Seq(Frames)
      <4> DEFINE fs == Fed[c].frames
      <4>1. fs \in Seq(Frames) /\ <<Foremost(b)>> \in Seq(Frames)
        BY <3>3, <3>4
      <4>2. <<Foremost(b)>> \o fs \in Seq(Frames)
        <5> HIDE DEF fs
        <5> QED  BY <4>1, ConcatProperties
      <4> QED  BY <4>2, <3>2
    <3> QED  BY <3>1, <3>2, <3>5 DEF FedTyped
  <2> QED  BY <2>1, <2>2, <2>3, <2>4, <2>5, Pass
<1>2. \A b \in Seq(Bytes) : b \in good
  <2> HIDE DEF good
  <2> QED  BY <1>1, Shortest
<1> QED  BY <1>2

LEMMA Piece ==
    ASSUME NEW S, NEW s \in Seq(S), NEW k \in 1..(Len(s) + 1), NEW n \in Nat, k + n - 1 <= Len(s)
    PROVE  LET t == SubSeq(s, k, k + n - 1) IN
           /\ t \in Seq(S) /\ Len(t) = n
           /\ \A j \in 1..n : t[j] = s[k - 1 + j]
<1>1. Len(s) \in Nat /\ k \in Nat /\ k >= 1
  OBVIOUS
<1>2. \A i \in 1..Len(s) : s[i] \in S
  OBVIOUS
<1>3. SubSeq(s, k, k + n - 1) = [i \in 1..(k + n - 1 - k + 1) |-> s[i + k - 1]]
  BY <1>1
<1>4. k + n - 1 - k + 1 = n
  BY <1>1
<1>5. SubSeq(s, k, k + n - 1) = [i \in 1..n |-> s[i + k - 1]]
  BY <1>3, <1>4
<1>6. [i \in 1..n |-> s[i + k - 1]] \in Seq(S)
  <2>1. \A i \in 1..n : i + k - 1 \in 1..Len(s)
    BY <1>1
  <2>2. \A i \in 1..n : s[i + k - 1] \in S
    BY <1>2, <2>1
  <2> QED  BY <2>2
<1>7. Len([i \in 1..n |-> s[i + k - 1]]) = n
  OBVIOUS
<1>8. \A j \in 1..n : [i \in 1..n |-> s[i + k - 1]][j] = s[k - 1 + j]
  <2>1. \A j \in 1..n : j + k - 1 = k - 1 + j
    BY <1>1
  <2> QED  BY <2>1
<1> QED  BY <1>5, <1>6, <1>7, <1>8

\* The bytes of the buffer from the i-th on are those of frame, as far as they go.
Fits(buffer, frame, i) ==
    \A j \in 1..Len(frame) : i - 1 + j <= Len(buffer) => buffer[i - 1 + j] = frame[j]

\* The buffer holds the frame where it fits and is all there.
LEMMA HoldsIs ==
    ASSUME NEW b \in Seq(Bytes), NEW f \in Frames
    PROVE  Holds(b, f) <=>
             \E i \in 1..Len(b) : i + Len(f) - 1 <= Len(b) /\ Fits(b, f, i)
<1>0. Len(b) \in Nat /\ Len(f) \in Nat /\ Len(f) >= 8 /\ f \in Seq(Bytes)
  BY FrameFacts
<1>1. ASSUME NEW i \in 1..(Len(b) - Len(f) + 1), SubSeq(b, i, i + Len(f) - 1) = f
      PROVE  i \in 1..Len(b) /\ i + Len(f) - 1 <= Len(b) /\ Fits(b, f, i)
  <2>1. i \in 1..Len(b) /\ i \in 1..(Len(b) + 1) /\ i + Len(f) - 1 <= Len(b)
    BY <1>0
  <2> DEFINE t == SubSeq(b, i, i + Len(f) - 1)
  <2>2. \A j \in 1..Len(f) : t[j] = b[i - 1 + j]
    BY <1>0, <2>1, Piece
  <2>3. \A j \in 1..Len(f) : f[j] = b[i - 1 + j]
    BY <2>2, <1>1
  <2> QED  BY <2>1, <2>3 DEF Fits
<1>2. ASSUME NEW i \in 1..Len(b), i + Len(f) - 1 <= Len(b), Fits(b, f, i)
      PROVE  i \in 1..(Len(b) - Len(f) + 1) /\ SubSeq(b, i, i + Len(f) - 1) = f
  <2>1. i \in 1..(Len(b) - Len(f) + 1) /\ i \in 1..(Len(b) + 1)
    BY <1>0, <1>2
  <2> DEFINE t == SubSeq(b, i, i + Len(f) - 1)
  <2>2. t \in Seq(Bytes) /\ Len(t) = Len(f) /\ \A j \in 1..Len(f) : t[j] = b[i - 1 + j]
    BY <1>0, <1>2, <2>1, Piece
  <2>3. \A j \in 1..Len(f) : i - 1 + j <= Len(b)
    BY <1>0, <1>2
  <2>4. \A j \in 1..Len(t) : t[j] = f[j]
    <3> HIDE DEF t
    <3> QED  BY <2>2, <2>3, <1>2 DEF Fits
  <2>5. t = f
    <3> HIDE DEF t
    <3> QED  BY <2>2, <2>4, <1>0, SeqEqual
  <2> QED  BY <2>1, <2>5
<1> QED  BY <1>1, <1>2 DEF Holds

\* Where a frame fits, a header begins, and at the front its length is read.
LEMMA FitsFacts ==
    ASSUME NEW b \in Seq(Bytes), NEW f \in Frames, NEW i \in 1..Len(b), Fits(b, f, i)
    PROVE  /\ b[i] = AA
           /\ i + 1 <= Len(b) => b[i + 1] = V55
           /\ i = 1 /\ Len(b) >= Overhead => b[6] = f[6] /\ Size(b) = Len(f)
           /\ i = 1 /\ Len(b) >= Overhead /\ Len(b) >= Size(b) => Foremost(b) = f
<1>0. /\ Len(b) \in Nat /\ Len(f) \in Nat /\ Len(f) >= 8 /\ Len(f) = 8 + f[6]
      /\ f[1] = AA /\ f[2] = V55 /\ i \in Nat /\ i <= Len(b) /\ f[6] \in Nat
  BY FrameFacts
<1>1. \A j \in 1..Len(f) : i - 1 + j <= Len(b) => b[i - 1 + j] = f[j]
  BY DEF Fits
<1>2. b[i] = AA
  <2>1. 1 \in 1..Len(f) /\ i - 1 + 1 = i
    BY <1>0
  <2> QED  BY <1>0, <1>1, <2>1
<1>3. i + 1 <= Len(b) => b[i + 1] = V55
  <2>1. 2 \in 1..Len(f) /\ i - 1 + 2 = i + 1
    BY <1>0
  <2> QED  BY <1>0, <1>1, <2>1
<1>4. i = 1 /\ Len(b) >= Overhead => b[6] = f[6] /\ Size(b) = Len(f)
  <2>1. 6 \in 1..Len(f) /\ (i = 1 => i - 1 + 6 = 6)
    BY <1>0
  <2>2. Len(b) >= Overhead => 6 <= Len(b)
    BY <1>0 DEF Overhead
  <2>3. i = 1 /\ Len(b) >= Overhead => b[6] = f[6]
    BY <1>1, <2>1, <2>2
  <2> QED  BY <1>0, <2>3 DEF Size, Overhead
<1>5. ASSUME i = 1, Len(b) >= Overhead, Len(b) >= Size(b) PROVE Foremost(b) = f
  <2>1. Size(b) = Len(f) /\ Len(f) <= Len(b)
    BY <1>4, <1>5
  <2>2. 1 + Len(f) - 1 <= Len(b)
    BY <1>0, <2>1
  <2>3. i \in 1..(Len(b) - Len(f) + 1) /\ 1 + Len(f) - 1 = Len(f)
    BY <1>0, <1>5, <2>1
  <2> DEFINE t == SubSeq(b, 1, 1 + Len(f) - 1)
  <2>4. t \in Seq(Bytes) /\ Len(t) = Len(f) /\ \A j \in 1..Len(f) : t[j] = b[1 - 1 + j]
    <3>1. 1 \in 1..(Len(b) + 1)
      BY <1>0
    <3> QED  BY <1>0, <2>2, <3>1, Piece
  <2>5. \A j \in 1..Len(t) : t[j] = f[j]
    <3>1. \A j \in 1..Len(f) : i - 1 + j <= Len(b) /\ i - 1 + j = 1 - 1 + j
      BY <1>0, <1>5, <2>1
    <3> HIDE DEF t
    <3> QED  BY <1>1, <2>4, <3>1
  <2>6. t = f
    <3>1. f \in Seq(Bytes)
      BY FrameFacts
    <3> HIDE DEF t
    <3> QED  BY <2>4, <2>5, <3>1, SeqEqual
  <2>7. Foremost(b) = t
    BY <2>1, <2>3 DEF Foremost
  <2> QED  BY <2>6, <2>7
<1> QED  BY <1>2, <1>3, <1>4, <1>5

\* What feed does with a frame, or the beginning of one, that it has from the i-th byte on.
ComesOut(b, f, i) ==
    i + Len(f) - 1 <= Len(b) /\ \E j \in DOMAIN Fed[b].frames : Fed[b].frames[j] = f
StaysIn(b, f, i) ==
    \E k \in 1..Len(Fed[b].left) :
        Fits(Fed[b].left, f, k) /\ Len(Fed[b].left) - k = Len(b) - i
Safe(b) == \A f \in Frames : \A i \in 1..Len(b) : Fits(b, f, i) => ComesOut(b, f, i) \/ StaysIn(b, f, i)

LEMMA Later ==
    ASSUME NEW b \in Seq(Bytes), NEW f \in Frames, NEW i \in 1..Len(b), Fits(b, f, i),
           NEW k \in 1..i, Safe(From(b, k)),
           Fed[b].left = Fed[From(b, k)].left,
           \A g : (\E j \in DOMAIN Fed[From(b, k)].frames : Fed[From(b, k)].frames[j] = g)
                  => \E j \in DOMAIN Fed[b].frames : Fed[b].frames[j] = g
    PROVE  ComesOut(b, f, i) \/ StaysIn(b, f, i)
<1> DEFINE c == From(b, k)
           m == i - k + 1
<1>0. /\ Len(b) \in Nat /\ Len(f) \in Nat /\ k \in Nat /\ i \in Nat /\ k >= 1 /\ k <= i
      /\ i <= Len(b) /\ k \in 1..(Len(b) + 1)
  BY FrameFacts
<1>1. /\ c \in Seq(Bytes) /\ Len(c) = Len(b) - k + 1
      /\ \A n \in 1..(Len(b) - k + 1) : c[n] = b[n + (k - 1)]
  BY <1>0, FromFacts
<1>2. m \in 1..Len(c) /\ Len(c) - m = Len(b) - i
  BY <1>0, <1>1
<1>3. Fits(c, f, m)
  <2> SUFFICES ASSUME NEW j \in 1..Len(f), m - 1 + j <= Len(c) PROVE c[m - 1 + j] = f[j]
    BY DEF Fits
  <2>1. /\ m - 1 + j \in 1..(Len(b) - k + 1) /\ m - 1 + j + (k - 1) = i - 1 + j
        /\ i - 1 + j <= Len(b)
    BY <1>0, <1>1, <1>2
  <2>2. c[m - 1 + j] = b[i - 1 + j]
    <3> HIDE DEF c, m
    <3> QED  BY <1>1, <2>1
  <2> QED  BY <2>1, <2>2 DEF Fits
<1>4. ComesOut(c, f, m) \/ StaysIn(c, f, m)
  <2> HIDE DEF m
  <2> QED  BY <1>2, <1>3 DEF Safe
<1>5. CASE ComesOut(c, f, m)
  <2>1. i + Len(f) - 1 <= Len(b)
    <3>1. m + Len(f) - 1 <= Len(c)
      BY <1>5 DEF ComesOut
    <3> QED  BY <1>0, <1>1, <3>1
  <2>2. \E j \in DOMAIN Fed[c].frames : Fed[c].frames[j] = f
    BY <1>5 DEF ComesOut
  <2>3. \E j \in DOMAIN Fed[b].frames : Fed[b].frames[j] = f
    <3> HIDE DEF Fed
    <3> QED  BY <2>2
  <2> HIDE DEF Fed
  <2> QED  BY <2>1, <2>3 DEF ComesOut
<1>6. CASE StaysIn(c, f, m)
  <2> HIDE DEF Fed, m, c
  <2>1. PICK n \in 1..Len(Fed[c].left) : Fits(Fed[c].left, f, n) /\ Len(Fed[c].left) - n = Len(c) - m
    BY <1>6 DEF StaysIn
  <2>2. Fed[c].left = Fed[b].left
    BY DEF c
  <2> QED  BY <1>2, <2>1, <2>2 DEF StaysIn
<1> QED  BY <1>4, <1>5, <1>6

\* Feed loses no frame that is all there and no beginning of one that is not.
LEMMA FeedSafe == Apart => \A b \in Seq(Bytes) : Safe(b)
<1> SUFFICES ASSUME Apart PROVE \A b \in Seq(Bytes) : Safe(b)
  OBVIOUS
<1> HIDE DEF Fed
<1> DEFINE good == {b \in Seq(Bytes) : Safe(b)}
<1>1. ASSUME NEW b \in Seq(Bytes), \A c \in Seq(Bytes) : Len(c) < Len(b) => c \in good
      PROVE  b \in good
  <2> SUFFICES ASSUME NEW f \in Frames, NEW i \in 1..Len(b), Fits(b, f, i)
               PROVE  ComesOut(b, f, i) \/ StaysIn(b, f, i)
    BY DEF Safe
  <2>0. /\ Len(b) \in Nat /\ i \in Nat /\ i >= 1 /\ i <= Len(b) /\ b # <<>>
        /\ Len(f) \in Nat /\ Len(f) >= 8 /\ f[1] = AA
    BY FrameFacts
  <2>a. i < Len(b) => i \in 1..(Len(b) - 1) /\ b[i] = AA /\ b[i + 1] = V55
    <3>1. i < Len(b) => i \in 1..(Len(b) - 1) /\ i + 1 <= Len(b)
      BY <2>0
    <3> QED  BY <3>1, FitsFacts
  <2>1. CASE Bare(b)
    <3>1. ~(i < Len(b))
      BY <2>1, <2>a, HeaderFacts DEF Bare
    <3>2. i = Len(b)
      BY <2>0, <3>1
    <3>3. Last(b) = AA
      <4>1. b[i] = AA
        BY FitsFacts
      <4> QED  BY <3>2, <4>1 DEF Last
    <3>4. Fed[b].left = <<AA>>
      BY <2>0, <2>1, <3>3, Pass
    <3>5. Fits(<<AA>>, f, 1)
      <4> SUFFICES ASSUME NEW j \in 1..Len(f), 1 - 1 + j <= Len(<<AA>>)
                   PROVE  <<AA>>[1 - 1 + j] = f[j]
        BY DEF Fits
      <4>1. j = 1
        BY <2>0
      <4> QED  BY <2>0, <4>1
    <3>6. 1 \in 1..Len(<<AA>>) /\ Len(<<AA>>) - 1 = Len(b) - i
      BY <2>0, <3>2
    <3>7. StaysIn(b, f, i)
      BY <3>4, <3>5, <3>6 DEF StaysIn
    <3> QED  BY <3>7
  <2>2. CASE Behind(b)
    <3> DEFINE h == HeaderAt(b)
    <3>1. h \in 2..(Len(b) - 1)
      BY <2>2 DEF Behind
    <3>2. h # 0
      BY <3>1
    <3>3. i < Len(b) => h <= i
      BY <3>2, <2>a, HeaderFacts
    <3>4. h \in 1..i
      <4> HIDE DEF h
      <4> QED  BY <2>0, <3>1, <3>3
    <3>5. Safe(From(b, h))
      BY <1>1, <2>2, Shorter
    <3>6. Fed[b] = Fed[From(b, h)]
      BY <2>2, Pass
    <3> HIDE DEF h
    <3> QED  BY <3>4, <3>5, <3>6, Later
  <2>3. CASE Short(b)
    <3>1. Fed[b].left = b
      BY <2>3, Pass
    <3>2. StaysIn(b, f, i)
      BY <3>1 DEF StaysIn
    <3> QED  BY <3>2
  <2>4. CASE Misled(b)
    <3>1. i # 1
      <4> SUFFICES ASSUME i = 1 PROVE FALSE
        OBVIOUS
      <4>1. Len(b) >= Overhead
        BY <2>4 DEF Misled
      <4>2. b[6] = f[6] /\ Size(b) = Len(f)
        BY <4>1, FitsFacts
      <4>3. f[6] \in Nat /\ f[6] <= MAX_PAYLOAD
        BY FrameFacts
      <4>4. ~(b[6] > MAX_PAYLOAD)
        BY <4>2, <4>3, SizesAssumption
      <4>5. Len(b) >= Size(b) /\ Foremost(b) \notin Frames
        BY <2>4, <4>4 DEF Misled
      <4>6. Foremost(b) = f
        BY <4>1, <4>5, FitsFacts
      <4> QED  BY <4>5, <4>6
    <3>2. 2 \in 1..i
      BY <2>0, <3>1
    <3>3. Safe(From(b, 2))
      BY <1>1, <2>4, Shorter
    <3>4. Fed[b] = Fed[From(b, 2)]
      BY <2>4, Pass
    <3> QED  BY <3>2, <3>3, <3>4, Later
  <2>5. CASE Framed(b)
    <3> DEFINE s == Size(b)
               c == From(b, s + 1)
               g == Foremost(b)
    <3>0. /\ Len(b) >= Overhead /\ Len(b) >= s /\ g \in Frames /\ s \in Nat /\ s >= 8
      <4>1. Len(b) >= Overhead /\ Len(b) >= s /\ g \in Frames
        BY <2>5 DEF Framed
      <4>2. s \in Nat /\ s >= Overhead
        BY <4>1, SixthByte
      <4> QED  BY <4>1, <4>2 DEF Overhead
    <3>1. /\ Fed[b].left = Fed[c].left
          /\ Fed[b].frames = <<g>> \o Fed[c].frames
      BY <2>5, Pass
    <3>2. c \in Seq(Bytes) /\ Safe(c)
      BY <1>1, <2>5, Shorter
    <3>3. Fed[c].frames \in Seq(Frames)
      BY <3>2, FeedTypes DEF FedTyped
    <3>4. \A e : (\E j \in DOMAIN Fed[c].frames : Fed[c].frames[j] = e) \/ e = g
                 => \E j \in DOMAIN Fed[b].frames : Fed[b].frames[j] = e
      <4> DEFINE fs == Fed[c].frames
                 all == <<g>> \o fs
      <4>1. fs \in Seq(Frames) /\ Len(fs) \in Nat /\ DOMAIN fs = 1..Len(fs)
        BY <3>3
      <4>2. <<g>> \in Seq(Frames) /\ Len(<<g>>) = 1
        BY <3>0
      <4>3. /\ all \in Seq(Frames) /\ Len(all) = 1 + Len(fs)
            /\ \A n \in 1..(1 + Len(fs)) : all[n] = IF n <= 1 THEN <<g>>[n] ELSE fs[n - 1]
        <5> HIDE DEF fs, g
        <5>1. /\ <<g>> \o fs \in Seq(Frames)
              /\ Len(<<g>> \o fs) = Len(<<g>>) + Len(fs)
              /\ \A n \in 1 .. Len(<<g>>) + Len(fs) : (<<g>> \o fs)[n] =
                     IF n <= Len(<<g>>) THEN <<g>>[n] ELSE fs[n - Len(<<g>>)]
          BY <4>1, <4>2, ConcatProperties
        <5> QED  BY <4>2, <5>1
      <4>4. DOMAIN all = 1..(1 + Len(fs))
        <5> HIDE DEF all, fs
        <5> QED  BY <4>3
      <4>5. all[1] = g /\ 1 \in DOMAIN all
        <5> HIDE DEF all, fs, g
        <5>1. 1 \in 1..(1 + Len(fs))
          BY <4>1
        <5> QED  BY <4>3, <4>4, <5>1
      <4>6. ASSUME NEW j \in DOMAIN fs PROVE all[j + 1] = fs[j] /\ j + 1 \in DOMAIN all
        <5> HIDE DEF all, fs, g
        <5>1. j + 1 \in 1..(1 + Len(fs)) /\ ~(j + 1 <= 1) /\ j + 1 - 1 = j
          BY <4>1, <4>6
        <5> QED  BY <4>3, <4>4, <5>1
      <4>7. Fed[b].frames = all
        BY <3>1
      <4> HIDE DEF all, fs, g, c
      <4>8. \A e : (\E j \in DOMAIN fs : fs[j] = e) \/ e = g => \E j \in DOMAIN all : all[j] = e
        BY <4>5, <4>6
      <4> QED  BY <4>7, <4>8 DEF fs
    <3>5. CASE i = 1
      <4>1. g = f /\ s = Len(f)
        BY <3>0, <3>5, FitsFacts
      <4>2. i + Len(f) - 1 <= Len(b)
        <5> HIDE DEF s
        <5> QED  BY <2>0, <3>0, <3>5, <4>1
      <4>3. \E j \in DOMAIN Fed[b].frames : Fed[b].frames[j] = f
        <5> HIDE DEF g, c
        <5> QED  BY <3>4, <4>1
      <4> QED  BY <4>2, <4>3 DEF ComesOut
    <3>6. CASE i \in 2..s
      <4>1. /\ Len(g) = s /\ \A k \in 1..s : g[k] = b[k]
        <5>1. 1 \in 1..(Len(b) + 1) /\ 1 + s - 1 <= Len(b) /\ 1 + s - 1 = s
              /\ \A k \in 1..s : 1 - 1 + k = k
          <6> HIDE DEF s
          <6> QED  BY <2>0, <3>0
        <5> DEFINE t == SubSeq(b, 1, 1 + s - 1)
        <5>2. Len(t) = s /\ \A k \in 1..s : t[k] = b[1 - 1 + k]
          <6> HIDE DEF s
          <6> QED  BY <3>0, <5>1, Piece
        <5>3. g = t
          BY <5>1 DEF Foremost
        <5> HIDE DEF g, t, s
        <5> QED  BY <5>1, <5>2, <5>3
      <4> HIDE DEF g, s
      <4>2. PICK k \in i..s : k - i + 1 <= Len(f) /\ g[k] # f[k - i + 1]
        BY <3>0, <3>6, <4>1 DEF Apart
      <4> DEFINE j == k - i + 1
      <4>3. j \in 1..Len(f) /\ i - 1 + j = k /\ k <= Len(b) /\ k \in 1..s
        BY <2>0, <3>0, <3>6, <4>2
      <4>4. b[k] = f[j]
        <5> HIDE DEF j
        <5> QED  BY <4>3 DEF Fits
      <4> QED  BY <4>1, <4>2, <4>3, <4>4
    <3>7. CASE i > s
      <4>1. s + 1 \in 1..i
        <5> HIDE DEF s
        <5> QED  BY <2>0, <3>0, <3>7
      <4>2. \A e : (\E j \in DOMAIN Fed[c].frames : Fed[c].frames[j] = e)
                   => \E j \in DOMAIN Fed[b].frames : Fed[b].frames[j] = e
        BY <3>4
      <4> HIDE DEF s
      <4> QED  BY <3>1, <3>2, <4>1, <4>2, Later
    <3>8. i = 1 \/ i \in 2..s \/ i > s
      <4> HIDE DEF s
      <4> QED  BY <2>0, <3>0
    <3> QED  BY <3>5, <3>6, <3>7, <3>8
  <2> QED  BY <2>1, <2>2, <2>3, <2>4, <2>5, Pass
<1>2. \A b \in Seq(Bytes) : b \in good
  <2> HIDE DEF good
  <2> QED  BY <1>1, Shortest
<1> QED  BY <1>2

LEMMA Joined ==
    ASSUME NEW b \in Seq(Bytes), NEW c \in Seq(Bytes), NEW x \in Bytes
    PROVE  /\ b \o c \in Seq(Bytes)
           /\ b \o Append(c, x) = Append(b \o c, x)
           /\ b \o <<>> = b
<1> DEFINE l == b \o Append(c, x)
           r == Append(b \o c, x)
<1>1. /\ Len(b) \in Nat /\ Len(c) \in Nat
      /\ Append(c, x) \in Seq(Bytes) /\ Len(Append(c, x)) = Len(c) + 1
      /\ Append(c, x)[Len(c) + 1] = x
      /\ \A i \in 1..Len(c) : Append(c, x)[i] = c[i]
  OBVIOUS
<1>2. /\ b \o c \in Seq(Bytes) /\ Len(b \o c) = Len(b) + Len(c)
      /\ \A i \in 1..(Len(b) + Len(c)) : (b \o c)[i] = IF i <= Len(b) THEN b[i] ELSE c[i - Len(b)]
  BY ConcatProperties
<1>3. /\ l \in Seq(Bytes) /\ Len(l) = Len(b) + Len(Append(c, x))
      /\ \A i \in 1..(Len(b) + Len(Append(c, x))) :
            l[i] = IF i <= Len(b) THEN b[i] ELSE Append(c, x)[i - Len(b)]
  BY <1>1, ConcatProperties
<1>4. /\ r \in Seq(Bytes) /\ Len(r) = Len(b) + Len(c) + 1 /\ r[Len(b) + Len(c) + 1] = x
      /\ \A i \in 1..(Len(b) + Len(c)) : r[i] = (b \o c)[i]
  <2> DEFINE d == b \o c
  <2>1. d \in Seq(Bytes) /\ Len(d) = Len(b) + Len(c)
    BY <1>2
  <2> HIDE DEF d
  <2>2. /\ Append(d, x) \in Seq(Bytes) /\ Len(Append(d, x)) = Len(d) + 1
        /\ Append(d, x)[Len(d) + 1] = x
        /\ \A i \in 1..Len(d) : Append(d, x)[i] = d[i]
    BY <2>1
  <2> QED  BY <2>1, <2>2 DEF d
<1>5. ASSUME NEW i \in 1..Len(l) PROVE l[i] = r[i]
  <2> HIDE DEF l, r
  <2>1. i \in 1..(Len(b) + Len(c) + 1) /\ i \in Nat
    BY <1>1, <1>3, <1>5
  <2>2. l[i] = IF i <= Len(b) THEN b[i] ELSE Append(c, x)[i - Len(b)]
    BY <1>1, <1>3, <2>1
  <2>3. CASE i <= Len(b)
    <3>1. i \in 1..(Len(b) + Len(c))
      BY <1>1, <2>1, <2>3
    <3> QED  BY <1>2, <1>4, <2>2, <2>3, <3>1
  <2>4. CASE ~(i <= Len(b)) /\ i # Len(b) + Len(c) + 1
    <3>1. i \in 1..(Len(b) + Len(c)) /\ i - Len(b) \in 1..Len(c)
      BY <1>1, <2>1, <2>4
    <3> QED  BY <1>1, <1>2, <1>4, <2>2, <2>4, <3>1
  <2>5. CASE i = Len(b) + Len(c) + 1
    <3>1. ~(i <= Len(b)) /\ i - Len(b) = Len(c) + 1
      BY <1>1, <2>5
    <3> QED  BY <1>1, <1>4, <2>2, <2>5, <3>1
  <2> QED  BY <2>3, <2>4, <2>5
<1>6. Len(l) = Len(r)
  <2> HIDE DEF l, r
  <2> QED  BY <1>1, <1>3, <1>4
<1>7. l = r
  <2> HIDE DEF l, r
  <2> QED  BY <1>3, <1>4, <1>5, <1>6, SeqEqual
<1> QED  BY <1>2, <1>7, ConcatEmptySeq

\* More bytes at the end disturb nothing.
LEMMA Longer ==
    ASSUME NEW b \in Seq(Bytes), NEW x \in Bytes, NEW f \in Frames
    PROVE  /\ Append(b, x) \in Seq(Bytes) /\ Len(Append(b, x)) = Len(b) + 1
           /\ Holds(b, f) => Holds(Append(b, x), f)
           /\ \A i \in 1..(Len(b) + 1) :
                 Fits(b, f, i) /\ (\A j \in 1..Len(f) : i - 1 + j = Len(b) + 1 => x = f[j])
                 => Fits(Append(b, x), f, i)
<1> DEFINE c == Append(b, x)
<1>1. /\ Len(b) \in Nat /\ c \in Seq(Bytes) /\ Len(c) = Len(b) + 1 /\ c[Len(b) + 1] = x
      /\ \A i \in 1..Len(b) : c[i] = b[i]
  OBVIOUS
<1>2. Len(f) \in Nat /\ Len(f) >= 8
  BY FrameFacts
<1> HIDE DEF c
<1>3. ASSUME NEW i \in 1..(Len(b) + 1), Fits(b, f, i),
             \A j \in 1..Len(f) : i - 1 + j = Len(b) + 1 => x = f[j]
      PROVE  Fits(c, f, i)
  <2> SUFFICES ASSUME NEW j \in 1..Len(f), i - 1 + j <= Len(c) PROVE c[i - 1 + j] = f[j]
    BY DEF Fits
  <2>1. CASE i - 1 + j = Len(b) + 1
    BY <1>1, <1>3, <2>1
  <2>2. CASE i - 1 + j # Len(b) + 1
    <3>1. i - 1 + j \in 1..Len(b) /\ i - 1 + j <= Len(b)
      BY <1>1, <1>2, <2>2
    <3>2. b[i - 1 + j] = f[j]
      BY <1>3, <3>1 DEF Fits
    <3> QED  BY <1>1, <3>1, <3>2
  <2> QED  BY <2>1, <2>2
<1>4. ASSUME Holds(b, f) PROVE Holds(c, f)
  <2>1. PICK i \in 1..Len(b) : i + Len(f) - 1 <= Len(b) /\ Fits(b, f, i)
    BY <1>4, HoldsIs
  <2>2. i \in 1..(Len(b) + 1) /\ i \in 1..Len(c) /\ i + Len(f) - 1 <= Len(c)
    BY <1>1, <1>2, <2>1
  <2>3. \A j \in 1..Len(f) : i - 1 + j # Len(b) + 1
    BY <1>1, <1>2, <2>1
  <2>4. Fits(c, f, i)
    BY <1>3, <2>1, <2>2, <2>3
  <2> QED  BY <1>1, <2>2, <2>4, HoldsIs
<1> QED  BY <1>1, <1>3, <1>4 DEF c

-----------------------------------------------------------------------------
(* The bridge keeps every frame.  Of the frame being sent it has, as long as nothing
   disturbs it, what is on the line already, at the very end of what it has read. *)

Buffer == got \o waiting
Current == Last(sent)
Begun == Len(Current) - Len(rest)

Coming ==
    rest # <<>> =>
        /\ Len(rest) <= Len(Current)
        /\ \A j \in 1..Len(rest) : rest[j] = Current[Begun + j]
        /\ ~hurt => Begun <= Len(Buffer) /\ Fits(Buffer, Current, Len(Buffer) - Begun + 1)

LEMMA FrameSent ==
    ASSUME Typed, rest # <<>>
    PROVE  Current \in Frames /\ sent \in Seq(Frames)
<1>1. sent # <<>> /\ sent \in Seq(Frames)
  BY DEF Typed, TypeOK
<1>2. Len(sent) \in 1..Len(sent)
  BY <1>1, EmptySeq
<1> QED  BY <1>1, <1>2 DEF Last, Current

LEMMA FeedTyped == ASSUME Typed, Feed PROVE Typed'
<1> DEFINE fed == Fed[Buffer]
<1>1. /\ UNCHANGED <<receiver, rest, state, sent, hurt, calm, intact, faults>>
      /\ receiver = "bridge" /\ waiting' = <<>> /\ got' = fed.left
      /\ received' = received \o fed.frames
  <2> HIDE DEF Fed
  <2> QED  BY DEF Feed, Buffer
<1>2. Buffer \in Seq(Bytes)
  <2>1. got \in Seq(Bytes) /\ waiting \in Seq(Bytes)
    BY DEF Typed, TypeOK
  <2> QED  BY <2>1, ConcatProperties DEF Buffer
<1>3. /\ fed.left \in Seq(Bytes) /\ Len(fed.left) < Overhead + MAX_PAYLOAD
      /\ fed.frames \in Seq(Frames)
  BY <1>2, FeedTypes DEF FedTyped
<1>4. received' \in Seq(Frames)
  <2>1. received \in Seq(Frames)
    BY DEF Typed, TypeOK
  <2> DEFINE fs == fed.frames
  <2>2. fs \in Seq(Frames)
    BY <1>3
  <2> HIDE DEF fs
  <2>3. received \o fs \in Seq(Frames)
    BY <2>1, <2>2, ConcatProperties
  <2> QED  BY <2>3, <1>1 DEF fs
<1>5. waiting' \in Seq(Bytes)
  BY <1>1
<1> HIDE DEF fed
<1>6. got' \in Seq(Bytes) /\ Len(got') < Overhead + MAX_PAYLOAD
  BY <1>1, <1>3
<1> QED  BY <1>1, <1>4, <1>5, <1>6 DEF Typed, TypeOK

\* Everything keeps its type, on both receivers.
THEOREM Receivers_typing == Spec => []TypeOK
<1> DEFINE Inv == Typed /\ (receiver = "board" => BoardTyped)
<1>1. Init => Inv
  BY InitTyped DEF BoardTyped, Typed
<1>2. Inv /\ [Next]_vars => Inv'
  <2> SUFFICES ASSUME Inv, [Next]_vars PROVE Inv'
    OBVIOUS
  <2>1. receiver' = receiver
    BY DEF Next, Send, ByteIn, ByteLost, ByteWrong, Poll, Feed, vars
  <2>2. CASE UNCHANGED vars
    BY <2>2 DEF vars, line, parser, history, BoardTyped, Typed, TypeOK, ParserInv, Idle
  <2>3. CASE Feed
    <3>1. receiver = "bridge"
      BY <2>3 DEF Feed
    <3> QED  BY <2>1, <2>3, <3>1, FeedTyped
  <2>4. CASE Poll
    <3>1. receiver = "board"
      BY <2>4 DEF Poll
    <3>2. BoardTyped'
      BY <2>4, <3>1, PollTyped
    <3> QED  BY <3>2 DEF BoardTyped, Typed
  <2>5. CASE ByteIn \/ ByteLost \/ \E byte \in Noise : ByteWrong(byte)
    <3>1. Typed'
      BY <2>5, LineKeepsTypes
    <3>2. receiver = "board" => BoardTyped'
      BY <2>5, LineTyped
    <3> QED  BY <2>1, <3>1, <3>2
  <2>6. ASSUME NEW frame \in Frames, Send(frame) PROVE Inv'
    <3>1. Typed'
      BY <2>6, SendKeepsTypes
    <3>2. receiver = "board" => BoardTyped'
      BY <2>6, SendTyped
    <3> QED  BY <2>1, <3>1, <3>2
  <2> QED  BY <2>2, <2>3, <2>4, <2>5, <2>6 DEF Next
<1>3. Inv => TypeOK
  BY DEF Typed
<1> QED  BY <1>1, <1>2, <1>3, PTL DEF Spec

\* A frame the bridge has returned or still has.
Has(f) == (\E j \in DOMAIN received : received[j] = f) \/ Holds(Buffer, f)

LEMMA BufferTyped == ASSUME Typed PROVE Buffer \in Seq(Bytes) /\ Len(Buffer) \in Nat
<1>1. got \in Seq(Bytes) /\ waiting \in Seq(Bytes)
  BY DEF Typed, TypeOK
<1>2. Buffer \in Seq(Bytes)
  BY <1>1, ConcatProperties DEF Buffer
<1> QED  BY <1>2

LEMMA LostNothing ==
    /\ receiver = "bridge" => (NothingLost <=> \A i \in DOMAIN intact : Has(intact[i]))
    /\ receiver' = "bridge" => (NothingLost' <=> \A i \in DOMAIN intact' : Has(intact[i])')
BY DEF NothingLost, Has, Buffer

LEMMA SendKeepsFrames ==
    ASSUME receiver = "bridge", Typed, Coming, NothingLost, NEW frame \in Frames, Send(frame)
    PROVE  Coming' /\ NothingLost'
<1>1. /\ UNCHANGED <<receiver, waiting, got, intact, received>>
      /\ rest' = frame /\ sent' = Append(sent, frame)
  BY DEF Send, parser
<1>2. frame \in Seq(Bytes) /\ Len(frame) \in Nat
  BY FrameFacts
<1>3. Current' = frame
  <2>1. sent \in Seq(Frames)
    BY DEF Typed, TypeOK
  <2>2. Len(Append(sent, frame)) = Len(sent) + 1 /\ Append(sent, frame)[Len(sent) + 1] = frame
    BY <2>1
  <2> QED  BY <1>1, <2>2 DEF Current, Last
<1>4. Buffer' = Buffer
  BY <1>1 DEF Buffer
<1>5. Begun' = 0
  BY <1>1, <1>2, <1>3 DEF Begun
<1>6. Len(Buffer) \in Nat
  BY BufferTyped
<1>7. Coming'
  <2>1. \A j \in 1..Len(frame) : frame[j] = frame[0 + j]
    BY <1>2
  <2>2. 0 <= Len(Buffer) /\ Fits(Buffer, frame, Len(Buffer) - 0 + 1)
    <3>1. \A j \in 1..Len(frame) : ~(Len(Buffer) - 0 + 1 - 1 + j <= Len(Buffer))
      BY <1>2, <1>6
    <3> QED  BY <1>6, <3>1 DEF Fits
  <2> QED  BY <1>1, <1>2, <1>3, <1>4, <1>5, <2>1, <2>2 DEF Coming
<1>8. NothingLost'
  BY <1>1 DEF NothingLost
<1> QED  BY <1>7, <1>8

\* A byte of the frame arrives.
LEMMA ByteKeepsFrames ==
    ASSUME receiver = "bridge", Typed, Coming, NothingLost, ByteIn
    PROVE  Coming' /\ NothingLost'
<1> DEFINE x == Head(rest)
           f == Current
           i == Len(Buffer) - Begun + 1
<1>1. /\ UNCHANGED <<receiver, got, sent, hurt, received>>
      /\ rest # <<>> /\ waiting' = Append(waiting, x) /\ rest' = Tail(rest) /\ Arrived
  BY DEF ByteIn, parser
<1>2. got \in Seq(Bytes) /\ waiting \in Seq(Bytes) /\ rest \in Seq(Bytes)
  BY DEF Typed, TypeOK
<1>3. /\ x \in Bytes /\ x = rest[1] /\ Tail(rest) \in Seq(Bytes)
      /\ Len(rest) \in Nat /\ Len(rest) >= 1 /\ Len(Tail(rest)) = Len(rest) - 1
      /\ \A j \in 1..(Len(rest) - 1) : Tail(rest)[j] = rest[j + 1]
  BY <1>1, <1>2, Reading
<1>4. f \in Frames /\ f \in Seq(Bytes) /\ Len(f) \in Nat /\ Len(f) >= 8 /\ Current' = f
  BY <1>1, FrameSent, FrameFacts DEF Current
<1>5. Buffer \in Seq(Bytes) /\ Len(Buffer) \in Nat
  BY BufferTyped
<1>6. Buffer' = Append(Buffer, x)
  <2>1. got \o Append(waiting, x) = Append(got \o waiting, x)
    BY <1>2, <1>3, Joined
  <2> QED  BY <1>1, <2>1 DEF Buffer
<1>7. /\ Len(rest) <= Len(f) /\ Begun = Len(f) - Len(rest)
      /\ \A j \in 1..Len(rest) : rest[j] = f[Begun + j]
      /\ ~hurt => Begun <= Len(Buffer) /\ Fits(Buffer, f, i)
  BY <1>1 DEF Coming, Begun
<1>8. Begun \in Nat /\ Begun' = Begun + 1
  <2>1. Begun \in Nat
    BY <1>3, <1>4, <1>7
  <2>2. Begun' = Len(f) - Len(Tail(rest))
    BY <1>1, <1>4 DEF Begun
  <2> QED  BY <1>3, <1>4, <1>7, <2>1, <2>2
<1> HIDE DEF x, f
<1>9. x = f[Begun + 1]
  <2>1. 1 \in 1..Len(rest)
    BY <1>3
  <2> QED  BY <1>3, <1>7, <2>1
<1>10. Len(Buffer') = Len(Buffer) + 1 /\ Buffer' \in Seq(Bytes)
  BY <1>3, <1>4, <1>5, <1>6, Longer
<1>11. ASSUME ~hurt
       PROVE  i \in 1..(Len(Buffer) + 1) /\ Fits(Buffer', f, i)
  <2>1. i \in 1..(Len(Buffer) + 1)
    BY <1>5, <1>7, <1>8, <1>11
  <2>2. \A j \in 1..Len(f) : i - 1 + j = Len(Buffer) + 1 => x = f[j]
    <3> SUFFICES ASSUME NEW j \in 1..Len(f), i - 1 + j = Len(Buffer) + 1 PROVE x = f[j]
      OBVIOUS
    <3>1. j = Begun + 1
      BY <1>5, <1>8
    <3> QED  BY <1>9, <3>1
  <2> HIDE DEF i
  <2>3. Fits(Append(Buffer, x), f, i)
    BY <1>3, <1>4, <1>5, <1>7, <1>11, <2>1, <2>2, Longer
  <2> QED  BY <1>6, <2>1, <2>3
<1>12. Coming'
  <2>1. ASSUME NEW j \in 1..(Len(rest) - 1) PROVE Tail(rest)[j] = f[Begun + 1 + j]
    <3>1. j + 1 \in 1..Len(rest) /\ Begun + (j + 1) = Begun + 1 + j
      BY <1>3, <1>8
    <3> QED  BY <1>3, <1>7, <3>1
  <2>2. Len(rest') <= Len(f)
    BY <1>1, <1>3, <1>4, <1>7
  <2>3. \A j \in 1..Len(rest') : rest'[j] = f[Begun' + j]
    BY <1>1, <1>3, <1>8, <2>1
  <2>4. ~hurt' => Begun' <= Len(Buffer') /\ Fits(Buffer', f, Len(Buffer') - Begun' + 1)
    <3>1. ASSUME ~hurt PROVE Begun' <= Len(Buffer') /\ Len(Buffer') - Begun' + 1 = i
      BY <1>5, <1>7, <1>8, <1>10, <3>1
    <3> QED  BY <1>1, <1>11, <3>1
  <2> QED  BY <1>4, <2>2, <2>3, <2>4 DEF Coming
<1>13. \A g \in Frames : Has(g) => Has(g)'
  <2>1. \A g \in Frames : Holds(Buffer, g) => Holds(Buffer', g)
    BY <1>3, <1>5, <1>6, Longer
  <2> QED  BY <1>1, <2>1 DEF Has
<1>14. intact \in Seq(Frames)
  BY DEF Typed, TypeOK
<1>15. \A k \in DOMAIN intact : intact[k] \in Frames /\ Has(intact[k])
  BY <1>14, LostNothing
<1>16. intact' = intact \/ (intact' = Append(intact, f) /\ Len(rest) = 1 /\ ~hurt)
  BY <1>1, <1>3 DEF Arrived, f, Current
<1>17. ASSUME Len(rest) = 1, ~hurt PROVE Has(f)'
  <2>1. i \in 1..Len(Buffer') /\ i + Len(f) - 1 <= Len(Buffer')
    BY <1>4, <1>5, <1>7, <1>8, <1>10, <1>11, <1>17
  <2>2. Fits(Buffer', f, i)
    BY <1>11, <1>17
  <2> HIDE DEF i
  <2>3. Holds(Buffer', f)
    BY <1>4, <1>10, <2>1, <2>2, HoldsIs
  <2>4. f' = f
    BY <1>4 DEF f
  <2> QED  BY <2>3, <2>4 DEF Has
<1>18. \A k \in DOMAIN intact' : Has(intact[k])'
  <2>1. CASE intact' = intact
    BY <1>13, <1>15, <2>1
  <2>2. CASE intact' = Append(intact, f) /\ Len(rest) = 1 /\ ~hurt
    <3>1. /\ DOMAIN intact' = 1..(Len(intact) + 1) /\ Len(intact) \in Nat
          /\ intact'[Len(intact) + 1] = f /\ \A k \in 1..Len(intact) : intact'[k] = intact[k]
          /\ DOMAIN intact = 1..Len(intact)
      BY <1>4, <1>14, <2>2
    <3> SUFFICES ASSUME NEW k \in 1..(Len(intact) + 1) PROVE Has(intact[k])'
      BY <3>1
    <3>2. CASE k = Len(intact) + 1
      <4>1. intact'[k] = f'
        BY <1>4, <3>1, <3>2 DEF f
      <4>2. Has(f)'
        BY <1>17, <2>2
      <4> QED  BY <4>1, <4>2 DEF Has
    <3>3. CASE k # Len(intact) + 1
      <4>1. k \in 1..Len(intact)
        BY <3>1, <3>3
      <4>2. intact'[k] = intact[k] /\ Has(intact[k]) /\ intact[k] \in Frames
        BY <1>15, <3>1, <4>1
      <4>3. Holds(Buffer, intact[k]) => Holds(Buffer', intact[k])
        BY <1>3, <1>5, <1>6, <4>2, Longer
      <4> QED  BY <1>1, <4>2, <4>3 DEF Has
    <3> QED  BY <3>2, <3>3
  <2> QED  BY <1>16, <2>1, <2>2
<1> QED  BY <1>1, <1>12, <1>18, LostNothing

\* The line loses or changes a byte: the frame being sent counts as disturbed.
LEMMA FaultKeepsFrames ==
    ASSUME receiver = "bridge", Typed, Coming, NothingLost,
           ByteLost \/ \E byte \in Noise : ByteWrong(byte)
    PROVE  Coming' /\ NothingLost'
<1>1. /\ UNCHANGED <<receiver, got, sent, intact, received>> /\ hurt' = TRUE
      /\ rest' = IF rest = <<>> THEN rest ELSE Tail(rest)
      /\ waiting' = waiting \/ \E byte \in Bytes : waiting' = Append(waiting, byte)
  BY NoiseAssumption DEF ByteLost, ByteWrong, parser
<1>2. got \in Seq(Bytes) /\ waiting \in Seq(Bytes) /\ rest \in Seq(Bytes) /\ intact \in Seq(Frames)
  BY DEF Typed, TypeOK
<1>3. Buffer \in Seq(Bytes) /\ Len(Buffer) \in Nat
  BY BufferTyped
<1>4. Buffer' = Buffer \/ \E byte \in Bytes : Buffer' = Append(Buffer, byte)
  <2>1. CASE waiting' = waiting
    BY <1>1, <2>1 DEF Buffer
  <2>2. ASSUME NEW byte \in Bytes, waiting' = Append(waiting, byte)
        PROVE  Buffer' = Append(Buffer, byte)
    <3>1. got \o Append(waiting, byte) = Append(got \o waiting, byte)
      BY <1>2, Joined
    <3> QED  BY <1>1, <2>2, <3>1 DEF Buffer
  <2> QED  BY <1>1, <2>1, <2>2
<1>5. Coming'
  <2>1. SUFFICES ASSUME rest' # <<>> PROVE Coming'
    BY DEF Coming
  <2>2. rest # <<>> /\ rest' = Tail(rest)
    BY <1>1, <2>1
  <2>3. /\ Len(rest) \in Nat /\ Len(rest) >= 1 /\ Len(Tail(rest)) = Len(rest) - 1
        /\ \A j \in 1..(Len(rest) - 1) : Tail(rest)[j] = rest[j + 1]
    BY <1>2, <2>2, Reading
  <2>4. Current \in Frames /\ Len(Current) \in Nat /\ Current' = Current
    BY <1>1, <2>2, FrameSent, FrameFacts DEF Current
  <2>5. Len(rest) <= Len(Current) /\ \A j \in 1..Len(rest) : rest[j] = Current[Begun + j]
    BY <2>2 DEF Coming
  <2>6. Begun \in Nat /\ Begun' = Begun + 1
    <3>1. Begun' = Len(Current) - Len(Tail(rest))
      BY <2>2, <2>4 DEF Begun
    <3> QED  BY <2>3, <2>4, <2>5, <3>1 DEF Begun
  <2>7. ASSUME NEW j \in 1..(Len(rest) - 1) PROVE Tail(rest)[j] = Current[Begun + 1 + j]
    <3>1. j + 1 \in 1..Len(rest) /\ Begun + (j + 1) = Begun + 1 + j
      BY <2>3, <2>6
    <3> QED  BY <2>3, <2>5, <3>1
  <2>8. Len(rest') <= Len(Current')
    BY <2>2, <2>3, <2>4, <2>5
  <2>9. \A j \in 1..Len(rest') : rest'[j] = Current'[Begun' + j]
    BY <2>2, <2>3, <2>4, <2>6, <2>7
  <2> QED  BY <1>1, <2>8, <2>9 DEF Coming
<1>6. \A k \in DOMAIN intact : intact[k] \in Frames /\ Has(intact[k])
  BY <1>2, LostNothing
<1>7. \A k \in DOMAIN intact' : Has(intact[k])'
  <2> SUFFICES ASSUME NEW k \in DOMAIN intact PROVE Has(intact[k])'
    BY <1>1
  <2>1. intact'[k] = intact[k] /\ Has(intact[k]) /\ intact[k] \in Frames
    BY <1>1, <1>6
  <2>2. Holds(Buffer, intact[k]) => Holds(Buffer', intact[k])
    BY <1>3, <1>4, <2>1, Longer
  <2> QED  BY <1>1, <2>1, <2>2 DEF Has
<1> QED  BY <1>1, <1>5, <1>7, LostNothing

LEMMA FeedKeepsFrames ==
    ASSUME Apart, Typed, Coming, NothingLost, Feed
    PROVE  Coming' /\ NothingLost'
<1> DEFINE b == Buffer
           fs == Fed[b].frames
           l == Fed[b].left
<1>1. /\ UNCHANGED <<receiver, rest, sent, hurt, intact>> /\ receiver = "bridge"
      /\ waiting' = <<>> /\ got' = l /\ received' = received \o fs
  <2> HIDE DEF Fed
  <2> QED  BY DEF Feed, Buffer
<1>2. b \in Seq(Bytes) /\ Len(b) \in Nat
  BY BufferTyped
<1>3. l \in Seq(Bytes) /\ fs \in Seq(Frames) /\ Safe(b)
  BY <1>2, FeedTypes, FeedSafe DEF FedTyped
<1>4. /\ \A f \in Frames : \A i \in 1..Len(b) : Fits(b, f, i) =>
            \/ i + Len(f) - 1 <= Len(b) /\ \E j \in DOMAIN fs : fs[j] = f
            \/ \E k \in 1..Len(l) : Fits(l, f, k) /\ Len(l) - k = Len(b) - i
  <2> HIDE DEF Fed
  <2> QED  BY <1>3 DEF Safe, ComesOut, StaysIn
<1> HIDE DEF fs, l, b
<1>5. Buffer' = l
  <2>1. l \o <<>> = l
    BY <1>3, ConcatEmptySeq
  <2> QED  BY <1>1, <2>1 DEF Buffer
<1>6. Len(l) \in Nat
  BY <1>3
<1>7. Coming'
  <2>1. SUFFICES ASSUME rest # <<>>, ~hurt
                 PROVE  Begun <= Len(l) /\ Fits(l, Current, Len(l) - Begun + 1)
    <3>1. Current' = Current /\ Begun' = Begun
      BY <1>1 DEF Current, Begun
    <3> QED  BY <1>1, <1>5, <3>1 DEF Coming
  <2>2. Current \in Frames /\ Len(Current) \in Nat
    BY <2>1, FrameSent, FrameFacts
  <2>3. /\ Len(rest) <= Len(Current) /\ Begun <= Len(b) /\ Fits(b, Current, Len(b) - Begun + 1)
    BY <2>1 DEF Coming, b
  <2>4. Len(rest) \in Nat /\ Len(rest) >= 1
    BY <2>1, Reading DEF Typed, TypeOK
  <2>5. Begun \in Nat /\ Begun < Len(Current)
    BY <2>2, <2>3, <2>4 DEF Begun
  <2>6. CASE Begun = 0
    <3>1. \A j \in 1..Len(Current) : ~(Len(l) - 0 + 1 - 1 + j <= Len(l))
      BY <1>6, <2>2
    <3> QED  BY <1>6, <2>6, <3>1 DEF Fits
  <2>7. CASE Begun # 0
    <3> DEFINE i == Len(b) - Begun + 1
    <3>1. i \in 1..Len(b) /\ ~(i + Len(Current) - 1 <= Len(b))
      BY <1>2, <2>2, <2>3, <2>5, <2>7
    <3>2. PICK k \in 1..Len(l) : Fits(l, Current, k) /\ Len(l) - k = Len(b) - i
      <4> HIDE DEF i
      <4>1. Fits(b, Current, i)
        BY <2>3 DEF i
      <4> QED  BY <1>4, <2>2, <3>1, <4>1
    <3>3. k = Len(l) - Begun + 1 /\ Begun <= Len(l)
      BY <1>2, <1>6, <2>5, <3>2
    <3> QED  BY <3>2, <3>3
  <2> QED  BY <2>6, <2>7
<1>8. received \in Seq(Frames) /\ intact \in Seq(Frames)
  BY DEF Typed, TypeOK
<1>9. /\ \A f : (\E j \in DOMAIN received : received[j] = f)
                => \E j \in DOMAIN received' : received'[j] = f
      /\ \A f : (\E j \in DOMAIN fs : fs[j] = f)
                => \E j \in DOMAIN received' : received'[j] = f
  <2>1. /\ Len(received) \in Nat /\ DOMAIN received = 1..Len(received)
        /\ Len(fs) \in Nat /\ DOMAIN fs = 1..Len(fs)
    BY <1>3, <1>8
  <2>2. /\ received' \in Seq(Frames) /\ Len(received') = Len(received) + Len(fs)
        /\ \A n \in 1..(Len(received) + Len(fs)) : received'[n] =
              IF n <= Len(received) THEN received[n] ELSE fs[n - Len(received)]
    BY <1>1, <1>3, <1>8, ConcatProperties
  <2>3. DOMAIN received' = 1..(Len(received) + Len(fs))
    BY <2>2
  <2>4. ASSUME NEW j \in DOMAIN received
        PROVE  j \in DOMAIN received' /\ received'[j] = received[j]
    <3>1. j \in 1..(Len(received) + Len(fs)) /\ j <= Len(received)
      BY <2>1
    <3> QED  BY <2>2, <2>3, <3>1
  <2>5. ASSUME NEW j \in DOMAIN fs
        PROVE  j + Len(received) \in DOMAIN received' /\ received'[j + Len(received)] = fs[j]
    <3>1. /\ j + Len(received) \in 1..(Len(received) + Len(fs))
          /\ ~(j + Len(received) <= Len(received)) /\ j + Len(received) - Len(received) = j
      BY <2>1
    <3> QED  BY <2>2, <2>3, <3>1
  <2> QED  BY <2>4, <2>5
<1>10. ASSUME NEW f \in Frames, Holds(b, f) PROVE Holds(l, f) \/ \E j \in DOMAIN fs : fs[j] = f
  <2>1. PICK i \in 1..Len(b) : i + Len(f) - 1 <= Len(b) /\ Fits(b, f, i)
    BY <1>2, <1>10, HoldsIs
  <2>2. CASE \E j \in DOMAIN fs : fs[j] = f
    BY <2>2
  <2>3. CASE \E k \in 1..Len(l) : Fits(l, f, k) /\ Len(l) - k = Len(b) - i
    <3>1. PICK k \in 1..Len(l) : Fits(l, f, k) /\ Len(l) - k = Len(b) - i
      BY <2>3
    <3>2. Len(f) \in Nat
      BY FrameFacts
    <3>3. k + Len(f) - 1 <= Len(l)
      BY <1>2, <1>6, <2>1, <3>1, <3>2
    <3> QED  BY <1>3, <3>1, <3>3, HoldsIs
  <2> QED  BY <1>4, <2>1, <2>2, <2>3
<1>11. \A k \in DOMAIN intact : intact[k] \in Frames /\ Has(intact[k])
  BY <1>1, <1>8, LostNothing
<1>12. \A k \in DOMAIN intact' : Has(intact[k])'
  <2> SUFFICES ASSUME NEW k \in DOMAIN intact PROVE Has(intact[k])'
    BY <1>1
  <2>1. intact'[k] = intact[k] /\ Has(intact[k]) /\ intact[k] \in Frames
    BY <1>1, <1>11
  <2>2. (\E j \in DOMAIN received : received[j] = intact[k]) \/ Holds(b, intact[k])
    BY <2>1 DEF Has, b
  <2>3. (\E j \in DOMAIN received' : received'[j] = intact[k]) \/ Holds(Buffer', intact[k])
    BY <1>5, <1>9, <1>10, <2>1, <2>2
  <2> QED  BY <2>1, <2>3 DEF Has
<1> QED  BY <1>1, <1>7, <1>12, LostNothing


\* The bridge loses no undisturbed frame, whatever the line does and however the bytes
\* come to feed, as long as no frame begins inside another one.
THEOREM Nothing_lost == ASSUME Apart PROVE Spec => []NothingLost
<1> DEFINE Inv == Typed /\ (receiver = "bridge" => Coming /\ NothingLost)
<1>1. Init => Inv
  BY InitTyped DEF BoardTyped, Typed, Init, Coming, NothingLost
<1>2. Inv /\ [Next]_vars /\ TypeOK' => Inv'
  <2> SUFFICES ASSUME Inv, [Next]_vars, TypeOK' PROVE Inv'
    OBVIOUS
  <2>1. CASE UNCHANGED vars
    <3>1. /\ UNCHANGED <<receiver, rest, waiting, state, got, sent>>
          /\ UNCHANGED <<hurt, calm, intact, received, faults>>
      BY <2>1 DEF vars, line, parser, history
    <3>2. Typed'
      BY <3>1 DEF Typed, TypeOK
    <3>3. Coming => Coming'
      BY <3>1 DEF Coming, Buffer, Begun, Current
    <3>4. NothingLost => NothingLost'
      BY <3>1 DEF NothingLost
    <3> QED  BY <3>1, <3>2, <3>3, <3>4
  <2>2. CASE Feed
    <3>1. receiver = "bridge" /\ receiver' = receiver
      BY <2>2 DEF Feed
    <3> QED  BY <2>2, <3>1, FeedTyped, FeedKeepsFrames
  <2>3. CASE Poll
    <3>1. receiver = "board" /\ receiver' = receiver
      BY <2>3 DEF Poll
    <3>2. UNCHANGED <<rest, sent, hurt, calm>>
      BY <2>3 DEF Poll
    <3>3. Typed'
      BY <3>2 DEF Typed
    <3> QED  BY <3>1, <3>3
  <2>4. CASE ByteIn \/ ByteLost \/ \E byte \in Noise : ByteWrong(byte)
    <3>1. Typed'
      BY <2>4, LineKeepsTypes
    <3>2. receiver' = receiver
      BY <2>4 DEF ByteIn, ByteLost, ByteWrong
    <3>3. receiver = "bridge" => Coming' /\ NothingLost'
      BY <2>4, ByteKeepsFrames, FaultKeepsFrames
    <3> QED  BY <3>1, <3>2, <3>3
  <2>5. ASSUME NEW frame \in Frames, Send(frame) PROVE Inv'
    <3>1. Typed'
      BY <2>5, SendKeepsTypes
    <3>2. receiver' = receiver
      BY <2>5 DEF Send
    <3>3. receiver = "bridge" => Coming' /\ NothingLost'
      BY <2>5, SendKeepsFrames
    <3> QED  BY <3>1, <3>2, <3>3
  <2> QED  BY <2>1, <2>2, <2>3, <2>4, <2>5 DEF Next
<1>3. Inv => NothingLost
  BY DEF NothingLost
<1>4. Spec => []TypeOK
  BY Receivers_typing
<1> QED  BY <1>1, <1>2, <1>3, <1>4, PTL DEF Spec
=============================================================================
