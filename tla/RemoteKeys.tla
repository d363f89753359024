----------------------------- MODULE RemoteKeys -----------------------------
(***************************************************************************)
(* The navigation key of the remote board (firmware/stc_remote): sampled,  *)
(* debounced and sent as frames, repeated while it is held and twice when  *)
(* it is let go.  A pass of the main loop is one action; the ladder of     *)
(* voltages is abstracted to the command it is decoded to.                 *)
(***************************************************************************)
EXTENDS Naturals

CONSTANTS
    Directions,   \* CMD_FORWARD to CMD_RIGHT
    Debounce,     \* how long a new command has to last (30 ms), in ticks
    ReleaseGap,   \* between the frames of a release (30 ms)
    Repeat,       \* between the frames of a held key (100 ms)
    None

Idle == "released"
Halt == "stop"      \* CMD_STOP: the centre of the key, or K3
Commands == Directions \union {Idle, Halt}
Broken == "broken"  \* the converter did not answer

ReleaseFrames == 2

ASSUME CommandsAssumption == {Idle, Halt, Broken} \intersect Directions = {}
ASSUME TimesAssumption ==
    Debounce \in Nat \ {0} /\ ReleaseGap \in Nat \ {0} /\ Repeat \in Nat \ {0}
ASSUME NoneAssumption == None \notin Commands

VARIABLE
    keys    \* the remote_keys_t: changed is the age of changed_at and wait
            \* what is left until next_send, neither followed beyond its limit

Keys == [stable : Commands, candidate : Commands, valid : BOOLEAN,
         changed : 0..Debounce, wait : 0..(ReleaseGap + Repeat),
         release_frames : 0..ReleaseFrames]

KeysInit ==
    keys = [stable |-> Idle, candidate |-> Idle, valid |-> FALSE, changed |-> 0,
            wait |-> 0, release_frames |-> 0]

\* remote_sample: the converter failed, which counts as a release.
Unreadable(s) ==
    LET letGo == s.valid \/ s.stable # Idle
    IN [stable |-> Idle, candidate |-> Idle, valid |-> FALSE, changed |-> 0,
        wait |-> IF letGo THEN 0 ELSE s.wait,
        release_frames |-> IF letGo THEN ReleaseFrames ELSE s.release_frames]

\* remote_sample: a command counts once it has lasted.
Sampled(s, command) ==
    LET changed == IF s.valid /\ command = s.candidate THEN s.changed ELSE 0
        read == [s EXCEPT !.candidate = command, !.valid = TRUE, !.changed = changed]
    IN IF command = s.stable \/ changed < Debounce THEN read
       ELSE [read EXCEPT !.stable = command, !.wait = 0,
                         !.release_frames = IF command = Idle THEN ReleaseFrames ELSE 0]

AfterSample(reading) ==
    IF reading = Broken THEN Unreadable(keys) ELSE Sampled(keys, reading)

\* remote_next: the command to send now, or None.
Sends(s) ==
    IF s.wait > 0 THEN None
    ELSE IF s.release_frames > 0 THEN Idle
    ELSE IF s.valid /\ s.stable # Idle THEN s.stable
    ELSE None

\* Mutant: the frames of a release are counted in their test, if (release_frames--), past
\* zero too, where the byte wraps.
AfterSendCounted(s) ==
    IF s.wait > 0 THEN s
    ELSE [s EXCEPT !.release_frames = (@ + 255) % 256,
                   !.wait = IF s.release_frames > 0 THEN ReleaseGap
                            ELSE IF Sends(s) = None THEN 0 ELSE Repeat]

AfterSend(s) ==
    IF Sends(s) = None THEN s
    ELSE IF s.release_frames > 0
    THEN [s EXCEPT !.release_frames = @ - 1, !.wait = ReleaseGap]
    ELSE [s EXCEPT !.wait = Repeat]

\* Time passes for the board.
Later(s) ==
    [s EXCEPT !.changed = IF @ < Debounce THEN @ + 1 ELSE @,
              !.wait = IF @ > 0 THEN @ - 1 ELSE 0]
=============================================================================
