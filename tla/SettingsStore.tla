---------------------------- MODULE SettingsStore ----------------------------
(***************************************************************************)
(* The settings of the STC board in its EEPROM (devices.c, persistence).   *)
(* Each feeding starts a save; persistence_service writes one byte of it   *)
(* per pass of the main loop, when the EEPROM answers.  The slots are used *)
(* in turn, and the next start reads the newest one whose check fits.      *)
(*                                                                         *)
(* The EEPROM itself, which can be slow, silent, or without power in the   *)
(* middle of a byte, is external.                                          *)
(***************************************************************************)
EXTENDS Integers, Sequences

CONSTANTS
    Slots,       \* SETTINGS_SLOTS, a power of two
    Starts,      \* what the EEPROM may hold at first
    MaxFeeds     \* bound: how often the pet is fed

Size == 12      \* SETTINGS_SIZE
Byte == 0..255
Word == 0..65535
Position == 1..Size
Record == [Position -> Byte]

\* version 0 stands for an EEPROM that was never written.
ASSUME StartsAssumption == Starts \subseteq [version : 0..2, sequence : Word, feed_count : Word]
ASSUME SlotsAssumption ==
    Slots \in Nat \ {0} /\ 65536 % Slots = 0 /\ MaxFeeds \in Nat
\* Fewer numbers are in use than Newer can order.
ASSUME FeedsAssumption == MaxFeeds + Slots <= 32767

VARIABLES
    eeprom,      \* what each slot holds
    settings,    \* the settings in memory
    pending,     \* ee_pending, the record being written
    index,       \* ee_index
    base,        \* ee_base, as the number of the slot
    busy,        \* ee_busy
    kept,        \* history: what a start at this moment would load
    begun,       \* history: saves begun since the last completed one
    feeds        \* how often the pet was fed

store == <<pending, index, base, busy>>
vars == <<eeprom, settings, store, kept, begun, feeds>>

TypeOK ==
    /\ eeprom \in [0..(Slots - 1) -> Record]
    /\ settings \in [sequence : Word, feed_count : Word]
    /\ kept \in [sequence : Word, feed_count : Word]
    /\ pending \in Record
    /\ index \in 0..Size
    /\ base \in 0..(Slots - 1)
    /\ busy \in BOOLEAN
    /\ begun \in 0..MaxFeeds
    /\ feeds \in 0..MaxFeeds

-----------------------------------------------------------------------------
(* Records. *)

Low(word) == word % 256
High(word) == word \div 256
Following(word) == (word + 1) % 65536

\* a ^ b of two bytes, the sum of the bits they differ in, as a table that TLC
\* computes once.
Bit(byte, k) == (byte \div 2^k) % 2
Differing(a, b) ==
    LET upTo[k \in 0..8] ==
            IF k = 0 THEN 0
            ELSE upTo[k - 1] + (IF Bit(a, k - 1) = Bit(b, k - 1) THEN 0 ELSE 2^(k - 1))
    IN upTo[8]
XorRow(a) == SubSeq([b \in 1..256 |-> Differing(a, b - 1)], 1, 256)
XorTable == SubSeq([a \in 1..256 |-> XorRow(a - 1)], 1, 256)
XorOf(a, b) == XorTable[a + 1][b + 1]

RotateLeft(byte) == ((2 * byte) % 256) + (byte \div 128)

\* Mutant: the sequence number and the flags in front of it are not covered.
CrcOfPayload(data) ==
    LET crc[i \in 4..10] == IF i = 4 THEN 90 ELSE XorOf(RotateLeft(crc[i - 1]), data[i])
    IN crc[10]

\* settings_crc
Crc(data) ==
    LET crc[i \in 0..10] == IF i = 0 THEN 90 ELSE XorOf(RotateLeft(crc[i - 1]), data[i])
    IN crc[10]

\* The last two bytes of a record are its check and the check's complement.
Checked(data) ==
    LET crc == Crc(data)
    IN [i \in Position |-> CASE i = 11 -> crc [] i = 12 -> 255 - crc [] OTHER -> data[i]]

\* persistence_save writes version 2; firmware before it wrote version 1.
RecordOf(version, sequence, feed_count) ==
    Checked([i \in Position |->
        CASE i = 1 -> 199
          [] i = 2 -> version
          [] i = 3 -> Low(sequence)
          [] i = 4 -> High(sequence)
          [] i = (IF version = 1 THEN 8 ELSE 5) -> Low(feed_count)
          [] i = (IF version = 1 THEN 9 ELSE 6) -> High(feed_count)
          [] OTHER -> 0])

Valid(data) ==
    /\ data[1] = 199 /\ data[2] \in {1, 2}
    /\ data[11] = Crc(data)
    /\ data[12] = 255 - data[11]

SequenceOf(data) == data[3] + 256 * data[4]
CountOf(data) ==
    IF data[2] = 1 THEN data[8] + 256 * data[9] ELSE data[5] + 256 * data[6]

\* Mutant: sequence numbers are compared as they stand.
NewerByValue(a, b) == a > b

\* (int16_t)(a - b) > 0
Newer(a, b) ==
    LET ahead == (a - b) % 65536
    IN 0 < ahead /\ ahead < 32768

\* The loop of persistence_load over the slots: the first whole record that no later
\* one is newer than, -1 if there is none.
Newest(rom) ==
    LET best[k \in 0..Slots] ==
            IF k = 0 THEN -1
            ELSE LET found == best[k - 1]
                 IN IF /\ Valid(rom[k - 1])
                       /\ found = -1 \/ Newer(SequenceOf(rom[k - 1]), SequenceOf(rom[found]))
                    THEN k - 1 ELSE found
    IN best[Slots]

Nothing == [sequence |-> 0, feed_count |-> 0]

\* persistence_load, with petcargo_init for an EEPROM without a valid record.
Load(rom) ==
    LET slot == Newest(rom)
    IN IF slot = -1 THEN Nothing
       ELSE [sequence |-> SequenceOf(rom[slot]), feed_count |-> CountOf(rom[slot])]

-----------------------------------------------------------------------------
\* Mutant: the mask is forgotten.
Unmasked(sequence) == sequence

SlotOf(sequence) == sequence % Slots

Blank == [i \in Position |-> 255]

\* The slots of an EEPROM with a long past: the last Slots saves, each whole.
Filled(start) ==
    [slot \in 0..(Slots - 1) |->
        IF start.version = 0 THEN Blank
        ELSE LET age == (start.sequence - slot) % Slots
             IN RecordOf(start.version, (start.sequence - age) % 65536,
                         (start.feed_count - age) % 65536)]

Init ==
    /\ \E start \in Starts : eeprom = Filled(start)
    /\ kept = Load(eeprom) /\ settings = kept
    /\ pending = Blank /\ index = 0 /\ base = 0 /\ busy = FALSE
    /\ begun = 0 /\ feeds = 0

\* handle_inputs on an edge of the hall sensor, with persistence_save.
Feed ==
    LET sequence == Following(settings.sequence)
        feed_count == Following(settings.feed_count)
    IN /\ feeds < MaxFeeds
       /\ feeds' = feeds + 1
       /\ settings' = [sequence |-> sequence, feed_count |-> feed_count]
       /\ pending' = RecordOf(2, sequence, feed_count)
       /\ base' = SlotOf(sequence)
       /\ index' = 0 /\ busy' = TRUE
       /\ begun' = begun + 1
       /\ UNCHANGED <<eeprom, kept>>

\* The EEPROM answers persistence_service, and takes the byte it then gets.
WriteByte ==
    /\ busy
    /\ eeprom' = [eeprom EXCEPT ![base][index + 1] = pending[index + 1]]
    /\ kept' = Load(eeprom')
    /\ index' = index + 1
    /\ busy' = (index' # Size)
    /\ begun' = IF index' = Size THEN 0 ELSE begun
    /\ UNCHANGED <<settings, pending, base, feeds>>

\* The EEPROM has not answered until ee_deadline: the service gives up the save
\* where it stands.
GiveUp ==
    /\ busy
    /\ busy' = FALSE
    /\ UNCHANGED <<eeprom, settings, pending, index, base, kept, begun, feeds>>

\* The power fails, and the board starts again: petcargo_init.  A byte the EEPROM
\* was writing is written or is not.
PowerFailure ==
    /\ settings' = Load(eeprom)
    /\ busy' = FALSE /\ begun' = 0
    /\ pending' = Blank /\ index' = 0 /\ base' = 0
    /\ UNCHANGED <<eeprom, kept, feeds>>

Next == Feed \/ WriteByte \/ GiveUp \/ PowerFailure

Spec == Init /\ [][Next]_vars

-----------------------------------------------------------------------------
(* Properties. *)

\* A slot in which one byte of a save was written over what older saves had left there
\* passes the check only as that save, or as what it was.  (Eight bits of check cannot
\* promise that for all numbers; NoMixture and the log depend on it.)
DiscerningWrite ==
    WriteByte /\ Valid(eeprom'[base]) => eeprom'[base] \in {eeprom[base], pending}
CheckDiscerns == [][DiscerningWrite]_vars

\* How many saves the count in memory is ahead of the sequence number: both go
\* up together from the start on.
Offset(record) == (record.feed_count - record.sequence) % 65536

\* A record that was only half written, over an older one, is never taken for a
\* whole one: what a restart finds is the count that was saved with that number.
NoMixture == kept.feed_count # 0 => Offset(kept) = Offset(settings)

\* The log implements its promise: a restart loses only what was begun since the
\* last completed save, unless a whole round of saves was interrupted.
Log == INSTANCE SettingsLog WITH
    begun <- begun, lag <- (settings.sequence - kept.sequence) % 65536
KeepsItsLog == Log!LogSpec
=============================================================================
