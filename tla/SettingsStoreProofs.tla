------------------------- MODULE SettingsStoreProofs -------------------------
(***************************************************************************)
(* Proofs about the settings in the EEPROM: whatever its slots held, for   *)
(* every number of them and any number of feedings and power failures, a   *)
(* restart finds a record that was saved, and the newest of them.          *)
(*                                                                         *)
(* The invariant gives every whole record an age, which is how many saves  *)
(* it is behind the settings in memory: its count of feedings is as far    *)
(* behind, and its slot is the one its number belongs to.  Ages are small  *)
(* against the 65536 numbers, so the comparison of persistence_load, which *)
(* goes around with them, orders the records by age, and its loop finds    *)
(* the youngest.  That no other record passes the check is the hypothesis  *)
(* CheckDiscerns: eight bits cannot promise it of all numbers.             *)
(***************************************************************************)
EXTENDS SettingsStore, WellFoundedInduction, TLAPS

(* Arithmetic of words and slots. *)

LEMMA Least ==
    ASSUME NEW T, T \subseteq Nat, T # {}
    PROVE  \E m \in T : \A k \in T : m <= k
<1> DEFINE R == OpToRel(<, Nat)
<1>1. IsWellFoundedOn(R, Nat)
  BY NatLessThanWellFounded
<1>2. \E m \in T : \A k \in T : ~(<<k, m>> \in R)
  <2> HIDE DEF R
  <2> QED BY <1>1, WFMin
<1>3. PICK m \in T : \A k \in T : ~(<<k, m>> \in R)
  BY <1>2
<1>4. ASSUME NEW k \in T PROVE m <= k
  <2>1. ~(<<k, m>> \in R)
    BY <1>3
  <2>2. <<k, m>> \in Nat \X Nat
    OBVIOUS
  <2>3. ~ (k < m)
    BY <2>1, <2>2 DEF OpToRel
  <2> QED BY <2>3
<1> QED BY <1>3, <1>4

LEMMA Remainder ==
    ASSUME NEW S \in Nat \ {0}, NEW q \in Int, NEW r \in 0..(S - 1)
    PROVE  (q * S + r) % S = r
OBVIOUS

LEMMA Division ==
    ASSUME NEW S \in Nat \ {0}, NEW x \in Int
    PROVE  /\ x % S \in 0..(S - 1) /\ x \div S \in Int
           /\ x = S * (x \div S) + (x % S)
OBVIOUS

LEMMA Words ==
    /\ \A x \in Word : x \in Int /\ 0 <= x /\ x <= 65535
    /\ \A x \in Int : x % 65536 \in Word
    /\ \A x \in Int : 0 <= x /\ x <= 65535 => x \in Word /\ x % 65536 = x
<1>1. \A x \in Word : x \in Int /\ 0 <= x /\ x <= 65535
  BY DEF Word
<1>2. \A x \in Int : x % 65536 \in Word
  BY DEF Word
<1>3. ASSUME NEW x \in Int, 0 <= x, x <= 65535
      PROVE  x \in Word /\ x % 65536 = x
  <2> DEFINE r == x % 65536
             q == x \div 65536
  <2>1. r \in Word /\ r \in Int /\ 0 <= r /\ r <= 65535
    BY <1>1, <1>2
  <2>2. q \in Int /\ x = 65536 * q + r
    OBVIOUS
  <2> HIDE DEF r, q
  <2>3. q < 1 /\ q > -1
    BY <1>3, <2>1, <2>2
  <2>4. x = r
    BY <2>1, <2>2, <2>3
  <2> QED BY <2>1, <2>4 DEF r
<1> QED BY <1>1, <1>2, <1>3

\* A word too small by one round, and one too large by one round.
LEMMA Wrapping ==
    /\ \A x \in Int : -65536 <= x /\ x <= -1 => x % 65536 = x + 65536
    /\ \A x \in Int : 65536 <= x /\ x <= 131071 => x % 65536 = x - 65536
OBVIOUS

LEMMA Differences ==
    \A x, y \in Word : (x - y) % 65536 = IF y <= x THEN x - y ELSE x - y + 65536
<1> SUFFICES ASSUME NEW x \in Word, NEW y \in Word
             PROVE  (x - y) % 65536 = IF y <= x THEN x - y ELSE x - y + 65536
  OBVIOUS
<1>0. x \in Int /\ y \in Int /\ 0 <= y /\ x <= 65535 /\ 0 <= x /\ y <= 65535
  BY Words
<1>1. CASE y <= x
  <2>1. x - y \in Int /\ 0 <= x - y /\ x - y <= 65535
    BY <1>0, <1>1
  <2> QED BY <1>1, <2>1, Words
<1>2. CASE ~(y <= x)
  <2>1. x - y \in Int /\ -65536 <= x - y /\ x - y <= -1
    BY <1>0, <1>2
  <2> QED BY <1>2, <2>1, Wrapping
<1> QED BY <1>1, <1>2

LEMMA Successor ==
    \A x \in Word : Following(x) = IF x = 65535 THEN 0 ELSE x + 1
<1> SUFFICES ASSUME NEW x \in Word
             PROVE  (x + 1) % 65536 = IF x = 65535 THEN 0 ELSE x + 1
  BY DEF Following
<1>0. x \in Int /\ 0 <= x /\ x <= 65535
  BY Words
<1>1. CASE x = 65535
  <2>1. 65536 % 65536 = 65536 - 65536
    BY Wrapping
  <2> QED BY <1>1, <2>1
<1>2. CASE x # 65535
  <2>1. x + 1 \in Int /\ 0 <= x + 1 /\ x + 1 <= 65535
    BY <1>0, <1>2
  <2> QED BY <1>2, <2>1, Words
<1> QED BY <1>1, <1>2

\* A word is its two bytes.
LEMMA Bytes == \A word \in Word :
    Low(word) \in Byte /\ High(word) \in Byte /\ Low(word) + 256 * High(word) = word
<1> SUFFICES ASSUME NEW word \in Word
             PROVE  /\ word % 256 \in Byte /\ word \div 256 \in Byte
                    /\ (word % 256) + 256 * (word \div 256) = word
  BY DEF Low, High
<1>0. word \in Int /\ 0 <= word /\ word <= 65535
  BY DEF Word
<1>1. word % 256 \in 0..(256 - 1) /\ word = 256 * (word \div 256) + (word % 256) /\ word \div 256 \in Int
  BY <1>0, Division
<1>2. 0 <= word \div 256 /\ word \div 256 <= 255
  BY <1>0, <1>1
<1> QED BY <1>1, <1>2 DEF Byte

\* Words of the same slot are not less than Slots apart.
LEMMA Turns ==
    ASSUME NEW x \in Int
    PROVE  (x + 65536) % Slots = x % Slots
<1>0. Slots \in Nat \ {0} /\ 65536 % Slots = 0
  BY SlotsAssumption
<1> DEFINE q == x \div Slots
           r == x % Slots
           p == 65536 \div Slots
<1>1. q \in Int /\ r \in 0..(Slots - 1) /\ x = Slots * q + r
  BY <1>0, Division
<1>2. p \in Int /\ 65536 = Slots * p
  <2>1. 65536 = Slots * p + (65536 % Slots) /\ p \in Int
    BY <1>0, Division
  <2> QED BY <2>1, <1>0
<1> HIDE DEF q, p
<1>3. q + p \in Int /\ x + 65536 = (q + p) * Slots + r
  <2>1. (q + p) * Slots = Slots * q + Slots * p
    BY <1>0, <1>1, <1>2
  <2> HIDE DEF r
  <2>2. x + 65536 = Slots * q + r + Slots * p
    BY <1>1, <1>2
  <2>3. Slots * q \in Int /\ Slots * p \in Int /\ r \in Int
    BY <1>0, <1>1, <1>2
  <2> QED BY <2>1, <2>2, <2>3, <1>1, <1>2
<1> HIDE DEF r
<1>4. ASSUME NEW k \in Int PROVE (k * Slots + r) % Slots = r
  BY <1>0, <1>1, Remainder
<1>5. ((q + p) * Slots + r) % Slots = r
  BY <1>3, <1>4
<1> QED BY <1>3, <1>5 DEF r

LEMMA Apart ==
    ASSUME NEW x \in Int, NEW d \in 0..(Slots - 1), (x - d) % Slots = x % Slots
    PROVE  d = 0
<1>0. Slots \in Nat \ {0}
  BY SlotsAssumption
<1> DEFINE q == x \div Slots
           p == (x - d) \div Slots
           r == x % Slots
<1>1. q \in Int /\ x = Slots * q + r /\ r \in Int
  BY <1>0, Division
<1>2. p \in Int /\ x - d = Slots * p + r
  <2>1. x - d \in Int
    BY <1>0
  <2> QED BY <1>0, <2>1, Division
<1> HIDE DEF q, p, r
<1>3. d = Slots * (q - p)
  <2>1. Slots * (q - p) = Slots * q - Slots * p
    BY <1>0, <1>1, <1>2
  <2>2. Slots * q \in Int /\ Slots * p \in Int
    BY <1>0, <1>1, <1>2
  <2> QED BY <2>1, <2>2, <1>0, <1>1, <1>2
<1>4. q - p \in Int
  BY <1>1, <1>2
<1>5. ASSUME NEW k \in Int, Slots * k \in 0..(Slots - 1) PROVE k = 0
  <2>1. k < 1
    BY <1>0, <1>5
  <2>2. k > -1
    BY <1>0, <1>5
  <2> QED BY <2>1, <2>2
<1>6. q - p = 0
  BY <1>3, <1>4, <1>5
<1> QED BY <1>3, <1>6, <1>0

-----------------------------------------------------------------------------
(* Records: the check is a byte, a record passes it, and its numbers come back. *)

LEMMA DifferingIsByte ==
    ASSUME NEW a \in Byte, NEW b \in Byte
    PROVE  Differing(a, b) \in Byte
<1> DEFINE d(k) == IF Bit(a, k) = Bit(b, k) THEN 0 ELSE 2^k
           sums(f) == f = [k \in 0..8 |-> IF k = 0 THEN 0
               ELSE f[k - 1] + (IF Bit(a, k - 1) = Bit(b, k - 1) THEN 0 ELSE 2^(k - 1))]
           s1 == d(0)
           s2 == s1 + d(1)
           s3 == s2 + d(2)
           s4 == s3 + d(3)
           s5 == s4 + d(4)
           s6 == s5 + d(5)
           s7 == s6 + d(6)
           s8 == s7 + d(7)
           g == [k \in 0..8 |-> CASE k = 0 -> 0 [] k = 1 -> s1 [] k = 2 -> s2
                    [] k = 3 -> s3 [] k = 4 -> s4 [] k = 5 -> s5 [] k = 6 -> s6
                    [] k = 7 -> s7 [] OTHER -> s8]
<1>1. sums(g)
  <2>1. ASSUME NEW k \in 0..8
        PROVE  g[k] = IF k = 0 THEN 0 ELSE g[k - 1] + d(k - 1)
    <3> HIDE DEF d
    <3>1. CASE k = 0
      BY <3>1
    <3>2. CASE k \in 1..8
      <4>1. k \in {1, 2, 3, 4, 5, 6, 7, 8}
        BY <3>2
      <4>2. g[0] = 0 /\ g[1] = s1 /\ g[2] = s2 /\ g[3] = s3 /\ g[4] = s4
            /\ g[5] = s5 /\ g[6] = s6 /\ g[7] = s7 /\ g[8] = s8
        <5> HIDE DEF s1, s2, s3, s4, s5, s6, s7, s8
        <5> QED OBVIOUS
      <4>3. s1 = g[0] + d(0)
        <5>1. d(0) \in Int
          BY DEF d
        <5> QED BY <5>1, <4>2
      <4> QED BY <4>1, <4>2, <4>3
    <3> QED BY <3>1, <3>2
  <2> QED BY <2>1
<1>2. PICK f : sums(f) /\ f[8] = Differing(a, b)
  <2> HIDE DEF g
  <2>1. sums(CHOOSE f : sums(f))
    BY <1>1
  <2> QED BY <2>1 DEF Differing
<1>3. /\ d(0) \in {0, 1} /\ d(1) \in {0, 2} /\ d(2) \in {0, 4} /\ d(3) \in {0, 8}
      /\ d(4) \in {0, 16} /\ d(5) \in {0, 32} /\ d(6) \in {0, 64} /\ d(7) \in {0, 128}
  <2>1. 2^0 = 1 /\ 2^1 = 2 /\ 2^2 = 4 /\ 2^3 = 8
    OBVIOUS
  <2>2. 2^4 = 16 /\ 2^5 = 32 /\ 2^6 = 64 /\ 2^7 = 128
    OBVIOUS
  <2> QED BY <2>1, <2>2
<1>4. f[0] = 0 /\ \A k \in 1..8 : f[k] = f[k - 1] + d(k - 1)
  BY <1>2
<1> HIDE DEF d, sums
<1>5. /\ f[1] = f[0] + d(0) /\ f[2] = f[1] + d(1) /\ f[3] = f[2] + d(2) /\ f[4] = f[3] + d(3)
      /\ f[5] = f[4] + d(4) /\ f[6] = f[5] + d(5) /\ f[7] = f[6] + d(6) /\ f[8] = f[7] + d(7)
  BY <1>4
<1>6. f[4] \in 0..15
  BY <1>3, <1>4, <1>5
<1>7. f[8] \in 0..255
  BY <1>3, <1>5, <1>6
<1> QED BY <1>2, <1>7 DEF Byte

LEMMA XorOfIsByte ==
    ASSUME NEW a \in Byte, NEW b \in Byte
    PROVE  XorOf(a, b) \in Byte
<1> DEFINE row(x) == [y \in 1..256 |-> Differing(x, y - 1)]
           table == [x \in 1..256 |-> XorRow(x - 1)]
<1>0. \A x \in 1..256 : x - 1 \in Byte
  BY DEF Byte
<1>1. ASSUME NEW x \in Byte
      PROVE  XorRow(x) = row(x)
  <2>1. row(x) \in Seq(Byte) /\ Len(row(x)) = 256
    BY <1>0, DifferingIsByte
  <2> HIDE DEF row
  <2>2. SubSeq(row(x), 1, 256) = row(x)
    BY <2>1
  <2> QED BY <2>2 DEF XorRow, row
<1>2. XorTable = table
  <2>1. table \in Seq(Seq(Byte)) /\ Len(table) = 256
    <3>1. ASSUME NEW x \in 1..256 PROVE XorRow(x - 1) \in Seq(Byte)
      <4>1. row(x - 1) \in Seq(Byte)
        BY <1>0, DifferingIsByte
      <4> HIDE DEF row
      <4> QED BY <4>1, <1>0, <1>1
    <3> QED BY <3>1
  <2> HIDE DEF table
  <2>2. SubSeq(table, 1, 256) = table
    BY <2>1
  <2> QED BY <2>2 DEF XorTable, table
<1>3. a + 1 \in 1..256 /\ b + 1 \in 1..256 /\ (a + 1) - 1 = a /\ (b + 1) - 1 = b
  BY DEF Byte
<1>4. XorOf(a, b) = Differing(a, b)
  BY <1>1, <1>2, <1>3 DEF XorOf
<1> QED BY <1>4, DifferingIsByte

LEMMA RotateLeftIsByte ==
    ASSUME NEW b \in Byte
    PROVE  RotateLeft(b) \in Byte
BY DEF RotateLeft, Byte

\* The recursion of settings_crc, byte by byte.
LEMMA CrcRecursion ==
    ASSUME NEW data
    PROVE  \E f : /\ f[0] = 90 /\ f[10] = Crc(data)
                  /\ \A i \in 1..10 : f[i] = XorOf(RotateLeft(f[i - 1]), data[i])
<1> DEFINE checks(f) == f = [i \in 0..10 |->
               IF i = 0 THEN 90 ELSE XorOf(RotateLeft(f[i - 1]), data[i])]
           c0 == 90
           c1 == XorOf(RotateLeft(c0), data[1])
           c2 == XorOf(RotateLeft(c1), data[2])
           c3 == XorOf(RotateLeft(c2), data[3])
           c4 == XorOf(RotateLeft(c3), data[4])
           c5 == XorOf(RotateLeft(c4), data[5])
           c6 == XorOf(RotateLeft(c5), data[6])
           c7 == XorOf(RotateLeft(c6), data[7])
           c8 == XorOf(RotateLeft(c7), data[8])
           c9 == XorOf(RotateLeft(c8), data[9])
           c10 == XorOf(RotateLeft(c9), data[10])
           g == [i \in 0..10 |-> CASE i = 0 -> c0
                    [] i = 1 -> c1
                    [] i = 2 -> c2
                    [] i = 3 -> c3
                    [] i = 4 -> c4
                    [] i = 5 -> c5
                    [] i = 6 -> c6
                    [] i = 7 -> c7
                    [] i = 8 -> c8
                    [] i = 9 -> c9
                    [] OTHER -> c10]
<1>1. checks(g)
  <2>1. ASSUME NEW i \in 0..10
        PROVE  g[i] = IF i = 0 THEN 90 ELSE XorOf(RotateLeft(g[i - 1]), data[i])
    <3>1. CASE i = 0
      BY <3>1
    <3>2. CASE i \in 1..10
      <4>1. i \in {1, 2, 3, 4, 5, 6, 7, 8, 9, 10}
        BY <3>2
      <4>2. g[0] = c0 /\ g[1] = c1 /\ g[2] = c2 /\ g[3] = c3 /\ g[4] = c4 /\ g[5] = c5 /\ g[6] = c6 /\ g[7] = c7 /\ g[8] = c8 /\ g[9] = c9 /\ g[10] = c10
        <5> HIDE DEF c0, c1, c2, c3, c4, c5, c6, c7, c8, c9, c10
        <5> QED OBVIOUS
      <4>3. ASSUME NEW k \in {1, 2, 3, 4, 5, 6, 7, 8, 9, 10}
            PROVE  g[k] = XorOf(RotateLeft(g[k - 1]), data[k])
        <5> HIDE DEF g
        <5> QED BY <4>2
      <4> QED BY <3>2, <4>1, <4>3
    <3> QED BY <3>1, <3>2
  <2> QED BY <2>1
<1>2. PICK f : checks(f) /\ f[10] = Crc(data)
  <2> HIDE DEF g
  <2>1. checks(CHOOSE f : checks(f))
    BY <1>1
  <2> QED BY <2>1 DEF Crc
<1>3. f[0] = 90 /\ \A i \in 1..10 : f[i] = XorOf(RotateLeft(f[i - 1]), data[i])
  BY <1>2
<1> HIDE DEF checks
<1> QED BY <1>2, <1>3

LEMMA CrcIsByte ==
    ASSUME NEW data, \A i \in 1..10 : data[i] \in Byte
    PROVE  Crc(data) \in Byte
<1>1. PICK f : /\ f[0] = 90 /\ f[10] = Crc(data)
               /\ \A i \in 1..10 : f[i] = XorOf(RotateLeft(f[i - 1]), data[i])
  BY CrcRecursion
<1>2. ASSUME NEW i \in 1..10, f[i - 1] \in Byte PROVE f[i] \in Byte
  BY <1>1, <1>2, RotateLeftIsByte, XorOfIsByte
<1>3. f[0] \in Byte
  BY <1>1 DEF Byte
<1>4. f[1] \in Byte /\ f[2] \in Byte /\ f[3] \in Byte /\ f[4] \in Byte /\ f[5] \in Byte
  BY <1>2, <1>3
<1>5. f[6] \in Byte /\ f[7] \in Byte /\ f[8] \in Byte /\ f[9] \in Byte /\ f[10] \in Byte
  BY <1>2, <1>4
<1> QED BY <1>1, <1>5

\* The check covers the first ten bytes of a record and nothing else.
LEMMA CrcCovers ==
    ASSUME NEW data, NEW other, \A i \in 1..10 : data[i] = other[i]
    PROVE  Crc(data) = Crc(other)
<1>1. PICK f : /\ f[0] = 90 /\ f[10] = Crc(data)
               /\ \A i \in 1..10 : f[i] = XorOf(RotateLeft(f[i - 1]), data[i])
  BY CrcRecursion
<1>2. PICK g : /\ g[0] = 90 /\ g[10] = Crc(other)
               /\ \A i \in 1..10 : g[i] = XorOf(RotateLeft(g[i - 1]), other[i])
  BY CrcRecursion
<1>3. ASSUME NEW i \in 1..10, f[i - 1] = g[i - 1] PROVE f[i] = g[i]
  BY <1>1, <1>2, <1>3
<1>4. f[0] = g[0]
  BY <1>1, <1>2
<1>5. f[1] = g[1] /\ f[2] = g[2] /\ f[3] = g[3] /\ f[4] = g[4] /\ f[5] = g[5]
  BY <1>3, <1>4
<1>6. f[6] = g[6] /\ f[7] = g[7] /\ f[8] = g[8] /\ f[9] = g[9] /\ f[10] = g[10]
  BY <1>3, <1>5
<1> QED BY <1>1, <1>2, <1>6

\* A record of either version passes the check, and holds the numbers put into it.
LEMMA Records ==
    ASSUME NEW version \in {1, 2}, NEW sequence \in Word, NEW feed_count \in Word
    PROVE  LET data == RecordOf(version, sequence, feed_count) IN
           /\ data \in Record
           /\ Valid(data)
           /\ SequenceOf(data) = sequence
           /\ CountOf(data) = feed_count
<1> DEFINE plain == [i \in Position |->
               CASE i = 1 -> 199
                 [] i = 2 -> version
                 [] i = 3 -> Low(sequence)
                 [] i = 4 -> High(sequence)
                 [] i = (IF version = 1 THEN 8 ELSE 5) -> Low(feed_count)
                 [] i = (IF version = 1 THEN 9 ELSE 6) -> High(feed_count)
                 [] OTHER -> 0]
           data == RecordOf(version, sequence, feed_count)
<1>1. data = Checked(plain)
  BY DEF RecordOf
<1>2. /\ Low(sequence) \in Byte /\ High(sequence) \in Byte
      /\ Low(feed_count) \in Byte /\ High(feed_count) \in Byte
      /\ Low(sequence) + 256 * High(sequence) = sequence
      /\ Low(feed_count) + 256 * High(feed_count) = feed_count
  BY Bytes
<1>3. \A i \in 1..12 : plain[i] \in Byte
  <2>1. 199 \in Byte /\ version \in Byte /\ 0 \in Byte
    BY DEF Byte
  <2>2. \A i \in 1..12 : plain[i] \in {199, version, Low(sequence), High(sequence),
                                       Low(feed_count), High(feed_count), 0}
    BY DEF Position, Size
  <2> HIDE DEF plain
  <2> QED BY <1>2, <2>1, <2>2
<1>4. /\ plain[1] = 199 /\ plain[2] = version
      /\ plain[3] = Low(sequence) /\ plain[4] = High(sequence)
      /\ version = 1 => plain[8] = Low(feed_count) /\ plain[9] = High(feed_count)
      /\ version = 2 => plain[5] = Low(feed_count) /\ plain[6] = High(feed_count)
  BY DEF Position, Size
<1> HIDE DEF plain, data
<1>5. Crc(plain) \in Byte
  BY <1>3, CrcIsByte
<1>6. /\ data = [i \in 1..12 |->
             CASE i = 11 -> Crc(plain) [] i = 12 -> 255 - Crc(plain) [] OTHER -> plain[i]]
  BY <1>1 DEF Checked, Position, Size
<1>7. data \in Record
  BY <1>3, <1>5, <1>6 DEF Record, Position, Size, Byte
<1>8. \A i \in 1..10 : data[i] = plain[i]
  BY <1>6
<1>9. data[11] = Crc(plain) /\ data[12] = 255 - Crc(plain)
  BY <1>6
<1>10. Crc(data) = Crc(plain)
  BY <1>8, CrcCovers
<1>11. Valid(data)
  BY <1>4, <1>8, <1>9, <1>10 DEF Valid
<1>12. SequenceOf(data) = sequence
  BY <1>2, <1>4, <1>8 DEF SequenceOf
<1>13. CountOf(data) = feed_count
  BY <1>2, <1>4, <1>8 DEF CountOf
<1> QED BY <1>7, <1>11, <1>12, <1>13 DEF data

LEMMA NumbersAreWords ==
    ASSUME NEW data \in Record
    PROVE  SequenceOf(data) \in Word /\ CountOf(data) \in Word
<1>1. \A low, high \in Byte : low + 256 * high \in Word
  <2>1. \A low, high \in Byte : /\ low + 256 * high \in Int
                               /\ 0 <= low + 256 * high /\ low + 256 * high <= 65535
    BY DEF Byte
  <2> QED BY <2>1, Words
<1>2. \A i \in 1..12 : data[i] \in Byte
  BY DEF Record, Position, Size
<1> QED BY <1>1, <1>2 DEF SequenceOf, CountOf

LEMMA BlankIsInvalid == Blank \in Record /\ ~Valid(Blank)
BY DEF Blank, Record, Position, Size, Byte, Valid

-----------------------------------------------------------------------------
(* The loop of persistence_load. *)

\* f is what N passes of the loop body G, from a on, compute in S.
Loop(f, N, S, a, G) ==
    /\ f[0] = a /\ \A k \in 1..N : f[k] = G[<<k, f[k - 1]>>]
    /\ \A k \in 0..N : f[k] \in S

LEMMA Recursion ==
    ASSUME NEW N \in Nat, NEW S, NEW a \in S,
           NEW G, \A k \in 1..N : \A x \in S : G[<<k, x>>] \in S
    PROVE  \E f : Loop(f, N, S, a, G)
<1> USE DEF Loop
<1> DEFINE Runs(n) == \E f : Loop(f, n, S, a, G)
           T == {n \in 0..N : ~Runs(n)}
<1>1. CASE T = {}
  <2>1. N \in 0..N
    OBVIOUS
  <2>2. Runs(N)
    <3> HIDE DEF Runs
    <3> QED BY <2>1, <1>1
  <2> QED BY <2>2
<1>2. CASE T # {}
  <2>1. T \subseteq Nat
    OBVIOUS
  <2>2. PICK m \in T : \A k \in T : m <= k
    <3> HIDE DEF T
    <3> QED BY <2>1, <1>2, Least
  <2>3. Runs(0)
    <3> DEFINE f == [k \in 0..0 |-> a]
    <3>1. f[0] = a /\ \A k \in 1..0 : f[k] = G[<<k, f[k - 1]>>]
      OBVIOUS
    <3>2. \A k \in 0..0 : f[k] \in S
      OBVIOUS
    <3> HIDE DEF f
    <3> QED BY <3>1, <3>2
  <2>4. m # 0
    <3> HIDE DEF Runs
    <3> QED BY <2>3
  <2>5. m \in 1..N /\ m - 1 \in 0..N /\ ~(m <= m - 1)
    BY <2>4
  <2>6. Runs(m - 1)
    <3> HIDE DEF Runs
    <3> QED BY <2>2, <2>5
  <2>7. PICK f : /\ f[0] = a /\ \A k \in 1..(m - 1) : f[k] = G[<<k, f[k - 1]>>]
                 /\ \A k \in 0..(m - 1) : f[k] \in S
    BY <2>6
  <2> DEFINE g == [k \in 0..m |-> IF k = m THEN G[<<m, f[m - 1]>>] ELSE f[k]]
  <2>8. G[<<m, f[m - 1]>>] \in S
    <3>1. f[m - 1] \in S
      BY <2>5, <2>7
    <3> QED BY <3>1, <2>5
  <2>9. \A k \in 0..m : g[k] \in S
    <3>1. \A k \in 0..m : k = m \/ k \in 0..(m - 1)
      BY <2>5
    <3> QED BY <3>1, <2>7, <2>8
  <2>10. g[0] = a
    BY <2>5, <2>7
  <2>11. ASSUME NEW k \in 1..m PROVE g[k] = G[<<k, g[k - 1]>>]
    <3>1. k - 1 \in 0..m /\ k - 1 # m /\ k \in 0..m
      BY <2>5
    <3>2. g[k - 1] = f[k - 1]
      BY <3>1
    <3>3. CASE k = m
      BY <3>1, <3>2, <3>3
    <3>4. CASE k # m
      <4>1. k \in 1..(m - 1)
        BY <3>4, <2>5
      <4>2. f[k] = G[<<k, f[k - 1]>>]
        BY <4>1, <2>7
      <4>3. g[k] = f[k]
        BY <3>1, <3>4
      <4> QED BY <4>2, <4>3, <3>2
    <3> QED BY <3>3, <3>4
  <2>12. Runs(m)
    <3> HIDE DEF g
    <3> QED BY <2>9, <2>10, <2>11
  <2>13. ~Runs(m)
    <3> HIDE DEF Runs
    <3> QED OBVIOUS
  <2> QED BY <2>12, <2>13
<1> QED BY <1>1, <1>2

\* What the loop takes over from a slot.
LEMMA NewestRecursion ==
    ASSUME NEW rom
    PROVE  \E f : /\ f[0] = -1 /\ f[Slots] = Newest(rom)
                  /\ \A k \in 1..Slots : f[k] =
                        IF /\ Valid(rom[k - 1])
                           /\ \/ f[k - 1] = -1
                              \/ Newer(SequenceOf(rom[k - 1]), SequenceOf(rom[f[k - 1]]))
                        THEN k - 1 ELSE f[k - 1]
<1>0. Slots \in Nat /\ Slots # 0
  BY SlotsAssumption
<1> DEFINE take(k, found) == /\ Valid(rom[k - 1])
                             /\ found = -1 \/ Newer(SequenceOf(rom[k - 1]), SequenceOf(rom[found]))
           scans(f) == f = [k \in 0..Slots |-> IF k = 0 THEN -1
               ELSE IF take(k, f[k - 1]) THEN k - 1 ELSE f[k - 1]]
           S == -1..(Slots - 1)
           G == [x \in (1..Slots) \X S |-> IF take(x[1], x[2]) THEN x[1] - 1 ELSE x[2]]
<1>1. PICK h : /\ h[0] = -1 /\ \A k \in 1..Slots : h[k] = G[<<k, h[k - 1]>>]
               /\ \A k \in 0..Slots : h[k] \in S
  <2>1. \A k \in 1..Slots : \A x \in S : G[<<k, x>>] \in S
    <3> HIDE DEF take
    <3> QED BY <1>0
  <2> DEFINE none == -1
  <2>2. none \in S
    BY <1>0
  <2> HIDE DEF G, S, none
  <2>3. \E h : Loop(h, Slots, S, none, G)
    BY <2>1, <2>2, <1>0, Recursion
  <2> QED BY <2>3 DEF none, Loop
<1> DEFINE f == [k \in 0..Slots |-> h[k]]
<1>2. \A k \in 0..Slots : f[k] = h[k]
  OBVIOUS
<1>3. scans(f)
  <2> HIDE DEF take
  <2>1. ASSUME NEW k \in 0..Slots, k # 0
        PROVE  h[k] = IF take(k, f[k - 1]) THEN k - 1 ELSE f[k - 1]
    <3> HIDE DEF f
    <3>1. k \in 1..Slots /\ k - 1 \in 0..Slots
      BY <1>0, <2>1
    <3>2. h[k - 1] \in S
      BY <3>1, <1>1
    <3>3. G[<<k, h[k - 1]>>] = IF take(k, h[k - 1]) THEN k - 1 ELSE h[k - 1]
      BY <3>1, <3>2
    <3> QED BY <3>1, <3>3, <1>1, <1>2
  <2> HIDE DEF G, S
  <2>2. h[0] = -1
    BY <1>1
  <2>3. \A k \in 0..Slots : h[k] = IF k = 0 THEN -1
               ELSE IF take(k, f[k - 1]) THEN k - 1 ELSE f[k - 1]
    <3> HIDE DEF f
    <3> QED BY <2>1, <2>2
  <2> QED BY <2>3
<1>4. PICK best : scans(best) /\ best[Slots] = Newest(rom)
  <2>1. scans(CHOOSE best : scans(best))
    BY <1>3
  <2> QED BY <2>1 DEF Newest
<1>5. best[0] = -1 /\ \A k \in 1..Slots :
         best[k] = IF take(k, best[k - 1]) THEN k - 1 ELSE best[k - 1]
  <2>1. best = [k \in 0..Slots |-> IF k = 0 THEN -1
               ELSE IF take(k, best[k - 1]) THEN k - 1 ELSE best[k - 1]]
    BY <1>4
  <2>2. ASSUME NEW k \in 1..Slots
        PROVE  best[k] = IF take(k, best[k - 1]) THEN k - 1 ELSE best[k - 1]
    <3>1. k \in 0..Slots /\ k # 0
      BY <1>0
    <3> HIDE DEF take
    <3> QED BY <2>1, <3>1
  <2>3. best[0] = -1
    <3>1. 0 \in 0..Slots
      BY <1>0
    <3> HIDE DEF take
    <3> QED BY <2>1, <3>1
  <2> QED BY <2>2, <2>3
<1> HIDE DEF scans
<1> QED BY <1>4, <1>5

\* What holds before the loop, and after a pass if it held before it, holds after the
\* last pass.
LEMMA Passes ==
    ASSUME NEW N \in Nat, NEW good, good \subseteq 0..N, 0 \in good,
           \A k \in 1..N : k - 1 \in good => k \in good
    PROVE  \A k \in 0..N : k \in good
<1> DEFINE T == (0..N) \ good
<1>1. CASE T = {}
  BY <1>1
<1>2. CASE T # {}
  <2>1. T \subseteq Nat
    OBVIOUS
  <2>2. PICK m \in T : \A k \in T : m <= k
    <3> HIDE DEF T
    <3> QED BY <2>1, <1>2, Least
  <2>3. m \in 1..N /\ m \notin good
    OBVIOUS
  <2>4. m - 1 \in 0..N /\ ~(m <= m - 1)
    BY <2>3
  <2>5. m - 1 \in good
    BY <2>2, <2>4
  <2> QED BY <2>3, <2>5
<1> QED BY <1>1, <1>2

\* The loop ends with a whole record, or without one if there is none.
LEMMA NewestIsValid ==
    ASSUME NEW rom
    PROVE  \/ Newest(rom) = -1 /\ \A slot \in 0..(Slots - 1) : ~Valid(rom[slot])
           \/ Newest(rom) \in 0..(Slots - 1) /\ Valid(rom[Newest(rom)])
<1>0. Slots \in Nat /\ Slots # 0
  BY SlotsAssumption
<1>1. PICK f : /\ f[0] = -1 /\ f[Slots] = Newest(rom)
               /\ \A k \in 1..Slots : f[k] =
                     IF /\ Valid(rom[k - 1])
                        /\ \/ f[k - 1] = -1
                           \/ Newer(SequenceOf(rom[k - 1]), SequenceOf(rom[f[k - 1]]))
                     THEN k - 1 ELSE f[k - 1]
  BY NewestRecursion
<1> DEFINE Good(k) == \/ f[k] = -1 /\ \A slot \in 0..(k - 1) : ~Valid(rom[slot])
                      \/ f[k] \in 0..(k - 1) /\ Valid(rom[f[k]])
           good == {k \in 0..Slots : Good(k)}
<1>2. Good(0)
  BY <1>1
<1>3. ASSUME NEW k \in 1..Slots, Good(k - 1) PROVE Good(k)
  <2>1. \/ f[k] = k - 1 /\ Valid(rom[k - 1])
        \/ f[k] = f[k - 1] /\ (f[k - 1] = -1 => ~Valid(rom[k - 1]))
    BY <1>1
  <2>2. \A slot \in 0..(k - 1) : slot = k - 1 \/ slot \in 0..((k - 1) - 1)
    OBVIOUS
  <2>3. k - 1 \in 0..(k - 1) /\ 0..((k - 1) - 1) \subseteq 0..(k - 1)
    OBVIOUS
  <2> QED BY <1>3, <2>1, <2>2, <2>3
<1>4. \A k \in 0..Slots : k \in good
  <2> HIDE DEF Good
  <2>1. good \subseteq 0..Slots /\ 0 \in good
    BY <1>0, <1>2
  <2>2. \A k \in 1..Slots : k - 1 \in good => k \in good
    BY <1>0, <1>3
  <2> HIDE DEF good
  <2> QED BY <1>0, <2>1, <2>2, Passes
<1>5. Good(Slots)
  <2> HIDE DEF Good
  <2> QED BY <1>0, <1>4
<1> QED BY <1>1, <1>5

LEMMA LoadIsWords ==
    ASSUME NEW rom \in [0..(Slots - 1) -> Record]
    PROVE  Load(rom) \in [sequence : Word, feed_count : Word]
<1>1. CASE Newest(rom) = -1
  <2>1. 0 \in Word
    BY Words
  <2> QED BY <1>1, <2>1 DEF Load, Nothing
<1>2. CASE Newest(rom) \in 0..(Slots - 1)
  <2>1. Newest(rom) # -1
    BY <1>2, SlotsAssumption
  <2>2. rom[Newest(rom)] \in Record
    BY <1>2
  <2> QED BY <2>1, <2>2, NumbersAreWords DEF Load
<1> QED BY <1>1, <1>2, NewestIsValid

-----------------------------------------------------------------------------
(* Ages: how many saves a record lies behind a sequence number. *)

\* The number n saves before another.
Back(word, n) == (word - n) % 65536

Age(sequence, data) == Back(sequence, SequenceOf(data))

\* Seen from a number that neither of two is half the range behind, the newer one is
\* the one of smaller age.
LEMMA NewerMeansYounger ==
    ASSUME NEW s \in Word, NEW a \in Word, NEW b \in Word,
           Back(s, a) <= 32767, Back(s, b) <= 32767
    PROVE  Newer(a, b) <=> Back(s, a) < Back(s, b)
<1> USE DEF Back
<1>1. /\ s \in Int /\ 0 <= s /\ s <= 65535
      /\ a \in Int /\ 0 <= a /\ a <= 65535
      /\ b \in Int /\ 0 <= b /\ b <= 65535
  BY Words
<1>2. /\ (s - a) % 65536 = IF a <= s THEN s - a ELSE s - a + 65536
      /\ (s - b) % 65536 = IF b <= s THEN s - b ELSE s - b + 65536
      /\ (a - b) % 65536 = IF b <= a THEN a - b ELSE a - b + 65536
  BY Differences
<1> DEFINE x == (s - a) % 65536
           y == (s - b) % 65536
           z == (a - b) % 65536
<1>3. /\ x = IF a <= s THEN s - a ELSE s - a + 65536
      /\ y = IF b <= s THEN s - b ELSE s - b + 65536
      /\ z = IF b <= a THEN a - b ELSE a - b + 65536
      /\ x <= 32767 /\ y <= 32767
  BY <1>2
<1> HIDE DEF x, y, z
<1>4. (0 < z /\ z < 32768) <=> x < y
  BY <1>1, <1>3
<1>5. Newer(a, b) <=> 0 < z /\ z < 32768
  BY DEF Newer, z
<1> QED BY <1>4, <1>5 DEF x, y

\* No record is half the range behind.
Near(s, rom) ==
    \A slot \in 0..(Slots - 1) : Valid(rom[slot]) =>
        SequenceOf(rom[slot]) \in Word /\ Age(s, rom[slot]) <= 32767

\* Then the loop ends with the youngest.
LEMMA NewestIsYoungest ==
    ASSUME NEW s \in Word, NEW rom, Near(s, rom), Newest(rom) # -1
    PROVE  \A slot \in 0..(Slots - 1) : Valid(rom[slot]) =>
               Age(s, rom[Newest(rom)]) <= Age(s, rom[slot])
<1>0. Slots \in Nat /\ Slots # 0
  BY SlotsAssumption
<1>1. PICK f : /\ f[0] = -1 /\ f[Slots] = Newest(rom)
               /\ \A k \in 1..Slots : f[k] =
                     IF /\ Valid(rom[k - 1])
                        /\ \/ f[k - 1] = -1
                           \/ Newer(SequenceOf(rom[k - 1]), SequenceOf(rom[f[k - 1]]))
                     THEN k - 1 ELSE f[k - 1]
  BY NewestRecursion
<1> DEFINE age(slot) == Age(s, rom[slot])
           Good(k) == \/ f[k] = -1 /\ \A slot \in 0..(k - 1) : ~Valid(rom[slot])
                      \/ /\ f[k] \in 0..(k - 1) /\ Valid(rom[f[k]])
                         /\ \A slot \in 0..(k - 1) : Valid(rom[slot]) => age(f[k]) <= age(slot)
           good == {k \in 0..Slots : Good(k)}
<1>2. Good(0)
  BY <1>1
<1>3. ASSUME NEW slot \in 0..(Slots - 1), Valid(rom[slot]) PROVE age(slot) \in Int
  BY <1>3, Words DEF Age, Back, Near
<1>4. ASSUME NEW a \in 0..(Slots - 1), NEW b \in 0..(Slots - 1), Valid(rom[a]), Valid(rom[b])
      PROVE  Newer(SequenceOf(rom[a]), SequenceOf(rom[b])) <=> age(a) < age(b)
  BY <1>4, NewerMeansYounger DEF Age, Near
<1>5. ASSUME NEW k \in 1..Slots, Good(k - 1) PROVE Good(k)
  <2> HIDE DEF age
  <2>1. \A slot \in 0..(k - 1) : slot = k - 1 \/ slot \in 0..((k - 1) - 1)
    OBVIOUS
  <2>2. /\ k - 1 \in 0..(k - 1) /\ 0..((k - 1) - 1) \subseteq 0..(k - 1)
        /\ 0..(k - 1) \subseteq 0..(Slots - 1)
    BY <1>0
  <2>3. CASE f[k - 1] = -1 /\ \A slot \in 0..((k - 1) - 1) : ~Valid(rom[slot])
    <3>1. CASE Valid(rom[k - 1])
      <4>1. f[k] = k - 1
        BY <1>1, <2>3, <3>1
      <4>2. age(k - 1) <= age(k - 1)
        <5>1. age(k - 1) \in Int
          BY <1>3, <2>2, <3>1
        <5> QED BY <5>1
      <4> QED BY <2>1, <2>2, <2>3, <3>1, <4>1, <4>2
    <3>2. CASE ~Valid(rom[k - 1])
      <4>1. f[k] = -1
        BY <1>1, <2>3, <3>2
      <4> QED BY <2>1, <2>3, <3>2, <4>1
    <3> QED BY <3>1, <3>2
  <2>4. CASE /\ f[k - 1] \in 0..((k - 1) - 1) /\ Valid(rom[f[k - 1]])
             /\ \A slot \in 0..((k - 1) - 1) : Valid(rom[slot]) => age(f[k - 1]) <= age(slot)
    <3> DEFINE p == f[k - 1]
    <3>0. /\ p \in 0..((k - 1) - 1) /\ Valid(rom[p]) /\ p \in 0..(Slots - 1) /\ p # -1
          /\ \A slot \in 0..((k - 1) - 1) : Valid(rom[slot]) => age(p) <= age(slot)
      BY <2>2, <2>4
    <3>1. f[k] = IF Valid(rom[k - 1]) /\ Newer(SequenceOf(rom[k - 1]), SequenceOf(rom[p]))
                 THEN k - 1 ELSE p
      BY <1>1, <3>0
    <3> HIDE DEF p
    <3>2. age(p) \in Int
      BY <1>3, <3>0
    <3>3. CASE Valid(rom[k - 1]) /\ Newer(SequenceOf(rom[k - 1]), SequenceOf(rom[p]))
      <4>1. age(k - 1) < age(p) /\ age(k - 1) \in Int
        BY <1>3, <1>4, <2>2, <3>0, <3>3
      <4>2. ASSUME NEW slot \in 0..(k - 1), Valid(rom[slot]) PROVE age(k - 1) <= age(slot)
        <5>1. CASE slot = k - 1
          BY <4>1, <5>1
        <5>2. CASE slot \in 0..((k - 1) - 1)
          <6>1. age(p) <= age(slot) /\ age(slot) \in Int
            BY <1>3, <2>2, <3>0, <4>2, <5>2
          <6> QED BY <3>2, <4>1, <6>1
        <5> QED BY <2>1, <5>1, <5>2
      <4> QED BY <2>2, <3>1, <3>3, <4>2
    <3>4. CASE ~(Valid(rom[k - 1]) /\ Newer(SequenceOf(rom[k - 1]), SequenceOf(rom[p])))
      <4>1. f[k] = p
        BY <3>1, <3>4
      <4>2. ASSUME NEW slot \in 0..(k - 1), Valid(rom[slot]) PROVE age(p) <= age(slot)
        <5>1. CASE slot = k - 1
          <6>1. ~(age(slot) < age(p)) /\ age(slot) \in Int
            BY <1>3, <1>4, <2>2, <3>0, <3>4, <4>2, <5>1
          <6> QED BY <3>2, <6>1
        <5>2. CASE slot \in 0..((k - 1) - 1)
          BY <3>0, <4>2, <5>2
        <5> QED BY <2>1, <5>1, <5>2
      <4> QED BY <2>2, <3>0, <4>1, <4>2
    <3> QED BY <3>3, <3>4
  <2> QED BY <1>5, <2>3, <2>4
<1>6. \A k \in 0..Slots : k \in good
  <2> HIDE DEF Good
  <2>1. good \subseteq 0..Slots /\ 0 \in good
    BY <1>0, <1>2
  <2>2. \A k \in 1..Slots : k - 1 \in good => k \in good
    BY <1>0, <1>5
  <2> HIDE DEF good
  <2>3. Slots \in Nat
    BY <1>0
  <2> QED BY <2>1, <2>2, <2>3, Passes, Zenon
<1>7. Good(Slots)
  <2> HIDE DEF Good
  <2> QED BY <1>0, <1>6
<1> QED BY <1>1, <1>7

-----------------------------------------------------------------------------
(* Type correctness. *)

LEMMA SlotOfIsSlot ==
    ASSUME NEW sequence \in Word
    PROVE  SlotOf(sequence) \in 0..(Slots - 1)
<1>1. sequence \in Int
  BY Words
<1> QED BY <1>1, SlotsAssumption, Division DEF SlotOf

\* What a start finds in a slot of an EEPROM with a past.
LEMMA FilledSlots ==
    ASSUME NEW start \in Starts, NEW slot \in 0..(Slots - 1)
    PROVE  LET data == Filled(start)[slot]
               age == (start.sequence - slot) % Slots IN
           /\ data \in Record
           /\ start.version = 0 => ~Valid(data)
           /\ start.version # 0 =>
                 /\ Valid(data)
                 /\ SequenceOf(data) = Back(start.sequence, age)
                 /\ CountOf(data) = Back(start.feed_count, age)
<1> DEFINE data == Filled(start)[slot]
           age == (start.sequence - slot) % Slots
<1>1. /\ start.version \in 0..2 /\ start.sequence \in Word /\ start.feed_count \in Word
  BY StartsAssumption
<1>2. age \in Int /\ start.sequence \in Int /\ start.feed_count \in Int
  <2>1. start.sequence \in Int /\ start.feed_count \in Int /\ slot \in Int
    BY <1>1, Words
  <2>2. start.sequence - slot \in Int
    BY <2>1
  <2> QED BY <2>1, <2>2, SlotsAssumption, Division
<1>3. data = IF start.version = 0 THEN Blank
             ELSE RecordOf(start.version, Back(start.sequence, age),
                           Back(start.feed_count, age))
  BY DEF Filled, Back
<1> HIDE DEF data, age
<1>4. Back(start.sequence, age) \in Word /\ Back(start.feed_count, age) \in Word
  <2>1. start.sequence - age \in Int /\ start.feed_count - age \in Int
    BY <1>2
  <2> QED BY <2>1, Words DEF Back
<1>5. CASE start.version = 0
  BY <1>3, <1>5, BlankIsInvalid DEF data, age
<1>6. CASE start.version # 0
  <2>1. start.version \in {1, 2}
    BY <1>1, <1>6
  <2> QED BY <1>3, <1>4, <1>6, <2>1, Records DEF data, age
<1> QED BY <1>5, <1>6

TypeInv ==
    /\ TypeOK
    /\ begun <= feeds
    /\ busy => index < Size
    /\ kept = Load(eeprom)

LEMMA TypeInit == Init => TypeInv
<1> SUFFICES ASSUME Init PROVE TypeInv
  OBVIOUS
<1>1. PICK start \in Starts : eeprom = Filled(start)
  BY DEF Init
<1>2. eeprom \in [0..(Slots - 1) -> Record]
  <2>1. \A slot \in 0..(Slots - 1) : Filled(start)[slot] \in Record
    BY FilledSlots
  <2>2. Filled(start) = [slot \in 0..(Slots - 1) |-> Filled(start)[slot]]
    BY DEF Filled
  <2> QED BY <1>1, <2>1, <2>2
<1>3. kept \in [sequence : Word, feed_count : Word] /\ settings = kept /\ kept = Load(eeprom)
  BY <1>2, LoadIsWords DEF Init
<1>4. 0 \in 0..(Slots - 1) /\ 0 \in 0..MaxFeeds /\ 0 \in 0..Size /\ 0 <= 0
  BY SlotsAssumption DEF Size
<1>5. pending = Blank /\ index = 0 /\ base = 0 /\ busy = FALSE /\ begun = 0 /\ feeds = 0
  BY DEF Init
<1> QED BY <1>2, <1>3, <1>4, <1>5, BlankIsInvalid DEF TypeInv, TypeOK

\* The handlers, one lemma each: what a step leaves typed.
LEMMA TypeFeed ==
    ASSUME TypeInv, Feed
    PROVE  TypeInv'
<1> DEFINE sequence == Following(settings.sequence)
           feed_count == Following(settings.feed_count)
<1>1. sequence \in Word /\ feed_count \in Word
  <2>1. settings.sequence \in Word /\ settings.feed_count \in Word
    BY DEF TypeInv, TypeOK
  <2>2. settings.sequence + 1 \in Int /\ settings.feed_count + 1 \in Int
    BY <2>1, Words
  <2> QED BY <2>2, Words DEF Following
<1>2. /\ settings' = [sequence |-> sequence, feed_count |-> feed_count]
      /\ pending' = RecordOf(2, sequence, feed_count) /\ base' = SlotOf(sequence)
      /\ feeds < MaxFeeds /\ feeds' = feeds + 1 /\ begun' = begun + 1
      /\ index' = 0 /\ busy' = TRUE /\ eeprom' = eeprom /\ kept' = kept
  BY DEF Feed
<1> HIDE DEF sequence, feed_count
<1>3. pending' \in Record /\ base' \in 0..(Slots - 1)
  BY <1>1, <1>2, Records, SlotOfIsSlot
<1>4. settings' \in [sequence : Word, feed_count : Word]
  BY <1>1, <1>2
<1>5. /\ feeds' \in 0..MaxFeeds /\ begun' \in 0..MaxFeeds /\ begun' <= feeds'
      /\ index' \in 0..Size /\ index' < Size
  BY <1>2, SlotsAssumption DEF TypeInv, TypeOK, Size
<1> QED BY <1>2, <1>3, <1>4, <1>5 DEF TypeInv, TypeOK

LEMMA TypeWriteByte ==
    ASSUME TypeInv, WriteByte
    PROVE  TypeInv'
<1>1. /\ busy /\ index < Size /\ index \in 0..Size /\ base \in 0..(Slots - 1)
      /\ pending \in Record /\ eeprom \in [0..(Slots - 1) -> Record] /\ begun \in 0..MaxFeeds
      /\ feeds \in 0..MaxFeeds /\ begun <= feeds
  BY DEF WriteByte, TypeInv, TypeOK
<1>2. /\ eeprom' = [eeprom EXCEPT ![base][index + 1] = pending[index + 1]]
      /\ kept' = Load(eeprom') /\ index' = index + 1 /\ busy' = (index' # Size)
      /\ begun' = IF index' = Size THEN 0 ELSE begun
      /\ settings' = settings /\ pending' = pending /\ base' = base /\ feeds' = feeds
  BY DEF WriteByte
<1>3. eeprom' \in [0..(Slots - 1) -> Record]
  <2>1. index + 1 \in Position
    BY <1>1 DEF Position, Size
  <2>2. pending[index + 1] \in Byte
    BY <1>1, <2>1 DEF Record
  <2>3. [eeprom[base] EXCEPT ![index + 1] = pending[index + 1]] \in Record
    BY <1>1, <2>2 DEF Record
  <2> QED BY <1>1, <1>2, <2>3
<1>4. index' \in 0..Size /\ (index' # Size => index' < Size)
  BY <1>1, <1>2 DEF Size
<1>5. begun' \in 0..MaxFeeds /\ begun' <= feeds'
  <2>1. 0 \in 0..MaxFeeds /\ 0 <= feeds
    BY <1>1, SlotsAssumption
  <2>2. begun' \in {0, begun} /\ feeds' = feeds
    BY <1>2
  <2> QED BY <1>1, <2>1, <2>2
<1>6. kept' \in [sequence : Word, feed_count : Word]
  BY <1>2, <1>3, LoadIsWords
<1>7. settings' \in [sequence : Word, feed_count : Word] /\ busy' \in BOOLEAN
  BY <1>2 DEF TypeInv, TypeOK
<1> QED BY <1>1, <1>2, <1>3, <1>4, <1>5, <1>6, <1>7 DEF TypeInv, TypeOK

LEMMA TypeGiveUp ==
    ASSUME TypeInv, GiveUp
    PROVE  TypeInv'
BY DEF GiveUp, TypeInv, TypeOK

LEMMA TypePowerFailure ==
    ASSUME TypeInv, PowerFailure
    PROVE  TypeInv'
<1>1. 0 \in 0..(Slots - 1) /\ 0 \in 0..MaxFeeds /\ 0 \in 0..Size /\ 0 <= feeds
  BY SlotsAssumption DEF Size, TypeInv, TypeOK
<1>2. settings' \in [sequence : Word, feed_count : Word]
  BY LoadIsWords DEF PowerFailure, TypeInv, TypeOK
<1> QED BY <1>1, <1>2, BlankIsInvalid DEF PowerFailure, TypeInv, TypeOK

LEMMA TypeStep == TypeInv /\ [Next]_vars => TypeInv'
<1> SUFFICES ASSUME TypeInv, [Next]_vars PROVE TypeInv'
  OBVIOUS
<1>1. CASE Feed
  BY <1>1, TypeFeed
<1>2. CASE WriteByte
  BY <1>2, TypeWriteByte
<1>3. CASE GiveUp
  BY <1>3, TypeGiveUp
<1>4. CASE PowerFailure
  BY <1>4, TypePowerFailure
<1>5. CASE UNCHANGED vars
  BY <1>5 DEF vars, store, TypeInv, TypeOK
<1> QED BY <1>1, <1>2, <1>3, <1>4, <1>5 DEF Next

\* Whatever bytes the EEPROM holds, a start gets two words out of it, and a save is
\* written into a slot and no further than its last byte.
THEOREM Store_typing == Spec => []TypeOK
<1>1. TypeInv => TypeOK
  BY DEF TypeInv
<1> QED BY <1>1, TypeInit, TypeStep, PTL DEF Spec

-----------------------------------------------------------------------------
(* The records in the slots. *)

\* The whole records are saves of one count: as far behind the number in memory as
\* behind its feedings, fewer than a round and n feedings, each in its own slot.
Dated(rom, record, n) ==
    \A slot \in 0..(Slots - 1) : Valid(rom[slot]) =>
        LET age == Age(record.sequence, rom[slot]) IN
        /\ age < Slots + n
        /\ CountOf(rom[slot]) = Back(record.feed_count, age)
        /\ SlotOf(SequenceOf(rom[slot])) = slot

\* What is being written is the save of the settings in memory, and is written so far;
\* the record it is written over is not one of the same number.
Writing ==
    busy =>
        /\ pending = RecordOf(2, settings.sequence, settings.feed_count)
        /\ base = SlotOf(settings.sequence)
        /\ \A i \in 1..index : eeprom[base][i] = pending[i]
        /\ Valid(eeprom[base]) /\ Age(settings.sequence, eeprom[base]) = 0 =>
              eeprom[base] = pending

Lag == Back(settings.sequence, kept.sequence)
Promise == begun < Slots => Lag <= begun

StoreInv == TypeInv /\ Dated(eeprom, settings, feeds) /\ Writing /\ Promise

LEMMA Shifted == \A x, k \in Int : ((x % 65536) - k) % 65536 = (x - k) % 65536
OBVIOUS

\* The same save seen from a number e behind (or, with e = -1, from the next one).
LEMMA Rebased ==
    ASSUME NEW s \in Word, NEW f \in Word, NEW q \in Word, NEW d, NEW e \in Int,
           d = Back(s, q), 0 <= d - e, d - e <= 65535
    PROVE  Back(Back(s, e), q) = d - e /\ Back(f, d) = Back(Back(f, e), d - e)
<1> USE DEF Back
<1>1. s \in Int /\ f \in Int /\ q \in Int /\ d \in Int
  BY Words
<1>2. (d - e) % 65536 = d - e
  <2>1. d - e \in Int
    BY <1>1
  <2> QED BY <2>1, Words
<1>3. (((s - e) % 65536) - q) % 65536 = ((s - e) - q) % 65536
  <2>1. s - e \in Int
    BY <1>1
  <2> QED BY <1>1, <2>1, Shifted
<1>4. (d - e) % 65536 = ((s - q) - e) % 65536
  <2>1. s - q \in Int
    BY <1>1
  <2> QED BY <1>1, <2>1, Shifted
<1>5. (s - e) - q = (s - q) - e
  BY <1>1
<1>6. (((f - e) % 65536) - (d - e)) % 65536 = ((f - e) - (d - e)) % 65536
  <2>1. f - e \in Int /\ d - e \in Int
    BY <1>1
  <2> QED BY <2>1, Shifted
<1>7. (f - e) - (d - e) = f - d
  BY <1>1
<1> QED BY <1>2, <1>3, <1>4, <1>5, <1>6, <1>7

LEMMA Ages ==
    ASSUME NEW s \in Word, NEW data \in Record
    PROVE  Age(s, data) \in Int /\ 0 <= Age(s, data) /\ Age(s, data) <= 65535
<1>1. SequenceOf(data) \in Word
  BY NumbersAreWords
<1>2. s - SequenceOf(data) \in Int
  BY <1>1, Words
<1> QED BY <1>2, Words DEF Age, Back

\* The number of a record is its age before the number it is counted from.
LEMMA AgeInverse == \A s, q \in Word : q = Back(s, Back(s, q))
<1> SUFFICES ASSUME NEW s \in Word, NEW q \in Word
             PROVE  q = Back(s, Back(s, q))
  OBVIOUS
<1>1. s \in Int /\ q \in Int /\ 0 <= q /\ q <= 65535
  BY Words
<1>2. q % 65536 = q
  BY <1>1, Words
<1>3. Back(s, Back(s, q)) = q % 65536
  BY <1>1 DEF Back
<1> QED BY <1>2, <1>3

LEMMA AgeOf ==
    \A s \in Word, a \in Int :
        0 <= a /\ a <= 65535 => Back(s, Back(s, a)) = a
<1> SUFFICES ASSUME NEW s \in Word, NEW a \in Int, 0 <= a, a <= 65535
             PROVE  Back(s, Back(s, a)) = a
  OBVIOUS
<1>1. s \in Int
  BY Words
<1>2. a % 65536 = a
  BY Words
<1>3. Back(s, Back(s, a)) = a % 65536
  BY <1>1 DEF Back
<1> QED BY <1>2, <1>3

\* What a start loads from slot m, which holds the youngest record.
LoadedFrom(rom, record, m) ==
    LET e == Age(record.sequence, rom[m]) IN
    /\ Valid(rom[m])
    /\ Load(rom).sequence = SequenceOf(rom[m])
    /\ Load(rom).sequence = Back(record.sequence, e)
    /\ Load(rom).feed_count = Back(record.feed_count, e)
    /\ Back(record.sequence, Load(rom).sequence) = e
    /\ \A slot \in 0..(Slots - 1) :
           Valid(rom[slot]) => e <= Age(record.sequence, rom[slot])

\* A start goes on from the youngest record, or from nothing.
LEMMA Loaded ==
    ASSUME NEW rom \in [0..(Slots - 1) -> Record],
           NEW record \in [sequence : Word, feed_count : Word],
           NEW n \in 0..MaxFeeds, Dated(rom, record, n)
    PROVE  \/ /\ \A slot \in 0..(Slots - 1) : ~Valid(rom[slot])
              /\ Load(rom) = Nothing
           \/ \E m \in 0..(Slots - 1) : LoadedFrom(rom, record, m)
<1>1. CASE Newest(rom) = -1
  <2>1. \A slot \in 0..(Slots - 1) : ~Valid(rom[slot])
    BY <1>1, NewestIsValid, SlotsAssumption
  <2> QED BY <1>1, <2>1 DEF Load
<1>2. CASE Newest(rom) \in 0..(Slots - 1) /\ Valid(rom[Newest(rom)])
  <2> DEFINE m == Newest(rom)
             e == Age(record.sequence, rom[m])
  <2>1. m # -1 /\ m \in 0..(Slots - 1) /\ Valid(rom[m])
    BY <1>2, SlotsAssumption
  <2>2. record.sequence \in Word
    OBVIOUS
  <2>3. Near(record.sequence, rom)
    <3> SUFFICES ASSUME NEW slot \in 0..(Slots - 1), Valid(rom[slot])
                 PROVE  SequenceOf(rom[slot]) \in Word /\ Age(record.sequence, rom[slot]) <= 32767
      BY DEF Near
    <3> DEFINE age == Age(record.sequence, rom[slot])
    <3>1. age < Slots + n
      BY DEF Dated
    <3>2. age \in Int
      BY <2>2, Ages
    <3>3. SequenceOf(rom[slot]) \in Word
      BY NumbersAreWords
    <3> HIDE DEF age
    <3>4. n \in Int /\ n <= MaxFeeds /\ MaxFeeds \in Int /\ Slots \in Int
      BY SlotsAssumption
    <3>5. age <= 32767
      BY <3>1, <3>2, <3>4, FeedsAssumption
    <3> QED BY <3>3, <3>5 DEF age
  <2>4. \A slot \in 0..(Slots - 1) : Valid(rom[slot]) => e <= Age(record.sequence, rom[slot])
    BY <2>1, <2>2, <2>3, NewestIsYoungest
  <2>5. Load(rom) = [sequence |-> SequenceOf(rom[m]), feed_count |-> CountOf(rom[m])]
    BY <2>1 DEF Load
  <2>6. CountOf(rom[m]) = Back(record.feed_count, e)
    BY <2>1 DEF Dated
  <2>7. SequenceOf(rom[m]) \in Word
    BY <2>1, NumbersAreWords
  <2>9. Back(record.sequence, SequenceOf(rom[m])) = e
    BY DEF Age
  <2> HIDE DEF m, e
  <2>8. SequenceOf(rom[m]) = Back(record.sequence, e)
    BY <2>2, <2>7, <2>9, AgeInverse
  <2>10. Load(rom).sequence = SequenceOf(rom[m]) /\ Load(rom).feed_count = CountOf(rom[m])
    BY <2>5
  <2>11. LoadedFrom(rom, record, m)
    BY <2>1, <2>4, <2>6, <2>8, <2>9, <2>10 DEF LoadedFrom, e
  <2> QED BY <2>1, <2>11
<1> QED BY <1>1, <1>2, NewestIsValid

LEMMA FilledIsDated ==
    ASSUME NEW start \in Starts, start.version # 0
    PROVE  LET record == [sequence |-> start.sequence, feed_count |-> start.feed_count] IN
           Dated(Filled(start), record, 0) /\ Load(Filled(start)) = record
<1> DEFINE record == [sequence |-> start.sequence, feed_count |-> start.feed_count]
           rom == Filled(start)
           s == start.sequence
<1>0. s \in Word /\ start.feed_count \in Word /\ record \in [sequence : Word, feed_count : Word]
  BY StartsAssumption
<1>1. s \in Int /\ 0 <= s /\ s <= 65535 /\ Slots \in Nat \ {0} /\ Slots <= 32767
  <2>1. Slots <= 32767
    BY SlotsAssumption, FeedsAssumption
  <2> QED BY <1>0, <2>1, Words, SlotsAssumption
<1>2. ASSUME NEW slot \in 0..(Slots - 1)
      PROVE  LET age == (s - slot) % Slots IN
             /\ Age(s, rom[slot]) = age /\ age < Slots
             /\ CountOf(rom[slot]) = Back(start.feed_count, age)
             /\ SlotOf(SequenceOf(rom[slot])) = slot
             /\ Valid(rom[slot])
  <2> DEFINE age == (s - slot) % Slots
             q == (s - slot) \div Slots
  <2>1. /\ Valid(rom[slot]) /\ SequenceOf(rom[slot]) = Back(s, age)
        /\ CountOf(rom[slot]) = Back(start.feed_count, age)
    BY FilledSlots
  <2>2. age \in 0..(Slots - 1) /\ q \in Int /\ s - slot = Slots * q + age
    <3>1. s - slot \in Int
      BY <1>1
    <3> HIDE DEF s
    <3> QED BY <1>1, <3>1, Division
  <2> HIDE DEF age, q, rom
  <2>3. age \in Int /\ 0 <= age /\ age < Slots /\ age <= 65535
    BY <1>1, <2>2
  <2>4. Age(s, rom[slot]) = age
    <3> HIDE DEF s
    <3> QED BY <1>0, <2>1, <2>3, AgeOf DEF Age
  <2>5. (s - age) % Slots = slot
    <3> HIDE DEF s
    <3>1. Slots * q \in Int /\ Slots * q = q * Slots
      BY <1>1, <2>2
    <3>2. s - age = q * Slots + slot
      BY <1>1, <2>2, <2>3, <3>1
    <3>3. (q * Slots + slot) % Slots = slot
      BY <1>1, <2>2, Remainder
    <3> QED BY <3>2, <3>3
  <2>6. SlotOf(Back(s, age)) = slot
    <3> HIDE DEF s
    <3>1. CASE 0 <= s - age
      <4>1. s - age \in Int /\ s - age <= 65535
        BY <1>1, <2>3
      <4>2. Back(s, age) = s - age
        BY <3>1, <4>1, Words DEF Back
      <4> QED BY <2>5, <4>2 DEF SlotOf
    <3>2. CASE ~(0 <= s - age)
      <4>1. s - age \in Int /\ -65536 <= s - age /\ s - age <= -1
        BY <1>1, <2>3, <3>2
      <4>2. Back(s, age) = (s - age) + 65536
        BY <4>1, Wrapping DEF Back
      <4>3. ((s - age) + 65536) % Slots = (s - age) % Slots
        BY <4>1, Turns
      <4> QED BY <2>5, <4>2, <4>3 DEF SlotOf
    <3> QED BY <3>1, <3>2
  <2> QED BY <2>1, <2>3, <2>4, <2>6 DEF age
<1> HIDE DEF rom, s
<1>3. record.sequence = s /\ record.feed_count = start.feed_count
  BY DEF s
<1>4. Dated(rom, record, 0)
  <2> HIDE DEF record
  <2> SUFFICES ASSUME NEW slot \in 0..(Slots - 1)
               PROVE  LET age == Age(record.sequence, rom[slot]) IN
                      /\ age < Slots + 0
                      /\ CountOf(rom[slot]) = Back(record.feed_count, age)
                      /\ SlotOf(SequenceOf(rom[slot])) = slot
    BY DEF Dated
  <2>1. Slots + 0 = Slots
    BY <1>1
  <2> QED BY <1>2, <1>3, <2>1
<1>5. rom \in [0..(Slots - 1) -> Record]
  <2>1. \A slot \in 0..(Slots - 1) : rom[slot] \in Record
    BY FilledSlots DEF rom
  <2>2. rom = [slot \in 0..(Slots - 1) |-> rom[slot]]
    BY DEF Filled, rom
  <2> QED BY <2>1, <2>2
<1>6. PICK slot \in 0..(Slots - 1) : Age(s, rom[slot]) = 0 /\ Valid(rom[slot])
  <2> DEFINE home == s % Slots
             p == s \div Slots
  <2>1. home \in 0..(Slots - 1) /\ p \in Int /\ s = Slots * p + home
    BY <1>1, Division
  <2>2. (s - home) % Slots = 0
    <3> HIDE DEF home, p
    <3>1. Slots * p \in Int /\ Slots * p = p * Slots
      BY <1>1, <2>1
    <3>2. s - home = p * Slots + 0
      BY <1>1, <2>1, <3>1
    <3>3. (p * Slots + 0) % Slots = 0
      <4>1. 0 \in 0..(Slots - 1)
        BY <1>1
      <4> QED BY <1>1, <2>1, <4>1, Remainder
    <3> QED BY <3>2, <3>3
  <2> HIDE DEF home, p
  <2> QED BY <1>2, <2>1, <2>2
<1>7. 0 \in 0..MaxFeeds
  BY SlotsAssumption
<1> HIDE DEF record
<1>8. PICK m \in 0..(Slots - 1) : LoadedFrom(rom, record, m)
  BY <1>0, <1>4, <1>5, <1>6, <1>7, Loaded
<1>9. Age(record.sequence, rom[m]) = 0
  <2>1. rom[m] \in Record
    BY <1>5
  <2>2. Age(s, rom[m]) \in Int /\ 0 <= Age(s, rom[m])
    BY <1>0, <2>1, Ages
  <2> QED BY <1>3, <1>6, <1>8, <2>2 DEF LoadedFrom
<1>10. Load(rom).sequence = s /\ Load(rom).feed_count = start.feed_count
  <2>1. \A x \in Word : Back(x, 0) = x
    <3>1. \A x \in Word : x - 0 = x /\ x % 65536 = x
      BY Words
    <3> QED BY <3>1 DEF Back
  <2> QED BY <1>0, <1>3, <1>8, <1>9, <2>1 DEF LoadedFrom
<1>11. Load(rom) \in [sequence : Word, feed_count : Word]
  BY <1>5, LoadIsWords
<1>12. Load(rom) = record
  BY <1>0, <1>3, <1>10, <1>11
<1> QED BY <1>4, <1>12 DEF record, rom

LEMMA NoAge == \A s \in Word : Back(s, s) = 0 /\ Back(s, 0) = s
<1> SUFFICES ASSUME NEW s \in Word PROVE Back(s, s) = 0 /\ Back(s, 0) = s
  OBVIOUS
<1>1. s \in Int /\ s - s = 0 /\ s - 0 = s /\ s % 65536 = s /\ 0 % 65536 = 0
  BY Words
<1> QED BY <1>1 DEF Back

LEMMA StoreInit == Init => StoreInv
<1> SUFFICES ASSUME Init PROVE StoreInv
  OBVIOUS
<1>1. TypeInv
  BY TypeInit
<1>2. settings = kept /\ kept = Load(eeprom) /\ busy = FALSE /\ begun = 0 /\ feeds = 0
  BY DEF Init
<1>3. PICK start \in Starts : eeprom = Filled(start)
  BY DEF Init
<1>4. Dated(eeprom, settings, feeds)
  <2>1. CASE start.version = 0
    <3>1. \A slot \in 0..(Slots - 1) : ~Valid(eeprom[slot])
      BY <1>3, <2>1, FilledSlots
    <3> QED BY <3>1 DEF Dated
  <2>2. CASE start.version # 0
    <3> DEFINE record == [sequence |-> start.sequence, feed_count |-> start.feed_count]
    <3>1. Dated(Filled(start), record, 0) /\ Load(Filled(start)) = record
      BY <2>2, FilledIsDated
    <3> HIDE DEF record
    <3> QED BY <1>2, <1>3, <3>1
  <2> QED BY <2>1, <2>2
<1>5. Writing
  BY <1>2 DEF Writing
<1>6. Promise
  <2>1. settings.sequence \in Word
    BY <1>1 DEF TypeInv, TypeOK
  <2>2. Lag = 0
    BY <1>2, <2>1, NoAge DEF Lag
  <2> QED BY <1>2, <2>2 DEF Promise
<1> QED BY <1>1, <1>4, <1>5, <1>6 DEF StoreInv

\* What the invariant says of a whole record: it is a save of the present count.
LEMMA DatedSlot ==
    ASSUME StoreInv, NEW slot \in 0..(Slots - 1), Valid(eeprom[slot])
    PROVE  LET age == Age(settings.sequence, eeprom[slot]) IN
           /\ age \in Int /\ 0 <= age /\ age < Slots + feeds /\ age < 65535
           /\ SequenceOf(eeprom[slot]) \in Word
           /\ CountOf(eeprom[slot]) = Back(settings.feed_count, age)
           /\ SlotOf(SequenceOf(eeprom[slot])) = slot
<1> DEFINE age == Age(settings.sequence, eeprom[slot])
<1>1. eeprom[slot] \in Record /\ settings.sequence \in Word /\ feeds \in 0..MaxFeeds
  BY DEF StoreInv, TypeInv, TypeOK
<1>2. age \in Int /\ 0 <= age /\ SequenceOf(eeprom[slot]) \in Word
  BY <1>1, Ages, NumbersAreWords
<1>3. /\ age < Slots + feeds
      /\ CountOf(eeprom[slot]) = Back(settings.feed_count, age)
      /\ SlotOf(SequenceOf(eeprom[slot])) = slot
  BY DEF StoreInv, Dated
<1> HIDE DEF age
<1>4. Slots \in Int /\ MaxFeeds \in Int /\ MaxFeeds + Slots <= 32767
  BY SlotsAssumption, FeedsAssumption
<1>5. age < 65535
  BY <1>1, <1>2, <1>3, <1>4
<1> QED BY <1>2, <1>3, <1>5 DEF age

LEMMA FollowingIsBack == \A x \in Word : Following(x) = Back(x, -1)
BY Words DEF Following, Back

LEMMA StoreFeed ==
    ASSUME StoreInv, Feed
    PROVE  StoreInv' /\ (begun < Slots => Lag' = Lag + 1)
<1>0. TypeInv /\ TypeInv'
  BY TypeFeed DEF StoreInv
<1> DEFINE s == settings.sequence
           f == settings.feed_count
           k == kept.sequence
<1>1. /\ s \in Word /\ f \in Word /\ k \in Word
      /\ begun \in 0..MaxFeeds /\ feeds \in 0..MaxFeeds /\ Slots \in Nat /\ Slots <= 32767
  <2>1. Slots \in Nat /\ Slots <= 32767
    BY SlotsAssumption, FeedsAssumption
  <2> QED BY <1>0, <2>1 DEF TypeInv, TypeOK
<1>2. /\ settings'.sequence = Back(s, -1) /\ settings'.feed_count = Back(f, -1)
      /\ pending' = RecordOf(2, settings'.sequence, settings'.feed_count)
      /\ base' = SlotOf(settings'.sequence)
      /\ feeds' = feeds + 1 /\ begun' = begun + 1 /\ index' = 0
      /\ eeprom' = eeprom /\ kept' = kept
  BY <1>1, FollowingIsBack DEF Feed
<1>3. ASSUME NEW slot \in 0..(Slots - 1), Valid(eeprom[slot])
      PROVE  LET age == Age(s, eeprom[slot]) IN
             /\ Age(settings'.sequence, eeprom[slot]) = age + 1
             /\ age \in Int /\ 0 <= age /\ age < Slots + feeds
             /\ CountOf(eeprom[slot]) = Back(settings'.feed_count, age + 1)
             /\ SlotOf(SequenceOf(eeprom[slot])) = slot
  <2> DEFINE age == Age(s, eeprom[slot])
             q == SequenceOf(eeprom[slot])
  <2>1. /\ age \in Int /\ 0 <= age /\ age < Slots + feeds /\ age < 65535 /\ q \in Word
        /\ CountOf(eeprom[slot]) = Back(f, age) /\ SlotOf(q) = slot
    BY <1>3, DatedSlot
  <2>2. age = Back(s, q)
    BY DEF Age
  <2> HIDE DEF age, q, s, f
  <2>3. age - (-1) = age + 1 /\ 0 <= age + 1 /\ age + 1 <= 65535 /\ -1 \in Int
    BY <2>1
  <2>4. Back(Back(s, -1), q) = age + 1 /\ Back(f, age) = Back(Back(f, -1), age + 1)
    BY <1>1, <2>1, <2>2, <2>3, Rebased
  <2> QED BY <1>2, <2>1, <2>4 DEF Age, age, q
<1>4. Dated(eeprom', settings', feeds')
  <2> SUFFICES ASSUME NEW slot \in 0..(Slots - 1), Valid(eeprom[slot])
               PROVE  LET age == Age(settings'.sequence, eeprom[slot]) IN
                      /\ age < Slots + feeds'
                      /\ CountOf(eeprom[slot]) = Back(settings'.feed_count, age)
                      /\ SlotOf(SequenceOf(eeprom[slot])) = slot
    BY <1>2 DEF Dated
  <2>1. \A age \in Int : age < Slots + feeds => age + 1 < Slots + feeds'
    BY <1>1, <1>2
  <2> HIDE DEF s
  <2> QED BY <1>3, <2>1
<1>5. Writing'
  <2>1. \A i \in 1..index' : eeprom'[base'][i] = pending'[i]
    BY <1>2
  <2>2. base' \in 0..(Slots - 1)
    BY <1>0 DEF TypeInv, TypeOK
  <2>3. ~(Valid(eeprom[base']) /\ Age(settings'.sequence, eeprom[base']) = 0)
    <3> HIDE DEF s
    <3> SUFFICES ASSUME Valid(eeprom[base']) PROVE Age(settings'.sequence, eeprom[base']) # 0
      OBVIOUS
    <3>1. /\ Age(settings'.sequence, eeprom[base']) = Age(s, eeprom[base']) + 1
          /\ Age(s, eeprom[base']) \in Int /\ 0 <= Age(s, eeprom[base'])
      BY <1>3, <2>2
    <3> QED BY <3>1
  <2> QED BY <1>2, <2>1, <2>3 DEF Writing
<1>6. ASSUME begun < Slots PROVE Lag' = Lag + 1 /\ Lag \in Int /\ Lag <= begun
  <2>1. Lag <= begun /\ Lag = Back(s, k) /\ Lag' = Back(Back(s, -1), k)
    BY <1>2, <1>6 DEF StoreInv, Promise, Lag
  <2> HIDE DEF s, k
  <2>2. Lag \in Int /\ 0 <= Lag
    <3>1. s - k \in Int
      BY <1>1, Words
    <3>2. Back(s, k) \in Word
      BY <3>1, Words DEF Back
    <3> QED BY <2>1, <3>2, Words
  <2>3. Lag - (-1) = Lag + 1 /\ 0 <= Lag + 1 /\ Lag + 1 <= 65535 /\ -1 \in Int
    BY <1>1, <1>6, <2>1, <2>2
  <2>4. Back(Back(s, -1), k) = Lag + 1
    BY <1>1, <2>1, <2>3, Rebased
  <2> QED BY <2>1, <2>2, <2>4
<1>7. Promise'
  <2> SUFFICES ASSUME begun' < Slots PROVE Lag' <= begun'
    BY DEF Promise
  <2>1. begun < Slots /\ begun' = begun + 1 /\ begun \in Int
    BY <1>1, <1>2
  <2> QED BY <1>6, <2>1
<1> QED BY <1>0, <1>4, <1>5, <1>6, <1>7 DEF StoreInv

LEMMA StorePowerFailure ==
    ASSUME StoreInv, PowerFailure
    PROVE  StoreInv' /\ Lag' = 0 /\ begun' = 0
<1>0. TypeInv /\ TypeInv'
  BY TypePowerFailure DEF StoreInv
<1> DEFINE s == settings.sequence
           f == settings.feed_count
<1>1. /\ s \in Word /\ f \in Word /\ kept.sequence \in Word /\ feeds \in 0..MaxFeeds
      /\ eeprom \in [0..(Slots - 1) -> Record] /\ kept = Load(eeprom)
      /\ settings \in [sequence : Word, feed_count : Word]
  BY <1>0 DEF TypeInv, TypeOK
<1>2. /\ settings' = Load(eeprom) /\ busy' = FALSE /\ begun' = 0
      /\ eeprom' = eeprom /\ kept' = kept /\ feeds' = feeds
  BY DEF PowerFailure
<1>3. Dated(eeprom, Load(eeprom), feeds)
  <2>1. CASE \A slot \in 0..(Slots - 1) : ~Valid(eeprom[slot])
    BY <2>1 DEF Dated
  <2>2. ASSUME NEW m \in 0..(Slots - 1), LoadedFrom(eeprom, settings, m)
        PROVE  Dated(eeprom, Load(eeprom), feeds)
    <3> DEFINE e == Age(s, eeprom[m])
    <3>1. /\ Valid(eeprom[m]) /\ Load(eeprom).sequence = Back(s, e)
          /\ Load(eeprom).feed_count = Back(f, e)
          /\ \A slot \in 0..(Slots - 1) : Valid(eeprom[slot]) => e <= Age(s, eeprom[slot])
      BY <2>2 DEF LoadedFrom
    <3>2. e \in Int /\ 0 <= e
      BY <3>1, DatedSlot
    <3> SUFFICES ASSUME NEW slot \in 0..(Slots - 1), Valid(eeprom[slot])
                 PROVE  LET age == Age(Load(eeprom).sequence, eeprom[slot]) IN
                        /\ age < Slots + feeds
                        /\ CountOf(eeprom[slot]) = Back(Load(eeprom).feed_count, age)
                        /\ SlotOf(SequenceOf(eeprom[slot])) = slot
      BY DEF Dated
    <3> DEFINE d == Age(s, eeprom[slot])
               q == SequenceOf(eeprom[slot])
    <3>3. /\ d \in Int /\ 0 <= d /\ d < Slots + feeds /\ d < 65535 /\ q \in Word
          /\ CountOf(eeprom[slot]) = Back(f, d) /\ SlotOf(q) = slot /\ e <= d
      BY <3>1, DatedSlot
    <3>4. d = Back(s, q)
      BY DEF Age
    <3> HIDE DEF d, e, q, s, f
    <3>5. 0 <= d - e /\ d - e <= 65535 /\ d - e <= d /\ d - e \in Int
      BY <3>2, <3>3
    <3>6. Back(Back(s, e), q) = d - e /\ Back(f, d) = Back(Back(f, e), d - e)
      BY <1>1, <3>2, <3>3, <3>4, <3>5, Rebased
    <3>7. Age(Load(eeprom).sequence, eeprom[slot]) = d - e
      BY <3>1, <3>6 DEF Age, q
    <3>8. d - e < Slots + feeds
      <4>1. Slots + feeds \in Int
        BY <1>1, SlotsAssumption
      <4> HIDE DEF StoreInv
      <4> QED BY <3>3, <3>5, <4>1
    <3> QED BY <3>1, <3>3, <3>6, <3>7, <3>8 DEF q
  <2>3. Dated(eeprom, settings, feeds)
    BY DEF StoreInv
  <2> QED BY <1>1, <2>1, <2>2, <2>3, Loaded
<1>4. Lag' = 0
  BY <1>1, <1>2, NoAge DEF Lag
<1>5. 0 <= 0
  OBVIOUS
<1> QED BY <1>0, <1>2, <1>3, <1>4, <1>5 DEF StoreInv, Writing, Promise

\* A whole record in the slot being written that is not the save being written is at
\* least a round old.
LEMMA RoundOld ==
    ASSUME StoreInv, busy, Valid(eeprom[base]), eeprom[base] # pending
    PROVE  Slots <= Age(settings.sequence, eeprom[base])
<1> DEFINE s == settings.sequence
           q == SequenceOf(eeprom[base])
           age == Age(s, eeprom[base])
<1>1. base \in 0..(Slots - 1) /\ s \in Word
  BY DEF StoreInv, TypeInv, TypeOK
<1>2. age \in Int /\ 0 <= age /\ q \in Word /\ SlotOf(q) = base
  BY <1>1, DatedSlot
<1>3. base = SlotOf(s) /\ age # 0
  BY DEF StoreInv, Writing
<1>4. q = Back(s, age)
  BY <1>1, <1>2, AgeInverse DEF Age
<1> HIDE DEF s, q, age
<1>5. age \in Int /\ Slots \in Nat /\ s \in Int /\ 0 <= s /\ s <= 65535
  BY <1>1, <1>2, SlotsAssumption, Words
<1>6. ASSUME ~(Slots <= age) PROVE FALSE
  <2>1. age \in 0..(Slots - 1)
    BY <1>2, <1>5, <1>6
  <2>2. (s - age) % Slots = s % Slots
    <3>1. CASE 0 <= s - age
      <4>1. s - age \in Int /\ s - age <= 65535
        BY <1>2, <1>5
      <4>2. q = s - age
        BY <1>4, <3>1, <4>1, Words DEF Back
      <4> QED BY <1>2, <1>3, <4>2 DEF SlotOf
    <3>2. CASE ~(0 <= s - age)
      <4>0. Slots <= 32767
        BY SlotsAssumption, FeedsAssumption
      <4>1. s - age \in Int /\ -65536 <= s - age /\ s - age <= -1
        BY <1>5, <2>1, <3>2, <4>0
      <4>2. q = (s - age) + 65536
        BY <1>4, <4>1, Wrapping DEF Back
      <4>3. ((s - age) + 65536) % Slots = (s - age) % Slots
        BY <4>1, Turns
      <4> QED BY <1>2, <1>3, <4>2, <4>3 DEF SlotOf
    <3> QED BY <3>1, <3>2
  <2>3. age = 0
    BY <1>5, <2>1, <2>2, Apart
  <2> QED BY <1>3, <2>3
<1> QED BY <1>6 DEF age, s

\* The youngest record does not change as long as the whole records of its age, and the
\* younger ones, do not.
LEMMA SameYoungest ==
    ASSUME NEW one \in [0..(Slots - 1) -> Record], NEW other \in [0..(Slots - 1) -> Record],
           NEW record \in [sequence : Word, feed_count : Word],
           NEW a \in 0..(Slots - 1), NEW b \in 0..(Slots - 1),
           LoadedFrom(one, record, a), LoadedFrom(other, record, b),
           one[a] = other[a], one[b] = other[b]
    PROVE  Back(record.sequence, Load(one).sequence) = Back(record.sequence, Load(other).sequence)
<1> DEFINE x == Age(record.sequence, one[a])
           y == Age(record.sequence, one[b])
<1>1. x \in Int /\ y \in Int
  BY Ages
<1>2. x <= y /\ y <= x
  BY DEF LoadedFrom
<1>3. /\ Back(record.sequence, Load(one).sequence) = x
      /\ Back(record.sequence, Load(other).sequence) = y
  BY DEF LoadedFrom
<1> HIDE DEF x, y
<1> QED BY <1>1, <1>2, <1>3

LEMMA StoreWriteByte ==
    ASSUME StoreInv, WriteByte, DiscerningWrite
    PROVE  /\ StoreInv'
           /\ begun < Slots => Lag' \in {0, Lag}
           /\ index' = Size => Lag' = 0
<1>0. TypeInv /\ TypeInv'
  BY TypeWriteByte DEF StoreInv
<1> DEFINE old == eeprom[base]
           now == eeprom'[base]
           s == settings.sequence
           f == settings.feed_count
<1>1. /\ base \in 0..(Slots - 1) /\ pending \in Record /\ index \in Nat /\ index < Size
      /\ eeprom \in [0..(Slots - 1) -> Record] /\ eeprom' \in [0..(Slots - 1) -> Record]
      /\ s \in Word /\ f \in Word /\ settings \in [sequence : Word, feed_count : Word]
      /\ feeds \in 0..MaxFeeds /\ begun \in 0..MaxFeeds
      /\ kept = Load(eeprom) /\ kept' = Load(eeprom')
  BY <1>0 DEF TypeInv, TypeOK, WriteByte, Size
<1>2. /\ busy /\ pending = RecordOf(2, s, f) /\ base = SlotOf(s)
      /\ \A i \in 1..index : old[i] = pending[i]
      /\ Valid(old) /\ Age(s, old) = 0 => old = pending
  BY DEF StoreInv, Writing, WriteByte
<1>3. /\ eeprom' = [eeprom EXCEPT ![base][index + 1] = pending[index + 1]]
      /\ index' = index + 1 /\ busy' = (index' # Size)
      /\ begun' = IF index' = Size THEN 0 ELSE begun
      /\ settings' = settings /\ pending' = pending /\ base' = base /\ feeds' = feeds
  BY DEF WriteByte
<1>4. /\ now = [old EXCEPT ![index + 1] = pending[index + 1]]
      /\ \A slot \in 0..(Slots - 1) : slot # base => eeprom'[slot] = eeprom[slot]
  BY <1>1, <1>3
<1>5. Valid(now) => now = old \/ now = pending
  BY <1>3 DEF DiscerningWrite
<1>6. /\ Valid(pending) /\ SequenceOf(pending) = s /\ CountOf(pending) = f
      /\ Age(s, pending) = 0 /\ Back(f, 0) = f
  BY <1>1, <1>2, Records, NoAge DEF Age
<1>7. old \in Record /\ now \in Record /\ DOMAIN old = 1..12 /\ index + 1 \in 1..12
  BY <1>1 DEF Record, Position, Size
<1>8. \A i \in 1..index' : now[i] = pending[i]
  <2>1. \A i \in 1..index' : i \in 1..12 /\ (i = index + 1 \/ i \in 1..index)
    BY <1>1, <1>3 DEF Size
  <2> QED BY <1>2, <1>4, <1>7, <2>1
<1>9. index' = Size => now = pending
  <2>1. pending = [i \in 1..12 |-> pending[i]] /\ now = [i \in 1..12 |-> now[i]]
    BY <1>1, <1>7 DEF Record, Position, Size
  <2> QED BY <1>8, <2>1 DEF Size
<1>10. Valid(old) /\ old = pending => now = old
  <2>1. old = [i \in 1..12 |-> old[i]]
    BY <1>7 DEF Record, Position, Size
  <2> QED BY <1>4, <1>7, <2>1
<1>11. now = old => eeprom' = eeprom
  <2>1. /\ eeprom = [slot \in 0..(Slots - 1) |-> eeprom[slot]]
        /\ eeprom' = [slot \in 0..(Slots - 1) |-> eeprom'[slot]]
    BY <1>1
  <2>2. ASSUME now = old PROVE \A slot \in 0..(Slots - 1) : eeprom'[slot] = eeprom[slot]
    BY <1>4, <2>2
  <2> QED BY <2>1, <2>2
<1> HIDE DEF old, now, s, f
<1>12. Dated(eeprom', settings, feeds)
  <2> SUFFICES ASSUME NEW slot \in 0..(Slots - 1), Valid(eeprom'[slot])
               PROVE  LET age == Age(settings.sequence, eeprom'[slot]) IN
                      /\ age < Slots + feeds
                      /\ CountOf(eeprom'[slot]) = Back(settings.feed_count, age)
                      /\ SlotOf(SequenceOf(eeprom'[slot])) = slot
    BY DEF Dated
  <2>1. CASE slot # base \/ now = old
    <3>1. eeprom'[slot] = eeprom[slot]
      BY <1>4, <2>1 DEF now, old
    <3> QED BY <3>1, DatedSlot
  <2>2. CASE slot = base /\ now # old
    <3>1. eeprom'[slot] = pending
      BY <1>5, <2>2 DEF now
    <3>2. 0 < Slots + feeds
      BY <1>1, SlotsAssumption
    <3> QED BY <1>2, <1>6, <2>2, <3>1, <3>2 DEF s, f
  <2> QED BY <2>1, <2>2
<1>13. Writing'
  <2>1. Valid(now) /\ Age(s, now) = 0 => now = pending
    BY <1>2, <1>5
  <2> QED BY <1>2, <1>3, <1>8, <2>1 DEF Writing, now, s, f
<1>14. ASSUME now = pending PROVE Lag' = 0
  <2>1. PICK m \in 0..(Slots - 1) : LoadedFrom(eeprom', settings, m)
    <3>1. Valid(eeprom'[base])
      BY <1>6, <1>14 DEF now
    <3> QED BY <1>1, <1>12, <3>1, Loaded
  <2>2. Age(s, eeprom'[m]) <= Age(s, eeprom'[base])
    BY <1>1, <1>6, <1>14, <2>1 DEF LoadedFrom, now, s
  <2>3. Age(s, eeprom'[m]) \in Int /\ 0 <= Age(s, eeprom'[m])
    BY <1>1, Ages
  <2>4. Age(s, eeprom'[m]) = 0
    BY <1>6, <1>14, <2>2, <2>3 DEF now
  <2>5. Back(s, Load(eeprom').sequence) = Age(s, eeprom'[m])
    BY <2>1 DEF LoadedFrom, s
  <2> QED BY <1>1, <1>3, <2>4, <2>5 DEF Lag, s
<1>15. ASSUME now = old PROVE Lag' = Lag
  BY <1>1, <1>3, <1>11, <1>15 DEF Lag
<1>16. ASSUME ~Valid(now), now # old, begun < Slots PROVE Lag' = Lag
  <2>1. \A slot \in 0..(Slots - 1) : Valid(eeprom'[slot]) => slot # base /\ Valid(eeprom[slot])
    BY <1>4, <1>16 DEF now
  <2>2. ASSUME NEW m \in 0..(Slots - 1), LoadedFrom(eeprom, settings, m) PROVE m # base
    <3> SUFFICES ASSUME m = base PROVE FALSE
      OBVIOUS
    <3>1. Valid(old) /\ Age(s, old) = Lag
      BY <1>1, <2>2 DEF LoadedFrom, Lag, old, s
    <3>2. Lag <= begun
      BY <1>16 DEF StoreInv, Promise
    <3>3. Slots <= Lag
      <4>1. old # pending
        BY <1>10, <1>16, <3>1
      <4> QED BY <1>2, <3>1, <4>1, RoundOld DEF old, s
    <3>4. Lag \in Int
      BY <1>7, <1>1, <3>1, Ages
    <3>5. Slots \in Int /\ begun \in Int
      BY <1>1, SlotsAssumption
    <3> QED BY <1>16, <3>2, <3>3, <3>4, <3>5
  <2>3. Dated(eeprom, settings, feeds)
    BY DEF StoreInv
  <2>4. CASE \E a \in 0..(Slots - 1) : LoadedFrom(eeprom, settings, a)
    <3>1. PICK a \in 0..(Slots - 1) : LoadedFrom(eeprom, settings, a)
      BY <2>4
    <3>2. a # base /\ eeprom'[a] = eeprom[a] /\ Valid(eeprom'[a])
      BY <1>4, <2>2, <3>1 DEF LoadedFrom
    <3>3. PICK b \in 0..(Slots - 1) : LoadedFrom(eeprom', settings, b)
      BY <1>1, <1>12, <3>2, Loaded
    <3>4. eeprom'[b] = eeprom[b]
      BY <1>4, <2>1, <3>3 DEF LoadedFrom
    <3>5. Back(s, Load(eeprom).sequence) = Back(s, Load(eeprom').sequence)
      BY <1>1, <3>1, <3>2, <3>3, <3>4, SameYoungest DEF s
    <3> QED BY <1>1, <1>3, <3>5 DEF Lag, s
  <2>5. CASE /\ \A slot \in 0..(Slots - 1) : ~Valid(eeprom[slot])
             /\ Load(eeprom) = Nothing
    <3>1. \A slot \in 0..(Slots - 1) : ~Valid(eeprom'[slot])
      BY <2>1, <2>5
    <3>2. Load(eeprom') = Nothing
      BY <1>1, <1>12, <3>1, Loaded DEF LoadedFrom
    <3> QED BY <1>1, <1>3, <2>5, <3>2 DEF Lag
  <2> QED BY <1>1, <2>3, <2>4, <2>5, Loaded
<1>17. begun < Slots => Lag' \in {0, Lag}
  BY <1>5, <1>14, <1>15, <1>16
<1>18. index' = Size => Lag' = 0
  BY <1>9, <1>14
<1>19. Promise'
  <2> SUFFICES ASSUME begun' < Slots PROVE Lag' <= begun'
    BY DEF Promise
  <2>1. CASE index' = Size
    <3>1. begun' = 0 /\ 0 <= 0
      BY <1>3, <2>1
    <3> QED BY <1>18, <2>1, <3>1
  <2>2. CASE index' # Size
    <3>1. begun' = begun
      BY <1>3, <2>2
    <3>2. Lag <= begun /\ 0 <= begun
      BY <1>1, <3>1 DEF StoreInv, Promise
    <3> QED BY <1>17, <3>1, <3>2
  <2> QED BY <2>1, <2>2
<1>20. StoreInv'
  BY <1>0, <1>3, <1>12, <1>13, <1>19 DEF StoreInv
<1> QED BY <1>17, <1>18, <1>20

LEMMA StoreGiveUp ==
    ASSUME StoreInv, GiveUp
    PROVE  StoreInv' /\ Lag' = Lag
<1>1. TypeInv'
  BY TypeGiveUp DEF StoreInv
<1>2. /\ busy' = FALSE /\ eeprom' = eeprom /\ settings' = settings /\ kept' = kept
      /\ begun' = begun /\ feeds' = feeds
  BY DEF GiveUp
<1>3. Lag' = Lag
  BY <1>2 DEF Lag
<1>4. Dated(eeprom', settings', feeds')
  BY <1>2 DEF StoreInv
<1>5. Writing' /\ Promise'
  BY <1>2, <1>3 DEF Writing, Promise, StoreInv
<1> QED BY <1>1, <1>3, <1>4, <1>5 DEF StoreInv

LEMMA StoreStep == StoreInv /\ [Next]_vars /\ [DiscerningWrite]_vars => StoreInv'
<1> SUFFICES ASSUME StoreInv, [Next]_vars, [DiscerningWrite]_vars PROVE StoreInv'
  OBVIOUS
<1>1. CASE UNCHANGED vars
  <2>1. TypeInv'
    BY TypeStep DEF StoreInv
  <2>2. /\ Dated(eeprom', settings', feeds') /\ Writing' /\ Promise'
    BY <1>1 DEF vars, store, StoreInv, Writing, Promise, Lag
  <2> QED BY <2>1, <2>2 DEF StoreInv
<1>2. CASE ~UNCHANGED vars
  BY <1>2, StoreFeed, StoreWriteByte, StoreGiveUp, StorePowerFailure DEF Next
<1> QED BY <1>1, <1>2

LEMMA StoreIsInv == Spec /\ CheckDiscerns => []StoreInv
BY StoreInit, StoreStep, PTL DEF Spec, CheckDiscerns

\* As long as the check tells half-written records apart: the count a restart finds is
\* the count that was saved with the number it finds.
THEOREM No_mixture == Spec /\ CheckDiscerns => []NoMixture
<1>1. StoreInv => NoMixture
  <2> SUFFICES ASSUME StoreInv, kept.feed_count # 0
               PROVE  Offset(kept) = Offset(settings)
    BY DEF NoMixture
  <2>1. /\ eeprom \in [0..(Slots - 1) -> Record] /\ kept = Load(eeprom)
        /\ settings \in [sequence : Word, feed_count : Word]
        /\ feeds \in 0..MaxFeeds /\ Dated(eeprom, settings, feeds)
    BY DEF StoreInv, TypeInv, TypeOK
  <2>2. kept # Nothing
    BY DEF Nothing
  <2>3. PICK m \in 0..(Slots - 1) : LoadedFrom(eeprom, settings, m)
    BY <2>1, <2>2, Loaded
  <2> DEFINE e == Age(settings.sequence, eeprom[m])
  <2>4. kept.sequence = Back(settings.sequence, e) /\ kept.feed_count = Back(settings.feed_count, e)
    BY <2>1, <2>3 DEF LoadedFrom
  <2>5. e \in Int
    BY <2>1, Ages
  <2> HIDE DEF e
  <2>6. \A s, f \in Word, x \in Int : (Back(f, x) - Back(s, x)) % 65536 = (f - s) % 65536
    BY Words DEF Back
  <2> QED BY <2>1, <2>4, <2>5, <2>6 DEF Offset
<1> QED BY <1>1, StoreIsInv, PTL

LEMMA BackIsNat == \A s, k \in Word : Back(s, k) \in Nat
<1> SUFFICES ASSUME NEW s \in Word, NEW k \in Word PROVE Back(s, k) \in Nat
  OBVIOUS
<1>1. s - k \in Int
  BY Words
<1>2. Back(s, k) \in Word
  BY <1>1, Words DEF Back
<1> QED BY <1>2, Words

\* As long as the check tells half-written records apart: before a whole round of saves
\* was begun after it, no completed save is lost.
THEOREM Completed_saves_last == Spec /\ CheckDiscerns => []Log!KeepsCompleted
<1>1. StoreInv => Log!KeepsCompleted
  BY DEF StoreInv, Promise, Lag, Back, Log!KeepsCompleted
<1> QED BY <1>1, StoreIsInv, PTL

\* As long as the check tells half-written records apart: the slots implement the log.
\* A restart loses what was begun since the last completed save and nothing else, for
\* any number of slots, and whatever their EEPROM held, unless a whole round of saves
\* was interrupted.
THEOREM Keeps_its_log == Spec /\ CheckDiscerns => KeepsItsLog
<1> USE DEF Lag, Back
<1>1. Init => Log!LogInit
  <2> SUFFICES ASSUME Init PROVE Log!LogInit
    OBVIOUS
  <2>1. settings.sequence \in Word /\ kept.sequence = settings.sequence /\ begun = 0
    BY TypeInit DEF TypeInv, TypeOK, Init
  <2>2. Lag = 0
    <3> HIDE DEF Back
    <3> QED BY <2>1, NoAge
  <2> QED BY <2>1, <2>2 DEF Log!LogInit
<1>2. ASSUME StoreInv, StoreInv', [Next]_vars, [DiscerningWrite]_vars
      PROVE  [Log!LogNext]_(Log!log)
  <2>0. begun \in Nat /\ Lag \in Nat /\ Lag' \in Nat
    <3>1. begun \in Nat
      BY <1>2, SlotsAssumption DEF StoreInv, TypeInv, TypeOK
    <3>2. /\ settings.sequence \in Word /\ kept.sequence \in Word
          /\ settings'.sequence \in Word /\ kept'.sequence \in Word
      BY <1>2 DEF StoreInv, TypeInv, TypeOK
    <3> HIDE DEF Back
    <3> QED BY <3>1, <3>2, BackIsNat
  <2>1. CASE Feed
    <3>1. begun' = begun + 1 /\ (begun < Slots => Lag' = Lag + 1)
      <4> HIDE DEF Lag
      <4> QED BY <1>2, <2>1, StoreFeed DEF Feed
    <3> QED BY <2>0, <3>1 DEF Log!LogNext, Log!Begin
  <2>2. CASE WriteByte /\ ~UNCHANGED vars
    <3>1. /\ begun < Slots => Lag' \in {0, Lag}
          /\ index' = Size => Lag' = 0
      <4> HIDE DEF Lag
      <4> QED BY <1>2, <2>2, StoreWriteByte
    <3>2. begun' = IF index' = Size THEN 0 ELSE begun
      BY <2>2 DEF WriteByte
    <3> QED BY <2>0, <3>1, <3>2 DEF Log!LogNext, Log!Write, Log!Complete
  <2>3. CASE GiveUp
    <3>1. settings' = settings /\ kept' = kept /\ begun' = begun
      BY <2>3 DEF GiveUp
    <3> QED BY <3>1 DEF Log!log
  <2>4. CASE PowerFailure
    <3>1. Lag' = 0 /\ begun' = 0
      <4> HIDE DEF Lag
      <4> QED BY <1>2, <2>4, StorePowerFailure
    <3> QED BY <3>1 DEF Log!LogNext, Log!Restart
  <2>5. CASE UNCHANGED vars
    BY <2>5 DEF vars, store, Log!log
  <2> QED BY <1>2, <2>1, <2>2, <2>3, <2>4, <2>5 DEF Next
<1> HIDE DEF Lag, Back
<1> QED BY <1>1, <1>2, StoreIsInv, PTL DEF Spec, CheckDiscerns, KeepsItsLog, Log!LogSpec
=============================================================================
