--------------------------- MODULE MmsBytes_proofs ----------------------------
(***************************************************************************)
(* Theorems about the bytes of a message: how values and items are written  *)
(* and read (ByteFormats and the codecs of MmsCodec), and the buffer they   *)
(* are written into (MmsOutputBuffer).                                      *)
(*                                                                         *)
(* What is packed is read where it lies, and as it was.  Ahead(w, from, p,  *)
(* end) says that the bytes p lie in w at from and end by end; under it a   *)
(* reader gives Read(value, at), with at the offset behind p.  The sections *)
(* go from the digits of a number to content types and the items of each   *)
(* codec.                                                                  *)
(*                                                                         *)
(* The invariant of the buffer is the conjunction of the four that TLC      *)
(* checks; none of them is inductive alone.  RoomForTerminator needs the    *)
(* length of the memory from TypeOK; NoGarbage needs both, and              *)
(* TransactionsNested when a rollback moves data_length to                  *)
(* transaction_begin.                                                       *)
(***************************************************************************)
EXTENDS MmsCodec, MmsOutputBuffer, SequenceFacts, FiniteSetTheorems

-----------------------------------------------------------------------------
(* Digits and numbers.                                                     *)

(* The number up to each digit.                                             *)
Sums(f, d, base, n) ==
  f = [i \in 0 .. n |-> IF i = 0 THEN 0 ELSE f[i - 1] * base + d[i]]

(* It is there: a function of the digits before.                            *)
LEMMA SumExists ==
  ASSUME NEW d, NEW base, NEW n \in Nat
  PROVE  \E f : Sums(f, d, base, n)
<1>. DEFINE T == {k \in Nat : ~ \E f : Sums(f, d, base, k)}
<1>1. SUFFICES ASSUME T # {} PROVE FALSE
  OBVIOUS
<1>2. PICK k \in T : \A j \in T : k <= j
  <2>1. T \subseteq Nat
    OBVIOUS
  <2>. HIDE DEF T
  <2>. QED BY <1>1, <2>1, LeastOf
<1>3. k \in Nat /\ ~ \E f : Sums(f, d, base, k)
  OBVIOUS
<1>4. CASE k = 0
  <2>. DEFINE e == [i \in 0 .. 0 |-> 0]
  <2>1. ASSUME NEW i \in 0 .. 0
        PROVE  e[i] = IF i = 0 THEN 0 ELSE e[i - 1] * base + d[i]
    OBVIOUS
  <2>2. Sums(e, d, base, 0)
    BY <2>1 DEF Sums
  <2>. QED BY <1>3, <1>4, <2>2
<1>5. CASE k # 0
  <2>1. k - 1 \in Nat /\ ~ (k <= k - 1)
    BY <1>3, <1>5
  <2>2. k - 1 \notin T
    BY <1>2, <2>1
  <2>3. PICK f : Sums(f, d, base, k - 1)
    BY <2>1, <2>2
  <2>. DEFINE v == f[k - 1] * base + d[k]
              h == [i \in 0 .. k |-> IF i = k THEN v ELSE f[i]]
              again == [i \in 0 .. k |-> IF i = 0 THEN 0 ELSE h[i - 1] * base + d[i]]
  <2>4. ASSUME NEW i \in 0 .. k PROVE h[i] = again[i]
    <3>1. i # 0 => i - 1 \in 0 .. k - 1 /\ i - 1 \in 0 .. k /\ i - 1 # k
      BY <1>3
    <3>2. i # 0 => h[i - 1] = f[i - 1]
      BY <3>1
    <3>3. CASE i # k
      <4>1. i \in 0 .. k - 1
        BY <1>3, <3>3
      <4>2. f[i] = IF i = 0 THEN 0 ELSE f[i - 1] * base + d[i]
        BY <2>3, <4>1 DEF Sums
      <4>3. h[i] = f[i]
        BY <3>3
      <4>. QED BY <3>2, <4>2, <4>3
    <3>4. CASE i = k
      <4>1. h[i] = v
        BY <3>4
      <4>. QED BY <1>5, <3>2, <3>4, <4>1
    <3>. QED BY <3>3, <3>4
  <2>5. h = again
    BY <2>4
  <2>6. Sums(h, d, base, k)
    BY <2>5 DEF Sums
  <2>. QED BY <1>3, <2>6
<1>. QED BY <1>4, <1>5

(* Number(d, base) is the last of those sums.                               *)
LEMMA NumberIs ==
  ASSUME NEW d, NEW base, Len(d) \in Nat
  PROVE  \E f : Sums(f, d, base, Len(d)) /\ Number(d, base) = f[Len(d)]
<1>. DEFINE n == Len(d)
            upTo == CHOOSE f : f = [i \in 0 .. n |-> IF i = 0 THEN 0 ELSE f[i - 1] * base + d[i]]
<1>1. Number(d, base) = upTo[n]
  BY DEF Number
<1>2. \E f : f = [i \in 0 .. n |-> IF i = 0 THEN 0 ELSE f[i - 1] * base + d[i]]
  <2>1. PICK f : Sums(f, d, base, n)
    BY SumExists
  <2>. QED BY <2>1 DEF Sums
<1>3. Sums(upTo, d, base, n)
  BY <1>2 DEF Sums
<1>. QED BY <1>1, <1>3

(* Up to four digits, in base 128 and in base 256.                          *)
LEMMA VarNumbers ==
  ASSUME NEW d, Len(d) \in 1 .. 4, \A i \in 1 .. Len(d) : d[i] \in Nat
  PROVE  /\ Len(d) = 1 => Number(d, 128) = d[1]
         /\ Len(d) = 2 => Number(d, 128) = d[1] * 128 + d[2]
         /\ Len(d) = 3 => Number(d, 128) = (d[1] * 128 + d[2]) * 128 + d[3]
         /\ Len(d) = 4 => Number(d, 128) = ((d[1] * 128 + d[2]) * 128 + d[3]) * 128 + d[4]
<1>1. PICK f : Sums(f, d, 128, Len(d)) /\ Number(d, 128) = f[Len(d)]
  BY NumberIs
<1>2. f[0] = 0
  BY <1>1 DEF Sums
<1>3. ASSUME NEW i \in 1 .. Len(d) PROVE f[i] = f[i - 1] * 128 + d[i]
  <2>1. i \in 0 .. Len(d) /\ i # 0
    OBVIOUS
  <2>. QED BY <1>1, <2>1 DEF Sums
<1>4. f[1] = f[0] * 128 + d[1]
  BY <1>3
<1>5. Len(d) >= 2 => f[2] = f[1] * 128 + d[2]
  BY <1>3
<1>6. Len(d) >= 3 => f[3] = f[2] * 128 + d[3]
  BY <1>3
<1>7. Len(d) >= 4 => f[4] = f[3] * 128 + d[4]
  BY <1>3
<1>8. f[1] = d[1] /\ d[1] \in Nat
  <2>1. d[1] \in Nat
    OBVIOUS
  <2>. QED BY <1>2, <1>4, <2>1
<1>9. Len(d) >= 2 => f[2] = d[1] * 128 + d[2] /\ d[2] \in Nat
  <2>1. Len(d) >= 2 => d[2] \in Nat
    OBVIOUS
  <2>. QED BY <1>5, <1>8, <2>1
<1>10. Len(d) >= 3 => f[3] = (d[1] * 128 + d[2]) * 128 + d[3] /\ d[3] \in Nat
  <2>1. Len(d) >= 3 => d[3] \in Nat
    OBVIOUS
  <2>. QED BY <1>6, <1>8, <1>9, <2>1
<1>11. Len(d) >= 4 => f[4] = ((d[1] * 128 + d[2]) * 128 + d[3]) * 128 + d[4]
  <2>1. Len(d) >= 4 => d[4] \in Nat
    OBVIOUS
  <2>. QED BY <1>7, <1>8, <1>9, <1>10, <2>1
<1>12. ASSUME NEW k \in 1 .. 4, Len(d) = k PROVE Number(d, 128) = f[k]
  BY <1>1, <1>12
<1>13. CASE Len(d) = 1
  BY <1>8, <1>12, <1>13
<1>14. CASE Len(d) = 2
  BY <1>9, <1>12, <1>14
<1>15. CASE Len(d) = 3
  BY <1>10, <1>12, <1>15
<1>16. CASE Len(d) = 4
  BY <1>11, <1>12, <1>16
<1>. QED BY <1>13, <1>14, <1>15, <1>16

LEMMA OctetNumbers ==
  ASSUME NEW d, Len(d) \in 1 .. 4, \A i \in 1 .. Len(d) : d[i] \in Nat
  PROVE  /\ Len(d) = 1 => Number(d, 256) = d[1]
         /\ Len(d) = 2 => Number(d, 256) = d[1] * 256 + d[2]
         /\ Len(d) = 3 => Number(d, 256) = (d[1] * 256 + d[2]) * 256 + d[3]
         /\ Len(d) = 4 => Number(d, 256) = ((d[1] * 256 + d[2]) * 256 + d[3]) * 256 + d[4]
<1>1. PICK f : Sums(f, d, 256, Len(d)) /\ Number(d, 256) = f[Len(d)]
  BY NumberIs
<1>2. f[0] = 0
  BY <1>1 DEF Sums
<1>3. ASSUME NEW i \in 1 .. Len(d) PROVE f[i] = f[i - 1] * 256 + d[i]
  <2>1. i \in 0 .. Len(d) /\ i # 0
    OBVIOUS
  <2>. QED BY <1>1, <2>1 DEF Sums
<1>4. f[1] = f[0] * 256 + d[1]
  BY <1>3
<1>5. Len(d) >= 2 => f[2] = f[1] * 256 + d[2]
  BY <1>3
<1>6. Len(d) >= 3 => f[3] = f[2] * 256 + d[3]
  BY <1>3
<1>7. Len(d) >= 4 => f[4] = f[3] * 256 + d[4]
  BY <1>3
<1>8. f[1] = d[1] /\ d[1] \in Nat
  <2>1. d[1] \in Nat
    OBVIOUS
  <2>. QED BY <1>2, <1>4, <2>1
<1>9. Len(d) >= 2 => f[2] = d[1] * 256 + d[2] /\ d[2] \in Nat
  <2>1. Len(d) >= 2 => d[2] \in Nat
    OBVIOUS
  <2>. QED BY <1>5, <1>8, <2>1
<1>10. Len(d) >= 3 => f[3] = (d[1] * 256 + d[2]) * 256 + d[3] /\ d[3] \in Nat
  <2>1. Len(d) >= 3 => d[3] \in Nat
    OBVIOUS
  <2>. QED BY <1>6, <1>8, <1>9, <2>1
<1>11. Len(d) >= 4 => f[4] = ((d[1] * 256 + d[2]) * 256 + d[3]) * 256 + d[4]
  <2>1. Len(d) >= 4 => d[4] \in Nat
    OBVIOUS
  <2>. QED BY <1>7, <1>8, <1>9, <1>10, <2>1
<1>12. ASSUME NEW k \in 1 .. 4, Len(d) = k PROVE Number(d, 256) = f[k]
  BY <1>1, <1>12
<1>13. CASE Len(d) = 1
  BY <1>8, <1>12, <1>13
<1>14. CASE Len(d) = 2
  BY <1>9, <1>12, <1>14
<1>15. CASE Len(d) = 3
  BY <1>10, <1>12, <1>15
<1>16. CASE Len(d) = 4
  BY <1>11, <1>12, <1>16
<1>. QED BY <1>13, <1>14, <1>15, <1>16

(* A number without its last digits.                                        *)
Shifts(f, m, base, n) ==
  f = [i \in 0 .. n |-> IF i = 0 THEN m ELSE f[i - 1] \div base]

(* It is there: each quotient from the one before.                          *)
LEMMA ShiftExists ==
  ASSUME NEW m, NEW base, NEW n \in Nat
  PROVE  \E f : Shifts(f, m, base, n)
<1>. DEFINE T == {k \in Nat : ~ \E f : Shifts(f, m, base, k)}
<1>1. SUFFICES ASSUME T # {} PROVE FALSE
  OBVIOUS
<1>2. PICK k \in T : \A j \in T : k <= j
  <2>1. T \subseteq Nat
    OBVIOUS
  <2>. HIDE DEF T
  <2>. QED BY <1>1, <2>1, LeastOf
<1>3. k \in Nat /\ ~ \E f : Shifts(f, m, base, k)
  OBVIOUS
<1>4. CASE k = 0
  <2>. DEFINE e == [i \in 0 .. 0 |-> m]
  <2>1. ASSUME NEW i \in 0 .. 0
        PROVE  e[i] = IF i = 0 THEN m ELSE e[i - 1] \div base
    OBVIOUS
  <2>2. Shifts(e, m, base, 0)
    BY <2>1 DEF Shifts
  <2>. QED BY <1>3, <1>4, <2>2
<1>5. CASE k # 0
  <2>1. k - 1 \in Nat /\ ~ (k <= k - 1)
    BY <1>3, <1>5
  <2>2. k - 1 \notin T
    BY <1>2, <2>1
  <2>3. PICK f : Shifts(f, m, base, k - 1)
    BY <2>1, <2>2
  <2>. DEFINE v == f[k - 1] \div base
              h == [i \in 0 .. k |-> IF i = k THEN v ELSE f[i]]
              again == [i \in 0 .. k |-> IF i = 0 THEN m ELSE h[i - 1] \div base]
  <2>4. ASSUME NEW i \in 0 .. k PROVE h[i] = again[i]
    <3>1. i # 0 => i - 1 \in 0 .. k - 1 /\ i - 1 \in 0 .. k /\ i - 1 # k
      BY <1>3
    <3>2. i # 0 => h[i - 1] = f[i - 1]
      BY <3>1
    <3>3. CASE i # k
      <4>1. i \in 0 .. k - 1
        BY <1>3, <3>3
      <4>2. f[i] = IF i = 0 THEN m ELSE f[i - 1] \div base
        BY <2>3, <4>1 DEF Shifts
      <4>3. h[i] = f[i]
        BY <3>3
      <4>. QED BY <3>2, <4>2, <4>3
    <3>4. CASE i = k
      <4>1. h[i] = v
        BY <3>4
      <4>. QED BY <1>5, <3>2, <3>4, <4>1
    <3>. QED BY <3>3, <3>4
  <2>5. h = again
    BY <2>4
  <2>6. Shifts(h, m, base, k)
    BY <2>5 DEF Shifts
  <2>. QED BY <1>3, <2>6
<1>. QED BY <1>4, <1>5

(* Digits(m, base, count) are the remainders of those quotients, the last   *)
(* first.                                                                   *)
LEMMA DigitsAre ==
  ASSUME NEW m, NEW base, NEW count \in Nat
  PROVE  \E f : /\ Shifts(f, m, base, count)
               /\ Digits(m, base, count) = [i \in 1 .. count |-> f[count - i] % base]
<1>. DEFINE shifted == CHOOSE f : f = [k \in 0 .. count |-> IF k = 0 THEN m ELSE f[k - 1] \div base]
<1>1. Digits(m, base, count) = [i \in 1 .. count |-> shifted[count - i] % base]
  BY DEF Digits
<1>2. \E f : f = [k \in 0 .. count |-> IF k = 0 THEN m ELSE f[k - 1] \div base]
  <2>1. PICK f : Shifts(f, m, base, count)
    BY ShiftExists
  <2>. QED BY <2>1 DEF Shifts
<1>3. Shifts(shifted, m, base, count)
  BY <1>2 DEF Shifts
<1>. QED BY <1>1, <1>3

(* What a number is read as: its digits.                                    *)
LEMMA DigitsTyped ==
  ASSUME NEW m \in Nat, NEW base \in {10, 128, 256}, NEW count \in Nat
  PROVE  /\ Digits(m, base, count) \in Seq(Nat) /\ Len(Digits(m, base, count)) = count
         /\ \A i \in 1 .. count : Digits(m, base, count)[i] \in Nat /\ Digits(m, base, count)[i] < base
<1>1. PICK f : /\ Shifts(f, m, base, count)
               /\ Digits(m, base, count) = [i \in 1 .. count |-> f[count - i] % base]
  BY DigitsAre
<1>. DEFINE T == {k \in Nat : k <= count /\ f[k] \notin Nat}
<1>2. T = {}
  <2>1. SUFFICES ASSUME T # {} PROVE FALSE
    OBVIOUS
  <2>2. PICK k \in T : \A j \in T : k <= j
    <3>1. T \subseteq Nat
      OBVIOUS
    <3>. HIDE DEF T
    <3>. QED BY <2>1, <3>1, LeastOf
  <2>3. f[0] = m
    BY <1>1 DEF Shifts
  <2>4. k # 0
    BY <2>3
  <2>5. k - 1 \in Nat /\ k \in 0 .. count /\ f[k] = f[k - 1] \div base
    BY <1>1, <2>4 DEF Shifts
  <2>6. f[k - 1] \in Nat
    BY <2>2, <2>5
  <2>7. f[k - 1] \div base \in Nat
    BY <2>6
  <2>. QED BY <2>5, <2>7
<1>3. ASSUME NEW i \in 1 .. count PROVE f[count - i] % base \in Nat /\ f[count - i] % base < base
  <2>1. count - i \in Nat /\ count - i <= count
    OBVIOUS
  <2>2. f[count - i] \in Nat
    BY <1>2, <2>1
  <2>. QED BY <2>2
<1>. DEFINE d == [i \in 1 .. count |-> f[count - i] % base]
<1>4. \A i \in 1 .. count : d[i] \in Nat /\ d[i] < base
  BY <1>3
<1>5. DOMAIN d = 1 .. count
  OBVIOUS
<1>6. d \in [1 .. count -> Nat]
  BY <1>4
<1>7. Digits(m, base, count) = d
  BY <1>1
<1>. HIDE DEF d
<1>8. d \in Seq(Nat)
  BY <1>6
<1>9. Len(d) = count
  BY <1>5, <1>8
<1>. QED BY <1>4, <1>7, <1>8, <1>9

(* Four digits are all of a number below base to the fourth.                 *)
LEMMA FourDigits ==
  ASSUME NEW m \in Nat, NEW base \in {128, 256}, NEW count \in 1 .. 4
  PROVE  LET d == Digits(m, base, count)
             q1 == m \div base
             q2 == q1 \div base
             q3 == q2 \div base
         IN  /\ count = 1 => d[1] = m % base
             /\ count = 2 => d[1] = q1 % base /\ d[2] = m % base
             /\ count = 3 => d[1] = q2 % base /\ d[2] = q1 % base /\ d[3] = m % base
             /\ count = 4 => d[1] = q3 % base /\ d[2] = q2 % base /\ d[3] = q1 % base /\ d[4] = m % base
<1>. DEFINE d == Digits(m, base, count)
            q1 == m \div base
            q2 == q1 \div base
            q3 == q2 \div base
<1>0. count \in Nat
  OBVIOUS
<1>1. PICK f : Shifts(f, m, base, count) /\ d = [i \in 1 .. count |-> f[count - i] % base]
  BY <1>0, DigitsAre
<1>2. f[0] = m
  BY <1>1 DEF Shifts
<1>3. ASSUME NEW i \in 1 .. count PROVE f[i] = f[i - 1] \div base
  <2>1. i \in 0 .. count /\ i # 0
    OBVIOUS
  <2>. QED BY <1>1, <2>1 DEF Shifts
<1>4. f[1] = q1
  BY <1>2, <1>3
<1>5. count >= 2 => f[2] = q2
  BY <1>3, <1>4
<1>6. count >= 3 => f[3] = q3
  BY <1>3, <1>5
<1>7. ASSUME NEW i \in 1 .. count PROVE d[i] = f[count - i] % base
  BY <1>1
<1>. HIDE DEF q1, q2, q3, d
<1>8. count = 1 => d[1] = m % base
  BY <1>2, <1>7
<1>9. count = 2 => d[1] = q1 % base /\ d[2] = m % base
  BY <1>2, <1>4, <1>7
<1>10. count = 3 => d[1] = q2 % base /\ d[2] = q1 % base /\ d[3] = m % base
  BY <1>2, <1>4, <1>5, <1>7
<1>11. count = 4 => d[1] = q3 % base /\ d[2] = q2 % base /\ d[3] = q1 % base /\ d[4] = m % base
  BY <1>2, <1>4, <1>5, <1>6, <1>7
<1>. QED BY <1>8, <1>9, <1>10, <1>11 DEF d, q1, q2, q3

-----------------------------------------------------------------------------
(* How many bytes a number takes.                                           *)

(* PutVarInt counts the bounds a number is beyond.                          *)
LEMMA ThreeBounds ==
  ASSUME NEW n \in Nat, NEW a \in Nat, NEW b \in Nat, NEW c \in Nat, a < b, b < c
  PROVE  Cardinality({bound \in {a, b, c} : n > bound})
           = IF n <= a THEN 0 ELSE IF n <= b THEN 1 ELSE IF n <= c THEN 2 ELSE 3
<1>. DEFINE S == {bound \in {a, b, c} : n > bound}
<1>1. IsFiniteSet({a}) /\ Cardinality({a}) = 1
  BY FS_Singleton
<1>2. IsFiniteSet({a} \cup {b}) /\ Cardinality({a} \cup {b}) = 2
  BY <1>1, FS_AddElement
<1>3. Cardinality(({a} \cup {b}) \cup {c}) = 3
  <2>. DEFINE T == {a} \cup {b}
  <2>1. c \notin T
    OBVIOUS
  <2>2. IsFiniteSet(T) /\ Cardinality(T) = 2
    BY <1>2
  <2>. HIDE DEF T
  <2>3. Cardinality(T \cup {c}) = 3
    BY <2>1, <2>2, FS_AddElement
  <2>. QED BY <2>3 DEF T
<1>4. CASE n <= a
  <2>1. S = {}
    BY <1>4
  <2>. QED BY <1>4, <2>1, FS_EmptySet
<1>5. CASE ~ (n <= a) /\ n <= b
  <2>1. S = {a}
    BY <1>5
  <2>. QED BY <1>1, <1>5, <2>1
<1>6. CASE ~ (n <= a) /\ ~ (n <= b) /\ n <= c
  <2>1. S = {a} \cup {b}
    BY <1>6
  <2>. QED BY <1>2, <1>6, <2>1
<1>7. CASE ~ (n <= a) /\ ~ (n <= b) /\ ~ (n <= c)
  <2>1. S = ({a} \cup {b}) \cup {c}
    BY <1>7
  <2>. QED BY <1>3, <1>7, <2>1
<1>. QED BY <1>4, <1>5, <1>6, <1>7

LEMMA IntBytesIs ==
  ASSUME NEW n \in Nat
  PROVE  IntBytes(n) = IF n <= 255 THEN 1 ELSE IF n <= 65535 THEN 2 ELSE IF n <= 1048575 THEN 3 ELSE 4
<1>1. Cardinality({bound \in {255, 65535, 1048575} : n > bound})
        = IF n <= 255 THEN 0 ELSE IF n <= 65535 THEN 1 ELSE IF n <= 1048575 THEN 2 ELSE 3
  BY ThreeBounds
<1>. QED BY <1>1 DEF IntBytes

(* And a variable length one.                                               *)
VarBytes(n) == 1 + Cardinality({bound \in {127, 16383, 2097151, 16384 * 16384 - 1} : n > bound})

(* Octets, characters and lengths, as numbers.                              *)
LEMMA OctetIs == \A x \in Nat : x <= 255 => x \in Octets
BY DEF Octets

LEMMA CharactersAre == \A x \in Characters : x \in Octets /\ x # 0
BY DEF Characters, Octets

LEMMA OctetsAre == \A x \in Octets : x \in Nat /\ x <= 255
BY DEF Octets

Lengths == {n \in Nat : n < MaxPart}

LEMMA LengthsAre == \A n : n \in Lengths <=> n \in Nat /\ n < MaxPart
BY SMT DEF Lengths, MaxPart

LEMMA SmallLengths == \A n \in Nat : n <= 255 => n \in Lengths
BY SMT DEF Lengths, MaxPart

LEMMA VarBytesIs ==
  ASSUME NEW n \in Lengths
  PROVE  VarBytes(n) = IF n <= 127 THEN 1 ELSE IF n <= 16383 THEN 2 ELSE IF n <= 2097151 THEN 3 ELSE 4
<1>0. n \in Nat /\ n <= 16384 * 16384 - 1
  BY SMT DEF Lengths, MaxPart
<1>1. Cardinality({bound \in {127, 16383, 2097151} : n > bound})
        = IF n <= 127 THEN 0 ELSE IF n <= 16383 THEN 1 ELSE IF n <= 2097151 THEN 2 ELSE 3
  BY <1>0, ThreeBounds, SMT
<1>2. {bound \in {127, 16383, 2097151, 16384 * 16384 - 1} : n > bound} = {bound \in {127, 16383, 2097151} : n > bound}
  BY <1>0, SMT
<1>. QED BY <1>1, <1>2 DEF VarBytes

(* Quotients and remainders.                                                *)
LEMMA By128 ==
  ASSUME NEW n \in Nat
  PROVE  \E q, r \in Nat : q = n \div 128 /\ r = n % 128 /\ r < 128 /\ n = q * 128 + r
OBVIOUS

LEMMA Small128 == \A n \in Nat : n < 128 => n % 128 = n
OBVIOUS

LEMMA By256 ==
  ASSUME NEW n \in Nat
  PROVE  \E q, r \in Nat : q = n \div 256 /\ r = n % 256 /\ r < 256 /\ n = q * 256 + r
OBVIOUS

LEMMA Small256 == \A n \in Nat : n < 256 => n % 256 = n
OBVIOUS

(* As many digits as a variable length integer takes are all of them; *)
LEMMA Four128 ==
  ASSUME NEW n \in Nat, NEW d, NEW count \in 1 .. 4, n <= 16384 * 16384 - 1,
         n <= 127 \/ count # 1, n <= 16383 \/ count \notin {1, 2}, n <= 2097151 \/ count = 4,
         d = Digits(n, 128, count)
  PROVE  /\ count = 1 => d[1] = n
         /\ count = 2 => d[1] * 128 + d[2] = n
         /\ count = 3 => (d[1] * 128 + d[2]) * 128 + d[3] = n
         /\ count = 4 => ((d[1] * 128 + d[2]) * 128 + d[3]) * 128 + d[4] = n
<1>1. PICK q1, r0 \in Nat : q1 = n \div 128 /\ r0 = n % 128 /\ r0 < 128 /\ n = q1 * 128 + r0
  BY By128
<1>2. PICK q2, r1 \in Nat : q2 = q1 \div 128 /\ r1 = q1 % 128 /\ r1 < 128 /\ q1 = q2 * 128 + r1
  BY By128
<1>3. PICK q3, r2 \in Nat : q3 = q2 \div 128 /\ r2 = q2 % 128 /\ r2 < 128 /\ q2 = q3 * 128 + r2
  BY By128
<1>4. q3 % 128 = q3
  <2>1. q3 < 128
    <3>1. n = q1 * 128 + r0 /\ q1 = q2 * 128 + r1 /\ q2 = q3 * 128 + r2
      BY <1>1, <1>2, <1>3
    <3>. QED BY <3>1, SMT
  <2>. QED BY <2>1, Small128
<1>5. /\ count = 1 => d[1] = r0
      /\ count = 2 => d[1] = r1 /\ d[2] = r0
      /\ count = 3 => d[1] = r2 /\ d[2] = r1 /\ d[3] = r0
      /\ count = 4 => d[1] = q3 /\ d[2] = r2 /\ d[3] = r1 /\ d[4] = r0
  <2>1. /\ count = 1 => d[1] = n % 128
        /\ count = 2 => d[1] = (n \div 128) % 128 /\ d[2] = n % 128
        /\ count = 3 => /\ d[1] = ((n \div 128) \div 128) % 128
                        /\ d[2] = (n \div 128) % 128 /\ d[3] = n % 128
        /\ count = 4 => /\ d[1] = (((n \div 128) \div 128) \div 128) % 128
                        /\ d[2] = ((n \div 128) \div 128) % 128
                        /\ d[3] = (n \div 128) % 128 /\ d[4] = n % 128
    BY FourDigits
  <2>2. /\ n % 128 = r0 /\ (n \div 128) % 128 = r1
        /\ ((n \div 128) \div 128) % 128 = r2
        /\ (((n \div 128) \div 128) \div 128) % 128 = q3
    <3>1. n \div 128 = q1
      BY <1>1
    <3>2. q1 \div 128 = q2
      BY <1>2
    <3>3. q2 \div 128 = q3
      BY <1>3
    <3>. QED BY <1>1, <1>2, <1>3, <1>4, <3>1, <3>2, <3>3
  <2>3. CASE count = 1
    BY <2>1, <2>2, <2>3
  <2>4. CASE count = 2
    BY <2>1, <2>2, <2>4
  <2>5. CASE count = 3
    BY <2>1, <2>2, <2>5
  <2>6. CASE count = 4
    BY <2>1, <2>2, <2>6
  <2>. QED BY <2>3, <2>4, <2>5, <2>6
<1>6. /\ count = 1 => r0 = n
      /\ count = 2 => r1 * 128 + r0 = n
      /\ count = 3 => (r2 * 128 + r1) * 128 + r0 = n
      /\ count = 4 => ((q3 * 128 + r2) * 128 + r1) * 128 + r0 = n
  <2>1. /\ n = q1 * 128 + r0 /\ q1 = q2 * 128 + r1 /\ q2 = q3 * 128 + r2
        /\ r0 < 128 /\ r1 < 128 /\ r2 < 128
    BY <1>1, <1>2, <1>3
  <2>2. n <= 127 => q1 = 0
    BY <2>1
  <2>3. n <= 16383 => q2 = 0
    BY <2>1
  <2>4. n <= 2097151 => q3 = 0
    BY <2>1
  <2>5. CASE count = 1
    BY <2>1, <2>2, <2>5
  <2>6. CASE count = 2
    BY <2>1, <2>3, <2>6
  <2>7. CASE count = 3
    BY <2>1, <2>4, <2>7
  <2>8. CASE count = 4
    BY <2>1, <2>8
  <2>. QED BY <2>5, <2>6, <2>7, <2>8
<1>7. CASE count = 1
  BY <1>5, <1>6, <1>7
<1>8. CASE count = 2
  BY <1>5, <1>6, <1>8
<1>9. CASE count = 3
  <2>1. d[1] = r2 /\ d[2] = r1 /\ d[3] = r0
    BY <1>5, <1>9
  <2>2. (r2 * 128 + r1) * 128 + r0 = n
    BY <1>6, <1>9
  <2>3. (d[1] * 128 + d[2]) * 128 + d[3] = n
    BY <2>1, <2>2
  <2>. QED BY <1>9, <2>3
<1>10. CASE count = 4
  BY <1>5, <1>6, <1>10
<1>. QED BY <1>7, <1>8, <1>9, <1>10

(* and as many as the bytes of a number.                                  *)
LEMMA Four256 ==
  ASSUME NEW n \in Nat, NEW d, NEW count \in 1 .. 4, n <= 32767 * 65536 + 65535,
         n <= 255 \/ count # 1, n <= 65535 \/ count \notin {1, 2}, n <= 1048575 \/ count = 4,
         d = Digits(n, 256, count)
  PROVE  /\ count = 1 => d[1] = n
         /\ count = 2 => d[1] * 256 + d[2] = n
         /\ count = 3 => (d[1] * 256 + d[2]) * 256 + d[3] = n
         /\ count = 4 => ((d[1] * 256 + d[2]) * 256 + d[3]) * 256 + d[4] = n
<1>1. PICK q1, r0 \in Nat : q1 = n \div 256 /\ r0 = n % 256 /\ r0 < 256 /\ n = q1 * 256 + r0
  BY By256
<1>2. PICK q2, r1 \in Nat : q2 = q1 \div 256 /\ r1 = q1 % 256 /\ r1 < 256 /\ q1 = q2 * 256 + r1
  BY By256
<1>3. PICK q3, r2 \in Nat : q3 = q2 \div 256 /\ r2 = q2 % 256 /\ r2 < 256 /\ q2 = q3 * 256 + r2
  BY By256
<1>4. q3 % 256 = q3
  <2>1. q3 < 256
    <3>1. n = q1 * 256 + r0 /\ q1 = q2 * 256 + r1 /\ q2 = q3 * 256 + r2
      BY <1>1, <1>2, <1>3
    <3>. QED BY <3>1, SMT
  <2>. QED BY <2>1, Small256
<1>5. /\ count = 1 => d[1] = r0
      /\ count = 2 => d[1] = r1 /\ d[2] = r0
      /\ count = 3 => d[1] = r2 /\ d[2] = r1 /\ d[3] = r0
      /\ count = 4 => d[1] = q3 /\ d[2] = r2 /\ d[3] = r1 /\ d[4] = r0
  <2>1. /\ count = 1 => d[1] = n % 256
        /\ count = 2 => d[1] = (n \div 256) % 256 /\ d[2] = n % 256
        /\ count = 3 => /\ d[1] = ((n \div 256) \div 256) % 256
                        /\ d[2] = (n \div 256) % 256 /\ d[3] = n % 256
        /\ count = 4 => /\ d[1] = (((n \div 256) \div 256) \div 256) % 256
                        /\ d[2] = ((n \div 256) \div 256) % 256
                        /\ d[3] = (n \div 256) % 256 /\ d[4] = n % 256
    BY FourDigits
  <2>2. /\ n % 256 = r0 /\ (n \div 256) % 256 = r1
        /\ ((n \div 256) \div 256) % 256 = r2
        /\ (((n \div 256) \div 256) \div 256) % 256 = q3
    <3>1. n \div 256 = q1
      BY <1>1
    <3>2. q1 \div 256 = q2
      BY <1>2
    <3>3. q2 \div 256 = q3
      BY <1>3
    <3>. QED BY <1>1, <1>2, <1>3, <1>4, <3>1, <3>2, <3>3
  <2>3. CASE count = 1
    BY <2>1, <2>2, <2>3
  <2>4. CASE count = 2
    BY <2>1, <2>2, <2>4
  <2>5. CASE count = 3
    BY <2>1, <2>2, <2>5
  <2>6. CASE count = 4
    BY <2>1, <2>2, <2>6
  <2>. QED BY <2>3, <2>4, <2>5, <2>6
<1>6. /\ count = 1 => r0 = n
      /\ count = 2 => r1 * 256 + r0 = n
      /\ count = 3 => (r2 * 256 + r1) * 256 + r0 = n
      /\ count = 4 => ((q3 * 256 + r2) * 256 + r1) * 256 + r0 = n
  <2>1. /\ n = q1 * 256 + r0 /\ q1 = q2 * 256 + r1 /\ q2 = q3 * 256 + r2
        /\ r0 < 256 /\ r1 < 256 /\ r2 < 256
    BY <1>1, <1>2, <1>3
  <2>2. n <= 255 => q1 = 0
    BY <2>1
  <2>3. n <= 65535 => q2 = 0
    BY <2>1
  <2>4. n <= 1048575 => q3 = 0
    BY <2>1
  <2>5. CASE count = 1
    BY <2>1, <2>2, <2>5
  <2>6. CASE count = 2
    BY <2>1, <2>3, <2>6
  <2>7. CASE count = 3
    BY <2>1, <2>4, <2>7
  <2>8. CASE count = 4
    BY <2>1, <2>8
  <2>. QED BY <2>5, <2>6, <2>7, <2>8
<1>7. CASE count = 1
  BY <1>5, <1>6, <1>7
<1>8. CASE count = 2
  BY <1>5, <1>6, <1>8
<1>9. CASE count = 3
  <2>1. d[1] = r2 /\ d[2] = r1 /\ d[3] = r0
    BY <1>5, <1>9
  <2>2. (r2 * 256 + r1) * 256 + r0 = n
    BY <1>6, <1>9
  <2>3. (d[1] * 256 + d[2]) * 256 + d[3] = n
    BY <2>1, <2>2
  <2>. QED BY <1>9, <2>3
<1>10. CASE count = 4
  BY <1>5, <1>6, <1>10
<1>. QED BY <1>7, <1>8, <1>9, <1>10

(* All but the last byte have their top bit set, and the low bits of all    *)
(* of them are the number.                                                  *)
LEMMA VarIntIs ==
  ASSUME NEW n \in Lengths
  PROVE  LET p == PutVarInt(n)
         IN  /\ p \in Seq(Octets) /\ Len(p) \in Nat /\ 1 <= Len(p) /\ Len(p) <= 4
             /\ \A i \in 1 .. Len(p) - 1 : p[i] >= 128
             /\ p[Len(p)] < 128
             /\ Number([k \in 1 .. Len(p) |-> p[k] % 128], 128) = n
<1>. DEFINE count == VarBytes(n)
            d == Digits(n, 128, count)
            p == [i \in 1 .. count |-> d[i] + (IF i < count THEN 128 ELSE 0)]
            q == [k \in 1 .. count |-> p[k] % 128]
<1>0. n \in Nat /\ n <= 16384 * 16384 - 1
  BY SMT DEF Lengths, MaxPart
<1>1. PutVarInt(n) = p
  BY DEF PutVarInt, VarBytes
<1>2. count \in 1 .. 4
  BY VarBytesIs
<1>3. count \in Nat
  BY <1>2
<1>4. ASSUME NEW i \in 1 .. count PROVE d[i] \in Nat /\ d[i] < 128
  <2>. HIDE DEF count
  <2>. QED BY <1>0, <1>3, DigitsTyped, SMT
<1>5. ASSUME NEW i \in 1 .. count
      PROVE  p[i] \in Octets /\ q[i] = d[i] /\ (i < count => p[i] >= 128) /\ (i = count => p[i] < 128)
  <2>1. d[i] \in Nat /\ d[i] < 128
    BY <1>4
  <2>. HIDE DEF d, count
  <2>2. p[i] = d[i] + (IF i < count THEN 128 ELSE 0)
    OBVIOUS
  <2>3. q[i] = p[i] % 128
    OBVIOUS
  <2>. HIDE DEF p, q
  <2>4. p[i] \in Nat /\ p[i] <= 255 /\ (i < count => p[i] >= 128) /\ (i = count => p[i] < 128)
    BY <1>3, <2>1, <2>2
  <2>5. q[i] = d[i]
    BY <2>1, <2>2, <2>3
  <2>. QED BY <2>4, <2>5, OctetIs
<1>. HIDE DEF count, d
<1>6. p \in [1 .. count -> Octets]
  BY <1>5
<1>7. p \in Seq(Octets) /\ Len(p) = count
  BY <1>2, <1>6
<1>8. Len(q) = count
  BY <1>2
<1>9. \A i \in 1 .. Len(q) : q[i] \in Nat
  <2>. SUFFICES ASSUME NEW i \in 1 .. count PROVE q[i] \in Nat
    BY <1>8
  <2>1. q[i] = d[i] /\ d[i] \in Nat
    BY <1>4, <1>5
  <2>. QED BY <2>1
<1>. HIDE DEF p, q
<1>10. Number(q, 128) = n
  <2>1. count = IF n <= 127 THEN 1 ELSE IF n <= 16383 THEN 2 ELSE IF n <= 2097151 THEN 3 ELSE 4
    BY VarBytesIs DEF count
  <2>2. /\ n <= 127 \/ count # 1
        /\ n <= 16383 \/ count \notin {1, 2}
        /\ n <= 2097151 \/ count = 4
    BY <1>0, <2>1, SMT
  <2>3. /\ count = 1 => d[1] = n
        /\ count = 2 => d[1] * 128 + d[2] = n
        /\ count = 3 => (d[1] * 128 + d[2]) * 128 + d[3] = n
        /\ count = 4 => ((d[1] * 128 + d[2]) * 128 + d[3]) * 128 + d[4] = n
    BY <1>0, <1>2, <2>2, Four128, SMT DEF d
  <2>4. /\ count = 1 => Number(q, 128) = q[1]
        /\ count = 2 => Number(q, 128) = q[1] * 128 + q[2]
        /\ count = 3 => Number(q, 128) = (q[1] * 128 + q[2]) * 128 + q[3]
        /\ count = 4 => Number(q, 128) = ((q[1] * 128 + q[2]) * 128 + q[3]) * 128 + q[4]
    BY <1>2, <1>8, <1>9, VarNumbers
  <2>5. ASSUME NEW i \in 1 .. 4, i <= count PROVE q[i] = d[i]
    BY <1>2, <1>5, <2>5
  <2>6. CASE count = 1
    BY <2>3, <2>4, <2>5, <2>6
  <2>7. CASE count = 2
    <3>1. q[1] = d[1] /\ q[2] = d[2]
      BY <2>5, <2>7
    <3>. QED BY <2>3, <2>4, <2>7, <3>1
  <2>8. CASE count = 3
    <3>1. q[1] = d[1] /\ q[2] = d[2] /\ q[3] = d[3]
      BY <2>5, <2>8
    <3>. QED BY <2>3, <2>4, <2>8, <3>1
  <2>9. CASE count = 4
    <3>1. q[1] = d[1] /\ q[2] = d[2] /\ q[3] = d[3] /\ q[4] = d[4]
      BY <2>5, <2>9
    <3>. QED BY <2>3, <2>4, <2>9, <3>1
  <2>. QED BY <1>2, <2>6, <2>7, <2>8, <2>9
<1>11. q = [k \in 1 .. Len(p) |-> p[k] % 128]
  BY <1>7 DEF q
<1>. QED BY <1>1, <1>2, <1>5, <1>7, <1>10, <1>11

(* The bytes of a number are the number.                                    *)
CharsetNumbers == {n \in Nat : n <= MaxCharset}

LEMMA CharsetNumbersAre == CharsetNumbers \subseteq Nat
BY SMT DEF CharsetNumbers, MaxCharset

(* mms_output_buffer_put_multi_bytes_int writes a charset number big-       *)
(* endian, in as many bytes as it takes.                                    *)
LEMMA MultiBytesIs ==
  ASSUME NEW n \in CharsetNumbers
  PROVE  LET p == PutMultiBytes(n)
         IN  p \in Seq(Octets) /\ Len(p) = IntBytes(n) /\ IntBytes(n) \in 1 .. 4 /\ Number(p, 256) = n
<1>. DEFINE count == IntBytes(n)
            d == Digits(n, 256, count)
<1>0. n \in Nat /\ n <= 32767 * 65536 + 65535
  BY SMT DEF CharsetNumbers, MaxCharset
<1>1. count = IF n <= 255 THEN 1 ELSE IF n <= 65535 THEN 2 ELSE IF n <= 1048575 THEN 3 ELSE 4
  BY <1>0, IntBytesIs, SMT
<1>2. count \in 1 .. 4
  BY <1>1
<1>3. d \in Seq(Nat) /\ Len(d) = count /\ \A i \in 1 .. count : d[i] \in Nat /\ d[i] < 256
  <2>1. count \in Nat
    BY <1>2
  <2>2. /\ Digits(n, 256, count) \in Seq(Nat) /\ Len(Digits(n, 256, count)) = count
        /\ \A i \in 1 .. count : Digits(n, 256, count)[i] \in Nat /\ Digits(n, 256, count)[i] < 256
    <3>1. n \in Nat /\ 256 \in {10, 128, 256}
      BY <1>0
    <3>. HIDE DEF count
    <3>2. Digits(n, 256, count) \in Seq(Nat)
      BY <2>1, <3>1, DigitsTyped, SMT
    <3>3. Len(Digits(n, 256, count)) = count
      BY <2>1, <3>1, DigitsTyped, SMT
    <3>4. ASSUME NEW i \in 1 .. count PROVE Digits(n, 256, count)[i] \in Nat /\ Digits(n, 256, count)[i] < 256
      BY <2>1, <3>1, DigitsTyped, SMT
    <3>. QED BY <3>2, <3>3, <3>4
  <2>. QED BY <2>2
<1>4. \A i \in 1 .. Len(d) : d[i] \in Nat
  BY <1>3
<1>12. d \in Seq(Octets)
  <2>1. \A i \in 1 .. count : d[i] \in Octets
    BY <1>3, OctetIs
  <2>2. DOMAIN d = 1 .. count /\ d = [i \in 1 .. count |-> d[i]]
    BY <1>3
  <2>3. count \in Nat
    BY <1>2
  <2>. HIDE DEF d, count
  <2>4. d \in [1 .. count -> Octets]
    BY <2>1, <2>2
  <2>. QED BY <2>3, <2>4
<1>5. /\ count = 1 => d[1] = n
      /\ count = 2 => d[1] * 256 + d[2] = n
      /\ count = 3 => (d[1] * 256 + d[2]) * 256 + d[3] = n
      /\ count = 4 => ((d[1] * 256 + d[2]) * 256 + d[3]) * 256 + d[4] = n
  <2>1. /\ n <= 255 \/ count # 1
        /\ n <= 65535 \/ count \notin {1, 2}
        /\ n <= 1048575 \/ count = 4
    <3>. HIDE DEF count
    <3>. QED BY <1>0, <1>1, SMT
  <2>. HIDE DEF count
  <2>. QED BY <1>0, <1>2, <2>1, Four256, SMT
<1>. HIDE DEF d, count
<1>6. /\ count = 1 => Number(d, 256) = d[1]
      /\ count = 2 => Number(d, 256) = d[1] * 256 + d[2]
      /\ count = 3 => Number(d, 256) = (d[1] * 256 + d[2]) * 256 + d[3]
      /\ count = 4 => Number(d, 256) = ((d[1] * 256 + d[2]) * 256 + d[3]) * 256 + d[4]
  <2>1. Len(d) \in 1 .. 4
    BY <1>2, <1>3, Zenon
  <2>2. \A i \in 1 .. Len(d) : d[i] \in Nat
    BY <1>3, Zenon
  <2>3. /\ Len(d) = 1 => Number(d, 256) = d[1]
        /\ Len(d) = 2 => Number(d, 256) = d[1] * 256 + d[2]
        /\ Len(d) = 3 => Number(d, 256) = (d[1] * 256 + d[2]) * 256 + d[3]
        /\ Len(d) = 4 => Number(d, 256) = ((d[1] * 256 + d[2]) * 256 + d[3]) * 256 + d[4]
    BY <2>1, <2>2, OctetNumbers, Zenon
  <2>4. Len(d) = count
    BY <1>3
  <2>. QED BY <2>3, <2>4
<1>7. ASSUME count = 1 PROVE Number(d, 256) = n
  <2>1. Number(d, 256) = d[1] /\ d[1] = n
    BY <1>5, <1>6, <1>7
  <2>. QED BY <2>1
<1>8. ASSUME count = 2 PROVE Number(d, 256) = n
  <2>1. Number(d, 256) = d[1] * 256 + d[2] /\ d[1] * 256 + d[2] = n
    BY <1>5, <1>6, <1>8
  <2>. QED BY <2>1
<1>9. ASSUME count = 3 PROVE Number(d, 256) = n
  <2>1. /\ Number(d, 256) = (d[1] * 256 + d[2]) * 256 + d[3]
        /\ (d[1] * 256 + d[2]) * 256 + d[3] = n
    BY <1>5, <1>6, <1>9
  <2>. QED BY <2>1
<1>10. ASSUME count = 4 PROVE Number(d, 256) = n
  <2>1. /\ Number(d, 256) = ((d[1] * 256 + d[2]) * 256 + d[3]) * 256 + d[4]
        /\ ((d[1] * 256 + d[2]) * 256 + d[3]) * 256 + d[4] = n
    BY <1>5, <1>6, <1>10
  <2>. QED BY <2>1
<1>11. Number(d, 256) = n
  BY <1>2, <1>7, <1>8, <1>9, <1>10
<1>. QED BY <1>2, <1>3, <1>11, <1>12 DEF PutMultiBytes, d, count

-----------------------------------------------------------------------------
(* Bytes that lie ahead.                                                   *)

Ahead(w, from, p, end) ==
  /\ w \in Seq(Octets) /\ p \in Seq(Octets)
  /\ from \in Nat /\ end \in Nat
  /\ from + Len(p) <= end /\ end <= Len(w)
  /\ \A i \in 1 .. Len(p) : w[from + i] = p[i]

(* Bytes behind bytes.                                                      *)
LEMMA Joined ==
  ASSUME NEW p \in Seq(Octets), NEW q \in Seq(Octets)
  PROVE  p \o q \in Seq(Octets) /\ Len(p \o q) = Len(p) + Len(q)
BY ConcatProperties

LEMMA JoinedThree ==
  ASSUME NEW p \in Seq(Octets), NEW q \in Seq(Octets), NEW r \in Seq(Octets)
  PROVE  (p \o q) \o r = p \o (q \o r)
BY ConcatAssociative

(* Where two pieces lie ahead, each does, the second behind the first.      *)
LEMMA AheadSplit ==
  ASSUME NEW w, NEW from, NEW end, NEW p \in Seq(Octets), NEW q \in Seq(Octets),
         Ahead(w, from, p \o q, end)
  PROVE  Ahead(w, from, p, end) /\ Ahead(w, from + Len(p), q, end)
<1>1. /\ p \o q \in Seq(Octets) /\ Len(p \o q) = Len(p) + Len(q)
      /\ \A i \in 1 .. Len(p) + Len(q) : (p \o q)[i] = IF i <= Len(p) THEN p[i] ELSE q[i - Len(p)]
  BY ConcatProperties
<1>2. Len(p) \in Nat /\ Len(q) \in Nat
  OBVIOUS
<1>. DEFINE r == p \o q
<1>. HIDE DEF r
<1>3. /\ w \in Seq(Octets) /\ from \in Nat /\ end \in Nat
      /\ from + (Len(p) + Len(q)) <= end /\ end <= Len(w)
      /\ \A i \in 1 .. Len(p) + Len(q) : w[from + i] = r[i]
  BY <1>1 DEF Ahead, r
<1>4. ASSUME NEW i \in 1 .. Len(p) PROVE w[from + i] = p[i]
  <2>1. i \in 1 .. Len(p) + Len(q) /\ i <= Len(p)
    BY <1>2
  <2>. QED BY <1>1, <1>3, <2>1 DEF r
<1>5. ASSUME NEW i \in 1 .. Len(q) PROVE w[(from + Len(p)) + i] = q[i]
  <2>. DEFINE j == Len(p) + i
  <2>1. j \in 1 .. Len(p) + Len(q) /\ ~ (j <= Len(p)) /\ j - Len(p) = i
    BY <1>2
  <2>2. from + j = (from + Len(p)) + i
    BY <1>2, <1>3
  <2>. HIDE DEF j
  <2>3. w[from + j] = r[j]
    BY <1>3, <2>1
  <2>4. r[j] = q[i]
    BY <1>1, <2>1 DEF r
  <2>. QED BY <2>2, <2>3, <2>4
<1>6. Ahead(w, from, p, end)
  BY <1>2, <1>3, <1>4 DEF Ahead
<1>7. Ahead(w, from + Len(p), q, end)
  <2>1. from + Len(p) \in Nat /\ (from + Len(p)) + Len(q) <= end
    BY <1>2, <1>3
  <2>. QED BY <1>3, <1>5, <2>1 DEF Ahead
<1>. QED BY <1>6, <1>7

(* Up to a nearer limit.                                                    *)
LEMMA AheadLimit ==
  ASSUME NEW w, NEW from, NEW p, NEW end, Ahead(w, from, p, end)
  PROVE  /\ Ahead(w, from, p, from + Len(p))
         /\ Limit(w, from + Len(p), end) = from + Len(p)
<1>1. from + Len(p) \in Nat /\ from + Len(p) <= Len(w)
  BY DEF Ahead
<1>. QED BY <1>1 DEF Ahead, Limit

(* A byte of them.                                                         *)
LEMMA AheadPeek ==
  ASSUME NEW w, NEW from, NEW p, NEW end, Ahead(w, from, p, end), NEW i \in 1 .. Len(p)
  PROVE  Peek(w, from + i - 1, end) = p[i] /\ p[i] \in Octets
<1>1. /\ from \in Nat /\ end \in Nat /\ Len(w) \in Nat /\ Len(p) \in Nat
      /\ from + Len(p) <= end /\ end <= Len(w) /\ w[from + i] = p[i] /\ p[i] \in Octets
  BY DEF Ahead
<1>2. /\ from + i - 1 < end /\ from + i - 1 < Len(w) /\ (from + i - 1) + 1 = from + i
  BY <1>1
<1>. QED BY <1>1, <1>2 DEF Peek

(* The first byte of a piece is what the reader peeks at.                   *)
LEMMA AheadFirst ==
  ASSUME NEW w, NEW from, NEW p, NEW end, Ahead(w, from, p, end), Len(p) >= 1
  PROVE  Peek(w, from, end) = p[1] /\ p[1] \in Octets /\ from < end
<1>1. from \in Nat /\ end \in Nat /\ Len(p) \in Nat /\ from + Len(p) <= end
  BY DEF Ahead
<1>2. 1 \in 1 .. Len(p) /\ from + 1 - 1 = from
  BY <1>1
<1>3. Peek(w, from + 1 - 1, end) = p[1] /\ p[1] \in Octets
  BY <1>2, AheadPeek
<1>. QED BY <1>1, <1>2, <1>3

LEMMA AheadBehind ==
  ASSUME NEW w, NEW from, NEW p, NEW end, Ahead(w, from, p, end)
  PROVE  Behind(from, Len(p), end) = from + Len(p)
<1>1. from \in Nat /\ end \in Nat /\ Len(p) \in Nat /\ from + Len(p) <= end
  BY DEF Ahead
<1>2. CASE from >= end
  BY <1>1, <1>2 DEF Behind
<1>3. CASE ~ (from >= end)
  <2>1. Min({from + Len(p), end}) = from + Len(p)
    BY <1>1 DEF Min
  <2>. QED BY <1>3, <2>1 DEF Behind
<1>. QED BY <1>2, <1>3

-----------------------------------------------------------------------------
(* What each getter gives of the bytes its packer writes.                    *)

(* Both fields, as one equation.                                            *)
LEMMA ReadIs ==
  ASSUME NEW v, NEW x
  PROVE  Read(v, x).value = v /\ Read(v, x).at = x
BY DEF Read

(* A byte, and a short integer.                                             *)
LEMMA Int8Read ==
  ASSUME NEW w, NEW from, NEW byte, NEW end, Ahead(w, from, <<byte>>, end)
  PROVE  /\ GetInt8(w, from, end) = Read(byte, from + 1)
         /\ Peek(w, from, end) = byte /\ byte \in Octets /\ from < end
<1>. DEFINE p == <<byte>>
<1>1. Len(p) = 1 /\ p[1] = byte
  OBVIOUS
<1>. HIDE DEF p
<1>2. Ahead(w, from, p, end)
  BY DEF p
<1>3. Peek(w, from, end) = byte /\ byte \in Octets /\ from < end
  BY <1>1, <1>2, AheadFirst
<1>4. Behind(from, 1, end) = from + 1
  BY <1>1, <1>2, AheadBehind
<1>. QED BY <1>3, <1>4 DEF GetInt8

LEMMA ShortIntRead ==
  ASSUME NEW w, NEW from, NEW number \in Nat, number <= 127, NEW end,
         Ahead(w, from, <<128 + number>>, end)
  PROVE  /\ GetShortInt(w, from, end) = Read(AsLong(number), from + 1)
         /\ IsShortInt(w, from, end) /\ ~ IsString(w, from, end) /\ ~ IsValueLength(w, from, end)
         /\ Low(AsLong(number)) = number
<1>1. Peek(w, from, end) = 128 + number
  BY Int8Read
<1>2. (128 + number) % 128 = number
  OBVIOUS
<1>3. GetShortInt(w, from, end) = Read(AsLong(number), from + 1)
  <2>. DEFINE p == <<128 + number>>
  <2>1. Len(p) = 1
    OBVIOUS
  <2>. HIDE DEF p
  <2>2. Ahead(w, from, p, end)
    BY DEF p
  <2>3. Behind(from, 1, end) = from + 1
    BY <2>1, <2>2, AheadBehind
  <2>. QED BY <1>1, <1>2, <2>3 DEF GetShortInt
<1>4. Low(AsLong(number)) = number
  BY DEF Low, AsLong, Last
<1>. QED BY <1>1, <1>3, <1>4 DEF IsShortInt, IsString, IsValueLength

(* A text, up to the NUL.                                                   *)
LEMMA PutStringIs ==
  ASSUME NEW t \in Seq(Characters)
  PROVE  /\ PutString(t) \in Seq(Octets) /\ Len(PutString(t)) = Len(t) + 1
         /\ \A i \in 1 .. Len(t) : PutString(t)[i] = t[i]
         /\ PutString(t)[Len(t) + 1] = 0
<1>1. t \in Seq(Octets) /\ 0 \in Octets
  <2>1. Characters \subseteq Octets
    BY CharactersAre
  <2>. QED BY <2>1, SeqMonotonic, OctetIs
<1>. QED BY <1>1, AppendProperties DEF PutString

(* A text that holds no NUL is read as far as the one put behind it.        *)
LEMMA StringRead ==
  ASSUME NEW w, NEW from, NEW t \in Seq(Characters), NEW end, Ahead(w, from, PutString(t), end)
  PROVE  GetString(w, from, end) = Read(t, from + Len(PutString(t)))
<1>. DEFINE p == PutString(t)
            k == from + Len(t) + 1
<1>1. /\ p \in Seq(Octets) /\ Len(p) = Len(t) + 1 /\ p[Len(t) + 1] = 0
      /\ \A i \in 1 .. Len(t) : p[i] = t[i]
  BY PutStringIs
<1>. HIDE DEF p
<1>2. Ahead(w, from, p, end)
  BY DEF p
<1>3. /\ from \in Nat /\ end \in Nat /\ Len(w) \in Nat /\ Len(t) \in Nat /\ w \in Seq(Octets)
      /\ from + Len(t) + 1 <= end /\ end <= Len(w)
  BY <1>1, <1>2 DEF Ahead
<1>4. w[k] = 0
  <2>1. Len(t) + 1 \in 1 .. Len(p)
    BY <1>1, <1>3
  <2>2. w[from + (Len(t) + 1)] = 0
    BY <1>1, <1>2, <2>1 DEF Ahead
  <2>3. from + (Len(t) + 1) = k
    BY <1>3
  <2>. QED BY <2>2, <2>3
<1>5. ASSUME NEW j \in from + 1 .. k - 1 PROVE j <= Len(w) /\ w[j] # 0 /\ w[j] = t[j - from]
  <2>. DEFINE i == j - from
  <2>1. i \in 1 .. Len(t) /\ i \in 1 .. Len(p) /\ from + i = j /\ j <= Len(w)
    BY <1>1, <1>3
  <2>. HIDE DEF i
  <2>2. w[from + i] = p[i]
    BY <1>2, <2>1 DEF Ahead
  <2>3. p[i] = t[i]
    BY <1>1, <2>1
  <2>4. t[i] # 0
    <3>1. t[i] \in Characters
      BY <2>1, ElementOfSeq
    <3>. QED BY <3>1, CharactersAre
  <2>5. w[j] = t[i]
    BY <2>1, <2>2, <2>3
  <2>6. w[j] # 0
    BY <2>4, <2>5, Zenon
  <2>. QED BY <2>1, <2>5, <2>6 DEF i
<1>6. k \in from + 1 .. Len(w) + 1
  BY <1>3
<1>7. Nul(w, from) = k
  <2>. DEFINE Q(j) == (j > Len(w) \/ w[j] = 0)
  <2>1. Q(k)
    BY <1>4
  <2>2. ASSUME NEW j \in from + 1 .. k - 1 PROVE ~ Q(j)
    BY <1>3, <1>5
  <2>3. ASSUME NEW m \in from + 1 .. Len(w) + 1, Q(m), \A j \in from + 1 .. m - 1 : ~ Q(j)
        PROVE  m = k
    <3>1. ~ (m < k)
      BY <1>3, <2>2, <2>3
    <3>2. ~ (k < m)
      BY <1>3, <1>6, <2>1, <2>3
    <3>. QED BY <1>3, <3>1, <3>2
  <2>4. Nul(w, from) = CHOOSE m \in from + 1 .. Len(w) + 1 : Q(m) /\ \A j \in from + 1 .. m - 1 : ~ Q(j)
    BY DEF Nul, First
  <2>. HIDE DEF Q
  <2>. QED BY <1>6, <2>1, <2>2, <2>3, <2>4
<1>8. SubSeq(w, from + 1, k - 1) = t
  <2>1. /\ SubSeq(w, from + 1, k - 1) \in Seq(Octets) /\ Len(SubSeq(w, from + 1, k - 1)) = Len(t)
        /\ \A i \in 1 .. Len(t) : SubSeq(w, from + 1, k - 1)[i] = w[from + 1 + i - 1]
    <3>1. \A i \in from + 1 .. k - 1 : w[i] \in Octets
      BY <1>3
    <3>2. from + 1 \in Int /\ k - 1 \in Int /\ (k - 1) - (from + 1) + 1 = Len(t)
      BY <1>3
    <3>. HIDE DEF k
    <3>. QED BY <1>3, <3>1, <3>2, SubSeqProperties
  <2>. DEFINE s == SubSeq(w, from + 1, k - 1)
  <2>. HIDE DEF s
  <2>2. ASSUME NEW i \in 1 .. Len(s) PROVE s[i] = t[i]
    <3>1. from + i \in from + 1 .. k - 1 /\ (from + i) - from = i /\ from + 1 + i - 1 = from + i
      BY <1>3, <2>1 DEF s
    <3>2. w[from + i] = t[i]
      BY <1>5, <3>1
    <3>. QED BY <2>1, <3>1, <3>2 DEF s
  <2>3. t \in Seq(Octets)
    <3>1. Characters \subseteq Octets
      BY CharactersAre
    <3>. QED BY <3>1, SeqMonotonic
  <2>4. s = t
    BY <2>1, <2>2, <2>3, SeqEqual DEF s
  <2>. QED BY <2>4 DEF s
<1>9. ~ (from >= end)
  BY <1>3
<1>10. GetString(w, from, end) = Read(t, k)
  BY <1>7, <1>8, <1>9 DEF GetString, TextUpTo
<1>11. k = from + Len(PutString(t))
  BY <1>1, <1>3 DEF p
<1>. QED BY <1>10, <1>11

(* As many bytes as there are, one by one.                                  *)
LEMMA PeeksAre ==
  ASSUME NEW w, NEW from, NEW p, NEW end, Ahead(w, from, p, end)
  PROVE  [k \in 1 .. Len(p) |-> Peek(w, from + k - 1, end)] = p
<1>1. p \in Seq(Octets)
  BY DEF Ahead
<1>2. DOMAIN p = 1 .. Len(p) /\ p = [k \in 1 .. Len(p) |-> p[k]]
  BY <1>1
<1>3. ASSUME NEW k \in 1 .. Len(p) PROVE Peek(w, from + k - 1, end) = p[k]
  BY AheadPeek
<1>. QED BY <1>2, <1>3

(* A variable length integer is read as the number that was put.            *)
LEMMA VarIntRead ==
  ASSUME NEW w, NEW from, NEW n \in Lengths, NEW end, Ahead(w, from, PutVarInt(n), end)
  PROVE  GetVarInt(w, from, end) = Read(n, from + Len(PutVarInt(n)))
<1>. DEFINE p == PutVarInt(n)
            last == from + Len(p) - 1
<1>1. /\ p \in Seq(Octets) /\ Len(p) \in Nat /\ 1 <= Len(p) /\ Len(p) <= 4
      /\ \A i \in 1 .. Len(p) - 1 : p[i] >= 128
      /\ p[Len(p)] < 128
      /\ Number([k \in 1 .. Len(p) |-> p[k] % 128], 128) = n
  BY VarIntIs
<1>. HIDE DEF p
<1>2. Ahead(w, from, p, end)
  BY DEF p
<1>0. Len(p) \in Nat /\ 1 <= Len(p) /\ Len(p) <= 4
  BY <1>1
<1>20. p[Len(p)] < 128
  BY <1>1
<1>3. /\ from \in Nat /\ end \in Nat /\ Len(w) \in Nat /\ Len(p) \in Nat
      /\ from + Len(p) <= end /\ end <= Len(w)
  BY <1>2 DEF Ahead
<1>4. ASSUME NEW k \in from .. last
      PROVE  k - from + 1 \in 1 .. Len(p) /\ Peek(w, k, end) = p[k - from + 1]
  <2>1. k - from + 1 \in 1 .. Len(p) /\ from + (k - from + 1) - 1 = k
    BY <1>0, <1>3
  <2>2. Peek(w, from + (k - from + 1) - 1, end) = p[k - from + 1]
    BY <1>2, <2>1, AheadPeek
  <2>. QED BY <2>1, <2>2
<1>5. last \in from .. from + Len(w) /\ last - from + 1 = Len(p)
  <2>1. from \in Nat /\ Len(p) \in Nat /\ Len(w) \in Nat /\ from + Len(p) <= Len(w)
    BY <1>3
  <2>2. 1 <= Len(p)
    BY <1>0
  <2>. QED BY <2>1, <2>2
<1>. DEFINE Q(j) == Peek(w, j, end) < 128
<1>6. Q(last)
  <2>1. Peek(w, last, end) = p[last - from + 1]
    <3>1. last \in from .. last
      <4>1. from \in Nat /\ Len(p) \in Nat
        BY <1>3
      <4>. QED BY <1>0, <4>1
    <3>. HIDE DEF last
    <3>. QED BY <1>4, <3>1
  <2>2. p[last - from + 1] = p[Len(p)]
    BY <1>5
  <2>. HIDE DEF last
  <2>. QED BY <1>20, <2>1, <2>2, Zenon
<1>7. ASSUME NEW j \in from .. last - 1 PROVE ~ Q(j)
  <2>. DEFINE i == j - from + 1
  <2>1. j \in from .. last /\ i \in 1 .. Len(p) - 1 /\ i \in 1 .. Len(p)
    BY <1>0, <1>3
  <2>2. Peek(w, j, end) = p[i]
    BY <1>4, <2>1
  <2>. HIDE DEF i
  <2>3. p[i] >= 128
    BY <1>1, <2>1
  <2>4. p[i] \in 0 .. 255
    BY <1>1, <2>1, ElementOfSeq DEF Octets
  <2>5. \A x \in 0 .. 255 : x >= 128 => ~ (x < 128)
    OBVIOUS
  <2>6. ~ (p[i] < 128)
    BY <2>3, <2>4, <2>5, Zenon
  <2>. QED BY <2>2, <2>6, Zenon
<1>8. First(from, from + Len(w), Q) = last
  <2>3. ASSUME NEW m \in from .. from + Len(w), Q(m), \A j \in from .. m - 1 : ~ Q(j)
        PROVE  m = last
    <3>1. ~ (m < last)
      BY <1>3, <1>5, <1>7, <2>3
    <3>2. ~ (last < m)
      BY <1>3, <1>5, <1>6, <2>3
    <3>. QED BY <1>3, <1>5, <3>1, <3>2
  <2>4. First(from, from + Len(w), Q)
          = CHOOSE m \in from .. from + Len(w) : Q(m) /\ \A j \in from .. m - 1 : ~ Q(j)
    BY DEF First
  <2>. HIDE DEF Q, last
  <2>. QED BY <1>5, <1>6, <1>7, <2>3, <2>4
<1>9. GetVarInt(w, from, end) = VarIntUpTo(w, from, end, last)
  BY <1>8 DEF GetVarInt
<1>10. [k \in 1 .. Len(p) |-> Peek(w, from + k - 1, end) % 128] = [k \in 1 .. Len(p) |-> p[k] % 128]
  <2>1. ASSUME NEW k \in 1 .. Len(p) PROVE Peek(w, from + k - 1, end) = p[k]
    BY <1>2, AheadPeek
  <2>. QED BY <2>1
<1>11. Behind(from, Len(p), end) = from + Len(p)
  BY <1>2, AheadBehind
<1>12. VarIntUpTo(w, from, end, last) = Read(n, from + Len(p))
  <2>1. VarIntUpTo(w, from, end, last)
          = Read(Number([k \in 1 .. Len(p) |-> Peek(w, from + k - 1, end) % 128], 128),
                 Behind(from, Len(p), end))
    BY <1>5 DEF VarIntUpTo
  <2>. QED BY <1>1, <1>10, <1>11, <2>1
<1>. QED BY <1>9, <1>12 DEF p

(* A value length is a byte up to 30, or a 31 and a variable length         *)
(* integer.                                                                 *)
LEMMA ValueLengthIs ==
  ASSUME NEW n \in Lengths
  PROVE  /\ PutValueLength(n) \in Seq(Octets) /\ n \in Nat
         /\ Len(PutValueLength(n)) \in Nat /\ 1 <= Len(PutValueLength(n)) /\ Len(PutValueLength(n)) <= 5
         /\ PutValueLength(n)[1] \in 0 .. 31
         /\ n <= 30 => PutValueLength(n) = <<n>>
         /\ n > 30 => PutValueLength(n) = <<31>> \o PutVarInt(n)
<1>. DEFINE p == PutVarInt(n)
<1>0. n \in Nat
  BY LengthsAre
<1>1. p \in Seq(Octets) /\ Len(p) \in Nat /\ 1 <= Len(p) /\ Len(p) <= 4
  BY VarIntIs
<1>. HIDE DEF p
<1>2. CASE n <= 30
  <2>1. PutValueLength(n) = <<n>>
    BY <1>2 DEF PutValueLength
  <2>2. n \in Octets
    BY <1>0, <1>2 DEF Octets
  <2>. QED BY <1>0, <1>2, <2>1, <2>2
<1>3. CASE ~ (n <= 30)
  <2>. DEFINE v == <<31>> \o p
  <2>1. PutValueLength(n) = v
    BY <1>3 DEF PutValueLength, p
  <2>2. <<31>> \in Seq(Octets) /\ Len(<<31>>) = 1 /\ <<31>>[1] = 31
    BY DEF Octets
  <2>3. v \in Seq(Octets) /\ Len(v) = 1 + Len(p) /\ v[1] = 31
    <3>1. 1 \in 1 .. 1 + Len(p)
      BY <1>1
    <3>. QED BY <1>1, <2>2, <3>1, ConcatProperties
  <2>. HIDE DEF v
  <2>4. Len(v) \in Nat /\ 1 <= Len(v) /\ Len(v) <= 5
    <3>1. Len(v) = 1 + Len(p)
      BY <2>3
    <3>2. Len(p) \in Nat /\ 1 <= Len(p) /\ Len(p) <= 4
      BY <1>1
    <3>. QED BY <3>1, <3>2
  <2>5. v[1] \in 0 .. 31
    BY <2>3
  <2>6. ~ (n <= 30) /\ n > 30
    BY <1>0, <1>3
  <2>7. v \in Seq(Octets)
    BY <2>3
  <2>8. v = <<31>> \o PutVarInt(n)
    BY DEF v, p
  <2>. QED BY <1>0, <2>1, <2>4, <2>5, <2>6, <2>7, <2>8, Zenon
<1>. QED BY <1>2, <1>3

(* It is read as it was put, and is no text.                                *)
LEMMA ValueLengthRead ==
  ASSUME NEW w, NEW from, NEW n \in Lengths, NEW end, Ahead(w, from, PutValueLength(n), end)
  PROVE  /\ GetValueLength(w, from, end) = Read(n, from + Len(PutValueLength(n)))
         /\ IsValueLength(w, from, end) /\ ~ IsString(w, from, end) /\ from < end
<1>0. n \in Nat
  BY LengthsAre
<1>1. CASE n <= 30
  <2>1. PutValueLength(n) = <<n>> /\ Len(<<n>>) = 1
    BY <1>1 DEF PutValueLength
  <2>2. GetInt8(w, from, end) = Read(n, from + 1) /\ Peek(w, from, end) = n /\ from < end
    BY <2>1, Int8Read
  <2>. QED BY <1>0, <1>1, <2>1, <2>2 DEF GetValueLength, IsValueLength, IsString
<1>2. CASE ~ (n <= 30)
  <2>. DEFINE p == PutVarInt(n)
  <2>1. PutValueLength(n) = <<31>> \o p
    BY <1>2 DEF PutValueLength
  <2>2. p \in Seq(Octets) /\ Len(p) \in Nat /\ 1 <= Len(p) /\ Len(p) <= 4 /\ <<31>> \in Seq(Octets) /\ Len(<<31>>) = 1
    <3>1. p \in Seq(Octets) /\ Len(p) \in Nat /\ 1 <= Len(p) /\ Len(p) <= 4
      BY VarIntIs
    <3>2. <<31>> \in Seq(Octets) /\ Len(<<31>>) = 1
      BY DEF Octets
    <3>. QED BY <3>1, <3>2
  <2>. HIDE DEF p
  <2>3. Ahead(w, from, <<31>>, end) /\ Ahead(w, from + 1, p, end)
    <3>. DEFINE q == <<31>>
    <3>1. q \in Seq(Octets) /\ Len(q) = 1
      BY <2>2
    <3>2. Ahead(w, from, q \o p, end)
      BY <2>1
    <3>. HIDE DEF q
    <3>3. Ahead(w, from, q, end) /\ Ahead(w, from + Len(q), p, end)
      BY <2>2, <3>1, <3>2, AheadSplit
    <3>. QED BY <3>1, <3>3 DEF q
  <2>4. Peek(w, from, end) = 31 /\ from < end
    BY <2>3, Int8Read
  <2>5. Behind(from, 1, end) = from + 1
    BY <2>2, <2>3, AheadBehind
  <2>6. GetVarInt(w, from + 1, end) = Read(n, (from + 1) + Len(p))
    BY <2>3, VarIntRead DEF p
  <2>7. (from + 1) + Len(p) = from + Len(PutValueLength(n))
    <3>1. Len(<<31>> \o p) = 1 + Len(p)
      BY <2>2, ConcatProperties
    <3>2. from \in Nat /\ Len(p) \in Nat
      BY <2>2, <2>3 DEF Ahead
    <3>. QED BY <2>1, <3>1, <3>2
  <2>. QED BY <2>4, <2>5, <2>6, <2>7 DEF GetValueLength, IsValueLength, IsString
<1>. QED BY <1>1, <1>2

(* The bytes of a number are read as the number.                            *)
LEMMA MultiBytesRead ==
  ASSUME NEW w, NEW from, NEW n \in CharsetNumbers, NEW end, Ahead(w, from, PutMultiBytes(n), end)
  PROVE  GetMultiBytes(w, from, end, IntBytes(n)) = Read(n, from + IntBytes(n))
<1>. DEFINE p == PutMultiBytes(n)
<1>1. p \in Seq(Octets) /\ Len(p) = IntBytes(n) /\ IntBytes(n) \in 1 .. 4 /\ Number(p, 256) = n
  BY MultiBytesIs
<1>. HIDE DEF p
<1>2. Ahead(w, from, p, end)
  BY DEF p
<1>3. [k \in 1 .. Len(p) |-> Peek(w, from + k - 1, end)] = p
  BY <1>2, PeeksAre
<1>4. Behind(from, Len(p), end) = from + Len(p)
  BY <1>2, AheadBehind
<1>5. ~ (IntBytes(n) > 8)
  BY <1>1
<1>. QED BY <1>1, <1>3, <1>4, <1>5 DEF GetMultiBytes

(* A long has no leading zero that the reader would drop.                   *)
LEMMA LongOfIs ==
  ASSUME NEW d, IsLong(d), d # <<>>
  PROVE  LongOf(d) = d
<1>1. /\ d \in Seq(Octets) /\ d[1] # 0 /\ (Len(d) = 4 => d[1] < 128)
      /\ DOMAIN d = 1 .. Len(d) /\ Len(d) \in Nat /\ Len(d) # 0
  BY DEF IsLong
<1>. DEFINE nonzero == {i \in DOMAIN d : d[i] # 0}
<1>2. 1 \in nonzero /\ \A i \in nonzero : i \in Nat /\ 1 <= i
  BY <1>1
<1>3. Min(nonzero) = 1
  <2>. HIDE DEF nonzero
  <2>. QED BY <1>2 DEF Min
<1>4. Trimmed(d) = d
  <2>1. nonzero # {}
    BY <1>2
  <2>2. Trimmed(d) = SubSeq(d, 1, Len(d))
    BY <1>3, <2>1 DEF Trimmed
  <2>. QED BY <1>1, <2>2, SubSeqFull
<1>5. ~ (Len(d) = 4 /\ d[1] >= 128)
  <2>1. d[1] \in 0 .. 255
    <3>1. 1 \in 1 .. Len(d)
      BY <1>1
    <3>. QED BY <1>1, <3>1, ElementOfSeq DEF Octets
  <2>2. Len(d) = 4 => d[1] < 128
    BY <1>1
  <2>3. \A x \in 0 .. 255 : x < 128 => ~ (x >= 128)
    OBVIOUS
  <2>. QED BY <2>1, <2>2, <2>3, Zenon
<1>. QED BY <1>4, <1>5 DEF LongOf

LEMMA LongIntIs ==
  ASSUME NEW d, IsLong(d)
  PROVE  /\ PutLongInt(d) \in Seq(Octets) /\ Len(PutLongInt(d)) \in Nat /\ 2 <= Len(PutLongInt(d)) /\ Len(PutLongInt(d)) <= 5
         /\ PutLongInt(d)[1] \in 1 .. 4
         /\ d # <<>> => PutLongInt(d) = <<Len(d)>> \o d
         /\ d = <<>> => PutLongInt(d) = <<1>> \o <<0>>
<1>1. CASE d = <<>>
  <2>1. PutLongInt(d) = <<1, 0>>
    BY <1>1 DEF PutLongInt
  <2>2. <<1, 0>> \in Seq(Octets)
    BY DEF Octets
  <2>3. Len(<<1, 0>>) = 2 /\ <<1, 0>>[1] = 1
    OBVIOUS
  <2>4. <<1>> \o <<0>> = <<1, 0>>
    <3>. DEFINE a == <<1>>
                b == <<0>>
                e == <<1, 0>>
    <3>1. a \in Seq(Octets) /\ b \in Seq(Octets) /\ Len(a) = 1 /\ Len(b) = 1 /\ a[1] = 1 /\ b[1] = 0
      BY DEF Octets
    <3>2. e \in Seq(Octets) /\ Len(e) = 2 /\ e[1] = 1 /\ e[2] = 0
      BY <2>2, <2>3
    <3>. HIDE DEF a, b, e
    <3>3. /\ a \o b \in Seq(Octets) /\ Len(a \o b) = 2
          /\ \A i \in 1 .. 2 : (a \o b)[i] = IF i <= 1 THEN a[i] ELSE b[i - 1]
      BY <3>1, ConcatProperties
    <3>4. (a \o b)[1] = 1 /\ (a \o b)[2] = 0
      BY <3>1, <3>3
    <3>5. a \o b = e
      <4>1. ASSUME NEW i \in 1 .. Len(a \o b) PROVE (a \o b)[i] = e[i]
        <5>1. i = 1 \/ i = 2
          BY <3>3
        <5>. QED BY <3>2, <3>4, <5>1
      <4>2. Len(a \o b) = Len(e)
        BY <3>2, <3>3
      <4>. QED BY <3>2, <3>3, <4>1, <4>2, SeqEqual
    <3>. QED BY <3>5 DEF a, b, e
  <2>. DEFINE v == <<1, 0>>
  <2>5. v \in Seq(Octets) /\ <<1>> \o <<0>> = v /\ PutLongInt(d) = v
    BY <2>1, <2>2, <2>4
  <2>6. Len(v) \in Nat /\ 2 <= Len(v) /\ Len(v) <= 5 /\ v[1] \in 1 .. 4
    BY <2>3
  <2>. HIDE DEF v
  <2>. QED BY <1>1, <2>5, <2>6, Zenon
<1>2. CASE d # <<>>
  <2>1. PutLongInt(d) = <<Len(d)>> \o d
    BY <1>2 DEF PutLongInt
  <2>2. d \in Seq(Octets) /\ Len(d) \in Nat /\ 1 <= Len(d) /\ Len(d) <= 4
    <3>1. d \in Seq(Octets)
      BY DEF IsLong
    <3>2. Len(d) \in Nat /\ Len(d) # 0
      BY <1>2, <3>1
    <3>3. Len(d) <= 4
      BY DEF IsLong
    <3>4. Len(d) \in Nat /\ 1 <= Len(d) /\ Len(d) <= 4
      <4>1. Len(d) \in Nat /\ 1 <= Len(d)
        BY <3>2
      <4>. QED BY <3>3, <4>1
    <3>. QED BY <3>1, <3>4
  <2>. DEFINE p == <<Len(d)>>
  <2>3. p \in Seq(Octets) /\ Len(p) = 1 /\ p[1] = Len(d)
    <3>1. ASSUME NEW x \in Nat, x <= 4 PROVE x \in Octets
      BY <3>1 DEF Octets
    <3>2. Len(d) \in Octets
      BY <2>2, <3>1
    <3>. QED BY <3>2
  <2>. HIDE DEF p
  <2>4. /\ p \o d \in Seq(Octets) /\ Len(p \o d) = 1 + Len(d) /\ (p \o d)[1] = p[1]
    <3>1. 1 \in 1 .. 1 + Len(d)
      BY <2>2
    <3>. QED BY <2>2, <2>3, <3>1, ConcatProperties
  <2>5. Len(p \o d) \in 2 .. 5 /\ (p \o d)[1] \in 1 .. 4
    BY <2>2, <2>3, <2>4
  <2>. QED BY <1>2, <2>1, <2>4, <2>5 DEF p
<1>. QED BY <1>1, <1>2

(* A long is read as its digits.                                            *)
LEMMA LongIntRead ==
  ASSUME NEW w, NEW from, NEW d, IsLong(d), NEW end, Ahead(w, from, PutLongInt(d), end)
  PROVE  /\ GetLongInt(w, from, end) = Read(d, from + Len(PutLongInt(d)))
         /\ GetInt(w, from, end) = Read(d, from + Len(PutLongInt(d)))
         /\ ~ IsString(w, from, end)
<1>. DEFINE c == IF d = <<>> THEN 1 ELSE Len(d)
            p == IF d = <<>> THEN <<0>> ELSE d
<1>1. PutLongInt(d) = <<c>> \o p
  BY LongIntIs
<1>2. /\ p \in Seq(Octets) /\ <<c>> \in Seq(Octets) /\ Len(<<c>>) = 1
      /\ Len(p) = c /\ c \in Nat /\ 1 <= c /\ c <= 4
  <2>1. d \in Seq(Octets) /\ Len(d) <= 4 /\ Len(d) \in Nat
    BY DEF IsLong
  <2>2. CASE d = <<>>
    BY <2>2 DEF Octets
  <2>3. CASE d # <<>>
    <3>1. p = d /\ c = Len(d)
      BY <2>3
    <3>2. Len(d) \in Nat /\ 1 <= Len(d) /\ Len(d) <= 4
      <4>1. Len(d) # 0
        BY <2>1, <2>3
      <4>2. Len(d) <= 4 /\ Len(d) \in Nat
        BY <2>1
      <4>3. Len(d) \in Nat /\ 1 <= Len(d)
        BY <4>1, <4>2
      <4>. QED BY <4>2, <4>3
    <3>. HIDE DEF p, c
    <3>3. <<c>> \in Seq(Octets) /\ Len(<<c>>) = 1
      <4>1. ASSUME NEW x \in Nat, x <= 4 PROVE x \in Octets
        BY <4>1 DEF Octets
      <4>2. c \in Octets
        BY <3>1, <3>2, <4>1
      <4>. QED BY <4>2
    <3>. QED BY <2>1, <3>1, <3>2, <3>3
  <2>. QED BY <2>2, <2>3
<1>3. LongOf(p) = d
  <2>1. CASE d = <<>>
    <3>1. p = <<0>>
      BY <2>1
    <3>2. LongOf(<<0>>) = Trimmed(<<0>>)
      BY DEF LongOf
    <3>3. {i \in DOMAIN <<0>> : <<0>>[i] # 0} = {}
      OBVIOUS
    <3>. QED BY <2>1, <3>1, <3>2, <3>3 DEF Trimmed
  <2>2. CASE d # <<>>
    BY <2>2, LongOfIs
  <2>. QED BY <2>1, <2>2
<1>. HIDE DEF c, p
<1>4. Ahead(w, from, <<c>>, end) /\ Ahead(w, from + 1, p, end)
  BY <1>1, <1>2, AheadSplit
<1>5. GetInt8(w, from, end) = Read(c, from + 1) /\ Peek(w, from, end) = c
  BY <1>4, Int8Read
<1>6. [k \in 1 .. c |-> Peek(w, (from + 1) + k - 1, end)] = p
  BY <1>2, <1>4, PeeksAre
<1>7. Behind(from + 1, c, end) = (from + 1) + c
  BY <1>2, <1>4, AheadBehind
<1>8. GetLongInt(w, from, end) = Read(d, (from + 1) + c)
  BY <1>3, <1>5, <1>6, <1>7, ReadIs DEF GetLongInt, Then
<1>9. (from + 1) + c = from + Len(PutLongInt(d))
  <2>1. Len(<<c>> \o p) = 1 + c
    BY <1>2, ConcatProperties
  <2>2. from \in Nat
    BY <1>4 DEF Ahead
  <2>. QED BY <1>1, <1>2, <2>1, <2>2
<1>10. ~ IsString(w, from, end) /\ ~ IsShortInt(w, from, end)
  BY <1>2, <1>5 DEF IsString, IsShortInt
<1>. QED BY <1>8, <1>9, <1>10 DEF GetInt

(* A charset is a short integer, or a length and its bytes.                 *)
LEMMA CharsetIs ==
  ASSUME NEW c, IsCharset(c)
  PROVE  /\ c \in Nat /\ PutCharset(c) \in Seq(Octets)
         /\ Len(PutCharset(c)) = CharsetBytes(c) /\ CharsetBytes(c) \in Nat /\ CharsetBytes(c) <= 5
         /\ c < 128 => PutCharset(c) = <<128 + c>>
         /\ ~ (c < 128) => /\ PutCharset(c) = <<IntBytes(c)>> \o PutMultiBytes(c)
                           /\ IntBytes(c) \in Nat /\ 1 <= IntBytes(c) /\ IntBytes(c) <= 4
<1>1. c \in CharsetNumbers /\ c # 128
  BY DEF IsCharset, CharsetNumbers
<1>2. c \in Nat
  BY <1>1, CharsetNumbersAre
<1>3. CASE c < 128
  <2>1. PutCharset(c) = <<128 + c>> /\ CharsetBytes(c) = 1
    <3>1. c + 128 = 128 + c /\ c <= 128
      BY <1>2, <1>3
    <3>. QED BY <1>3, <3>1 DEF PutCharset, CharsetBytes
  <2>2. 128 + c \in Octets
    <3>1. 128 + c \in Nat /\ 128 + c <= 255
      BY <1>2, <1>3
    <3>. QED BY <3>1, OctetIs
  <2>3. <<128 + c>> \in Seq(Octets) /\ Len(<<128 + c>>) = 1
    BY <2>2
  <2>. QED BY <1>2, <1>3, <2>1, <2>3
<1>4. CASE ~ (c < 128)
  <2>. DEFINE p == PutMultiBytes(c)
              n == IntBytes(c)
              q == <<n>>
  <2>1. p \in Seq(Octets) /\ Len(p) = n /\ Number(p, 256) = c
    BY <1>1, MultiBytesIs
  <2>2. n \in Nat /\ 1 <= n /\ n <= 4
    BY <1>2, IntBytesIs
  <2>. HIDE DEF p, n
  <2>3. q \in Seq(Octets) /\ Len(q) = 1
    <3>1. n \in Octets
      BY <2>2, OctetIs
    <3>. QED BY <3>1
  <2>. HIDE DEF q
  <2>4. PutCharset(c) = q \o p
    <3>1. PutCharset(c) = PutValueLength(n) \o p
      BY <1>4 DEF PutCharset, n, p
    <3>2. PutValueLength(n) = q
      BY <2>2 DEF PutValueLength, q
    <3>. QED BY <3>1, <3>2
  <2>5. q \o p \in Seq(Octets) /\ Len(q \o p) = 1 + n
    BY <2>1, <2>3, ConcatProperties
  <2>6. CharsetBytes(c) = n + 1
    <3>1. ~ (c <= 128)
      BY <1>1, <1>2, <1>4
    <3>. QED BY <3>1 DEF CharsetBytes, n
  <2>7. Len(q \o p) = CharsetBytes(c) /\ CharsetBytes(c) \in Nat /\ CharsetBytes(c) <= 5
    BY <2>2, <2>5, <2>6
  <2>8. q \o p = <<IntBytes(c)>> \o PutMultiBytes(c)
    BY DEF q, p, n
  <2>. QED BY <1>2, <1>4, <2>2, <2>4, <2>5, <2>7, <2>8 DEF n
<1>. QED BY <1>3, <1>4

(* mms_input_buffer_get_charset reads the charset that was put, whichever   *)
(* of the two it is.                                                        *)
LEMMA CharsetRead ==
  ASSUME NEW w, NEW from, NEW c, IsCharset(c), NEW end, Ahead(w, from, PutCharset(c), end)
  PROVE  GetCharset(w, from, end) = Read(c, from + CharsetBytes(c))
<1>1. c \in Nat /\ PutCharset(c) \in Seq(Octets)
  BY CharsetIs
<1>2. CASE c < 128
  <2>1. PutCharset(c) = <<128 + c>> /\ Len(PutCharset(c)) = CharsetBytes(c) /\ Len(<<128 + c>>) = 1
    BY <1>2, CharsetIs
  <2>2. Peek(w, from, end) = 128 + c /\ Behind(from, 1, end) = from + 1
    <3>. DEFINE p == <<128 + c>>
    <3>1. Ahead(w, from, p, end) /\ Len(p) = 1
      BY <2>1
    <3>2. Peek(w, from, end) = 128 + c
      BY <3>1, Int8Read
    <3>. HIDE DEF p
    <3>. QED BY <3>1, <3>2, AheadBehind
  <2>3. IsShortInt(w, from, end) /\ ~ IsValueLength(w, from, end) /\ (128 + c) - 128 = c
    BY <1>1, <2>2 DEF IsShortInt, IsValueLength
  <2>4. CharsetBytes(c) = 1
    BY <2>1
  <2>. QED BY <2>2, <2>3, <2>4 DEF GetCharset
<1>3. CASE ~ (c < 128)
  <2>. DEFINE n == IntBytes(c)
              p == PutMultiBytes(c)
              q == PutValueLength(n)
  <2>1. /\ PutCharset(c) = <<n>> \o p
        /\ n \in Nat /\ 1 <= n /\ n <= 4
    BY <1>3, CharsetIs
  <2>2. c \in CharsetNumbers
    BY DEF IsCharset, CharsetNumbers
  <2>3. p \in Seq(Octets)
    BY <2>2, MultiBytesIs
  <2>4. n \in Lengths
    BY <2>1, SmallLengths
  <2>5. q = <<n>>
    BY <2>1 DEF PutValueLength
  <2>6. q \in Seq(Octets)
    BY <2>4, ValueLengthIs
  <2>7. Len(q) = 1
    BY <2>5
  <2>8. Ahead(w, from, q \o p, end)
    BY <2>1, <2>5
  <2>. HIDE DEF n, p, q
  <2>9. Ahead(w, from, q, end) /\ Ahead(w, from + 1, p, end)
    BY <2>3, <2>6, <2>7, <2>8, AheadSplit
  <2>10. GetValueLength(w, from, end) = Read(n, from + 1) /\ IsValueLength(w, from, end)
    BY <2>4, <2>7, <2>9, ValueLengthRead DEF q
  <2>11. GetMultiBytes(w, from + 1, end, n) = Read(c, (from + 1) + n)
    BY <2>2, <2>9, MultiBytesRead DEF n, p
  <2>12. (from + 1) + n = from + CharsetBytes(c)
    <3>1. from \in Nat
      BY <2>9 DEF Ahead
    <3>2. CharsetBytes(c) = n + 1
      <4>1. ~ (c <= 128)
        BY <1>1, <1>3 DEF IsCharset
      <4>. QED BY <4>1 DEF CharsetBytes, n
    <3>. QED BY <2>1, <3>1, <3>2
  <2>. QED BY <2>10, <2>11, <2>12, ReadIs DEF GetCharset, Then
<1>. QED BY <1>2, <1>3

(* The bytes ahead, as a sequence.                                          *)
LEMMA AheadIs ==
  ASSUME NEW w, NEW from, NEW p, NEW end, Ahead(w, from, p, end)
  PROVE  SubSeq(w, from + 1, from + Len(p)) = p
<1>1. /\ from \in Nat /\ Len(p) \in Nat /\ Len(w) \in Nat /\ w \in Seq(Octets) /\ p \in Seq(Octets)
      /\ from + Len(p) <= Len(w)
  BY DEF Ahead
<1>. DEFINE n == Len(p)
            m == from + 1
            k == from + n
            s == SubSeq(w, m, k)
<1>2. m \in Int /\ k \in Int /\ n \in Nat /\ k - m + 1 = n /\ (m <= k \/ n = 0)
  BY <1>1
<1>3. \A i \in m .. k : w[i] \in Octets
  <2>1. ASSUME NEW i \in m .. k PROVE i \in 1 .. Len(w)
    BY <1>1
  <2>. HIDE DEF m, k, n
  <2>. QED BY <1>1, <2>1, ElementOfSeq
<1>4. ASSUME NEW i \in 1 .. n PROVE w[m + i - 1] = p[i]
  <2>1. m + i - 1 = from + i
    BY <1>1
  <2>2. w[from + i] = p[i]
    BY DEF Ahead
  <2>. QED BY <2>1, <2>2
<1>. HIDE DEF m, k, n
<1>5. /\ s \in Seq(Octets) /\ Len(s) = n
      /\ \A i \in 1 .. n : s[i] = w[m + i - 1]
  <2>1. /\ s \in Seq(Octets) /\ Len(s) = IF m <= k THEN k - m + 1 ELSE 0
        /\ \A i \in 1 .. k - m + 1 : s[i] = w[m + i - 1]
    BY <1>2, <1>3, SubSeqProperties
  <2>. QED BY <1>2, <2>1
<1>. HIDE DEF s
<1>6. s = p
  <2>1. ASSUME NEW i \in 1 .. Len(s) PROVE s[i] = p[i]
    BY <1>4, <1>5
  <2>2. Len(s) = Len(p)
    BY <1>5 DEF n
  <2>. QED BY <1>1, <1>5, <2>1, <2>2, SeqEqual
<1>. QED BY <1>6 DEF s, m, k, n

(* Counted bytes are read as they are.                                      *)
LEMMA DataRead ==
  ASSUME NEW w, NEW from, NEW d, NEW end, Ahead(w, from, d, end)
  PROVE  GetData(w, from, end, Len(d)) = Read(d, from + Len(d))
<1>1. from \in Nat /\ end \in Nat /\ Len(d) \in Nat /\ from + Len(d) <= end
  BY DEF Ahead
<1>2. CASE from < end
  BY <1>1, <1>2, AheadIs DEF GetData
<1>3. CASE ~ (from < end)
  <2>1. Len(d) = 0 /\ from + Len(d) = from
    BY <1>1, <1>3
  <2>2. d = <<>>
    BY <2>1 DEF Ahead
  <2>. QED BY <1>3, <2>1, <2>2 DEF GetData
<1>. QED BY <1>2, <1>3

(* A text up to the first byte that ends it.                                *)
LEMMA EndWithRead ==
  ASSUME NEW w, NEW from, NEW t \in Seq(Octets), NEW byte \in Octets, NEW end,
         Ahead(w, from, t \o <<byte>>, end),
         \A i \in 1 .. Len(t) : t[i] # 0 /\ t[i] # byte
  PROVE  GetStringEndWith(w, from, end, byte) = Read(t, from + Len(t) + 1)
<1>. DEFINE q == <<byte>>
            k == from + Len(t) + 1
            x == from + Len(t)
<1>1. q \in Seq(Octets) /\ Len(q) = 1 /\ q[1] = byte
  OBVIOUS
<1>. HIDE DEF q
<1>2. Ahead(w, from, t, end) /\ Ahead(w, x, q, end)
  BY <1>1, AheadSplit DEF q
<1>3. from \in Nat /\ end \in Nat /\ Len(w) \in Nat /\ Len(t) \in Nat /\ x + 1 <= end /\ end <= Len(w)
  <2>1. x + 1 <= end
    BY <1>1, <1>2 DEF Ahead
  <2>. QED BY <1>2, <2>1 DEF Ahead
<1>4. w[k] = byte
  <2>1. 1 \in 1 .. Len(q)
    BY <1>1
  <2>2. w[x + 1] = q[1]
    BY <1>2, <2>1 DEF Ahead
  <2>. QED BY <1>1, <2>2
<1>5. ASSUME NEW j \in from + 1 .. k - 1 PROVE j <= Len(w) /\ w[j] # 0 /\ w[j] # byte
  <2>. DEFINE i == j - from
  <2>1. i \in 1 .. Len(t) /\ from + i = j /\ j <= Len(w)
    BY <1>3
  <2>. HIDE DEF i
  <2>2. w[from + i] = t[i]
    BY <1>2, <2>1 DEF Ahead
  <2>3. t[i] # 0 /\ t[i] # byte
    BY <2>1
  <2>4. w[j] = t[i]
    BY <2>1, <2>2
  <2>. QED BY <2>1, <2>3, <2>4, Zenon
<1>6. k \in from + 1 .. Len(w) + 1 /\ k <= end
  BY <1>3
<1>. DEFINE Q(j) == j > Len(w) \/ w[j] = 0 \/ (w[j] = byte /\ j <= end)
<1>7. First(from + 1, Len(w) + 1, Q) = k
  <2>1. Q(k)
    BY <1>4, <1>6
  <2>2. ASSUME NEW j \in from + 1 .. k - 1 PROVE ~ Q(j)
    <3>1. ~ (j > Len(w))
      BY <1>3, <1>5
    <3>. QED BY <1>5, <3>1
  <2>3. ASSUME NEW m \in from + 1 .. Len(w) + 1, Q(m), \A j \in from + 1 .. m - 1 : ~ Q(j)
        PROVE  m = k
    <3>1. ~ (m < k)
      BY <1>3, <2>2, <2>3
    <3>2. ~ (k < m)
      BY <1>3, <1>6, <2>1, <2>3
    <3>. QED BY <1>3, <3>1, <3>2
  <2>4. First(from + 1, Len(w) + 1, Q)
          = CHOOSE m \in from + 1 .. Len(w) + 1 : Q(m) /\ \A j \in from + 1 .. m - 1 : ~ Q(j)
    BY DEF First
  <2>. HIDE DEF Q
  <2>. QED BY <1>6, <2>1, <2>2, <2>3, <2>4
<1>8. SubSeq(w, from + 1, k - 1) = t
  <2>1. SubSeq(w, from + 1, from + Len(t)) = t
    BY <1>2, AheadIs
  <2>2. k - 1 = from + Len(t)
    BY <1>3
  <2>. QED BY <2>1, <2>2
<1>9. ~ (from >= end)
  BY <1>3
<1>. QED BY <1>7, <1>8, <1>9 DEF GetStringEndWith, TextUpTo

(* Texts, and the lengths that hold them.                                   *)
LEMMA TextIs ==
  ASSUME NEW t, IsText(t)
  PROVE  /\ t \in Seq(Characters) /\ t \in Seq(Octets) /\ Len(t) \in Nat /\ Len(t) < MaxText
         /\ PutString(t) \in Seq(Octets) /\ Len(PutString(t)) = Len(t) + 1
<1>1. t \in Seq(Characters) /\ Len(t) < MaxText
  BY DEF IsText
<1>2. PutString(t) \in Seq(Octets) /\ Len(PutString(t)) = Len(t) + 1
  BY <1>1, PutStringIs
<1>3. t \in Seq(Octets)
  <2>1. Characters \subseteq Octets
    BY CharactersAre
  <2>. QED BY <1>1, <2>1, SeqMonotonic
<1>4. Len(t) \in Nat
  BY <1>1
<1>. QED BY <1>1, <1>2, <1>3, <1>4

LEMMA TextLengths ==
  \A n \in Nat : n < 6 * MaxText + 64 => n \in Lengths
BY SMT DEF Lengths, MaxPart, MaxText

LEMMA MaxTextIs == MaxText \in Nat /\ MaxText > 64
BY SMT DEF MaxText

(* The charset and the text behind a value length.                          *)
Charsetted(t, c) == PutCharset(c) \o PutString(t)

LEMMA CharsettedIs ==
  ASSUME NEW t, NEW c, IsText(t), IsCharset(c)
  PROVE  /\ Charsetted(t, c) \in Seq(Octets)
         /\ Len(Charsetted(t, c)) = CharsetBytes(c) + Len(t) + 1
         /\ Len(Charsetted(t, c)) \in Lengths /\ Len(Charsetted(t, c)) < MaxText + 6
<1>. DEFINE p == PutCharset(c)
            q == PutString(t)
            n == Len(p \o q)
<1>1. p \in Seq(Octets) /\ Len(p) = CharsetBytes(c) /\ CharsetBytes(c) \in Nat /\ CharsetBytes(c) <= 5
  BY CharsetIs
<1>2. q \in Seq(Octets) /\ Len(q) = Len(t) + 1 /\ Len(t) \in Nat /\ Len(t) < MaxText
  BY TextIs
<1>. HIDE DEF p, q
<1>3. p \o q \in Seq(Octets) /\ Len(p \o q) = Len(p) + Len(q)
  BY <1>1, <1>2, ConcatProperties
<1>4. n = CharsetBytes(c) + Len(t) + 1
  BY <1>1, <1>2, <1>3
<1>5. n \in Nat /\ n < MaxText + 6
  BY <1>1, <1>2, <1>4, MaxTextIs
<1>6. n \in Lengths
  <2>. HIDE DEF n
  <2>1. n < 6 * MaxText + 64
    BY <1>5, MaxTextIs
  <2>. QED BY <1>5, <2>1, TextLengths
<1>. QED BY <1>3, <1>4, <1>5, <1>6 DEF Charsetted, p, q

(* A text with a charset has a value length before it, one without has      *)
(* none.                                                                    *)
LEMMA EncodedStringIs ==
  ASSUME NEW t, NEW c, IsText(t), IsCharset(c)
  PROVE  /\ PutEncodedString(t, c) \in Seq(Octets)
         /\ c = 0 => PutEncodedString(t, c) = PutString(t)
         /\ c # 0 => PutEncodedString(t, c) = PutValueLength(Len(Charsetted(t, c))) \o Charsetted(t, c)
         /\ Len(PutEncodedString(t, c)) \in Nat /\ Len(PutEncodedString(t, c)) < MaxText + 12
<1>1. /\ Charsetted(t, c) \in Seq(Octets)
      /\ Len(Charsetted(t, c)) = CharsetBytes(c) + Len(t) + 1
      /\ Len(Charsetted(t, c)) \in Lengths /\ Len(Charsetted(t, c)) < MaxText + 6
  BY CharsettedIs
<1>2. CASE c = 0
  <2>1. PutEncodedString(t, c) = PutString(t)
    BY <1>2 DEF PutEncodedString
  <2>2. PutString(t) \in Seq(Octets) /\ Len(PutString(t)) = Len(t) + 1 /\ Len(t) \in Nat /\ Len(t) < MaxText
    BY TextIs
  <2>3. Len(PutString(t)) \in Nat /\ Len(PutString(t)) < MaxText + 12
    BY <2>2, MaxTextIs
  <2>. QED BY <1>2, <2>1, <2>2, <2>3
<1>3. CASE c # 0
  <2>. DEFINE n == Len(Charsetted(t, c))
              v == PutValueLength(n)
              p == PutCharset(c)
              q == PutString(t)
  <2>1. PutEncodedString(t, c) = (v \o p) \o q
    BY <1>1, <1>3 DEF PutEncodedString
  <2>2. v \in Seq(Octets) /\ Len(v) \in Nat /\ Len(v) <= 5
    BY <1>1, ValueLengthIs
  <2>3. p \in Seq(Octets) /\ q \in Seq(Octets)
    BY CharsetIs, TextIs
  <2>4. Charsetted(t, c) = p \o q
    BY DEF Charsetted
  <2>. HIDE DEF n, v, p, q
  <2>5. (v \o p) \o q = v \o (p \o q)
    BY <2>2, <2>3, JoinedThree
  <2>6. v \o Charsetted(t, c) \in Seq(Octets) /\ Len(v \o Charsetted(t, c)) = Len(v) + n
    BY <1>1, <2>2, ConcatProperties DEF n
  <2>7. Len(v \o Charsetted(t, c)) \in Nat /\ Len(v \o Charsetted(t, c)) < MaxText + 12
    <3>1. n \in Nat /\ n < MaxText + 6
      BY <1>1, LengthsAre DEF n
    <3>. QED BY <2>2, <2>6, <3>1, MaxTextIs
  <2>8. PutEncodedString(t, c) = v \o Charsetted(t, c)
    BY <2>1, <2>4, <2>5
  <2>. QED BY <1>3, <2>6, <2>7, <2>8 DEF n, v
<1>. QED BY <1>2, <1>3

(* Behind the value length, the charset and the text are read up to its     *)
(* end.                                                                     *)
LEMMA CharsettedRead ==
  ASSUME NEW w, NEW from, NEW t, NEW c, IsText(t), IsCharset(c), NEW end,
         Ahead(w, from, Charsetted(t, c), end)
  PROVE  TextWithin(w, from, end) = Read([text |-> t, charset |-> c], end)
<1>. DEFINE p == PutCharset(c)
            q == PutString(t)
<1>1. p \in Seq(Octets) /\ Len(p) = CharsetBytes(c) /\ q \in Seq(Octets) /\ t \in Seq(Characters)
  BY CharsetIs, TextIs
<1>2. Ahead(w, from, p \o q, end)
  BY DEF Charsetted
<1>. HIDE DEF p, q
<1>3. Ahead(w, from, p, end) /\ Ahead(w, from + Len(p), q, end)
  BY <1>1, <1>2, AheadSplit
<1>4. GetCharset(w, from, end) = Read(c, from + Len(p))
  BY <1>1, <1>3, CharsetRead DEF p
<1>5. GetString(w, from + Len(p), end) = Read(t, (from + Len(p)) + Len(q))
  BY <1>1, <1>3, StringRead DEF q
<1>. QED BY <1>4, <1>5, ReadIs DEF TextWithin, Then

(* The offset behind the bytes, in two steps.                               *)
LEMMA BehindBoth ==
  ASSUME NEW from \in Nat, NEW p \in Seq(Octets), NEW q \in Seq(Octets)
  PROVE  (from + Len(p)) + Len(q) = from + Len(p \o q) /\ from + Len(p) \in Nat
<1>1. Len(p \o q) = Len(p) + Len(q)
  BY ConcatProperties
<1>2. Len(p) \in Nat /\ Len(q) \in Nat
  OBVIOUS
<1>. QED BY <1>1, <1>2

(* The first byte of a text is its first character, or the NUL.             *)
LEMMA FirstCharacter ==
  ASSUME NEW t, IsText(t), NEW first, Begins(t, first)
  PROVE  Len(PutString(t)) >= 1 /\ PutString(t)[1] \in first /\ PutString(t)[1] \in Octets
<1>1. t \in Seq(Characters) /\ t # <<>> /\ t[1] \in first
  BY DEF IsText, Begins
<1>2. Len(t) \in Nat /\ Len(t) # 0
  BY <1>1
<1>3. 1 \in 1 .. Len(t)
  BY <1>2
<1>4. PutString(t)[1] = t[1] /\ Len(PutString(t)) = Len(t) + 1
  BY <1>1, <1>3, PutStringIs
<1>5. t[1] \in Octets
  BY <1>1, <1>3, ElementOfSeq, CharactersAre
<1>. QED BY <1>1, <1>2, <1>4, <1>5

(* A text with a charset begins with a value length, one without does not.  *)
LengthAhead(w, from, end, t, c) ==
  /\ IsValueLength(w, from, end) <=> c # 0
  /\ c # 0 => GetValueLength(w, from, end)
        = Read(Len(Charsetted(t, c)), from + Len(PutValueLength(Len(Charsetted(t, c)))))

LEMMA EncodedStringRead ==
  ASSUME NEW w, NEW from, NEW t, NEW c, IsText(t), IsCharset(c), NEW end,
         c = 0 => Begins(t, 32 .. 255),
         Ahead(w, from, PutEncodedString(t, c), end)
  PROVE  /\ GetEncodedString(w, from, end)
              = Read([text |-> t, charset |-> c], from + Len(PutEncodedString(t, c)))
         /\ LengthAhead(w, from, end, t, c)
<1>1. CASE c = 0
  <2>. DEFINE q == PutString(t)
  <2>1. PutEncodedString(t, c) = q
    BY <1>1 DEF PutEncodedString
  <2>2. t \in Seq(Characters)
    BY TextIs
  <2>3. Ahead(w, from, q, end)
    BY <2>1
  <2>4. GetString(w, from, end) = Read(t, from + Len(q))
    BY <2>2, <2>3, StringRead
  <2>5. Len(q) >= 1 /\ q[1] \in 32 .. 255
    BY <1>1, FirstCharacter
  <2>. HIDE DEF q
  <2>6. Peek(w, from, end) = q[1]
    BY <2>3, <2>5, AheadFirst
  <2>7. ~ IsValueLength(w, from, end)
    <3>1. \A x : x \in 32 .. 255 => ~ (x <= 31)
      OBVIOUS
    <3>2. ~ (q[1] <= 31)
      BY <2>5, <3>1, Zenon
    <3>. QED BY <2>6, <3>2 DEF IsValueLength
  <2>8. GetEncodedString(w, from, end) = Read([text |-> t, charset |-> 0], from + Len(q))
    BY <2>4, <2>7, ReadIs DEF GetEncodedString, Of
  <2>. QED BY <1>1, <2>1, <2>7, <2>8 DEF LengthAhead
<1>2. CASE c # 0
  <2>. DEFINE p == Charsetted(t, c)
              n == Len(p)
              v == PutValueLength(n)
  <2>1. p \in Seq(Octets) /\ n \in Lengths
    BY CharsettedIs
  <2>2. v \in Seq(Octets)
    BY <2>1, ValueLengthIs
  <2>3. PutEncodedString(t, c) = v \o p
    BY <1>2, EncodedStringIs
  <2>. HIDE DEF p, v
  <2>4. Ahead(w, from, v, end) /\ Ahead(w, from + Len(v), p, end)
    BY <2>1, <2>2, <2>3, AheadSplit
  <2>5. GetValueLength(w, from, end) = Read(n, from + Len(v)) /\ IsValueLength(w, from, end)
    BY <2>1, <2>4, ValueLengthRead DEF v
  <2>6. /\ Ahead(w, from + Len(v), p, from + Len(v) + n)
        /\ Limit(w, from + Len(v) + n, end) = from + Len(v) + n
    BY <2>4, AheadLimit
  <2>7. TextWithin(w, from + Len(v), from + Len(v) + n) = Read([text |-> t, charset |-> c], from + Len(v) + n)
    BY <2>6, CharsettedRead DEF p
  <2>8. GetEncodedString(w, from, end) = Read([text |-> t, charset |-> c], from + Len(v) + n)
    <3>. DEFINE g == GetValueLength(w, from, end)
    <3>1. g.value = n /\ g.at = from + Len(v)
      BY <2>5, ReadIs
    <3>2. GetEncodedString(w, from, end) = TextWithin(w, g.at, Limit(w, g.at + g.value, end))
      BY <2>5 DEF GetEncodedString, Then
    <3>. HIDE DEF g, n
    <3>. QED BY <2>6, <2>7, <3>1, <3>2
  <2>9. from + Len(v) + n = from + Len(v \o p)
    <3>1. from \in Nat
      BY <2>4 DEF Ahead
    <3>. QED BY <2>1, <2>2, <3>1, BehindBoth
  <2>. QED BY <1>2, <2>3, <2>5, <2>8, <2>9 DEF p, v, LengthAhead
<1>. QED BY <1>1, <1>2

-----------------------------------------------------------------------------
(* Content types.                                                          *)

(* The number of a name in a table is that of an entry of that name, or -1. *)
LEMMA IdOfIs ==
  ASSUME NEW names, NEW name, DOMAIN names \subseteq Nat
  PROVE  \/ IdOf(names, name) = -1 /\ \A id \in DOMAIN names : names[id] # name
         \/ IdOf(names, name) \in DOMAIN names /\ names[IdOf(names, name)] = name
<1>. DEFINE ids == {id \in DOMAIN names : names[id] = name}
<1>1. CASE ids = {}
  BY <1>1 DEF IdOf
<1>2. CASE ids # {}
  <2>1. ids \subseteq Nat
    OBVIOUS
  <2>2. \E id \in ids : \A other \in ids : id <= other
    <3>. HIDE DEF ids
    <3>. QED BY <1>2, <2>1, LeastOf
  <2>3. IdOf(names, name) = CHOOSE id \in ids : \A other \in ids : id <= other
    BY <1>2 DEF IdOf
  <2>4. IdOf(names, name) \in ids
    <3>. HIDE DEF ids
    <3>. QED BY <2>2, <2>3
  <2>. QED BY <2>4
<1>. QED BY <1>1, <1>2

(* The numbers of the known content types are short integers.               *)
LEMMA MediaIdIs ==
  ASSUME NEW name
  PROVE  LET id == IdOf(MediaNames, name)
         IN  \/ id = -1
             \/ id \in Nat /\ id <= 75 /\ id \in DOMAIN MediaNames /\ MediaNames[id] = name
<1>1. DOMAIN MediaNames = 0 .. 75
  BY DEF MediaNames
<1>2. \A x \in 0 .. 75 : x \in Nat /\ x <= 75
  OBVIOUS
<1>3. DOMAIN MediaNames \subseteq Nat
  BY <1>1, <1>2
<1>. QED BY <1>1, <1>2, <1>3, IdOfIs

LEMMA ShortIntIs ==
  ASSUME NEW number \in Nat, number <= 127
  PROVE  /\ PutShortInt(AsLong(number)) = <<128 + number>>
         /\ <<128 + number>> \in Seq(Octets) /\ Len(<<128 + number>>) = 1
<1>1. Low(AsLong(number)) = number
  BY DEF Low, AsLong, Last
<1>2. number % 128 = number
  OBVIOUS
<1>3. 128 + number \in Octets
  BY OctetIs
<1>. QED BY <1>1, <1>2, <1>3 DEF PutShortInt

(* A name starts with neither a value length nor a number.                   *)
LEMMA NameIs ==
  ASSUME NEW t, IsName(t)
  PROVE  IsText(t) /\ Begins(t, 32 .. 127) /\ t # <<>>
BY DEF IsName, Begins

LEMMA NameRead ==
  ASSUME NEW w, NEW from, NEW t, IsName(t), NEW end, Ahead(w, from, PutString(t), end)
  PROVE  /\ GetString(w, from, end) = Read(t, from + Len(PutString(t)))
         /\ IsString(w, from, end) /\ ~ IsShortInt(w, from, end) /\ ~ IsValueLength(w, from, end)
         /\ from < end
<1>1. IsText(t) /\ Begins(t, 32 .. 127)
  BY NameIs
<1>2. t \in Seq(Characters)
  BY <1>1, TextIs
<1>3. GetString(w, from, end) = Read(t, from + Len(PutString(t)))
  BY <1>2, StringRead
<1>. DEFINE q == PutString(t)
<1>4. Len(q) >= 1 /\ q[1] \in 32 .. 127
  BY <1>1, FirstCharacter
<1>. HIDE DEF q
<1>5. Peek(w, from, end) = q[1] /\ from < end
  BY <1>4, AheadFirst DEF q
<1>6. \A x : x \in 32 .. 127 => ~ (x <= 31) /\ ~ (x >= 128)
  OBVIOUS
<1>7. ~ (q[1] <= 31) /\ ~ (q[1] >= 128)
  BY <1>4, <1>6, Zenon
<1>. QED BY <1>3, <1>4, <1>5, <1>7 DEF IsString, IsShortInt, IsValueLength

LEMMA MediaIs ==
  ASSUME NEW name, IsName(name)
  PROVE  /\ PutMedia(name) \in Seq(Octets)
         /\ Len(PutMedia(name)) \in Nat /\ Len(PutMedia(name)) >= 1 /\ Len(PutMedia(name)) <= MaxText
<1>1. CASE IdOf(MediaNames, name) = -1
  <2>1. PutMedia(name) = PutString(name)
    BY <1>1 DEF PutMedia
  <2>2. IsText(name)
    BY NameIs
  <2>3. PutString(name) \in Seq(Octets) /\ Len(PutString(name)) = Len(name) + 1 /\ Len(name) \in Nat /\ Len(name) < MaxText
    BY <2>2, TextIs
  <2>4. Len(PutString(name)) \in Nat /\ Len(PutString(name)) >= 1 /\ Len(PutString(name)) <= MaxText
    BY <2>3, MaxTextIs
  <2>. QED BY <2>1, <2>3, <2>4
<1>2. CASE IdOf(MediaNames, name) # -1
  <2>. DEFINE id == IdOf(MediaNames, name)
  <2>1. id \in Nat /\ id <= 75
    BY <1>2, MediaIdIs
  <2>. HIDE DEF id
  <2>2. PutMedia(name) = PutShortInt(AsLong(id))
    BY <2>1 DEF PutMedia, id
  <2>3. id <= 127
    BY <2>1
  <2>4. /\ PutMedia(name) = <<128 + id>>
        /\ <<128 + id>> \in Seq(Octets) /\ Len(<<128 + id>>) = 1
    BY <2>1, <2>2, <2>3, ShortIntIs
  <2>5. PutMedia(name) \in Seq(Octets) /\ Len(PutMedia(name)) = 1
    BY <2>4
  <2>. QED BY <2>5, MaxTextIs
<1>. QED BY <1>1, <1>2

(* A media type is read by its number or by its name.                       *)
LEMMA MediaRead ==
  ASSUME NEW w, NEW from, NEW name, IsName(name), NEW end, Ahead(w, from, PutMedia(name), end)
  PROVE  /\ GetMedia(w, from, end) = Read(name, from + Len(PutMedia(name)))
         /\ ~ IsValueLength(w, from, end) /\ from < end
<1>1. CASE IdOf(MediaNames, name) = -1
  <2>1. PutMedia(name) = PutString(name)
    BY <1>1 DEF PutMedia
  <2>. QED BY <2>1, NameRead DEF GetMedia
<1>2. CASE IdOf(MediaNames, name) # -1
  <2>. DEFINE id == IdOf(MediaNames, name)
  <2>1. id \in Nat /\ id <= 75 /\ id \in DOMAIN MediaNames /\ MediaNames[id] = name
    BY <1>2, MediaIdIs
  <2>. HIDE DEF id
  <2>2. PutMedia(name) = PutShortInt(AsLong(id))
    BY <2>1 DEF PutMedia, id
  <2>3. PutMedia(name) = <<128 + id>> /\ Len(PutMedia(name)) = 1
    BY <2>1, <2>2, ShortIntIs
  <2>4. Ahead(w, from, <<128 + id>>, end)
    BY <2>3
  <2>5. /\ GetShortInt(w, from, end) = Read(AsLong(id), from + 1)
        /\ IsShortInt(w, from, end) /\ ~ IsValueLength(w, from, end)
        /\ Low(AsLong(id)) = id
    BY <2>1, <2>4, ShortIntRead
  <2>6. from < end
    BY <2>4, Int8Read
  <2>7. MediaName(AsLong(id)) = name
    BY <2>1, <2>5 DEF MediaName
  <2>8. GetMedia(w, from, end) = Read(name, from + 1)
    BY <2>5, <2>7, ReadIs DEF GetMedia, Of
  <2>. QED BY <2>3, <2>5, <2>6, <2>8
<1>. QED BY <1>1, <1>2

(* The loop over the parameters.                                           *)
ParamTurns(f, ct, w, from, stop, end, n) ==
  f = [i \in 0 .. n |-> IF i = 0 THEN Read(ct, from) ELSE ParamsTurn(f[i - 1], w, stop, end)]

(* They are there: each turn from the one before.                           *)
LEMMA ParamTurnExists ==
  ASSUME NEW ct, NEW w, NEW from, NEW stop, NEW end, NEW n \in Nat
  PROVE  \E f : ParamTurns(f, ct, w, from, stop, end, n)
<1>. DEFINE T == {k \in Nat : ~ \E f : ParamTurns(f, ct, w, from, stop, end, k)}
<1>1. SUFFICES ASSUME T # {} PROVE FALSE
  OBVIOUS
<1>2. PICK k \in T : \A j \in T : k <= j
  <2>1. T \subseteq Nat
    OBVIOUS
  <2>. HIDE DEF T
  <2>. QED BY <1>1, <2>1, LeastOf
<1>3. k \in Nat /\ ~ \E f : ParamTurns(f, ct, w, from, stop, end, k)
  OBVIOUS
<1>4. CASE k = 0
  <2>. DEFINE e == [i \in 0 .. 0 |-> Read(ct, from)]
  <2>1. ASSUME NEW i \in 0 .. 0
        PROVE  e[i] = IF i = 0 THEN Read(ct, from) ELSE ParamsTurn(e[i - 1], w, stop, end)
    OBVIOUS
  <2>2. ParamTurns(e, ct, w, from, stop, end, 0)
    BY <2>1 DEF ParamTurns
  <2>. QED BY <1>3, <1>4, <2>2
<1>5. CASE k # 0
  <2>1. k - 1 \in Nat /\ ~ (k <= k - 1)
    BY <1>3, <1>5
  <2>2. k - 1 \notin T
    BY <1>2, <2>1
  <2>3. PICK f : ParamTurns(f, ct, w, from, stop, end, k - 1)
    BY <2>1, <2>2
  <2>. DEFINE v == ParamsTurn(f[k - 1], w, stop, end)
              h == [i \in 0 .. k |-> IF i = k THEN v ELSE f[i]]
              again == [i \in 0 .. k |-> IF i = 0 THEN Read(ct, from) ELSE ParamsTurn(h[i - 1], w, stop, end)]
  <2>4. ASSUME NEW i \in 0 .. k PROVE h[i] = again[i]
    <3>1. i # 0 => i - 1 \in 0 .. k - 1 /\ i - 1 \in 0 .. k /\ i - 1 # k
      BY <1>3
    <3>2. i # 0 => h[i - 1] = f[i - 1]
      BY <3>1
    <3>3. CASE i # k
      <4>1. i \in 0 .. k - 1
        BY <1>3, <3>3
      <4>2. f[i] = IF i = 0 THEN Read(ct, from) ELSE ParamsTurn(f[i - 1], w, stop, end)
        BY <2>3, <4>1 DEF ParamTurns
      <4>3. h[i] = f[i]
        BY <3>3
      <4>. QED BY <3>2, <4>2, <4>3
    <3>4. CASE i = k
      <4>1. h[i] = v
        BY <3>4
      <4>. QED BY <1>5, <3>2, <3>4, <4>1
    <3>. QED BY <3>3, <3>4
  <2>5. h = again
    BY <2>4
  <2>6. ParamTurns(h, ct, w, from, stop, end, k)
    BY <2>5 DEF ParamTurns
  <2>. QED BY <1>3, <2>6
<1>. QED BY <1>4, <1>5

(* A loop that has come to rest stays there.                                *)
LEMMA Settled ==
  ASSUME NEW f, NEW n \in Nat, NEW k \in Nat, k <= n, NEW rest, f[k] = rest,
         \A i \in Nat : k < i /\ i <= n /\ f[i - 1] = rest => f[i] = rest
  PROVE  f[n] = rest
<1>. DEFINE T == {i \in Nat : k <= i /\ i <= n /\ f[i] # rest}
<1>1. SUFFICES ASSUME T # {} PROVE FALSE
  OBVIOUS
<1>2. PICK i \in T : \A j \in T : i <= j
  <2>1. T \subseteq Nat
    OBVIOUS
  <2>. HIDE DEF T
  <2>. QED BY <1>1, <2>1, LeastOf
<1>3. i \in Nat /\ k < i /\ i <= n /\ f[i] # rest
  BY <1>2
<1>4. i - 1 \in Nat /\ k <= i - 1 /\ i - 1 <= n /\ ~ (i <= i - 1)
  BY <1>3
<1>5. i - 1 \notin T
  BY <1>2, <1>4
<1>6. f[i - 1] = rest
  BY <1>4, <1>5
<1>. QED BY <1>3, <1>6

-----------------------------------------------------------------------------

(* A parameter that is not set takes no bytes; one that is, a number and    *)
(* its value.                                                               *)
LEMMA ParamIs ==
  ASSUME NEW number \in Nat, number <= 127, NEW text, NEW bytes,
         text # <<>> => bytes \in Seq(Octets) /\ Len(bytes) <= MaxText
  PROVE  /\ text = <<>> => Param(number, text, bytes) = <<>>
         /\ text # <<>> => Param(number, text, bytes) = <<128 + number>> \o bytes
         /\ Param(number, text, bytes) \in Seq(Octets)
         /\ Len(Param(number, text, bytes)) \in Nat /\ Len(Param(number, text, bytes)) <= MaxText + 1
<1>. DEFINE p == Param(number, text, bytes)
<1>1. CASE text = <<>>
  <2>1. p = <<>>
    BY <1>1 DEF Param
  <2>2. p \in Seq(Octets) /\ Len(p) = 0
    BY <2>1
  <2>. QED BY <1>1, <2>1, <2>2, MaxTextIs
<1>2. CASE text # <<>>
  <2>1. /\ PutShortInt(AsLong(number)) = <<128 + number>>
        /\ <<128 + number>> \in Seq(Octets) /\ Len(<<128 + number>>) = 1
    BY ShortIntIs
  <2>2. p = <<128 + number>> \o bytes
    BY <1>2, <2>1 DEF Param
  <2>3. p \in Seq(Octets) /\ Len(p) = Len(<<128 + number>>) + Len(bytes)
    BY <1>2, <2>1, <2>2, Joined
  <2>4. Len(bytes) \in Nat /\ Len(bytes) <= MaxText
    BY <1>2
  <2>5. Len(p) \in Nat /\ Len(p) <= MaxText + 1
    BY <2>1, <2>3, <2>4, MaxTextIs
  <2>. QED BY <1>2, <2>2, <2>3, <2>5
<1>. QED BY <1>1, <1>2

(* A content type as it is while its parameters are read.                   *)
CT(name, ty, pa, st) ==
  [id |-> IdOf(MediaNames, name), name |-> name,
   type |-> ty, param |-> pa, filename |-> <<>>, start |-> st]

LEMMA CTIs ==
  ASSUME NEW name, NEW ty, NEW pa, NEW st
  PROVE  /\ CT(name, ty, pa, st) # Failed
         /\ ContentTypeNamed(name) = CT(name, <<>>, <<>>, <<>>)
         /\ \A text : text # Null =>
              /\ WithField(CT(name, ty, pa, st), "type", text) = CT(name, text, pa, st)
              /\ WithField(CT(name, ty, pa, st), "param", text) = CT(name, ty, text, st)
              /\ WithField(CT(name, ty, pa, st), "start", text) = CT(name, ty, pa, text)
              /\ WithField(CT(name, ty, pa, st), "none", text) = CT(name, ty, pa, st)
<1>. DEFINE id == IdOf(MediaNames, name)
<1>0. CT(name, ty, pa, st) = [id |-> id, name |-> name, type |-> ty, param |-> pa, filename |-> <<>>, start |-> st]
  BY DEF CT
<1>00. ContentTypeNamed(name) = [id |-> id, name |-> name, type |-> <<>>, param |-> <<>>, filename |-> <<>>, start |-> <<>>]
  BY DEF ContentTypeNamed
<1>000. CT(name, <<>>, <<>>, <<>>) = [id |-> id, name |-> name, type |-> <<>>, param |-> <<>>, filename |-> <<>>, start |-> <<>>]
  BY DEF CT
<1>1. CT(name, ty, pa, st) # Failed
  <2>1. "name" \in DOMAIN CT(name, ty, pa, st)
    BY DEF CT
  <2>2. "name" \notin DOMAIN Failed
    BY DEF Failed
  <2>. QED BY <2>1, <2>2
<1>2. ASSUME NEW text, text # Null
      PROVE  /\ WithField(CT(name, ty, pa, st), "type", text) = CT(name, text, pa, st)
              /\ WithField(CT(name, ty, pa, st), "param", text) = CT(name, ty, text, st)
              /\ WithField(CT(name, ty, pa, st), "start", text) = CT(name, ty, pa, text)
              /\ WithField(CT(name, ty, pa, st), "none", text) = CT(name, ty, pa, st)
  BY <1>2 DEF CT, WithField
<1>. QED BY <1>00, <1>000, <1>1, <1>2

(* A text is not the null pointer.                                          *)
LEMMA TextNotNull ==
  ASSUME NEW t, IsText(t)
  PROVE  t # Null
<1>1. t \in Seq(Characters)
  BY TextIs
<1>. SUFFICES ASSUME t = Null PROVE FALSE
  OBVIOUS
<1>2. t[1] = 0 /\ 1 \in 1 .. Len(t)
  BY DEF Null
<1>3. t[1] \in Characters
  BY <1>1, <1>2, SeqIs
<1>. QED BY <1>2, <1>3, CharactersAre

LEMMA FieldsAre ==
  FieldOf(9) = "type" /\ FieldOf(5) = "param" /\ FieldOf(6) = "none" /\ FieldOf(10) = "start"
BY DEF FieldOf

(* One turn reads one parameter into its field.                             *)
LEMMA ParamsTurnIs ==
  ASSUME NEW v, NEW y \in Nat, NEW w, NEW stop \in Nat, NEW end \in Nat, y < stop, y < end, v # Failed,
         NEW number, NEW text, NEW z,
         GetShortInt(w, y, end) = Read(AsLong(number), y + 1), Low(AsLong(number)) = number,
         GetParam(number, w, y + 1, end) = Read(text, z)
  PROVE  ParamsTurn(Read(v, y), w, stop, end) = Read(WithField(v, FieldOf(number), text), z)
<1>. DEFINE g == GetShortInt(w, y, end)
            h == GetParam(number, w, y + 1, end)
            r == Read(v, y)
<1>1. g.value = AsLong(number) /\ g.at = y + 1
  BY ReadIs
<1>2. h.value = text /\ h.at = z
  BY ReadIs
<1>3. r.value = v /\ r.at = y
  BY ReadIs
<1>4. ~ (y >= stop) /\ ~ (y >= end)
  OBVIOUS
<1>. HIDE DEF g, h, r
<1>5. ParamsTurn(r, w, stop, end) = Read(WithField(v, FieldOf(Low(g.value)), GetParam(Low(g.value), w, g.at, end).value), GetParam(Low(g.value), w, g.at, end).at)
  BY <1>3, <1>4 DEF ParamsTurn, Then, Of, g
<1>. QED BY <1>1, <1>2, <1>5 DEF h, r

(* The loop has come to the parameters at y, with v.                         *)
Reached(f, from, v, y) == \E i \in Nat : i <= y - from /\ f[i] = Read(v, y)

-----------------------------------------------------------------------------

(* A parameter that lies ahead is passed in one turn, or is not there at    *)
(* all.                                                                     *)
LEMMA ParamPassed ==
  ASSUME NEW f, NEW ct, NEW w, NEW from \in Nat, NEW stop \in Nat, NEW end \in Nat, NEW n \in Nat,
         ParamTurns(f, ct, w, from, stop, end, n), stop - from <= n,
         NEW v, v # Failed, NEW y \in Nat, Reached(f, from, v, y),
         NEW number \in Nat, number <= 127, NEW text, NEW bytes,
         Ahead(w, y, Param(number, text, bytes), end), y + Len(Param(number, text, bytes)) <= stop,
         text # <<>> => /\ bytes \in Seq(Octets) /\ Len(bytes) >= 1 /\ Len(bytes) <= MaxText
                        /\ Ahead(w, y + 1, bytes, end)
                             => GetParam(number, w, y + 1, end) = Read(text, y + 1 + Len(bytes))
  PROVE  Reached(f, from, IF text = <<>> THEN v ELSE WithField(v, FieldOf(number), text),
                 y + Len(Param(number, text, bytes)))
<1>1. CASE text = <<>>
  <2>1. Param(number, text, bytes) = <<>>
    BY <1>1 DEF Param
  <2>2. y + Len(Param(number, text, bytes)) = y
    BY <2>1
  <2>. QED BY <1>1, <2>2
<1>2. CASE text # <<>>
  <2>1. Param(number, text, bytes) = <<128 + number>> \o bytes
    BY <1>2, ShortIntIs DEF Param
  <2>2. bytes \in Seq(Octets) /\ Len(bytes) >= 1
    BY <1>2
  <2>. DEFINE head == <<128 + number>>
  <2>3. head \in Seq(Octets) /\ Len(head) = 1
    BY ShortIntIs
  <2>. HIDE DEF head
  <2>4. Ahead(w, y, head \o bytes, end) /\ y + Len(head \o bytes) <= stop
    BY <2>1 DEF head
  <2>5. Ahead(w, y + Len(head), bytes, end)
    BY <2>2, <2>3, <2>4, AheadSplit
  <2>6. Ahead(w, y + 1, bytes, end)
    BY <2>3, <2>5
  <2>7. GetParam(number, w, y + 1, end) = Read(text, y + 1 + Len(bytes))
    BY <1>2, <2>6
  <2>. DEFINE z == y + 1 + Len(bytes)
  <2>9. /\ GetShortInt(w, y, end) = Read(AsLong(number), y + 1)
        /\ Low(AsLong(number)) = number /\ y < end
    <3>1. Ahead(w, y, head, end)
      BY <2>2, <2>3, <2>4, AheadSplit
    <3>2. Ahead(w, y, <<128 + number>>, end)
      BY <3>1 DEF head
    <3>. QED BY <3>2, ShortIntRead, Int8Read
  <2>10. PICK i \in Nat : i <= y - from /\ f[i] = Read(v, y)
    BY DEF Reached
  <2>11. Len(head \o bytes) = 1 + Len(bytes) /\ Len(bytes) \in Nat
    <3>1. Len(head \o bytes) = Len(head) + Len(bytes)
      BY <2>2, <2>3, Joined
    <3>2. Len(bytes) \in Nat
      BY <2>2, SeqIs
    <3>3. Len(head) = 1
      BY <2>3
    <3>. QED BY <3>1, <3>2, <3>3
  <2>12. y < stop /\ z = y + Len(head \o bytes) /\ z \in Nat /\ i + 1 <= z - from
         /\ i + 1 \in Nat /\ i + 1 <= n /\ i + 1 # 0
    BY <2>2, <2>4, <2>10, <2>11
  <2>13. ParamsTurn(Read(v, y), w, stop, end) = Read(WithField(v, FieldOf(number), text), z)
    BY <2>7, <2>9, <2>12, ParamsTurnIs
  <2>. HIDE DEF z
  <2>14. f[i + 1] = ParamsTurn(f[i], w, stop, end)
    <3>1. i + 1 \in 0 .. n /\ (i + 1) - 1 = i
      BY <2>12
    <3>2. f[i + 1] = IF i + 1 = 0 THEN Read(ct, from) ELSE ParamsTurn(f[(i + 1) - 1], w, stop, end)
      BY <3>1 DEF ParamTurns
    <3>. QED BY <2>12, <3>1, <3>2
  <2>15. f[i + 1] = Read(WithField(v, FieldOf(number), text), z)
    BY <2>10, <2>13, <2>14
  <2>16. Reached(f, from, WithField(v, FieldOf(number), text), z)
    BY <2>12, <2>15 DEF Reached
  <2>. QED BY <1>2, <2>1, <2>12, <2>16 DEF head
<1>. QED BY <1>1, <1>2

TypeParam(ct)  == Param(9, ct.type, PutMedia(ct.type))
TextParam(ct)  == Param(5, ct.param, PutString(ct.param))
NameParam(ct)  == Param(6, ct.filename, PutString(ct.filename))
StartParam(ct) == Param(10, ct.start, PutString(ct.start))

(* What a text's parameter needs of its bytes.                              *)
LEMMA TextParamIs ==
  ASSUME NEW t, t # <<>> => IsText(t)
  PROVE  t # <<>> => PutString(t) \in Seq(Octets) /\ Len(PutString(t)) >= 1 /\ Len(PutString(t)) <= MaxText
<1>. SUFFICES ASSUME t # <<>>
              PROVE  PutString(t) \in Seq(Octets) /\ Len(PutString(t)) >= 1 /\ Len(PutString(t)) <= MaxText
  OBVIOUS
<1>1. PutString(t) \in Seq(Octets) /\ Len(PutString(t)) = Len(t) + 1 /\ Len(t) \in Nat /\ Len(t) < MaxText
  BY TextIs
<1>2. Len(PutString(t)) >= 1 /\ Len(PutString(t)) <= MaxText
  BY <1>1, MaxTextIs
<1>. QED BY <1>1, <1>2

LEMMA FieldTexts ==
  ASSUME NEW ct, IsContentType(ct)
  PROVE  /\ IsName(ct.name)
         /\ ct.type # <<>> => IsName(ct.type) /\ IsText(ct.type)
         /\ ct.filename # <<>> => IsName(ct.filename) /\ IsText(ct.filename)
         /\ IsText(ct.param) /\ IsText(ct.start)
BY NameIs DEF IsContentType

LEMMA PiecesAre ==
  ASSUME NEW ct, IsContentType(ct)
  PROVE  /\ TypeParam(ct) \in Seq(Octets) /\ Len(TypeParam(ct)) \in Nat /\ Len(TypeParam(ct)) <= MaxText + 1
         /\ TextParam(ct) \in Seq(Octets) /\ Len(TextParam(ct)) \in Nat /\ Len(TextParam(ct)) <= MaxText + 1
         /\ NameParam(ct) \in Seq(Octets) /\ Len(NameParam(ct)) \in Nat /\ Len(NameParam(ct)) <= MaxText + 1
         /\ StartParam(ct) \in Seq(Octets) /\ Len(StartParam(ct)) \in Nat /\ Len(StartParam(ct)) <= MaxText + 1
<1>1. ct.type # <<>> => PutMedia(ct.type) \in Seq(Octets) /\ Len(PutMedia(ct.type)) <= MaxText
  BY FieldTexts, MediaIs
<1>2. /\ ct.param # <<>> => PutString(ct.param) \in Seq(Octets) /\ Len(PutString(ct.param)) <= MaxText
      /\ ct.filename # <<>> => PutString(ct.filename) \in Seq(Octets) /\ Len(PutString(ct.filename)) <= MaxText
      /\ ct.start # <<>> => PutString(ct.start) \in Seq(Octets) /\ Len(PutString(ct.start)) <= MaxText
  BY FieldTexts, TextParamIs
<1>3. TypeParam(ct) \in Seq(Octets) /\ Len(TypeParam(ct)) \in Nat /\ Len(TypeParam(ct)) <= MaxText + 1
  <2>. DEFINE text == ct.type
              bytes == PutMedia(ct.type)
  <2>1. text # <<>> => bytes \in Seq(Octets) /\ Len(bytes) <= MaxText
    BY <1>1
  <2>. HIDE DEF text, bytes
  <2>2. 9 \in Nat /\ 9 <= 127
    OBVIOUS
  <2>3. /\ Param(9, text, bytes) \in Seq(Octets)
        /\ Len(Param(9, text, bytes)) \in Nat /\ Len(Param(9, text, bytes)) <= MaxText + 1
    BY <2>1, <2>2, ParamIs, Zenon
  <2>. QED BY <2>3 DEF TypeParam, text, bytes
<1>4. TextParam(ct) \in Seq(Octets) /\ Len(TextParam(ct)) \in Nat /\ Len(TextParam(ct)) <= MaxText + 1
  <2>. DEFINE text == ct.param
              bytes == PutString(ct.param)
  <2>1. text # <<>> => bytes \in Seq(Octets) /\ Len(bytes) <= MaxText
    BY <1>2
  <2>. HIDE DEF text, bytes
  <2>2. 5 \in Nat /\ 5 <= 127
    OBVIOUS
  <2>3. /\ Param(5, text, bytes) \in Seq(Octets)
        /\ Len(Param(5, text, bytes)) \in Nat /\ Len(Param(5, text, bytes)) <= MaxText + 1
    BY <2>1, <2>2, ParamIs, Zenon
  <2>. QED BY <2>3 DEF TextParam, text, bytes
<1>5. NameParam(ct) \in Seq(Octets) /\ Len(NameParam(ct)) \in Nat /\ Len(NameParam(ct)) <= MaxText + 1
  <2>. DEFINE text == ct.filename
              bytes == PutString(ct.filename)
  <2>1. text # <<>> => bytes \in Seq(Octets) /\ Len(bytes) <= MaxText
    BY <1>2
  <2>. HIDE DEF text, bytes
  <2>2. 6 \in Nat /\ 6 <= 127
    OBVIOUS
  <2>3. /\ Param(6, text, bytes) \in Seq(Octets)
        /\ Len(Param(6, text, bytes)) \in Nat /\ Len(Param(6, text, bytes)) <= MaxText + 1
    BY <2>1, <2>2, ParamIs, Zenon
  <2>. QED BY <2>3 DEF NameParam, text, bytes
<1>6. StartParam(ct) \in Seq(Octets) /\ Len(StartParam(ct)) \in Nat /\ Len(StartParam(ct)) <= MaxText + 1
  <2>. DEFINE text == ct.start
              bytes == PutString(ct.start)
  <2>1. text # <<>> => bytes \in Seq(Octets) /\ Len(bytes) <= MaxText
    BY <1>2
  <2>. HIDE DEF text, bytes
  <2>2. 10 \in Nat /\ 10 <= 127
    OBVIOUS
  <2>3. /\ Param(10, text, bytes) \in Seq(Octets)
        /\ Len(Param(10, text, bytes)) \in Nat /\ Len(Param(10, text, bytes)) <= MaxText + 1
    BY <2>1, <2>2, ParamIs, Zenon
  <2>. QED BY <2>3 DEF StartParam, text, bytes
<1>. QED BY <1>3, <1>4, <1>5, <1>6

(* The parameters of a content type, one behind the other.                  *)
LEMMA ParamsIs ==
  ASSUME NEW ct, IsContentType(ct)
  PROVE  /\ Params(ct) = ((TypeParam(ct) \o TextParam(ct)) \o NameParam(ct)) \o StartParam(ct)
         /\ TypeParam(ct) \o TextParam(ct) \in Seq(Octets)
         /\ (TypeParam(ct) \o TextParam(ct)) \o NameParam(ct) \in Seq(Octets)
         /\ Params(ct) \in Seq(Octets) /\ Len(Params(ct)) \in Nat /\ Len(Params(ct)) <= 4 * MaxText + 4
<1>1. Params(ct) = ((TypeParam(ct) \o TextParam(ct)) \o NameParam(ct)) \o StartParam(ct)
  BY DEF Params, TypeParam, TextParam, NameParam, StartParam
<1>. DEFINE a == TypeParam(ct)
            b == TextParam(ct)
            c == NameParam(ct)
            d == StartParam(ct)
<1>2. /\ a \in Seq(Octets) /\ Len(a) \in Nat /\ Len(a) <= MaxText + 1
      /\ b \in Seq(Octets) /\ Len(b) \in Nat /\ Len(b) <= MaxText + 1
      /\ c \in Seq(Octets) /\ Len(c) \in Nat /\ Len(c) <= MaxText + 1
      /\ d \in Seq(Octets) /\ Len(d) \in Nat /\ Len(d) <= MaxText + 1
  BY PiecesAre
<1>. HIDE DEF a, b, c, d
<1>3. a \o b \in Seq(Octets) /\ Len(a \o b) = Len(a) + Len(b)
  BY <1>2, Joined
<1>4. (a \o b) \o c \in Seq(Octets) /\ Len((a \o b) \o c) = Len(a \o b) + Len(c)
  BY <1>2, <1>3, Joined
<1>5. ((a \o b) \o c) \o d \in Seq(Octets) /\ Len(((a \o b) \o c) \o d) = Len((a \o b) \o c) + Len(d)
  BY <1>2, <1>4, Joined
<1>6. Len(((a \o b) \o c) \o d) \in Nat /\ Len(((a \o b) \o c) \o d) <= 4 * MaxText + 4
  BY <1>2, <1>3, <1>4, <1>5, MaxTextIs
<1>. QED BY <1>1, <1>3, <1>4, <1>5, <1>6 DEF a, b, c, d

Value(ct) == PutMedia(ct.name) \o Params(ct)

(* A content type is its media type, behind a value length when it has      *)
(* parameters.                                                              *)
LEMMA ContentTypeIs ==
  ASSUME NEW ct, IsContentType(ct)
  PROVE  /\ Value(ct) \in Seq(Octets) /\ Len(Value(ct)) \in Lengths
         /\ PutMedia(ct.name) \in Seq(Octets) /\ Params(ct) \in Seq(Octets)
         /\ HasParams(ct) => PackContentType(ct) = PutValueLength(Len(Value(ct))) \o Value(ct)
         /\ ~ HasParams(ct) => PackContentType(ct) = PutMedia(ct.name)
         /\ PackContentType(ct) \in Seq(Octets) /\ Len(PackContentType(ct)) >= 1
         /\ PacksContentType(ct)
<1>1. /\ PutMedia(ct.name) \in Seq(Octets) /\ Len(PutMedia(ct.name)) \in Nat
      /\ Len(PutMedia(ct.name)) >= 1 /\ Len(PutMedia(ct.name)) <= MaxText
  BY FieldTexts, MediaIs
<1>2. Params(ct) \in Seq(Octets) /\ Len(Params(ct)) \in Nat /\ Len(Params(ct)) <= 4 * MaxText + 4
  BY ParamsIs
<1>3. Value(ct) \in Seq(Octets) /\ Len(Value(ct)) = Len(PutMedia(ct.name)) + Len(Params(ct))
  BY <1>1, <1>2, Joined DEF Value
<1>4. Len(Value(ct)) \in Nat /\ Len(Value(ct)) < 6 * MaxText + 64
  BY <1>1, <1>2, <1>3, MaxTextIs
<1>5. Len(Value(ct)) \in Lengths
  BY <1>4, TextLengths
<1>6. HasParams(ct) => PackContentType(ct) = PutValueLength(Len(Value(ct))) \o Value(ct)
  BY DEF PackContentType, Value
<1>7. ~ HasParams(ct) => PackContentType(ct) = PutMedia(ct.name)
  BY DEF PackContentType
<1>8. ASSUME HasParams(ct) PROVE PackContentType(ct) \in Seq(Octets) /\ Len(PackContentType(ct)) >= 1
  <2>1. PutValueLength(Len(Value(ct))) \in Seq(Octets) /\ Len(PutValueLength(Len(Value(ct)))) \in Nat
        /\ Len(PutValueLength(Len(Value(ct)))) >= 1
    BY <1>5, ValueLengthIs
  <2>. DEFINE p == PutValueLength(Len(Value(ct)))
              q == Value(ct)
  <2>2. p \in Seq(Octets) /\ q \in Seq(Octets) /\ Len(p) >= 1 /\ Len(p) \in Nat /\ Len(q) \in Nat
    BY <1>3, <1>4, <2>1
  <2>. HIDE DEF p, q
  <2>3. p \o q \in Seq(Octets) /\ Len(p \o q) = Len(p) + Len(q)
    BY <2>2, Joined
  <2>4. Len(p \o q) >= 1
    BY <2>2, <2>3
  <2>5. PackContentType(ct) = p \o q
    BY <1>6, <1>8 DEF p, q
  <2>. QED BY <2>3, <2>4, <2>5
<1>9. ASSUME ~ HasParams(ct) PROVE PackContentType(ct) \in Seq(Octets) /\ Len(PackContentType(ct)) >= 1
  BY <1>1, <1>7, <1>9
<1>11. PackContentType(ct) \in Seq(Octets) /\ Len(PackContentType(ct)) >= 1
  BY <1>8, <1>9
<1>10. PacksContentType(ct)
  BY FieldTexts, NameIs DEF PacksContentType
<1>. QED BY <1>1, <1>2, <1>3, <1>5, <1>6, <1>7, <1>11, <1>10

-----------------------------------------------------------------------------
LEMMA GetParamIs ==
  ASSUME NEW w, NEW y, NEW end
  PROVE  /\ GetParam(9, w, y, end) = GetMedia(w, y, end)
         /\ GetParam(5, w, y, end) = GetString(w, y, end)
         /\ GetParam(10, w, y, end) = GetString(w, y, end)
         /\ IsString(w, y, end) => GetParam(6, w, y, end) = GetString(w, y, end)
<1>1. GetParam(9, w, y, end) = GetMedia(w, y, end)
  BY DEF GetParam
<1>2. GetParam(5, w, y, end) = GetString(w, y, end) /\ GetParam(10, w, y, end) = GetString(w, y, end)
  BY DEF GetParam
<1>3. GetParam(6, w, y, end) = GetDropped(6, w, y, end)
  BY DEF GetParam
<1>4. IsString(w, y, end) => GetDropped(6, w, y, end) = GetString(w, y, end)
  BY DEF GetDropped
<1>. QED BY <1>1, <1>2, <1>3, <1>4

LEMMA WithoutFilenameIs ==
  ASSUME NEW ct, IsContentType(ct)
  PROVE  WithoutFilename(ct) = CT(ct.name, ct.type, ct.param, ct.start)
<1>1. ct = [ContentTypeNamed(ct.name) EXCEPT !.type = ct.type, !.param = ct.param,
                                            !.filename = ct.filename, !.start = ct.start]
  BY DEF IsContentType
<1>. DEFINE name == ct.name
            ty == ct.type
            pa == ct.param
            fi == ct.filename
            st == ct.start
<1>2. ct = [ContentTypeNamed(name) EXCEPT !.type = ty, !.param = pa, !.filename = fi, !.start = st]
  BY <1>1
<1>. HIDE DEF name, ty, pa, fi, st
<1>3. ct = [id |-> IdOf(MediaNames, name), name |-> name, type |-> ty, param |-> pa, filename |-> fi, start |-> st]
  BY <1>2 DEF ContentTypeNamed
<1>4. WithoutFilename(ct) = CT(name, ty, pa, st)
  BY <1>3 DEF WithoutFilename, CT
<1>. QED BY <1>4 DEF name, ty, pa, st

(* A text parameter is read as it was put.                                  *)
LEMMA TextParamRead ==
  ASSUME NEW w, NEW y, NEW end, NEW t, IsText(t), Ahead(w, y, PutString(t), end)
  PROVE  GetString(w, y, end) = Read(t, y + Len(PutString(t)))
BY TextIs, StringRead

(* What is left to read of a passed parameter.                              *)
LEMMA ParamsAhead ==
  ASSUME NEW ct, IsContentType(ct), NEW w, NEW from, NEW end, Ahead(w, from, Params(ct), end)
  PROVE  LET a == TypeParam(ct)
             ab == a \o TextParam(ct)
             abc == ab \o NameParam(ct)
         IN  /\ Ahead(w, from, a, end)
             /\ Ahead(w, from + Len(a), TextParam(ct), end)
             /\ Ahead(w, from + Len(ab), NameParam(ct), end)
             /\ Ahead(w, from + Len(abc), StartParam(ct), end)
             /\ Len(ab) = Len(a) + Len(TextParam(ct))
             /\ Len(abc) = Len(ab) + Len(NameParam(ct))
             /\ Len(Params(ct)) = Len(abc) + Len(StartParam(ct))
             /\ Len(a) \in Nat /\ Len(ab) \in Nat /\ Len(abc) \in Nat /\ Len(StartParam(ct)) \in Nat
             /\ Len(TextParam(ct)) \in Nat /\ Len(NameParam(ct)) \in Nat
<1>. DEFINE a == TypeParam(ct)
            b == TextParam(ct)
            c == NameParam(ct)
            d == StartParam(ct)
<1>1. /\ a \in Seq(Octets) /\ Len(a) \in Nat
      /\ b \in Seq(Octets) /\ Len(b) \in Nat
      /\ c \in Seq(Octets) /\ Len(c) \in Nat
      /\ d \in Seq(Octets) /\ Len(d) \in Nat
  BY PiecesAre
<1>2. Params(ct) = ((a \o b) \o c) \o d
  BY ParamsIs
<1>. HIDE DEF a, b, c, d
<1>3. a \o b \in Seq(Octets) /\ Len(a \o b) = Len(a) + Len(b)
  BY <1>1, Joined
<1>4. (a \o b) \o c \in Seq(Octets) /\ Len((a \o b) \o c) = Len(a \o b) + Len(c)
  BY <1>1, <1>3, Joined
<1>5. Len(Params(ct)) = Len((a \o b) \o c) + Len(d)
  BY <1>1, <1>2, <1>4, Joined
<1>6. Ahead(w, from, (a \o b) \o c, end) /\ Ahead(w, from + Len((a \o b) \o c), d, end)
  BY <1>1, <1>2, <1>4, AheadSplit
<1>7. Ahead(w, from, a \o b, end) /\ Ahead(w, from + Len(a \o b), c, end)
  BY <1>1, <1>3, <1>6, AheadSplit
<1>8. Ahead(w, from, a, end) /\ Ahead(w, from + Len(a), b, end)
  BY <1>1, <1>7, AheadSplit
<1>9. Len(a \o b) \in Nat /\ Len((a \o b) \o c) \in Nat
  BY <1>1, <1>3, <1>4
<1>. QED BY <1>1, <1>3, <1>4, <1>5, <1>6, <1>7, <1>8, <1>9 DEF a, b, c, d

(* All parameters are read, and set the fields they came from.              *)
LEMMA ParamsRead ==
  ASSUME NEW ct, IsContentType(ct), NEW w, NEW from, NEW end, Ahead(w, from, Params(ct), end)
  PROVE  UnpackParams(ContentTypeNamed(ct.name), w, from, from + Len(Params(ct)), end)
           = Read(WithoutFilename(ct), from + Len(Params(ct)))
<1>. DEFINE p == Params(ct)
            stop == from + Len(p)
            n == 1 + Len(p)
            v0 == ContentTypeNamed(ct.name)
            v1 == CT(ct.name, ct.type, <<>>, <<>>)
            v2 == CT(ct.name, ct.type, ct.param, <<>>)
            v3 == CT(ct.name, ct.type, ct.param, ct.start)
            y1 == from + Len(TypeParam(ct))
            y2 == from + Len(TypeParam(ct) \o TextParam(ct))
            y3 == from + Len((TypeParam(ct) \o TextParam(ct)) \o NameParam(ct))
<1>1. /\ Len(p) \in Nat /\ from \in Nat /\ end \in Nat /\ from + Len(p) <= end
  BY ParamsIs DEF Ahead
<1>2. n \in Nat /\ stop \in Nat /\ stop <= end /\ from <= stop /\ stop - from <= n
  BY <1>1
<1>3. PICK f : ParamTurns(f, v0, w, from, stop, end, n)
               /\ UnpackParams(v0, w, from, stop, end) = f[n]
  <2>. DEFINE Turns(g) == g = [i \in 0 .. n |-> IF i = 0 THEN Read(v0, from) ELSE ParamsTurn(g[i - 1], w, stop, end)]
  <2>1. \E g : Turns(g)
    <3>1. \E g : ParamTurns(g, v0, w, from, stop, end, n)
      <4>. HIDE DEF n, stop, v0
      <4>. QED BY <1>2, ParamTurnExists
    <3>. QED BY <3>1 DEF ParamTurns
  <2>2. 1 + BytesLeft(from, IF stop < end THEN stop ELSE end) = n
    <3>1. (IF stop < end THEN stop ELSE end) = stop
      <4>1. stop \in Nat /\ end \in Nat /\ stop <= end
        BY <1>1, <1>2
      <4>. HIDE DEF stop
      <4>. QED BY <4>1
    <3>2. BytesLeft(from, stop) = Len(p)
      <4>. HIDE DEF p
      <4>. QED BY <1>1, <1>2 DEF BytesLeft
    <3>. QED BY <3>1, <3>2
  <2>3. UnpackParams(v0, w, from, stop, end) = (CHOOSE g : Turns(g))[n]
    <3>. HIDE DEF n, stop, v0, p
    <3>. QED BY <2>2 DEF UnpackParams
  <2>4. Turns(CHOOSE g : Turns(g))
    <3>. HIDE DEF Turns
    <3>. QED BY <2>1
  <2>5. ParamTurns(CHOOSE g : Turns(g), v0, w, from, stop, end, n)
    BY <2>4 DEF ParamTurns
  <2>. QED BY <2>3, <2>5
<1>4. /\ Ahead(w, from, TypeParam(ct), end) /\ Ahead(w, y1, TextParam(ct), end)
      /\ Ahead(w, y2, NameParam(ct), end) /\ Ahead(w, y3, StartParam(ct), end)
      /\ y1 = from + Len(TypeParam(ct)) /\ y2 = y1 + Len(TextParam(ct))
      /\ y3 = y2 + Len(NameParam(ct)) /\ stop = y3 + Len(StartParam(ct))
      /\ y1 \in Nat /\ y2 \in Nat /\ y3 \in Nat /\ y1 <= stop /\ y2 <= stop /\ y3 <= stop
  <2>. DEFINE a == TypeParam(ct)
              ab == a \o TextParam(ct)
              abc == ab \o NameParam(ct)
  <2>1. /\ Ahead(w, from, a, end)
        /\ Ahead(w, from + Len(a), TextParam(ct), end)
        /\ Ahead(w, from + Len(ab), NameParam(ct), end)
        /\ Ahead(w, from + Len(abc), StartParam(ct), end)
        /\ Len(ab) = Len(a) + Len(TextParam(ct))
        /\ Len(abc) = Len(ab) + Len(NameParam(ct))
        /\ Len(p) = Len(abc) + Len(StartParam(ct))
        /\ Len(a) \in Nat /\ Len(ab) \in Nat /\ Len(abc) \in Nat /\ Len(StartParam(ct)) \in Nat
        /\ Len(TextParam(ct)) \in Nat /\ Len(NameParam(ct)) \in Nat
    BY ParamsAhead
  <2>. HIDE DEF a, ab, abc, p
  <2>2. from \in Nat
    BY <1>1
  <2>3. /\ from + Len(ab) = (from + Len(a)) + Len(TextParam(ct))
        /\ from + Len(abc) = (from + Len(ab)) + Len(NameParam(ct))
        /\ from + Len(p) = (from + Len(abc)) + Len(StartParam(ct))
        /\ from + Len(a) \in Nat /\ from + Len(ab) \in Nat /\ from + Len(abc) \in Nat
        /\ from + Len(a) <= from + Len(p) /\ from + Len(ab) <= from + Len(p) /\ from + Len(abc) <= from + Len(p)
    BY <2>1, <2>2
  <2>. QED BY <2>1, <2>3 DEF a, ab, abc, p
<1>. HIDE DEF n, stop, v0, v1, v2, v3, y1, y2, y3, p
<1>5. Reached(f, from, v0, from)
  <2>1. f[0] = Read(v0, from)
    BY <1>2, <1>3 DEF ParamTurns
  <2>. QED BY <1>1, <2>1 DEF Reached
<1>6. v0 # Failed /\ v1 # Failed /\ v2 # Failed /\ v0 = CT(ct.name, <<>>, <<>>, <<>>)
  BY CTIs DEF v0, v1, v2
<1>7. Reached(f, from, v1, y1)
  <2>. DEFINE text == ct.type
              bytes == PutMedia(ct.type)
  <2>1. text # <<>> => /\ bytes \in Seq(Octets) /\ Len(bytes) >= 1 /\ Len(bytes) <= MaxText
                       /\ Ahead(w, from + 1, bytes, end)
                            => GetParam(9, w, from + 1, end) = Read(text, from + 1 + Len(bytes))
    BY FieldTexts, MediaIs, MediaRead, GetParamIs
  <2>2. IF text = <<>> THEN v1 = v0 ELSE v1 = WithField(v0, FieldOf(9), text)
    BY <1>6, CTIs, FieldTexts, TextNotNull, FieldsAre DEF v1
  <2>3. Ahead(w, from, Param(9, text, bytes), end) /\ from + Len(Param(9, text, bytes)) <= stop
        /\ y1 = from + Len(Param(9, text, bytes))
    BY <1>4 DEF TypeParam
  <2>. HIDE DEF text, bytes
  <2>4. 9 \in Nat /\ 9 <= 127
    OBVIOUS
  <2>5. Reached(f, from, IF text = <<>> THEN v0 ELSE WithField(v0, FieldOf(9), text), y1)
    BY <1>1, <1>2, <1>3, <1>5, <1>6, <2>1, <2>3, <2>4, ParamPassed
  <2>. QED BY <2>2, <2>5
<1>8. Reached(f, from, v2, y2)
  <2>. DEFINE text == ct.param
              bytes == PutString(ct.param)
  <2>1. text # <<>> => /\ bytes \in Seq(Octets) /\ Len(bytes) >= 1 /\ Len(bytes) <= MaxText
                       /\ Ahead(w, y1 + 1, bytes, end)
                            => GetParam(5, w, y1 + 1, end) = Read(text, y1 + 1 + Len(bytes))
    BY FieldTexts, TextParamIs, TextParamRead, GetParamIs
  <2>2. IF text = <<>> THEN v2 = v1 ELSE v2 = WithField(v1, FieldOf(5), text)
    BY <1>6, CTIs, FieldTexts, TextNotNull, FieldsAre DEF v1, v2
  <2>3. Ahead(w, y1, Param(5, text, bytes), end) /\ y1 + Len(Param(5, text, bytes)) <= stop
        /\ y2 = y1 + Len(Param(5, text, bytes))
    BY <1>2, <1>4 DEF TextParam
  <2>. HIDE DEF text, bytes
  <2>4. 5 \in Nat /\ 5 <= 127
    OBVIOUS
  <2>5. Reached(f, from, IF text = <<>> THEN v1 ELSE WithField(v1, FieldOf(5), text), y2)
    BY <1>1, <1>2, <1>3, <1>4, <1>7, <1>6, <2>1, <2>3, <2>4, ParamPassed
  <2>. QED BY <2>2, <2>5
<1>9. Reached(f, from, v2, y3)
  <2>. DEFINE text == ct.filename
              bytes == PutString(ct.filename)
  <2>1. text # <<>> => /\ bytes \in Seq(Octets) /\ Len(bytes) >= 1 /\ Len(bytes) <= MaxText
                       /\ Ahead(w, y2 + 1, bytes, end)
                            => GetParam(6, w, y2 + 1, end) = Read(text, y2 + 1 + Len(bytes))
    BY FieldTexts, TextParamIs, NameRead, GetParamIs
  <2>2. IF text = <<>> THEN v2 = v2 ELSE v2 = WithField(v2, FieldOf(6), text)
    BY <1>6, CTIs, FieldTexts, TextNotNull, FieldsAre DEF v2, v2
  <2>3. Ahead(w, y2, Param(6, text, bytes), end) /\ y2 + Len(Param(6, text, bytes)) <= stop
        /\ y3 = y2 + Len(Param(6, text, bytes))
    BY <1>2, <1>4 DEF NameParam
  <2>. HIDE DEF text, bytes
  <2>4. 6 \in Nat /\ 6 <= 127
    OBVIOUS
  <2>5. Reached(f, from, IF text = <<>> THEN v2 ELSE WithField(v2, FieldOf(6), text), y3)
    BY <1>1, <1>2, <1>3, <1>4, <1>8, <1>6, <2>1, <2>3, <2>4, ParamPassed
  <2>. QED BY <2>2, <2>5
<1>10. Reached(f, from, v3, stop)
  <2>. DEFINE text == ct.start
              bytes == PutString(ct.start)
  <2>1. text # <<>> => /\ bytes \in Seq(Octets) /\ Len(bytes) >= 1 /\ Len(bytes) <= MaxText
                       /\ Ahead(w, y3 + 1, bytes, end)
                            => GetParam(10, w, y3 + 1, end) = Read(text, y3 + 1 + Len(bytes))
    BY FieldTexts, TextParamIs, TextParamRead, GetParamIs
  <2>2. IF text = <<>> THEN v3 = v2 ELSE v3 = WithField(v2, FieldOf(10), text)
    BY <1>6, CTIs, FieldTexts, TextNotNull, FieldsAre DEF v2, v3
  <2>3. Ahead(w, y3, Param(10, text, bytes), end) /\ y3 + Len(Param(10, text, bytes)) <= stop
        /\ stop = y3 + Len(Param(10, text, bytes))
    BY <1>2, <1>4 DEF StartParam
  <2>. HIDE DEF text, bytes
  <2>4. 10 \in Nat /\ 10 <= 127
    OBVIOUS
  <2>5. Reached(f, from, IF text = <<>> THEN v2 ELSE WithField(v2, FieldOf(10), text), stop)
    BY <1>1, <1>2, <1>3, <1>4, <1>9, <1>6, <2>1, <2>3, <2>4, ParamPassed
  <2>. QED BY <2>2, <2>5
<1>11. PICK i \in Nat : i <= stop - from /\ f[i] = Read(v3, stop)
  BY <1>10 DEF Reached
<1>12. ParamsTurn(Read(v3, stop), w, stop, end) = Read(v3, stop)
  <2>1. Read(v3, stop).at >= stop
    BY <1>2, ReadIs
  <2>. QED BY <2>1 DEF ParamsTurn
<1>13. f[n] = Read(v3, stop)
  <2>1. ASSUME NEW j \in Nat, i < j, j <= n, f[j - 1] = Read(v3, stop)
        PROVE  f[j] = Read(v3, stop)
    <3>1. j \in 0 .. n /\ j # 0
      BY <1>2, <1>11, <2>1
    <3>2. f[j] = IF j = 0 THEN Read(v0, from) ELSE ParamsTurn(f[j - 1], w, stop, end)
      BY <1>3, <3>1 DEF ParamTurns
    <3>. QED BY <1>12, <2>1, <3>1, <3>2
  <2>2. i <= n
    BY <1>1, <1>2, <1>11
  <2>. QED BY <1>2, <1>11, <2>1, <2>2, Settled
<1>14. v3 = WithoutFilename(ct)
  BY WithoutFilenameIs DEF v3
<1>. QED BY <1>3, <1>13, <1>14 DEF v0, stop, p

-----------------------------------------------------------------------------

(* The media type and the parameters, behind the value length.              *)
LEMMA ValueRead ==
  ASSUME NEW ct, IsContentType(ct), NEW w, NEW from, NEW end, Ahead(w, from, Value(ct), end)
  PROVE  UnpackParamsOf(w, from, from + Len(Value(ct)), end)
           = Read(WithoutFilename(ct), from + Len(Value(ct)))
<1>. DEFINE m == PutMedia(ct.name)
            p == Params(ct)
            next == from + Len(m)
            stop == from + Len(Value(ct))
            g == GetMedia(w, from, end)
<1>1. m \in Seq(Octets) /\ p \in Seq(Octets)
  BY ContentTypeIs
<1>2. from \in Nat
  BY DEF Ahead
<1>3. Value(ct) = m \o p
  BY DEF Value
<1>4. stop = next + Len(p)
  <2>. HIDE DEF m, p
  <2>. QED BY <1>1, <1>2, <1>3, BehindBoth
<1>5. Ahead(w, from, m, end) /\ Ahead(w, next, p, end)
  <2>. HIDE DEF m, p
  <2>. QED BY <1>1, <1>3, AheadSplit
<1>6. g = Read(ct.name, next) /\ ~ IsValueLength(w, from, end)
  BY <1>5, FieldTexts, MediaRead
<1>7. UnpackParams(ContentTypeNamed(ct.name), w, next, stop, end) = Read(WithoutFilename(ct), stop)
  <2>. HIDE DEF stop, next
  <2>. QED BY <1>4, <1>5, ParamsRead
<1>8. g.value = ct.name /\ g.at = next
  BY <1>6, ReadIs
<1>. HIDE DEF g, next, stop
<1>9. UnpackParamsOf(w, from, stop, end) = UnpackParams(ContentTypeNamed(g.value), w, g.at, stop, end)
  BY <1>6 DEF UnpackParamsOf, Then, g
<1>. QED BY <1>7, <1>8, <1>9 DEF stop

(* mms_content_type_unpack reads what mms_content_type_pack wrote, but for  *)
(* the filename.                                                            *)
THEOREM ContentTypeRead ==
  ASSUME NEW ct, IsContentType(ct), NEW w, NEW from, NEW end, Ahead(w, from, PackContentType(ct), end)
  PROVE  /\ UnpackContentType(w, from, end) = Read(WithoutFilename(ct), from + Len(PackContentType(ct)))
         /\ from < end
         /\ IsValueLength(w, from, end) => HasParams(ct)
         /\ HasParams(ct) => GetValueLength(w, from, end)
              = Read(Len(Value(ct)), from + Len(PutValueLength(Len(Value(ct)))))
<1>1. ASSUME HasParams(ct)
      PROVE  /\ UnpackContentType(w, from, end) = Read(WithoutFilename(ct), from + Len(PackContentType(ct)))
             /\ from < end
             /\ GetValueLength(w, from, end) = Read(Len(Value(ct)), from + Len(PutValueLength(Len(Value(ct)))))
  <2>. DEFINE n == Len(Value(ct))
              l == PutValueLength(n)
              v == Value(ct)
              next == from + Len(l)
              g == GetValueLength(w, from, end)
  <2>1. PackContentType(ct) = l \o v
    BY <1>1, ContentTypeIs
  <2>2. n \in Lengths /\ v \in Seq(Octets)
    BY ContentTypeIs
  <2>3. l \in Seq(Octets)
    <3>. HIDE DEF n
    <3>. QED BY <2>2, ValueLengthIs
  <2>4. from \in Nat
    BY DEF Ahead
  <2>5. Ahead(w, from, l, end) /\ Ahead(w, next, v, end)
    <3>. HIDE DEF l, v, n
    <3>. QED BY <2>1, <2>2, <2>3, AheadSplit
  <2>6. g = Read(n, next) /\ IsValueLength(w, from, end) /\ from < end
    <3>. HIDE DEF n
    <3>. QED BY <2>2, <2>5, ValueLengthRead
  <2>7. g.value = n /\ g.at = next
    BY <2>6, ReadIs
  <2>8. UnpackParamsOf(w, next, next + n, end) = Read(WithoutFilename(ct), next + n)
    BY <2>5, ValueRead
  <2>9. next + n = from + Len(PackContentType(ct))
    <3>1. next + Len(v) = from + Len(l \o v)
      <4>. HIDE DEF l, v, n
      <4>. QED BY <2>2, <2>3, <2>4, BehindBoth
    <3>. QED BY <2>1, <3>1
  <2>. HIDE DEF g, next, n, l, v
  <2>10. UnpackContentType(w, from, end) = UnpackParamsOf(w, g.at, g.at + g.value, end)
    BY <2>6 DEF UnpackContentType, Then, g
  <2>11. UnpackContentType(w, from, end) = Read(WithoutFilename(ct), from + Len(PackContentType(ct)))
    BY <2>7, <2>8, <2>9, <2>10
  <2>. QED BY <2>6, <2>11 DEF g, next, n, l
<1>2. ASSUME ~ HasParams(ct)
      PROVE  /\ UnpackContentType(w, from, end) = Read(WithoutFilename(ct), from + Len(PackContentType(ct)))
             /\ from < end /\ ~ IsValueLength(w, from, end)
  <2>. DEFINE next == from + Len(PutMedia(ct.name))
              g == GetMedia(w, from, end)
  <2>1. PackContentType(ct) = PutMedia(ct.name)
    BY <1>2, ContentTypeIs
  <2>2. g = Read(ct.name, next) /\ ~ IsValueLength(w, from, end) /\ from < end
    BY <2>1, FieldTexts, MediaRead
  <2>3. g.value = ct.name /\ g.at = next
    BY <2>2, ReadIs
  <2>4. ContentTypeNamed(ct.name) = WithoutFilename(ct)
    <3>1. ct.type = <<>> /\ ct.param = <<>> /\ ct.start = <<>>
      BY <1>2 DEF HasParams
    <3>. QED BY <3>1, WithoutFilenameIs, CTIs
  <2>. HIDE DEF g, next
  <2>5. UnpackContentType(w, from, end) = Read(ContentTypeNamed(g.value), g.at)
    BY <2>2 DEF UnpackContentType, Of, g
  <2>. QED BY <2>1, <2>2, <2>3, <2>4, <2>5 DEF next
<1>. QED BY <1>1, <1>2

-----------------------------------------------------------------------------
(* How the value of each header is read.                                     *)
LEMMA MmsValueIs ==
  ASSUME NEW id, NEW name, NEW w, NEW from, NEW end
  PROVE  /\ (id = ContentTypeId) =>
              UnpackMmsValue(id, name, w, from, end) = Read(DataItem(name, UnpackContentType(w, from, end).value), UnpackContentType(w, from, end).at)
         /\ (id \in Longs) =>
              UnpackMmsValue(id, name, w, from, end) = Read(LongItem(name, GetLongInt(w, from, end).value), GetLongInt(w, from, end).at)
         /\ (id = VersionId) =>
              UnpackMmsValue(id, name, w, from, end) = Read(LongItem(name, GetShortInt(w, from, end).value), GetShortInt(w, from, end).at)
         /\ (id \in Encodeds) =>
              UnpackMmsValue(id, name, w, from, end) = UnpackText(name, w, from, end)
         /\ (id \in Times) =>
              UnpackMmsValue(id, name, w, from, end) = UnpackTime(name, w, from, end)
         /\ (id = FromId) =>
              UnpackMmsValue(id, name, w, from, end) = UnpackFrom(name, w, from, end)
         /\ (id \in Chars) =>
              UnpackMmsValue(id, name, w, from, end) = UnpackChar(name, w, from, end)
         /\ (id = ClassId /\ IsShortInt(w, from, end)) =>
              UnpackMmsValue(id, name, w, from, end) = UnpackChar(name, w, from, end)
         /\ (id \in Strings \/ (id = ClassId /\ ~ IsShortInt(w, from, end))) =>
              UnpackMmsValue(id, name, w, from, end) = UnpackString(name, w, from, end)
         /\ (id \in Statuses /\ IsString(w, from, end) /\ ~ IsShortInt(w, from, end)) =>
              UnpackMmsValue(id, name, w, from, end) = UnpackString(name, w, from, end)
<1>. USE DEF Longs, ContentTypeId, VersionId, Encodeds, Times, FromId, Chars, ClassId, Statuses, Strings
<1>1. (id = ContentTypeId) =>
       UnpackMmsValue(id, name, w, from, end) = Read(DataItem(name, UnpackContentType(w, from, end).value), UnpackContentType(w, from, end).at)
  BY DEF UnpackMmsValue, Of
<1>2. (id \in Longs) =>
       UnpackMmsValue(id, name, w, from, end) = Read(LongItem(name, GetLongInt(w, from, end).value), GetLongInt(w, from, end).at)
  BY DEF UnpackMmsValue, Of
<1>3. (id = VersionId) =>
       UnpackMmsValue(id, name, w, from, end) = Read(LongItem(name, GetShortInt(w, from, end).value), GetShortInt(w, from, end).at)
  BY DEF UnpackMmsValue, Of
<1>4. (id \in Encodeds) =>
       UnpackMmsValue(id, name, w, from, end) = UnpackText(name, w, from, end)
  BY DEF UnpackMmsValue, Of
<1>5. (id \in Times) =>
       UnpackMmsValue(id, name, w, from, end) = UnpackTime(name, w, from, end)
  BY DEF UnpackMmsValue, Of
<1>6. (id = FromId) =>
       UnpackMmsValue(id, name, w, from, end) = UnpackFrom(name, w, from, end)
  BY DEF UnpackMmsValue, Of
<1>7. (id \in Chars) =>
       UnpackMmsValue(id, name, w, from, end) = UnpackChar(name, w, from, end)
  BY DEF UnpackMmsValue, Of
<1>8. (id = ClassId /\ IsShortInt(w, from, end)) =>
       UnpackMmsValue(id, name, w, from, end) = UnpackChar(name, w, from, end)
  BY DEF UnpackMmsValue, Of
<1>9. (id \in Strings \/ (id = ClassId /\ ~ IsShortInt(w, from, end))) =>
       UnpackMmsValue(id, name, w, from, end) = UnpackString(name, w, from, end)
  BY DEF UnpackMmsValue, Of
<1>10. (id \in Statuses /\ IsString(w, from, end) /\ ~ IsShortInt(w, from, end)) =>
       UnpackMmsValue(id, name, w, from, end) = UnpackString(name, w, from, end)
  BY DEF UnpackMmsValue, Of
<1>. QED BY <1>1, <1>2, <1>3, <1>4, <1>5, <1>6, <1>7, <1>8, <1>9, <1>10

(* Bytes that an unpacker of header number id reads as the value v.          *)
ValueTravels(id, name, bytes, v) ==
  /\ bytes \in Seq(Octets) /\ Len(bytes) \in Nat /\ Len(bytes) >= 1
  /\ \A w, from, end : Ahead(w, from, bytes, end)
       => UnpackMmsValue(id, name, w, from, end) = Read(v, from + Len(bytes))

(* The values of the mms codec, format by format: what is packed is         *)
(* unpacked.                                                                *)
LEMMA LongTravels ==
  ASSUME NEW id \in Longs, NEW name, NEW d, IsLong(d)
  PROVE  ValueTravels(id, name, PutLongInt(d), LongItem(name, d))
<1>1. PutLongInt(d) \in Seq(Octets) /\ Len(PutLongInt(d)) \in Nat /\ Len(PutLongInt(d)) >= 1
  <2>1. PutLongInt(d) \in Seq(Octets) /\ Len(PutLongInt(d)) \in Nat /\ 2 <= Len(PutLongInt(d))
    BY LongIntIs
  <2>. QED BY <2>1
<1>2. ASSUME NEW w, NEW from, NEW end, Ahead(w, from, PutLongInt(d), end)
      PROVE  UnpackMmsValue(id, name, w, from, end) = Read(LongItem(name, d), from + Len(PutLongInt(d)))
  <2>1. UnpackMmsValue(id, name, w, from, end) = Read(LongItem(name, GetLongInt(w, from, end).value), GetLongInt(w, from, end).at)
    BY MmsValueIs
  <2>2. GetLongInt(w, from, end) = Read(d, from + Len(PutLongInt(d)))
    BY <1>2, LongIntRead
  <2>. QED BY <2>1, <2>2, ReadIs DEF Of
<1>. QED BY <1>1, <1>2 DEF ValueTravels

(* A long of one octet.                                                      *)
IsChar(d) == IsLong(d) /\ Len(d) <= 1

LEMMA CharIs ==
  ASSUME NEW d, IsChar(d)
  PROVE  Low(d) \in Octets /\ AsLong(Low(d)) = d
<1>1. d \in Seq(Octets) /\ Len(d) <= 1 /\ (d # <<>> => d[1] # 0)
  BY DEF IsChar, IsLong
<1>2. CASE d = <<>>
  BY <1>2, OctetIs DEF Low, AsLong
<1>3. CASE d # <<>>
  <2>0. DOMAIN d = 1 .. Len(d) /\ Len(d) \in Nat /\ Len(d) # 0
    BY <1>1, <1>3, EmptySeq
  <2>1. Len(d) = 1 /\ d[1] \in Octets
    BY <1>1, <2>0
  <2>2. d = <<d[1]>>
    BY <1>1, <2>1
  <2>3. Low(d) = d[1]
    BY <1>3, <2>1 DEF Low, Last
  <2>. QED BY <1>1, <1>3, <2>1, <2>2, <2>3 DEF AsLong
<1>. QED BY <1>2, <1>3

LEMMA OneOctet ==
  ASSUME NEW b \in Octets
  PROVE  <<b>> \in Seq(Octets) /\ Len(<<b>>) = 1 /\ <<b>>[1] = b
OBVIOUS

LEMMA CharRead ==
  ASSUME NEW name, NEW d, IsChar(d), NEW w, NEW from, NEW end, Ahead(w, from, <<Low(d)>>, end)
  PROVE  UnpackChar(name, w, from, end) = Read(LongItem(name, d), from + 1)
<1>1. GetInt8(w, from, end) = Read(Low(d), from + 1)
  BY Int8Read
<1>. QED BY <1>1, CharIs, ReadIs DEF UnpackChar, Of

LEMMA CharTravels ==
  ASSUME NEW id \in Chars, NEW name, NEW d, IsChar(d)
  PROVE  ValueTravels(id, name, <<Low(d)>>, LongItem(name, d))
<1>1. <<Low(d)>> \in Seq(Octets) /\ Len(<<Low(d)>>) = 1
  BY CharIs, OneOctet
<1>2. ASSUME NEW w, NEW from, NEW end, Ahead(w, from, <<Low(d)>>, end)
      PROVE  UnpackMmsValue(id, name, w, from, end) = Read(LongItem(name, d), from + 1)
  <2>1. UnpackMmsValue(id, name, w, from, end) = UnpackChar(name, w, from, end)
    BY MmsValueIs
  <2>. QED BY <1>2, <2>1, CharRead
<1>. QED BY <1>1, <1>2 DEF ValueTravels

LEMMA ClassTravels ==
  ASSUME NEW name, NEW d, IsChar(d), Low(d) >= 128
  PROVE  ValueTravels(ClassId, name, <<Low(d)>>, LongItem(name, d))
<1>1. <<Low(d)>> \in Seq(Octets) /\ Len(<<Low(d)>>) = 1
  BY CharIs, OneOctet
<1>2. ASSUME NEW w, NEW from, NEW end, Ahead(w, from, <<Low(d)>>, end)
      PROVE  UnpackMmsValue(ClassId, name, w, from, end) = Read(LongItem(name, d), from + 1)
  <2>1. IsShortInt(w, from, end)
    BY <1>2, Int8Read DEF IsShortInt
  <2>2. UnpackMmsValue(ClassId, name, w, from, end) = UnpackChar(name, w, from, end)
    BY <2>1, MmsValueIs
  <2>. QED BY <1>2, <2>2, CharRead
<1>. QED BY <1>1, <1>2 DEF ValueTravels

LEMMA VersionTravels ==
  ASSUME NEW name, NEW d, IsChar(d), Low(d) < 128
  PROVE  ValueTravels(VersionId, name, PutShortInt(d), LongItem(name, d))
<1>. DEFINE number == Low(d)
<1>1. number \in Nat /\ number <= 127 /\ AsLong(number) = d
  <2>1. number \in Octets /\ number < 128 /\ AsLong(number) = d
    BY CharIs
  <2>2. number \in Nat
    BY <2>1, OctetsAre
  <2>. QED BY <2>1, <2>2
<1>2. PutShortInt(d) = <<128 + number>>
  <2>1. number % 128 = number
    <3>. HIDE DEF number
    <3>. QED BY <1>1
  <2>. QED BY <2>1 DEF PutShortInt
<1>. HIDE DEF number
<1>3. <<128 + number>> \in Seq(Octets) /\ Len(<<128 + number>>) = 1
  BY <1>1, ShortIntIs
<1>4. ASSUME NEW w, NEW from, NEW end, Ahead(w, from, <<128 + number>>, end)
      PROVE  UnpackMmsValue(VersionId, name, w, from, end) = Read(LongItem(name, d), from + 1)
  <2>1. UnpackMmsValue(VersionId, name, w, from, end) = Read(LongItem(name, GetShortInt(w, from, end).value), GetShortInt(w, from, end).at)
    BY MmsValueIs
  <2>2. GetShortInt(w, from, end) = Read(d, from + 1)
    BY <1>1, <1>4, ShortIntRead
  <2>. QED BY <2>1, <2>2, ReadIs DEF Of
<1>5. PutShortInt(d) \in Seq(Octets) /\ Len(PutShortInt(d)) = 1
  BY <1>2, <1>3
<1>6. ASSUME NEW w, NEW from, NEW end, Ahead(w, from, PutShortInt(d), end)
      PROVE  UnpackMmsValue(VersionId, name, w, from, end) = Read(LongItem(name, d), from + 1)
  BY <1>2, <1>4, <1>6
<1>. QED BY <1>5, <1>6 DEF ValueTravels

LEMMA StringValueIs ==
  ASSUME NEW t, IsText(t)
  PROVE  PutString(t) \in Seq(Octets) /\ Len(PutString(t)) \in Nat /\ Len(PutString(t)) >= 1
<1>1. PutString(t) \in Seq(Octets) /\ Len(PutString(t)) = Len(t) + 1 /\ Len(t) \in Nat
  BY TextIs
<1>. QED BY <1>1

LEMMA StringItemRead ==
  ASSUME NEW name, NEW t, IsText(t), NEW w, NEW from, NEW end, Ahead(w, from, PutString(t), end)
  PROVE  UnpackString(name, w, from, end) = Read(StringItem(name, t), from + Len(PutString(t)))
BY TextParamRead, ReadIs DEF UnpackString, Of

(* Texts that are read alone: of some headers only those that begin so.      *)
LEMMA StringTravels ==
  ASSUME NEW id, NEW name, NEW t, IsText(t),
         \/ id \in Strings
         \/ id = ClassId /\ Begins(t, 1 .. 127)
         \/ id \in Statuses /\ Begins(t, 32 .. 127)
  PROVE  ValueTravels(id, name, PutString(t), StringItem(name, t))
<1>1. ASSUME NEW w, NEW from, NEW end, Ahead(w, from, PutString(t), end)
      PROVE  UnpackMmsValue(id, name, w, from, end) = Read(StringItem(name, t), from + Len(PutString(t)))
  <2>1. ASSUME NEW first, Begins(t, first)
        PROVE  Peek(w, from, end) \in first
    <3>1. Len(PutString(t)) >= 1 /\ PutString(t)[1] \in first
      BY <2>1, FirstCharacter
    <3>. QED BY <1>1, <3>1, AheadFirst
  <2>2. UnpackMmsValue(id, name, w, from, end) = UnpackString(name, w, from, end)
    <3>1. CASE id \in Strings
      BY <3>1 DEF UnpackMmsValue, Longs, ContentTypeId, VersionId, Encodeds, Times, FromId, Chars, ClassId, Statuses, Strings
    <3>2. CASE id = ClassId /\ Begins(t, 1 .. 127)
      <4>1. ~ IsShortInt(w, from, end)
        <5>1. Peek(w, from, end) \in 1 .. 127
          BY <2>1, <3>2
        <5>. QED BY <5>1 DEF IsShortInt
      <4>. QED BY <3>2, <4>1, MmsValueIs
    <3>3. CASE id \in Statuses /\ Begins(t, 32 .. 127)
      <4>1. ~ IsShortInt(w, from, end) /\ IsString(w, from, end)
        <5>1. Peek(w, from, end) \in 32 .. 127
          BY <2>1, <3>3
        <5>. QED BY <5>1 DEF IsShortInt, IsString
      <4>. QED BY <3>3, <4>1, MmsValueIs
    <3>. QED BY <3>1, <3>2, <3>3
  <2>. QED BY <1>1, <2>2, StringItemRead
<1>. QED BY <1>1, StringValueIs DEF ValueTravels

(* A text with a charset, or none.                                          *)
TextItem(name, t, c) == IF c = 0 THEN StringItem(name, t) ELSE EncodedItem(name, t, c)

LEMMA TextItemRead ==
  ASSUME NEW name, NEW t, NEW c, IsText(t), IsCharset(c), c = 0 => Begins(t, 32 .. 255),
         NEW w, NEW from, NEW end, Ahead(w, from, PutEncodedString(t, c), end)
  PROVE  UnpackText(name, w, from, end)
           = Read(TextItem(name, t, c), from + Len(PutEncodedString(t, c)))
<1>. DEFINE s == [text |-> t, charset |-> c]
            g == GetEncodedString(w, from, end)
<1>1. /\ g = Read(s, from + Len(PutEncodedString(t, c)))
      /\ IsValueLength(w, from, end) <=> c # 0
  <2>1. g = Read(s, from + Len(PutEncodedString(t, c))) /\ LengthAhead(w, from, end, t, c)
    BY EncodedStringRead
  <2>. HIDE DEF g, s
  <2>. QED BY <2>1 DEF LengthAhead
<1>2. g.value = s /\ g.at = from + Len(PutEncodedString(t, c))
  BY <1>1, ReadIs
<1>3. s.text = t /\ s.charset = c
  OBVIOUS
<1>. HIDE DEF g, s
<1>4. UnpackText(name, w, from, end)
        = Read(IF IsValueLength(w, from, end) THEN EncodedItem(name, g.value.text, g.value.charset)
               ELSE StringItem(name, g.value.text), g.at)
  BY DEF UnpackText, Of, g
<1>. QED BY <1>1, <1>2, <1>3, <1>4 DEF TextItem

LEMMA NoCharset ==
  /\ IsCharset(0) /\ \A t : PutEncodedString(t, 0) = PutString(t)
  /\ \A name, t : TextItem(name, t, 0) = StringItem(name, t)
<1>1. MaxCharset \in Nat
  BY SMT DEF MaxCharset
<1>2. IsCharset(0)
  <2>1. 0 <= MaxCharset
    BY <1>1
  <2>. QED BY <2>1 DEF IsCharset
<1>3. \A t : PutEncodedString(t, 0) = PutString(t)
  BY DEF PutEncodedString
<1>4. \A name, t : TextItem(name, t, 0) = StringItem(name, t)
  BY DEF TextItem
<1>. QED BY <1>2, <1>3, <1>4

LEMMA EncodedValueIs ==
  ASSUME NEW t, NEW c, IsText(t), IsCharset(c)
  PROVE  /\ PutEncodedString(t, c) \in Seq(Octets)
         /\ Len(PutEncodedString(t, c)) \in Nat /\ Len(PutEncodedString(t, c)) >= 1
         /\ Len(PutEncodedString(t, c)) + 1 \in Lengths
<1>1. PutEncodedString(t, c) \in Seq(Octets) /\ Len(PutEncodedString(t, c)) \in Nat
      /\ Len(PutEncodedString(t, c)) < MaxText + 12
  BY EncodedStringIs
<1>2. Len(PutEncodedString(t, c)) + 1 \in Lengths
  <2>. DEFINE n == Len(PutEncodedString(t, c)) + 1
  <2>1. n \in Nat /\ n < 6 * MaxText + 64
    BY <1>1, MaxTextIs
  <2>. HIDE DEF n
  <2>2. n \in Lengths
    BY <2>1, TextLengths
  <2>. QED BY <2>2 DEF n
<1>3. Len(PutEncodedString(t, c)) >= 1
  <2>1. CASE c = 0
    BY <2>1, EncodedStringIs, StringValueIs
  <2>2. CASE c # 0
    <3>. DEFINE q == Charsetted(t, c)
                l == PutValueLength(Len(q))
    <3>1. q \in Seq(Octets) /\ Len(q) \in Lengths
      BY CharsettedIs
    <3>2. l \in Seq(Octets) /\ Len(l) \in Nat /\ 1 <= Len(l)
      <4>. HIDE DEF q
      <4>. QED BY <3>1, ValueLengthIs
    <3>3. PutEncodedString(t, c) = l \o q
      BY <2>2, EncodedStringIs
    <3>. HIDE DEF l, q
    <3>4. Len(l \o q) = Len(l) + Len(q)
      BY <3>1, <3>2, Joined
    <3>5. Len(q) \in Nat
      BY <3>1, LengthsAre
    <3>6. Len(l \o q) >= 1
      BY <3>2, <3>4, <3>5
    <3>. QED BY <3>3, <3>6
  <2>. QED BY <2>1, <2>2
<1>. QED BY <1>1, <1>2, <1>3

LEMMA EncodedTravels ==
  ASSUME NEW id \in Encodeds, NEW name, NEW t, NEW c, IsText(t), IsCharset(c), c = 0 => Begins(t, 32 .. 255)
  PROVE  ValueTravels(id, name, PutEncodedString(t, c), TextItem(name, t, c))
<1>1. ASSUME NEW w, NEW from, NEW end, Ahead(w, from, PutEncodedString(t, c), end)
      PROVE  UnpackMmsValue(id, name, w, from, end)
               = Read(TextItem(name, t, c), from + Len(PutEncodedString(t, c)))
  <2>1. UnpackMmsValue(id, name, w, from, end) = UnpackText(name, w, from, end)
    BY MmsValueIs
  <2>. QED BY <1>1, <2>1, TextItemRead
<1>. QED BY <1>1, EncodedValueIs DEF ValueTravels

LEMMA ContentTypeTravels ==
  ASSUME NEW name, NEW ct, IsContentType(ct)
  PROVE  ValueTravels(ContentTypeId, name, PackContentType(ct), DataItem(name, WithoutFilename(ct)))
<1>1. ASSUME NEW w, NEW from, NEW end, Ahead(w, from, PackContentType(ct), end)
      PROVE  UnpackMmsValue(ContentTypeId, name, w, from, end)
               = Read(DataItem(name, WithoutFilename(ct)), from + Len(PackContentType(ct)))
  <2>. DEFINE g == UnpackContentType(w, from, end)
  <2>1. g = Read(WithoutFilename(ct), from + Len(PackContentType(ct)))
    BY <1>1, ContentTypeRead
  <2>2. g.value = WithoutFilename(ct) /\ g.at = from + Len(PackContentType(ct))
    BY <2>1, ReadIs
  <2>. HIDE DEF g
  <2>3. UnpackMmsValue(ContentTypeId, name, w, from, end) = Read(DataItem(name, g.value), g.at)
    BY MmsValueIs DEF g
  <2>. QED BY <2>2, <2>3
<1>2. PackContentType(ct) \in Seq(Octets) /\ Len(PackContentType(ct)) >= 1
  BY ContentTypeIs
<1>3. Len(PackContentType(ct)) \in Nat
  BY <1>2, SeqIs
<1>. QED BY <1>1, <1>2, <1>3 DEF ValueTravels

-----------------------------------------------------------------------------
(* A value length, an octet and what follows.                               *)
Counted(b, p) == PutValueLength(Len(p) + 1) \o <<b>> \o p

(* A value length, a token byte and what follows it.                        *)
LEMMA CountedIs ==
  ASSUME NEW b \in Octets, NEW p \in Seq(Octets), Len(p) + 1 \in Lengths
  PROVE  /\ Counted(b, p) \in Seq(Octets) /\ Len(Counted(b, p)) \in Nat /\ Len(Counted(b, p)) >= 1
         /\ Len(Counted(b, p)) = Len(PutValueLength(Len(p) + 1)) + (Len(p) + 1)
<1>. DEFINE n == Len(p) + 1
            l == PutValueLength(n)
            h == <<b>>
<1>1. n \in Lengths
  OBVIOUS
<1>2. l \in Seq(Octets) /\ Len(l) \in Nat /\ 1 <= Len(l)
  <2>. HIDE DEF n
  <2>. QED BY <1>1, ValueLengthIs
<1>3. h \in Seq(Octets) /\ Len(h) = 1 /\ Len(p) \in Nat
  OBVIOUS
<1>4. Counted(b, p) = (l \o h) \o p
  BY DEF Counted
<1>. HIDE DEF l, h
<1>5. l \o h \in Seq(Octets) /\ Len(l \o h) = Len(l) + Len(h)
  BY <1>2, <1>3, Joined
<1>6. (l \o h) \o p \in Seq(Octets) /\ Len((l \o h) \o p) = Len(l \o h) + Len(p)
  BY <1>5, Joined
<1>7. Len((l \o h) \o p) = Len(l) + n /\ Len((l \o h) \o p) >= 1 /\ Len((l \o h) \o p) \in Nat
  BY <1>2, <1>3, <1>5, <1>6
<1>. QED BY <1>4, <1>6, <1>7 DEF l

LEMMA CountedRead ==
  ASSUME NEW b \in Octets, NEW p \in Seq(Octets), Len(p) + 1 \in Lengths,
         NEW w, NEW from, NEW end, Ahead(w, from, Counted(b, p), end)
  PROVE  LET g == GetValueLength(w, from, end)
         IN  /\ g.value = Len(p) + 1
             /\ g.at + g.value = from + Len(Counted(b, p))
             /\ Limit(w, g.at + g.value, end) = from + Len(Counted(b, p))
             /\ \A limit \in {end, from + Len(Counted(b, p))} :
                  GetInt8(w, g.at, limit) = Read(b, g.at + 1) /\ Ahead(w, g.at + 1, p, limit)
             /\ g.at + 1 + Len(p) = from + Len(Counted(b, p))
<1>. DEFINE n == Len(p) + 1
            l == PutValueLength(n)
            h == <<b>>
            g == GetValueLength(w, from, end)
            stop == from + Len(Counted(b, p))
            next == from + Len(l)
<1>1. n \in Lengths /\ from \in Nat /\ Len(p) \in Nat
  BY DEF Ahead
<1>2. l \in Seq(Octets) /\ Len(l) \in Nat
  <2>. HIDE DEF n
  <2>. QED BY <1>1, ValueLengthIs
<1>3. h \in Seq(Octets) /\ Len(h) = 1
  OBVIOUS
<1>4. Counted(b, p) = (l \o h) \o p
  BY DEF Counted
<1>5. Len(Counted(b, p)) = Len(l) + n
  BY CountedIs
<1>6. stop = next + n /\ stop = (next + 1) + Len(p)
  <2>1. n = Len(p) + 1
    OBVIOUS
  <2>. HIDE DEF l, n
  <2>. QED BY <1>1, <1>2, <1>5, <2>1
<1>. HIDE DEF l, h
<1>7. l \o h \in Seq(Octets) /\ Len(l \o h) = Len(l) + 1
  <2>1. l \o h \in Seq(Octets) /\ Len(l \o h) = Len(l) + Len(h)
    BY <1>2, <1>3, Joined
  <2>. QED BY <1>2, <1>3, <2>1
<1>8. Ahead(w, from, Counted(b, p), stop) /\ Limit(w, stop, end) = stop
  BY AheadLimit
<1>9. ASSUME NEW limit, Ahead(w, from, (l \o h) \o p, limit)
      PROVE  /\ Ahead(w, from, l, limit)
             /\ GetInt8(w, next, limit) = Read(b, next + 1)
             /\ Ahead(w, next + 1, p, limit)
  <2>1. Ahead(w, from, l \o h, limit) /\ Ahead(w, from + Len(l \o h), p, limit)
    BY <1>7, <1>9, AheadSplit
  <2>2. Ahead(w, from, l, limit) /\ Ahead(w, next, h, limit)
    BY <1>2, <1>3, <2>1, AheadSplit
  <2>3. from + Len(l \o h) = next + 1
    BY <1>1, <1>2, <1>7
  <2>4. GetInt8(w, next, limit) = Read(b, next + 1)
    <3>. HIDE DEF next
    <3>. QED BY <2>2, Int8Read DEF h
  <2>. QED BY <2>1, <2>2, <2>3, <2>4
<1>10. g = Read(n, next)
  <2>1. Ahead(w, from, l, end)
    BY <1>4, <1>9
  <2>. HIDE DEF n
  <2>. QED BY <1>1, <2>1, ValueLengthRead DEF l
<1>11. g.value = n /\ g.at = next
  BY <1>10, ReadIs
<1>12. /\ GetInt8(w, next, end) = Read(b, next + 1) /\ Ahead(w, next + 1, p, end)
       /\ GetInt8(w, next, stop) = Read(b, next + 1) /\ Ahead(w, next + 1, p, stop)
  BY <1>4, <1>8, <1>9
<1>. HIDE DEF g, next, stop, n
<1>13. /\ g.value = n /\ g.at + g.value = stop /\ Limit(w, g.at + g.value, end) = stop
       /\ \A limit \in {end, stop} : GetInt8(w, g.at, limit) = Read(b, g.at + 1) /\ Ahead(w, g.at + 1, p, limit)
       /\ g.at + 1 + Len(p) = stop
  BY <1>6, <1>8, <1>11, <1>12
<1>. QED BY <1>13 DEF g, stop, n

(* A time is read as the absolute or relative time it was put as.           *)
LEMMA TimeTravels ==
  ASSUME NEW id \in Times, NEW name, NEW token \in Octets, NEW d, IsLong(d)
  PROVE  ValueTravels(id, name, Counted(token, PutLongInt(d)), TimeItem(name, token, d))
<1>. DEFINE p == PutLongInt(d)
<1>1. p \in Seq(Octets) /\ Len(p) + 1 \in Lengths
  <2>1. p \in Seq(Octets) /\ Len(p) \in Nat /\ Len(p) <= 5
    BY LongIntIs
  <2>2. Len(p) + 1 \in Nat /\ Len(p) + 1 <= 255
    BY <2>1
  <2>. QED BY <2>1, <2>2, SmallLengths
<1>2. ASSUME NEW w, NEW from, NEW end, Ahead(w, from, Counted(token, p), end)
      PROVE  UnpackMmsValue(id, name, w, from, end) = Read(TimeItem(name, token, d), from + Len(Counted(token, p)))
  <2>. DEFINE g == GetValueLength(w, from, end)
              o == GetInt8(w, g.at, end)
              t == GetLongInt(w, g.at + 1, end)
  <2>1. /\ o = Read(token, g.at + 1)
        /\ Ahead(w, g.at + 1, p, end)
        /\ g.at + 1 + Len(p) = from + Len(Counted(token, p))
    <3>. HIDE DEF p
    <3>. QED BY <1>1, <1>2, CountedRead
  <2>2. t = Read(d, g.at + 1 + Len(p))
    <3>. HIDE DEF g
    <3>. QED BY <2>1, LongIntRead
  <2>3. o.value = token /\ o.at = g.at + 1 /\ t.value = d /\ t.at = g.at + 1 + Len(p)
    BY <2>1, <2>2, ReadIs
  <2>4. UnpackMmsValue(id, name, w, from, end) = UnpackTime(name, w, from, end)
    BY MmsValueIs
  <2>5. UnpackTime(name, w, from, end) =
          Read(TimeItem(name, o.value, GetLongInt(w, o.at, end).value), GetLongInt(w, o.at, end).at)
    <3>. HIDE DEF o, g, t, p
    <3>. QED BY DEF UnpackTime, Then, Of, o, g
  <2>. HIDE DEF o, g, p
  <2>6. GetLongInt(w, o.at, end) = t
    BY <2>3
  <2>. HIDE DEF t
  <2>. QED BY <2>1, <2>3, <2>4, <2>5, <2>6
<1>3. /\ Counted(token, p) \in Seq(Octets) /\ Len(Counted(token, p)) \in Nat /\ Len(Counted(token, p)) >= 1
  <2>. HIDE DEF p
  <2>. QED BY <1>1, CountedIs
<1>. QED BY <1>2, <1>3 DEF ValueTravels

(* The sender: a value length, the token, and the address if there is one.  *)
LEMMA AddressTravels ==
  ASSUME NEW name, NEW t, NEW c, IsText(t), IsCharset(c), c = 0 => Begins(t, 32 .. 255)
  PROVE  ValueTravels(FromId, name, Counted(AddressPresent, PutEncodedString(t, c)), TextItem(name, t, c))
<1>. DEFINE p == PutEncodedString(t, c)
            all == Counted(AddressPresent, p)
<1>1. p \in Seq(Octets) /\ Len(p) + 1 \in Lengths
  BY EncodedValueIs
<1>2. AddressPresent \in Octets
  BY OctetIs DEF AddressPresent
<1>3. all \in Seq(Octets) /\ Len(all) \in Nat /\ Len(all) >= 1
  <2>. HIDE DEF p
  <2>. QED BY <1>1, <1>2, CountedIs
<1>4. ASSUME NEW w, NEW from, NEW end, Ahead(w, from, all, end)
      PROVE  UnpackMmsValue(FromId, name, w, from, end) = Read(TextItem(name, t, c), from + Len(all))
  <2>. DEFINE g == GetValueLength(w, from, end)
              stop == from + Len(all)
              o == GetInt8(w, g.at, stop)
              u == UnpackText(name, w, g.at + 1, stop)
  <2>1. /\ Limit(w, g.at + g.value, end) = stop
        /\ o = Read(AddressPresent, g.at + 1) /\ Ahead(w, g.at + 1, p, stop)
    <3>. HIDE DEF p
    <3>. QED BY <1>1, <1>2, <1>4, CountedRead
  <2>2. u = Read(TextItem(name, t, c), g.at + 1 + Len(p))
    <3>. HIDE DEF g, stop
    <3>. QED BY <2>1, TextItemRead
  <2>3. o.value = AddressPresent /\ o.at = g.at + 1 /\ u.value = TextItem(name, t, c)
    BY <2>1, <2>2, ReadIs
  <2>4. UnpackMmsValue(FromId, name, w, from, end) = UnpackFrom(name, w, from, end)
    BY MmsValueIs
  <2>. HIDE DEF g, stop, p, all
  <2>5. UnpackFrom(name, w, from, end) = UnpackAddress(name, w, g.at, stop)
    BY <2>1 DEF UnpackFrom, Then, g
  <2>. HIDE DEF o, u
  <2>6. UnpackAddress(name, w, g.at, stop)
          = Read(IF o.value = AddressPresent THEN UnpackText(name, w, o.at, stop).value
                 ELSE LongItem(name, AsLong(o.value)), stop)
    BY DEF UnpackAddress, Then, o
  <2>7. UnpackText(name, w, o.at, stop) = u
    BY <2>3 DEF u
  <2>8. UnpackAddress(name, w, g.at, stop) = Read(TextItem(name, t, c), stop)
    BY <2>3, <2>6, <2>7
  <2>. QED BY <2>4, <2>5, <2>8 DEF stop
<1>. QED BY <1>3, <1>4 DEF ValueTravels

(* The token alone.                                                        *)
LEMMA TokenTravels ==
  ASSUME NEW name, NEW d, IsChar(d), Low(d) # AddressPresent
  PROVE  ValueTravels(FromId, name, PutValueLength(1) \o <<Low(d)>>, LongItem(name, d))
<1>. DEFINE b == Low(d)
            e == <<>>
            all == Counted(b, e)
<1>1. b \in Octets /\ AsLong(b) = d
  BY CharIs
<1>2. e \in Seq(Octets) /\ Len(e) + 1 = 1 /\ 1 \in Lengths /\ Len(e) + 1 \in Lengths
  BY SmallLengths
<1>3. all = PutValueLength(1) \o <<b>>
  <2>1. PutValueLength(1) \in Seq(Octets)
    BY <1>2, ValueLengthIs
  <2>2. <<b>> \in Seq(Octets)
    BY <1>1, OneOctet
  <2>. DEFINE l == PutValueLength(1)
              h == <<b>>
  <2>3. all = (l \o h) \o e
    BY <1>2 DEF Counted
  <2>. HIDE DEF l, h, b, all
  <2>4. l \in Seq(Octets) /\ h \in Seq(Octets)
    BY <2>1, <2>2 DEF l, h
  <2>5. l \o h \in Seq(Octets)
    BY <2>4, Joined
  <2>6. (l \o h) \o e = l \o h
    BY <2>5, ConcatEmptySeq
  <2>. QED BY <2>3, <2>6 DEF l, h
<1>4. all \in Seq(Octets) /\ Len(all) \in Nat /\ Len(all) >= 1
  <2>. HIDE DEF b, e
  <2>. QED BY <1>1, <1>2, CountedIs
<1>5. ASSUME NEW w, NEW from, NEW end, Ahead(w, from, all, end)
      PROVE  UnpackMmsValue(FromId, name, w, from, end) = Read(LongItem(name, d), from + Len(all))
  <2>. DEFINE g == GetValueLength(w, from, end)
              stop == from + Len(all)
              o == GetInt8(w, g.at, stop)
  <2>1. /\ Limit(w, g.at + g.value, end) = stop
        /\ o = Read(b, g.at + 1)
    <3>. HIDE DEF b, e
    <3>. QED BY <1>1, <1>2, <1>5, CountedRead
  <2>2. o.value = b
    BY <2>1, ReadIs
  <2>3. UnpackMmsValue(FromId, name, w, from, end) = UnpackFrom(name, w, from, end)
    BY MmsValueIs
  <2>. HIDE DEF g, stop, all, b
  <2>4. UnpackFrom(name, w, from, end) = UnpackAddress(name, w, g.at, stop)
    BY <2>1 DEF UnpackFrom, Then, g
  <2>. HIDE DEF o
  <2>5. UnpackAddress(name, w, g.at, stop)
          = Read(IF o.value = AddressPresent THEN UnpackText(name, w, o.at, stop).value
                 ELSE LongItem(name, AsLong(o.value)), stop)
    BY DEF UnpackAddress, Then, o
  <2>6. b # AddressPresent
    BY DEF b
  <2>. QED BY <1>1, <2>2, <2>3, <2>4, <2>5, <2>6 DEF stop
<1>6. ValueTravels(FromId, name, all, LongItem(name, d))
  <2>. HIDE DEF all
  <2>. QED BY <1>4, <1>5 DEF ValueTravels
<1>. QED BY <1>3, <1>6

-----------------------------------------------------------------------------

(* The header names of the mms codec.                                       *)
LEMMA MmsIdIs ==
  ASSUME NEW name
  PROVE  LET id == IdOf(MmsNames, name)
         IN  \/ id = -1
             \/ id \in Nat /\ id <= 33 /\ id \in DOMAIN MmsNames /\ MmsNames[id] = name
<1>1. DOMAIN MmsNames = 0 .. 33
  BY DEF MmsNames
<1>2. \A x \in 0 .. 33 : x \in Nat /\ x <= 33
  OBVIOUS
<1>3. DOMAIN MmsNames \subseteq Nat
  BY <1>1, <1>2
<1>. QED BY <1>1, <1>2, <1>3, IdOfIs

LEMMA HeadNumber == \A id \in Nat : id <= 127 => ((128 + id) + 128) % 256 = id
OBVIOUS

(* A header by number, and its value behind it.                              *)
LEMMA HeadRead ==
  ASSUME NEW id \in Nat, id <= 127, NEW bytes \in Seq(Octets),
         NEW w, NEW from, NEW end, Ahead(w, from, <<128 + id>> \o bytes, end)
  PROVE  /\ GetInt8(w, from, end) = Read(128 + id, from + 1) /\ ~ IsString(w, from, end)
         /\ Ahead(w, from + 1, bytes, end)
         /\ from + Len(<<128 + id>> \o bytes) = (from + 1) + Len(bytes)
         /\ from + 1 \in Nat /\ (Len(bytes) >= 1 => ~ (from + 1 >= end))
<1>. DEFINE h == <<128 + id>>
<1>1. h \in Seq(Octets) /\ Len(h) = 1
  BY ShortIntIs
<1>2. from \in Nat /\ end \in Nat
  BY DEF Ahead
<1>3. Len(bytes) \in Nat
  OBVIOUS
<1>4. /\ GetInt8(w, from, end) = Read(128 + id, from + 1)
      /\ ~ IsString(w, from, end)
  <2>1. Ahead(w, from, h, end)
    <3>. HIDE DEF h
    <3>. QED BY <1>1, AheadSplit DEF h
  <2>2. Ahead(w, from, <<128 + id>>, end)
    BY <2>1
  <2>3. GetInt8(w, from, end) = Read(128 + id, from + 1)
    <3>. DEFINE b == 128 + id
    <3>1. Ahead(w, from, <<b>>, end)
      BY <2>2
    <3>. HIDE DEF b
    <3>2. GetInt8(w, from, end) = Read(b, from + 1)
      BY <3>1, Int8Read
    <3>. QED BY <3>2 DEF b
  <2>4. ~ IsString(w, from, end)
    BY <2>2, ShortIntRead
  <2>. QED BY <2>3, <2>4
<1>. HIDE DEF h
<1>5. Ahead(w, from, h \o bytes, end)
  BY DEF h
<1>6. Ahead(w, from + Len(h), bytes, end)
  BY <1>1, <1>5, AheadSplit
<1>7. Len(h \o bytes) = Len(h) + Len(bytes)
  BY <1>1, Joined
<1>8. from + Len(h \o bytes) <= end
  BY <1>5 DEF Ahead
<1>9. from + Len(h \o bytes) = (from + 1) + Len(bytes) /\ (Len(bytes) >= 1 => ~ (from + 1 >= end))
  BY <1>1, <1>2, <1>3, <1>7, <1>8
<1>. QED BY <1>1, <1>2, <1>4, <1>6, <1>9 DEF h

(* An item begins with its number and the top bit.                          *)
LEMMA HeadIs ==
  ASSUME NEW id \in Nat, id <= 127, NEW bytes \in Seq(Octets)
  PROVE  /\ <<128 + id>> \o bytes \in Seq(Octets) /\ Len(<<128 + id>> \o bytes) \in Nat
         /\ Len(<<128 + id>> \o bytes) >= 1
<1>. DEFINE h == <<128 + id>>
<1>1. h \in Seq(Octets) /\ Len(h) = 1
  BY ShortIntIs
<1>2. Len(bytes) \in Nat
  OBVIOUS
<1>. HIDE DEF h
<1>3. h \o bytes \in Seq(Octets) /\ Len(h \o bytes) = Len(h) + Len(bytes)
  BY <1>1, Joined
<1>4. Len(h \o bytes) \in Nat /\ Len(h \o bytes) >= 1
  BY <1>1, <1>2, <1>3
<1>. QED BY <1>3, <1>4 DEF h

(* Bytes that unpacking a header reads as the value v.                       *)
MmsTravels(bytes, v) ==
  /\ bytes \in Seq(Octets) /\ Len(bytes) \in Nat /\ Len(bytes) >= 1
  /\ \A w, from, end : Ahead(w, from, bytes, end) => UnpackMms(w, from, end) = Read(v, from + Len(bytes))

(* An item whose number is known is read by that number.                    *)
LEMMA HeadTravels ==
  ASSUME NEW name, NEW id \in Nat, id <= 33, MmsNames[id] = name, NEW bytes, NEW v,
         ValueTravels(id, name, bytes, v)
  PROVE  MmsTravels(<<128 + id>> \o bytes, v)
<1>1. bytes \in Seq(Octets) /\ Len(bytes) >= 1 /\ id <= 127
  BY DEF ValueTravels
<1>2. ASSUME NEW w, NEW from, NEW end, Ahead(w, from, <<128 + id>> \o bytes, end)
      PROVE  UnpackMms(w, from, end) = Read(v, from + Len(<<128 + id>> \o bytes))
  <2>. DEFINE g == GetInt8(w, from, end)
  <2>1. /\ g = Read(128 + id, from + 1) /\ ~ IsString(w, from, end)
        /\ Ahead(w, from + 1, bytes, end)
        /\ from + Len(<<128 + id>> \o bytes) = (from + 1) + Len(bytes)
        /\ ~ (from + 1 >= end)
    BY <1>1, <1>2, HeadRead
  <2>2. g.value = 128 + id /\ g.at = from + 1
    BY <2>1, ReadIs
  <2>3. (g.value + 128) % 256 = id
    BY <1>1, <2>2, HeadNumber
  <2>. HIDE DEF g
  <2>4. UnpackMms(w, from, end)
          = IF g.at >= end THEN Read(Nothing, g.at)
            ELSE UnpackMmsValue((g.value + 128) % 256, MmsNames[(g.value + 128) % 256], w, g.at, end)
    BY <2>1 DEF UnpackMms, Then, g
  <2>5. UnpackMms(w, from, end) = UnpackMmsValue(id, name, w, from + 1, end)
    BY <2>1, <2>2, <2>3, <2>4
  <2>6. UnpackMmsValue(id, name, w, from + 1, end) = Read(v, (from + 1) + Len(bytes))
    BY <2>1 DEF ValueTravels
  <2>. QED BY <2>1, <2>5, <2>6
<1>. QED BY <1>1, <1>2, HeadIs DEF MmsTravels

(* A header by name.                                                       *)
LEMMA NamedRead ==
  ASSUME NEW name, NEW t, IsName(name), IsText(t),
         NEW w, NEW from, NEW end, Ahead(w, from, PutString(name) \o PutString(t), end)
  PROVE  /\ UnpackNamed(w, from, end)
              = Read(StringItem(name, t), from + Len(PutString(name) \o PutString(t)))
         /\ IsString(w, from, end)
<1>. DEFINE p == PutString(name)
            q == PutString(t)
            g == GetString(w, from, end)
            h == GetString(w, from + Len(p), end)
<1>1. p \in Seq(Octets) /\ q \in Seq(Octets)
  BY StringValueIs, NameIs
<1>2. Ahead(w, from, p, end) /\ Ahead(w, from + Len(p), q, end)
  <2>. HIDE DEF p, q
  <2>. QED BY <1>1, AheadSplit DEF p, q
<1>3. g = Read(name, from + Len(p)) /\ IsString(w, from, end)
  BY <1>2, NameRead
<1>4. h = Read(t, (from + Len(p)) + Len(q))
  <2>. DEFINE y == from + Len(p)
  <2>1. Ahead(w, y, PutString(t), end)
    BY <1>2
  <2>. HIDE DEF y
  <2>2. GetString(w, y, end) = Read(t, y + Len(PutString(t)))
    BY <2>1, TextParamRead
  <2>. QED BY <2>2 DEF y
<1>5. (from + Len(p)) + Len(q) = from + Len(p \o q)
  <2>1. from \in Nat
    BY DEF Ahead
  <2>. HIDE DEF p, q
  <2>. QED BY <1>1, <2>1, BehindBoth
<1>6. g.value = name /\ g.at = from + Len(p) /\ h.value = t /\ h.at = (from + Len(p)) + Len(q)
  BY <1>3, <1>4, ReadIs
<1>. HIDE DEF g, p, q
<1>7. UnpackNamed(w, from, end)
        = Read(StringItem(g.value, GetString(w, g.at, end).value), GetString(w, g.at, end).at)
  BY DEF UnpackNamed, Then, Of, g
<1>8. GetString(w, g.at, end) = h
  BY <1>6
<1>. HIDE DEF h
<1>9. UnpackNamed(w, from, end) = Read(StringItem(name, t), from + Len(p \o q))
  BY <1>5, <1>6, <1>7, <1>8
<1>. QED BY <1>3, <1>9 DEF p, q

LEMMA TwoStringsAre ==
  ASSUME NEW name, NEW t, IsName(name), IsText(t)
  PROVE  LET bytes == PutString(name) \o PutString(t)
         IN  bytes \in Seq(Octets) /\ Len(bytes) \in Nat /\ Len(bytes) >= 1
<1>. DEFINE p == PutString(name)
            q == PutString(t)
<1>1. p \in Seq(Octets) /\ q \in Seq(Octets) /\ Len(p) >= 1 /\ Len(p) \in Nat /\ Len(q) \in Nat
  BY StringValueIs, NameIs
<1>. HIDE DEF p, q
<1>2. p \o q \in Seq(Octets) /\ Len(p \o q) = Len(p) + Len(q)
  BY <1>1, Joined
<1>3. Len(p \o q) \in Nat /\ Len(p \o q) >= 1
  BY <1>1, <1>2
<1>. QED BY <1>2, <1>3 DEF p, q

(* An item whose name is not known is read as a text of that name.          *)
LEMMA NamedTravels ==
  ASSUME NEW name, NEW t, IsName(name), IsText(t)
  PROVE  MmsTravels(PutString(name) \o PutString(t), StringItem(name, t))
<1>. DEFINE bytes == PutString(name) \o PutString(t)
<1>1. ASSUME NEW w, NEW from, NEW end, Ahead(w, from, bytes, end)
      PROVE  UnpackMms(w, from, end) = Read(StringItem(name, t), from + Len(bytes))
  <2>1. UnpackNamed(w, from, end) = Read(StringItem(name, t), from + Len(bytes)) /\ IsString(w, from, end)
    BY <1>1, NamedRead
  <2>. QED BY <2>1 DEF UnpackMms
<1>2. bytes \in Seq(Octets) /\ Len(bytes) \in Nat /\ Len(bytes) >= 1
  BY TwoStringsAre
<1>. HIDE DEF bytes
<1>3. MmsTravels(bytes, StringItem(name, t))
  BY <1>1, <1>2 DEF MmsTravels
<1>. QED BY <1>3 DEF bytes

-----------------------------------------------------------------------------
(* What follows a header's number when it is packed.                         *)
MmsBytes(item) ==
  LET id == IdOf(MmsNames, item.name)
  IN  CASE id = ContentTypeId -> PackContentType(item.ct)
        [] id \in Longs       -> PutLongInt(item.long)
        [] id \in Times       -> PutTime(item)
        [] id = FromId        -> PutFrom(item)
        [] id \in Chars \/ (id = ClassId /\ item.type = "long") -> <<Low(item.long)>>
        [] id = VersionId     -> PutShortInt(item.long)
        [] OTHER              ->
             CASE item.type = "string"  -> PutString(item.text)
               [] item.type = "encoded" -> PutEncodedString(item.text, item.charset)
               [] item.type = "long"    -> PutInt(item.long)

(* What packing an item is, by its number.                                  *)
LEMMA PackMmsIs ==
  ASSUME NEW item
  PROVE  PackMms(item) = LET id == IdOf(MmsNames, item.name)
                         IN  IF id < 0 THEN PutString(item.name) \o PutString(item.text)
                             ELSE <<128 + id>> \o MmsBytes(item)
BY DEF PackMms, MmsBytes

LEMMA MmsBytesAre ==
  ASSUME NEW item, NEW id, id = IdOf(MmsNames, item.name)
  PROVE  /\ id = ContentTypeId => MmsBytes(item) = PackContentType(item.ct)
         /\ id \in Longs => MmsBytes(item) = PutLongInt(item.long)
         /\ id \in Times => MmsBytes(item) = PutTime(item)
         /\ id = FromId => MmsBytes(item) = PutFrom(item)
         /\ id \in Chars => MmsBytes(item) = <<Low(item.long)>>
         /\ id = ClassId /\ item.type = "long" => MmsBytes(item) = <<Low(item.long)>>
         /\ id = VersionId => MmsBytes(item) = PutShortInt(item.long)
         /\ id \in Strings \union Statuses \union Encodeds \union {ClassId} /\ item.type = "string"
              => MmsBytes(item) = PutString(item.text)
         /\ id \in Encodeds /\ item.type = "encoded"
              => MmsBytes(item) = PutEncodedString(item.text, item.charset)
<1>. USE DEF Longs, ContentTypeId, VersionId, Encodeds, Times, FromId, Chars, ClassId, Statuses, Strings
<1>1. id = ContentTypeId => MmsBytes(item) = PackContentType(item.ct)
  BY DEF MmsBytes
<1>2. id \in Longs => MmsBytes(item) = PutLongInt(item.long)
  BY DEF MmsBytes
<1>3. id \in Times => MmsBytes(item) = PutTime(item)
  BY DEF MmsBytes
<1>4. id = FromId => MmsBytes(item) = PutFrom(item)
  BY DEF MmsBytes
<1>5. id \in Chars => MmsBytes(item) = <<Low(item.long)>>
  BY DEF MmsBytes
<1>6. id = ClassId /\ item.type = "long" => MmsBytes(item) = <<Low(item.long)>>
  BY DEF MmsBytes
<1>7. id = VersionId => MmsBytes(item) = PutShortInt(item.long)
  BY DEF MmsBytes
<1>8. id \in Strings \union Statuses \union Encodeds \union {ClassId} /\ item.type = "string"
        => MmsBytes(item) = PutString(item.text)
  BY DEF MmsBytes
<1>9. id \in Encodeds /\ item.type = "encoded" => MmsBytes(item) = PutEncodedString(item.text, item.charset)
  BY DEF MmsBytes
<1>. QED BY <1>1, <1>2, <1>3, <1>4, <1>5, <1>6, <1>7, <1>8, <1>9

(* What an item is read as: a text of charset 0 has none.                    *)
Again(item) ==
  IF item.type = "encoded" /\ item.charset = 0 THEN StringItem(item.name, item.text) ELSE item

(* Which items the mms codec can read again, type by type.                  *)
LEMMA ItemsAre ==
  ASSUME NEW item
  PROVE  /\ HasText(item) => item = StringItem(item.name, item.text) /\ item.type = "string" /\ IsText(item.text)
         /\ HasLong(item) => item = LongItem(item.name, item.long) /\ item.type = "long" /\ IsLong(item.long)
         /\ HasTime(item) => /\ item = TimeItem(item.name, item.token, item.time) /\ item.type = "time"
                             /\ item.token \in Octets /\ IsLong(item.time)
         /\ HasEncoded(item) => /\ item = EncodedItem(item.name, item.text, item.charset)
                                /\ item.type = "encoded" /\ IsText(item.text) /\ IsCharset(item.charset)
<1>1. HasText(item) => item.type = "string"
  <2>1. ASSUME NEW name, NEW text, item = StringItem(name, text) PROVE item.type = "string"
    BY <2>1 DEF StringItem
  <2>. QED BY <2>1 DEF HasText
<1>2. HasLong(item) => item.type = "long"
  <2>1. ASSUME NEW name, NEW long, item = LongItem(name, long) PROVE item.type = "long"
    BY <2>1 DEF LongItem
  <2>. QED BY <2>1 DEF HasLong
<1>3. HasTime(item) => item.type = "time"
  <2>1. ASSUME NEW name, NEW token, NEW time, item = TimeItem(name, token, time) PROVE item.type = "time"
    BY <2>1 DEF TimeItem
  <2>. QED BY <2>1 DEF HasTime
<1>4. HasEncoded(item) => item.type = "encoded"
  <2>1. ASSUME NEW name, NEW text, NEW charset, item = EncodedItem(name, text, charset) PROVE item.type = "encoded"
    BY <2>1 DEF EncodedItem
  <2>. QED BY <2>1 DEF HasEncoded
<1>. QED BY <1>1, <1>2, <1>3, <1>4 DEF HasText, HasLong, HasTime, HasEncoded

(* The value of each item an MMS header can hold.                            *)
LEMMA MmsItemValue ==
  ASSUME NEW item, NEW id, id = IdOf(MmsNames, item.name), ~ (id < 0), CanReadMms(item)
  PROVE  ValueTravels(id, item.name, MmsBytes(item), Again(item))
<1>1. ASSUME item.type = "string", HasText(item),
             \/ id \in Strings
             \/ id = ClassId /\ Begins(item.text, 1 .. 127)
             \/ id \in Statuses /\ Begins(item.text, 32 .. 127)
      PROVE  ValueTravels(id, item.name, MmsBytes(item), Again(item))
  <2>1. ValueTravels(id, item.name, PutString(item.text), StringItem(item.name, item.text))
    BY <1>1, ItemsAre, StringTravels
  <2>2. MmsBytes(item) = PutString(item.text)
    BY <1>1, MmsBytesAre
  <2>3. Again(item) = StringItem(item.name, item.text)
    BY <1>1, ItemsAre DEF Again
  <2>. QED BY <2>1, <2>2, <2>3
<1>2. ASSUME id \in Encodeds, IsAddress(item)
      PROVE  ValueTravels(id, item.name, MmsBytes(item), Again(item))
  <2>1. CASE item.type = "string" /\ HasText(item) /\ Begins(item.text, 32 .. 255)
    <3>1. ValueTravels(id, item.name, PutEncodedString(item.text, 0), TextItem(item.name, item.text, 0))
      BY <1>2, <2>1, ItemsAre, NoCharset, EncodedTravels
    <3>2. MmsBytes(item) = PutEncodedString(item.text, 0)
      BY <1>2, <2>1, MmsBytesAre, NoCharset
    <3>3. Again(item) = TextItem(item.name, item.text, 0)
      BY <2>1, ItemsAre, NoCharset DEF Again
    <3>. QED BY <3>1, <3>2, <3>3
  <2>2. CASE item.type = "encoded" /\ HasEncoded(item) /\ (item.charset = 0 => Begins(item.text, 32 .. 255))
    <3>1. ValueTravels(id, item.name, PutEncodedString(item.text, item.charset),
                       TextItem(item.name, item.text, item.charset))
      BY <1>2, <2>2, ItemsAre, EncodedTravels
    <3>2. MmsBytes(item) = PutEncodedString(item.text, item.charset)
      BY <1>2, <2>2, MmsBytesAre
    <3>3. Again(item) = TextItem(item.name, item.text, item.charset)
      BY <2>2, ItemsAre DEF Again, TextItem
    <3>. QED BY <3>1, <3>2, <3>3
  <2>. QED BY <1>2, <2>1, <2>2 DEF IsAddress
<1>3. ASSUME id = FromId, IsAddress(item)
      PROVE  ValueTravels(id, item.name, MmsBytes(item), Again(item))
  <2>0. MmsBytes(item) = PutFrom(item)
    BY <1>3, MmsBytesAre
  <2>1. CASE item.type = "string" /\ HasText(item) /\ Begins(item.text, 32 .. 255)
    <3>1. ValueTravels(FromId, item.name, Counted(AddressPresent, PutEncodedString(item.text, 0)),
                       TextItem(item.name, item.text, 0))
      BY <2>1, ItemsAre, NoCharset, AddressTravels
    <3>2. PutFrom(item) = Counted(AddressPresent, PutEncodedString(item.text, 0))
      BY <2>1, NoCharset DEF PutFrom, Counted
    <3>3. Again(item) = TextItem(item.name, item.text, 0)
      BY <2>1, ItemsAre, NoCharset DEF Again
    <3>. QED BY <1>3, <2>0, <3>1, <3>2, <3>3
  <2>2. CASE item.type = "encoded" /\ HasEncoded(item) /\ (item.charset = 0 => Begins(item.text, 32 .. 255))
    <3>1. ValueTravels(FromId, item.name, Counted(AddressPresent, PutEncodedString(item.text, item.charset)),
                       TextItem(item.name, item.text, item.charset))
      BY <2>2, ItemsAre, AddressTravels
    <3>2. PutFrom(item) = Counted(AddressPresent, PutEncodedString(item.text, item.charset))
      BY <2>2 DEF PutFrom, Counted
    <3>3. Again(item) = TextItem(item.name, item.text, item.charset)
      BY <2>2, ItemsAre DEF Again, TextItem
    <3>. QED BY <1>3, <2>0, <3>1, <3>2, <3>3
  <2>. QED BY <1>3, <2>1, <2>2 DEF IsAddress
<1>4. ASSUME id \in Times, item.type = "time", HasTime(item)
      PROVE  ValueTravels(id, item.name, MmsBytes(item), Again(item))
  <2>1. ValueTravels(id, item.name, Counted(item.token, PutLongInt(item.time)),
                     TimeItem(item.name, item.token, item.time))
    BY <1>4, ItemsAre, TimeTravels
  <2>2. MmsBytes(item) = Counted(item.token, PutLongInt(item.time))
    BY <1>4, MmsBytesAre DEF PutTime, Counted, LongIntBytes
  <2>3. Again(item) = TimeItem(item.name, item.token, item.time)
    BY <1>4, ItemsAre DEF Again
  <2>. QED BY <2>1, <2>2, <2>3
<1>5. ASSUME item.type = "long", HasLong(item), id \in Longs
      PROVE  ValueTravels(id, item.name, MmsBytes(item), LongItem(item.name, item.long))
  BY <1>5, ItemsAre, MmsBytesAre, LongTravels
<1>6. ASSUME item.type = "long", HasChar(item), id \in Chars
      PROVE  ValueTravels(id, item.name, MmsBytes(item), LongItem(item.name, item.long))
  BY <1>6, ItemsAre, MmsBytesAre, CharTravels DEF HasChar, IsChar
<1>7. ASSUME item.type = "long", HasChar(item), id = FromId, Low(item.long) # AddressPresent
      PROVE  ValueTravels(id, item.name, MmsBytes(item), LongItem(item.name, item.long))
  <2>1. IsChar(item.long)
    BY <1>7, ItemsAre DEF HasChar, IsChar
  <2>2. ValueTravels(FromId, item.name, PutValueLength(1) \o <<Low(item.long)>>, LongItem(item.name, item.long))
    BY <1>7, <2>1, TokenTravels
  <2>3. MmsBytes(item) = PutFrom(item)
    BY <1>7, MmsBytesAre
  <2>4. PutFrom(item) = PutValueLength(1) \o <<Low(item.long)>>
    BY <1>7 DEF PutFrom
  <2>. QED BY <1>7, <2>2, <2>3, <2>4
<1>8. ASSUME item.type = "long", HasChar(item), id = ClassId, Low(item.long) >= 128
      PROVE  ValueTravels(id, item.name, MmsBytes(item), LongItem(item.name, item.long))
  <2>1. IsChar(item.long)
    BY <1>8, ItemsAre DEF HasChar, IsChar
  <2>2. ValueTravels(ClassId, item.name, <<Low(item.long)>>, LongItem(item.name, item.long))
    BY <1>8, <2>1, ClassTravels
  <2>3. MmsBytes(item) = <<Low(item.long)>>
    BY <1>8, MmsBytesAre
  <2>. QED BY <1>8, <2>2, <2>3
<1>9. ASSUME item.type = "long", HasChar(item), id = VersionId, Low(item.long) < 128
      PROVE  ValueTravels(id, item.name, MmsBytes(item), LongItem(item.name, item.long))
  <2>1. IsChar(item.long)
    BY <1>9, ItemsAre DEF HasChar, IsChar
  <2>2. ValueTravels(VersionId, item.name, PutShortInt(item.long), LongItem(item.name, item.long))
    BY <1>9, <2>1, VersionTravels
  <2>3. MmsBytes(item) = PutShortInt(item.long)
    BY <1>9, MmsBytesAre
  <2>. QED BY <1>9, <2>2, <2>3
<1>10. ASSUME item.type = "long", HasLong(item) PROVE Again(item) = LongItem(item.name, item.long)
  BY <1>10, ItemsAre DEF Again
<1>11. HasChar(item) => HasLong(item)
  BY DEF HasChar
<1>. QED BY <1>1, <1>2, <1>3, <1>4, <1>5, <1>6, <1>7, <1>8, <1>9, <1>10, <1>11 DEF CanReadMms


(* Every item the mms codec can read again is read as it was.               *)
THEOREM MmsItemTravels ==
  ASSUME NEW item, CanReadMms(item)
  PROVE  MmsTravels(PackMms(item), Again(item))
<1>. DEFINE id == IdOf(MmsNames, item.name)
<1>1. CASE id < 0
  <2>1. item.type = "string" /\ HasText(item) /\ IsName(item.name)
    <3>1. /\ id \notin Strings /\ id # ClassId /\ id \notin Statuses /\ id \notin Encodeds /\ id # FromId
          /\ id \notin Times /\ id \notin Longs /\ id \notin Chars /\ id # VersionId
      <4>1. id = -1
        BY <1>1, MmsIdIs
      <4>. HIDE DEF id
      <4>. QED BY <4>1 DEF Longs, ContentTypeId, VersionId, Encodeds, Times, FromId, Chars, ClassId, Statuses, Strings
    <3>. QED BY <3>1 DEF CanReadMms
  <2>2. PackMms(item) = PutString(item.name) \o PutString(item.text)
    BY <1>1, PackMmsIs
  <2>3. Again(item) = StringItem(item.name, item.text) /\ IsText(item.text)
    BY <2>1, ItemsAre DEF Again
  <2>. QED BY <2>1, <2>2, <2>3, NamedTravels
<1>2. CASE ~ (id < 0)
  <2>1. id \in Nat /\ id <= 33 /\ MmsNames[id] = item.name
    <3>1. id # -1
      BY <1>2
    <3>. QED BY <3>1, MmsIdIs
  <2>2. PackMms(item) = <<128 + id>> \o MmsBytes(item)
    BY <1>2, PackMmsIs
  <2>3. ValueTravels(id, item.name, MmsBytes(item), Again(item))
    BY <1>2, MmsItemValue
  <2>. HIDE DEF id
  <2>4. MmsTravels(<<128 + id>> \o MmsBytes(item), Again(item))
    BY <2>1, <2>3, HeadTravels
  <2>. QED BY <2>2, <2>4
<1>. QED BY <1>1, <1>2

LEMMA ContentTypeName == IdOf(MmsNames, ContentType) = ContentTypeId
<1>. DEFINE id == IdOf(MmsNames, ContentType)
<1>0. ContentType = MmsNames[4] /\ 4 \in 0 .. 33 /\ DOMAIN MmsNames = 0 .. 33
  BY DEF ContentType, ContentTypeId, MmsNames
<1>1. \/ id = -1 /\ \A other \in DOMAIN MmsNames : MmsNames[other] # ContentType
      \/ id \in DOMAIN MmsNames /\ MmsNames[id] = ContentType
  <2>1. DOMAIN MmsNames \subseteq Nat
    BY <1>0
  <2>. QED BY <2>1, IdOfIs
<1>. HIDE DEF id
<1>2. id \in 0 .. 33 /\ MmsNames[id] = MmsNames[4]
  BY <1>0, <1>1
<1>3. <<64, 40 + id>> = <<64, 40 + 4>>
  BY <1>0, <1>2 DEF MmsNames
<1>4. 40 + id = 44
  BY <1>3
<1>5. id = 4
  BY <1>2, <1>4
<1>. QED BY <1>5 DEF id, ContentTypeId

(* The content type, as an item of its own.                                 *)
LEMMA DataItemTravels ==
  ASSUME NEW ct, IsContentType(ct)
  PROVE  MmsTravels(PackMms(DataItem(ContentType, ct)), DataItem(ContentType, WithoutFilename(ct)))
<1>. DEFINE item == DataItem(ContentType, ct)
            id == IdOf(MmsNames, item.name)
<1>1. item.name = ContentType /\ item.ct = ct /\ id = ContentTypeId
  BY ContentTypeName DEF DataItem
<1>2. id \in Nat /\ id <= 33 /\ MmsNames[id] = ContentType /\ ~ (id < 0)
  BY <1>1 DEF ContentTypeId, ContentType
<1>3. PackMms(item) = <<128 + id>> \o PackContentType(ct)
  BY <1>1, <1>2, PackMmsIs, MmsBytesAre
<1>4. ValueTravels(id, ContentType, PackContentType(ct), DataItem(ContentType, WithoutFilename(ct)))
  BY <1>1, ContentTypeTravels
<1>. HIDE DEF item, id
<1>5. MmsTravels(<<128 + id>> \o PackContentType(ct), DataItem(ContentType, WithoutFilename(ct)))
  BY <1>2, <1>4, HeadTravels
<1>. QED BY <1>3, <1>5 DEF item

-----------------------------------------------------------------------------

(* The header names of the wsp codec.                                       *)
LEMMA WspIdIs ==
  ASSUME NEW name
  PROVE  LET id == IdOf(WspNames, name)
         IN  \/ id = -1 /\ \A other \in DOMAIN WspNames : WspNames[other] # name
             \/ id \in Nat /\ id <= 71 /\ id \in DOMAIN WspNames /\ WspNames[id] = name
<1>1. DOMAIN WspNames = 0 .. 71
  BY DEF WspNames
<1>2. \A x \in 0 .. 71 : x \in Nat /\ x <= 71
  OBVIOUS
<1>3. DOMAIN WspNames \subseteq Nat
  BY <1>1, <1>2
<1>. QED BY <1>1, <1>2, <1>3, IdOfIs

(* The content id, which is written by name, has one.                        *)
LEMMA ContentIdIs == IsName(WspContentId)
<1>1. WspContentId = <<65, 104>>
  BY DEF WspContentId, WspNames
<1>2. 65 \in Characters /\ 104 \in Characters /\ 65 \in 32 .. 127
  BY DEF Characters
<1>. DEFINE a == 65
            b == 104
            t == <<a, b>>
<1>3. a \in Characters /\ b \in Characters /\ a \in 32 .. 127 /\ WspContentId = t
  BY <1>1, <1>2
<1>. HIDE DEF a, b
<1>4. t \in Seq(Characters) /\ Len(t) = 2 /\ t[1] = a /\ t # <<>>
  BY <1>3
<1>. HIDE DEF t
<1>5. Len(t) < MaxText
  BY <1>4, MaxTextIs
<1>. QED BY <1>3, <1>4, <1>5 DEF IsName, IsText, Begins

(* A text or a long begins with an octet that tells which of them it is.     *)
WspTravels(bytes, v) ==
  /\ bytes \in Seq(Octets) /\ Len(bytes) \in Nat /\ Len(bytes) >= 1
  /\ \A w, from, end : Ahead(w, from, bytes, end) => UnpackWsp(w, from, end) = Read(v, from + Len(bytes))

WspValueTravels(id, bytes, v) ==
  /\ bytes \in Seq(Octets)
  /\ \A w, from, end : Ahead(w, from, bytes, end) => UnpackWspValue(id, w, from, end) = Read(v, from + Len(bytes))

(* A wsp item whose number is known, and one whose name is not.             *)
LEMMA WspHeadTravels ==
  ASSUME NEW id \in Nat, id <= 71, NEW bytes, NEW v, WspValueTravels(id, bytes, v)
  PROVE  WspTravels(<<128 + id>> \o bytes, v)
<1>1. bytes \in Seq(Octets) /\ id <= 127
  BY DEF WspValueTravels
<1>2. ASSUME NEW w, NEW from, NEW end, Ahead(w, from, <<128 + id>> \o bytes, end)
      PROVE  UnpackWsp(w, from, end) = Read(v, from + Len(<<128 + id>> \o bytes))
  <2>. DEFINE g == GetInt8(w, from, end)
  <2>1. /\ g = Read(128 + id, from + 1) /\ ~ IsString(w, from, end)
        /\ Ahead(w, from + 1, bytes, end)
        /\ from + Len(<<128 + id>> \o bytes) = (from + 1) + Len(bytes)
    BY <1>1, <1>2, HeadRead
  <2>2. g.value = 128 + id /\ g.at = from + 1
    BY <2>1, ReadIs
  <2>3. (g.value + 128) % 256 = id
    BY <1>1, <2>2, HeadNumber
  <2>. HIDE DEF g
  <2>4. UnpackWsp(w, from, end) = UnpackWspValue((g.value + 128) % 256, w, g.at, end)
    BY <2>1 DEF UnpackWsp, Then, g
  <2>5. UnpackWsp(w, from, end) = UnpackWspValue(id, w, from + 1, end)
    BY <2>2, <2>3, <2>4
  <2>6. UnpackWspValue(id, w, from + 1, end) = Read(v, (from + 1) + Len(bytes))
    BY <2>1 DEF WspValueTravels
  <2>. QED BY <2>1, <2>5, <2>6
<1>. QED BY <1>1, <1>2, HeadIs DEF WspTravels

LEMMA WspNamedTravels ==
  ASSUME NEW name, NEW t, IsName(name), IsText(t)
  PROVE  WspTravels(PutString(name) \o PutString(t), StringItem(name, t))
<1>. DEFINE bytes == PutString(name) \o PutString(t)
<1>1. ASSUME NEW w, NEW from, NEW end, Ahead(w, from, bytes, end)
      PROVE  UnpackWsp(w, from, end) = Read(StringItem(name, t), from + Len(bytes))
  <2>1. UnpackNamed(w, from, end) = Read(StringItem(name, t), from + Len(bytes)) /\ IsString(w, from, end)
    BY <1>1, NamedRead
  <2>. QED BY <2>1 DEF UnpackWsp
<1>2. bytes \in Seq(Octets) /\ Len(bytes) \in Nat /\ Len(bytes) >= 1
  BY TwoStringsAre
<1>. HIDE DEF bytes
<1>3. WspTravels(bytes, StringItem(name, t))
  BY <1>1, <1>2 DEF WspTravels
<1>. QED BY <1>3 DEF bytes

LEMMA WspStringTravels ==
  ASSUME NEW id \in DOMAIN WspNames, NEW t, IsText(t), id \in WspTexts \/ Begins(t, 32 .. 127)
  PROVE  WspValueTravels(id, PutString(t), StringItem(WspNames[id], t))
<1>1. ASSUME NEW w, NEW from, NEW end, Ahead(w, from, PutString(t), end)
      PROVE  UnpackWspValue(id, w, from, end) = Read(StringItem(WspNames[id], t), from + Len(PutString(t)))
  <2>1. id \in WspTexts \/ IsString(w, from, end)
    <3>1. ASSUME Begins(t, 32 .. 127) PROVE IsString(w, from, end)
      <4>1. Len(PutString(t)) >= 1 /\ PutString(t)[1] \in 32 .. 127
        BY <3>1, FirstCharacter
      <4>2. Peek(w, from, end) \in 32 .. 127
        BY <1>1, <4>1, AheadFirst
      <4>. QED BY <4>2 DEF IsString
    <3>. QED BY <3>1
  <2>2. UnpackWspValue(id, w, from, end) = UnpackString(WspNames[id], w, from, end)
    BY <2>1 DEF UnpackWspValue
  <2>. QED BY <1>1, <2>2, StringItemRead
<1>. QED BY <1>1, StringValueIs DEF WspValueTravels

LEMMA WspLongTravels ==
  ASSUME NEW id \in DOMAIN WspNames, NEW d, IsLong(d), id \notin WspTexts
  PROVE  WspValueTravels(id, PutLongInt(d), LongItem(WspNames[id], d))
<1>1. ASSUME NEW w, NEW from, NEW end, Ahead(w, from, PutLongInt(d), end)
      PROVE  UnpackWspValue(id, w, from, end) = Read(LongItem(WspNames[id], d), from + Len(PutLongInt(d)))
  <2>. DEFINE g == GetWspLong(id, w, from, end)
  <2>1. /\ GetLongInt(w, from, end) = Read(d, from + Len(PutLongInt(d)))
        /\ GetInt(w, from, end) = Read(d, from + Len(PutLongInt(d)))
        /\ ~ IsString(w, from, end)
    BY <1>1, LongIntRead
  <2>2. g = Read(d, from + Len(PutLongInt(d)))
    BY <2>1 DEF GetWspLong
  <2>3. g.value = d /\ g.at = from + Len(PutLongInt(d))
    BY <2>2, ReadIs
  <2>. HIDE DEF g
  <2>4. UnpackWspValue(id, w, from, end) = Read(LongItem(WspNames[id], g.value), g.at)
    BY <2>1 DEF UnpackWspValue, Of, g
  <2>. QED BY <2>3, <2>4
<1>2. PutLongInt(d) \in Seq(Octets)
  BY LongIntIs
<1>. QED BY <1>1, <1>2 DEF WspValueTravels

LEMMA WspNamesApart ==
  /\ WspContentId # WspContentType
  /\ \A id \in WspTexts : id \in DOMAIN WspNames /\ WspNames[id] # WspContentType /\ WspNames[id] # WspContentId
  /\ WspContentType \in {WspNames[id] : id \in DOMAIN WspNames}
<1>1. WspContentId # WspContentType
  BY DEF WspContentId, WspContentType, WspNames
<1>2. \A id \in WspTexts : id \in DOMAIN WspNames /\ WspNames[id] # WspContentType /\ WspNames[id] # WspContentId
  BY DEF WspContentId, WspContentType, WspNames, WspTexts
<1>3. 17 \in DOMAIN WspNames
  BY DEF WspNames
<1>. QED BY <1>1, <1>2, <1>3 DEF WspContentType

LEMMA PackWspIs ==
  ASSUME NEW item, NEW id, id = IdOf(WspNames, item.name)
  PROVE  /\ item.name = WspContentType => PackWsp(item) = <<>>
         /\ item.name # WspContentType /\ (id < 0 \/ item.name = WspContentId)
              => PackWsp(item) = PutString(item.name) \o PutString(item.text)
         /\ item.name # WspContentType /\ ~ (id < 0) /\ item.name # WspContentId
              => PackWsp(item) = PutShortInt(AsLong(id))
                   \o (IF item.type = "string" THEN PutString(item.text) ELSE PutLongInt(item.long))
<1>1. WspContentId # WspContentType
  BY DEF WspContentId, WspContentType, WspNames
<1>2. item.name = WspContentType => PackWsp(item) = <<>>
  <2>1. item.name = WspContentType => id # -1
    BY WspIdIs, WspNamesApart
  <2>2. id # -1 => ~ (id < 0)
    <3>1. id = -1 \/ id \in Nat
      BY WspIdIs
    <3>. QED BY <3>1
  <2>. QED BY <1>1, <2>1, <2>2 DEF PackWsp
<1>3. item.name # WspContentType /\ (id < 0 \/ item.name = WspContentId)
        => PackWsp(item) = PutString(item.name) \o PutString(item.text)
  BY DEF PackWsp
<1>4. item.name # WspContentType /\ ~ (id < 0) /\ item.name # WspContentId
        => PackWsp(item) = PutShortInt(AsLong(id))
             \o (IF item.type = "string" THEN PutString(item.text) ELSE PutLongInt(item.long))
  BY DEF PackWsp
<1>. QED BY <1>2, <1>3, <1>4

(* Every item the wsp codec can read again is read as it was.               *)
LEMMA WspItemTravels ==
  ASSUME NEW item, CanReadWsp(item)
  PROVE  /\ WspTravels(PackWsp(item), item) /\ item.name # WspContentType
         /\ HasText(item) \/ HasLong(item)
         /\ PacksWsp(item)
<1>. DEFINE id == IdOf(WspNames, item.name)
<1>1. ASSUME item.type = "string", HasText(item), id < 0, IsName(item.name)
      PROVE  WspTravels(PackWsp(item), item) /\ item.name # WspContentType
  <2>1. item.name # WspContentType
    <3>1. id = -1 /\ \A other \in DOMAIN WspNames : WspNames[other] # item.name
      BY <1>1, WspIdIs
    <3>. QED BY <3>1, WspNamesApart
  <2>2. PackWsp(item) = PutString(item.name) \o PutString(item.text)
    BY <1>1, <2>1, PackWspIs
  <2>. QED BY <1>1, <2>1, <2>2, ItemsAre, WspNamedTravels
<1>2. ASSUME item.type = "string", HasText(item), item.name = WspContentId
      PROVE  WspTravels(PackWsp(item), item) /\ item.name # WspContentType
  <2>1. item.name # WspContentType /\ IsName(item.name)
    BY <1>2, WspNamesApart, ContentIdIs
  <2>2. PackWsp(item) = PutString(item.name) \o PutString(item.text)
    BY <1>2, <2>1, PackWspIs
  <2>. QED BY <1>2, <2>1, <2>2, ItemsAre, WspNamedTravels
<1>3. ASSUME ~ (id < 0), item.name # WspContentType, item.name # WspContentId,
             NEW bytes, WspValueTravels(id, bytes, item),
             bytes = IF item.type = "string" THEN PutString(item.text) ELSE PutLongInt(item.long)
      PROVE  WspTravels(PackWsp(item), item)
  <2>1. id \in Nat /\ id <= 71
    <3>1. id # -1
      BY <1>3
    <3>. QED BY <3>1, WspIdIs
  <2>2. PutShortInt(AsLong(id)) = <<128 + id>>
    <3>. HIDE DEF id
    <3>1. id <= 127
      BY <2>1
    <3>. QED BY <2>1, <3>1, ShortIntIs
  <2>3. PackWsp(item) = <<128 + id>> \o bytes
    BY <1>3, <2>2, PackWspIs
  <2>. HIDE DEF id
  <2>4. WspTravels(<<128 + id>> \o bytes, item)
    BY <1>3, <2>1, WspHeadTravels
  <2>. QED BY <2>3, <2>4
<1>4. ASSUME ~ (id < 0) PROVE id \in DOMAIN WspNames /\ WspNames[id] = item.name
  <2>1. id # -1
    BY <1>4
  <2>. QED BY <2>1, WspIdIs
<1>5. ASSUME item.type = "string", HasText(item), item.name # WspContentId,
             id \in WspTexts \/ (id >= 0 /\ item.name # WspContentType /\ Begins(item.text, 32 .. 127))
      PROVE  WspTravels(PackWsp(item), item) /\ item.name # WspContentType
  <2>1. ~ (id < 0)
    <3>1. \A x \in WspTexts : ~ (x < 0)
      BY DEF WspTexts
    <3>2. id >= 0 => ~ (id < 0)
      <4>1. id = -1 \/ id \in Nat
        BY WspIdIs
      <4>. HIDE DEF id
      <4>. QED BY <4>1
    <3>. QED BY <1>5, <3>1, <3>2
  <2>2. item.name # WspContentType
    BY <1>4, <1>5, <2>1, WspNamesApart
  <2>3. WspValueTravels(id, PutString(item.text), StringItem(item.name, item.text))
    BY <1>4, <1>5, <2>1, ItemsAre, WspStringTravels
  <2>4. WspValueTravels(id, PutString(item.text), item)
    BY <1>5, <2>3, ItemsAre
  <2>. QED BY <1>3, <1>5, <2>1, <2>2, <2>4
<1>6. ASSUME item.type = "long", HasLong(item), id >= 0, id \notin WspTexts,
             item.name \notin {WspContentType, WspContentId}
      PROVE  WspTravels(PackWsp(item), item) /\ item.name # WspContentType
  <2>1. ~ (id < 0)
    <3>1. id = -1 \/ id \in Nat
      BY WspIdIs
    <3>. HIDE DEF id
    <3>. QED BY <1>6, <3>1
  <2>2. WspValueTravels(id, PutLongInt(item.long), LongItem(item.name, item.long))
    BY <1>4, <1>6, <2>1, ItemsAre, WspLongTravels
  <2>3. WspValueTravels(id, PutLongInt(item.long), item)
    BY <1>6, <2>2, ItemsAre
  <2>. QED BY <1>3, <1>6, <2>1, <2>3
<1>7. \/ item.type = "string" /\ HasText(item) /\ id < 0 /\ IsName(item.name)
      \/ item.type = "string" /\ HasText(item) /\ item.name = WspContentId
      \/ item.type = "string" /\ HasText(item) /\ item.name # WspContentId
           /\ (id \in WspTexts \/ (id >= 0 /\ item.name # WspContentType /\ Begins(item.text, 32 .. 127)))
      \/ /\ item.type = "long" /\ HasLong(item) /\ id >= 0 /\ id \notin WspTexts
         /\ item.name \notin {WspContentType, WspContentId}
  BY DEF CanReadWsp
<1>8. PacksWsp(item)
  BY <1>7 DEF PacksWsp
<1>. QED BY <1>1, <1>2, <1>5, <1>6, <1>7, <1>8

-----------------------------------------------------------------------------

(* Two pieces that lie one behind the other lie as one.                     *)
LEMMA AheadJoin ==
  ASSUME NEW w, NEW from, NEW end, NEW p, NEW q, Ahead(w, from, p, end), Ahead(w, from + Len(p), q, end)
  PROVE  Ahead(w, from, p \o q, end)
<1>1. /\ p \in Seq(Octets) /\ q \in Seq(Octets) /\ w \in Seq(Octets) /\ from \in Nat /\ end \in Nat
      /\ (from + Len(p)) + Len(q) <= end /\ end <= Len(w)
      /\ \A i \in 1 .. Len(p) : w[from + i] = p[i]
      /\ \A i \in 1 .. Len(q) : w[(from + Len(p)) + i] = q[i]
  BY DEF Ahead
<1>2. Len(p) \in Nat /\ Len(q) \in Nat
  BY <1>1, SeqIs
<1>3. /\ p \o q \in Seq(Octets) /\ Len(p \o q) = Len(p) + Len(q)
      /\ \A i \in 1 .. Len(p) + Len(q) :
             (p \o q)[i] = IF i <= Len(p) THEN p[i] ELSE q[i - Len(p)]
  BY <1>1, ConcatProperties
<1>4. from + Len(p \o q) <= end
  BY <1>1, <1>2, <1>3
<1>5. ASSUME NEW i \in 1 .. Len(p \o q) PROVE w[from + i] = (p \o q)[i]
  <2>1. CASE i <= Len(p)
    <3>1. i \in 1 .. Len(p)
      BY <1>2, <2>1
    <3>. QED BY <1>1, <1>3, <2>1, <3>1
  <2>2. CASE ~ (i <= Len(p))
    <3>1. i - Len(p) \in 1 .. Len(q) /\ (from + Len(p)) + (i - Len(p)) = from + i
      BY <1>1, <1>2, <1>3, <2>2
    <3>. QED BY <1>1, <1>3, <2>2, <3>1
  <2>. QED BY <2>1, <2>2
<1>. QED BY <1>1, <1>3, <1>4, <1>5 DEF Ahead

(* The number a long stands for, and its decimal digits.                    *)
LEMMA LongNumber ==
  ASSUME NEW d, IsLong(d)
  PROVE  Number(d, 256) \in Nat
<1>1. d \in Seq(Octets) /\ Len(d) \in Nat /\ Len(d) <= 4
  BY DEF IsLong
<1>2. \A i \in 1 .. Len(d) : d[i] \in Nat
  BY <1>1, SeqIs, OctetsAre
<1>3. CASE Len(d) = 0
  <2>1. PICK f : Sums(f, d, 256, Len(d)) /\ Number(d, 256) = f[Len(d)]
    BY <1>1, NumberIs
  <2>2. f[0] = 0
    BY <1>3, <2>1 DEF Sums
  <2>. QED BY <1>3, <2>1, <2>2
<1>4. CASE Len(d) # 0
  <2>0. \A m \in Nat : m <= 4 /\ m # 0 => m \in 1 .. 4
    OBVIOUS
  <2>1. Len(d) \in 1 .. 4
    BY <1>1, <1>4, <2>0
  <2>2. /\ Len(d) = 1 => Number(d, 256) = d[1]
        /\ Len(d) = 2 => Number(d, 256) = d[1] * 256 + d[2]
        /\ Len(d) = 3 => Number(d, 256) = (d[1] * 256 + d[2]) * 256 + d[3]
        /\ Len(d) = 4 => Number(d, 256) = ((d[1] * 256 + d[2]) * 256 + d[3]) * 256 + d[4]
    BY <1>2, <2>1, OctetNumbers
  <2>3. \A a, b, c, e \in Nat : /\ a * 256 + b \in Nat /\ (a * 256 + b) * 256 + c \in Nat
                                /\ ((a * 256 + b) * 256 + c) * 256 + e \in Nat
    OBVIOUS
  <2>4. Len(d) = 1 \/ Len(d) = 2 \/ Len(d) = 3 \/ Len(d) = 4
    BY <2>1
  <2>5. CASE Len(d) = 1
    BY <1>2, <2>2, <2>5
  <2>6. CASE Len(d) = 2
    <3>1. d[1] \in Nat /\ d[2] \in Nat
      BY <1>2, <2>6
    <3>. QED BY <2>2, <2>3, <2>6, <3>1
  <2>7. CASE Len(d) = 3
    <3>1. d[1] \in Nat /\ d[2] \in Nat /\ d[3] \in Nat
      BY <1>2, <2>7
    <3>. QED BY <2>2, <2>3, <2>7, <3>1
  <2>8. CASE Len(d) = 4
    <3>1. d[1] \in Nat /\ d[2] \in Nat /\ d[3] \in Nat /\ d[4] \in Nat
      BY <1>2, <2>8
    <3>. QED BY <2>2, <2>3, <2>8, <3>1
  <2>. QED BY <2>4, <2>5, <2>6, <2>7, <2>8
<1>. QED BY <1>3, <1>4

LEMMA SevenAreFinite ==
  ASSUME NEW a, NEW b, NEW c, NEW e, NEW f, NEW h, NEW k
  PROVE  IsFiniteSet({a, b, c, e, f, h, k})
<1>1. IsFiniteSet({a}) /\ IsFiniteSet({b}) /\ IsFiniteSet({c}) /\ IsFiniteSet({e}) /\ IsFiniteSet({f})
      /\ IsFiniteSet({h}) /\ IsFiniteSet({k})
  BY FS_Singleton
<1>2. IsFiniteSet({a} \union {b}) /\ IsFiniteSet({c} \union {e}) /\ IsFiniteSet({f} \union {h})
  BY <1>1, FS_Union
<1>3. IsFiniteSet(({a} \union {b}) \union ({c} \union {e})) /\ IsFiniteSet(({f} \union {h}) \union {k})
  BY <1>1, <1>2, FS_Union
<1>4. IsFiniteSet((({a} \union {b}) \union ({c} \union {e})) \union (({f} \union {h}) \union {k}))
  BY <1>3, FS_Union
<1>5. (({a} \union {b}) \union ({c} \union {e})) \union (({f} \union {h}) \union {k}) = {a, b, c, e, f, h, k}
  OBVIOUS
<1>. QED BY <1>4, <1>5

(* The octets of a decimal number.                                         *)
LEMMA DecimalIs ==
  ASSUME NEW d, IsLong(d)
  PROVE  LET t == Decimal(d)
         IN  /\ t \in Seq(Octets) /\ Len(t) \in Nat /\ Len(t) >= 1
             /\ \A i \in 1 .. Len(t) : t[i] >= 48 /\ t[i] \in Nat
<1>. DEFINE n == Number(d, 256)
            bounds == {bound \in {9, 99, 999, 9999, 99999, 999999, 9999999} : n > bound}
            more == Cardinality(bounds)
            count == 1 + more
            g == Digits(n, 10, count)
            t == [i \in 1 .. count |-> 48 + g[i]]
<1>1. n \in Nat
  BY LongNumber
<1>2. more \in Nat
  <2>. DEFINE a == 9
              b == 99
              c == 999
              e == 9999
              f == 99999
              h == 999999
              k == 9999999
              all == {a, b, c, e, f, h, k}
  <2>2. bounds \subseteq all
    <3>. HIDE DEF n
    <3>. QED BY SMT
  <2>. HIDE DEF a, b, c, e, f, h, k
  <2>1. IsFiniteSet(all)
    BY SevenAreFinite, Zenon
  <2>. HIDE DEF all
  <2>. HIDE DEF bounds
  <2>3. IsFiniteSet(bounds)
    BY <2>1, <2>2, FS_Subset
  <2>. QED BY <2>3, FS_CardinalityType
<1>. HIDE DEF bounds, n
<1>3. count \in Nat /\ count >= 1
  <2>. HIDE DEF more
  <2>. QED BY <1>2
<1>. HIDE DEF count
<1>4. \A i \in 1 .. count : g[i] \in Nat /\ g[i] < 10
  BY <1>1, <1>3, DigitsTyped
<1>. HIDE DEF g
<1>5. t \in Seq(Octets) /\ Len(t) = count /\ \A i \in 1 .. count : t[i] = 48 + g[i]
  <2>1. \A i \in 1 .. count : 48 + g[i] \in Octets
    BY <1>4, OctetIs
  <2>. QED BY <1>3, <2>1
<1>6. t = Decimal(d)
  BY DEF Decimal, g, count, more, bounds, n
<1>. HIDE DEF t
<1>7. \A i \in 1 .. Len(t) : t[i] >= 48 /\ t[i] \in Nat
  BY <1>4, <1>5
<1>. QED BY <1>3, <1>5, <1>6, <1>7

(* A text whose first octet is ink, behind spaces or not.                    *)
LEMMA StrippedIs ==
  ASSUME NEW t \in Seq(Octets), NEW k \in 1 .. Len(t), t[k] \notin Spaces,
         \A j \in 1 .. k - 1 : t[j] \in Spaces
  PROVE  Stripped(t) = SubSeq(t, k, Len(t))
<1>. DEFINE ink == {i \in DOMAIN t : t[i] \notin Spaces}
<1>1. DOMAIN t = 1 .. Len(t) /\ Len(t) \in Nat
  BY SeqIs
<1>2. k \in ink /\ \A j \in ink : k <= j
  BY <1>1
<1>3. \A i \in ink : i \in Nat
  BY <1>1
<1>. HIDE DEF ink
<1>4. (CHOOSE i \in ink : \A j \in ink : i <= j) = k
  <2>. DEFINE c == CHOOSE i \in ink : \A j \in ink : i <= j
  <2>1. c \in ink /\ \A j \in ink : c <= j
    BY <1>2
  <2>. HIDE DEF c
  <2>2. c = k
    BY <1>2, <1>3, <2>1
  <2>. QED BY <2>2 DEF c
<1>5. ink # {}
  BY <1>2
<1>. QED BY <1>4, <1>5 DEF Stripped, ink

-----------------------------------------------------------------------------
Line(v) == (<<32>> \o v) \o <<Return>>

(* A line of text is what it says and CR LF.                                *)
LEMMA LineIs ==
  ASSUME NEW v \in Seq(Octets)
  PROVE  LET t == Line(v)
         IN  /\ t \in Seq(Octets) /\ Len(t) = Len(v) + 2 /\ Len(v) \in Nat
             /\ t[1] = 32 /\ t[Len(v) + 2] = 13
             /\ \A i \in 1 .. Len(v) : t[i + 1] = v[i]
<1>. DEFINE s == <<32>>
            r == <<Return>>
            a == s \o v
            t == a \o r
<1>1. s \in Seq(Octets) /\ Len(s) = 1 /\ s[1] = 32 /\ r \in Seq(Octets) /\ Len(r) = 1 /\ r[1] = 13
  <2>1. 32 \in Octets /\ 13 \in Octets
    BY OctetIs
  <2>2. r = <<13>>
    BY DEF Return
  <2>3. \A x \in Octets : <<x>> \in Seq(Octets) /\ Len(<<x>>) = 1 /\ <<x>>[1] = x
    OBVIOUS
  <2>. QED BY <2>1, <2>2, <2>3
<1>2. Len(v) \in Nat
  OBVIOUS
<1>. HIDE DEF s, r
<1>3. /\ a \in Seq(Octets) /\ Len(a) = Len(s) + Len(v)
      /\ \A i \in 1 .. Len(s) + Len(v) : a[i] = IF i <= Len(s) THEN s[i] ELSE v[i - Len(s)]
  BY <1>1, ConcatProperties
<1>4. Len(a) = Len(v) + 1 /\ \A i \in 1 .. Len(v) + 1 : a[i] = IF i <= 1 THEN s[i] ELSE v[i - 1]
  BY <1>1, <1>2, <1>3
<1>. HIDE DEF a
<1>5. /\ t \in Seq(Octets) /\ Len(t) = Len(a) + Len(r)
      /\ \A i \in 1 .. Len(a) + Len(r) : t[i] = IF i <= Len(a) THEN a[i] ELSE r[i - Len(a)]
  <2>1. a \in Seq(Octets) /\ r \in Seq(Octets)
    BY <1>1, <1>3
  <2>. QED BY <2>1, ConcatProperties
<1>. HIDE DEF t
<1>6. Len(t) = Len(v) + 2
      /\ \A i \in 1 .. Len(v) + 2 : t[i] = IF i <= Len(v) + 1 THEN a[i] ELSE r[i - (Len(v) + 1)]
  BY <1>1, <1>2, <1>4, <1>5
<1>7. t[1] = 32
  <2>1. 1 \in 1 .. Len(v) + 2 /\ 1 \in 1 .. Len(v) + 1 /\ 1 <= Len(v) + 1
    BY <1>2
  <2>2. t[1] = a[1] /\ a[1] = s[1]
    BY <1>4, <1>6, <2>1
  <2>. QED BY <1>1, <2>2
<1>8. t[Len(v) + 2] = 13
  <2>1. Len(v) + 2 \in 1 .. Len(v) + 2 /\ ~ (Len(v) + 2 <= Len(v) + 1) /\ (Len(v) + 2) - (Len(v) + 1) = 1
    BY <1>2
  <2>. QED BY <1>1, <1>6, <2>1
<1>9. ASSUME NEW i \in 1 .. Len(v) PROVE t[i + 1] = v[i]
  <2>1. i + 1 \in 1 .. Len(v) + 2 /\ i + 1 \in 1 .. Len(v) + 1 /\ i + 1 <= Len(v) + 1 /\ ~ (i + 1 <= 1)
        /\ (i + 1) - 1 = i
    BY <1>2
  <2>2. t[i + 1] = a[i + 1]
    BY <1>6, <2>1
  <2>. QED BY <1>4, <2>1, <2>2
<1>. QED BY <1>2, <1>5, <1>6, <1>7, <1>8, <1>9 DEF t, a, s, r, Line

LEMMA SpacesAre == 32 \in Spaces /\ 13 \in Spaces /\ \A x \in Nat : x >= 48 => x \notin Spaces
BY DEF Spaces

(* The spaces around a value are stripped, and nothing of it.               *)
LEMMA LineStripped ==
  ASSUME NEW v \in Seq(Octets), v # <<>> => v[1] \notin Spaces
  PROVE  WithoutReturn(Stripped(Line(v))) = v
<1>. DEFINE t == Line(v)
            n == Len(v)
<1>1. /\ t \in Seq(Octets) /\ Len(t) = n + 2 /\ n \in Nat
      /\ t[1] = 32 /\ t[n + 2] = 13
      /\ \A i \in 1 .. n : t[i + 1] = v[i]
  BY LineIs
<1>. HIDE DEF t
<1>2. CASE v = <<>>
  <2>1. n = 0
    BY <1>2
  <2>2. DOMAIN t = 1 .. Len(t)
    BY <1>1, SeqIs
  <2>3. \A i \in DOMAIN t : i = 1 \/ i = 2
    BY <1>1, <2>1, <2>2
  <2>4. \A i \in DOMAIN t : t[i] \in Spaces
    BY <1>1, <2>1, <2>3, SpacesAre
  <2>5. Stripped(t) = <<>>
    BY <2>4 DEF Stripped
  <2>. QED BY <1>2, <2>5 DEF WithoutReturn, t
<1>3. CASE v # <<>>
  <2>. DEFINE u == SubSeq(t, 2, Len(t))
  <2>1. n >= 1
    BY <1>1, <1>3
  <2>2. Stripped(t) = u
    <3>1. t[2] = v[1] /\ 2 \in 1 .. Len(t)
      <4>1. 1 \in 1 .. n /\ 1 + 1 = 2
        BY <1>1, <2>1
      <4>. QED BY <1>1, <2>1, <4>1
    <3>2. \A j \in 1 .. 2 - 1 : t[j] \in Spaces
      BY <1>1, SpacesAre
    <3>. QED BY <1>1, <1>3, <3>1, <3>2, StrippedIs
  <2>3. /\ u \in Seq(Octets) /\ Len(u) = n + 1 /\ \A i \in 1 .. n + 1 : u[i] = t[i + 1]
    <3>. HIDE DEF n
    <3>. QED BY <1>1, <2>1, SubSeqProperties
  <2>. HIDE DEF u
  <2>4. u[n + 1] = 13 /\ \A i \in 1 .. n : u[i] = v[i]
    <3>1. n + 1 \in 1 .. n + 1 /\ (n + 1) + 1 = n + 2 /\ \A i \in 1 .. n : i \in 1 .. n + 1
      BY <1>1
    <3>. QED BY <1>1, <2>3, <3>1
  <2>5. WithoutReturn(u) = SubSeq(u, 1, n)
    <3>1. u # <<>>
      BY <1>1, <2>3
    <3>2. Len(u) - 1 = n
      <4>. HIDE DEF n
      <4>. QED BY <1>1, <2>3
    <3>3. u[Len(u)] = Return
      BY <2>3, <2>4 DEF Return
    <3>. QED BY <3>1, <3>2, <3>3 DEF WithoutReturn
  <2>6. SubSeq(u, 1, n) = v
    <3>. DEFINE x == SubSeq(u, 1, n)
    <3>1. x \in Seq(Octets) /\ Len(x) = n /\ \A i \in 1 .. n : x[i] = u[i]
      <4>. HIDE DEF n
      <4>. QED BY <1>1, <2>3, SubSeqProperties
    <3>. HIDE DEF x
    <3>2. Len(x) = Len(v) /\ \A i \in 1 .. Len(x) : x[i] = v[i]
      BY <2>4, <3>1
    <3>3. x = v
      BY <3>1, <3>2, SeqEqual
    <3>. QED BY <3>3 DEF x
  <2>. QED BY <2>2, <2>5, <2>6 DEF t
<1>. QED BY <1>2, <1>3

HttpValue(item) == IF item.type = "string" THEN item.text ELSE Decimal(item.long)

LEMMA HttpTextsAre ==
  ASSUME NEW item, CanReadHttp(item)
  PROVE  LET n == item.name
             v == HttpValue(item)
         IN  /\ n \in Seq(Octets) /\ Len(n) \in Nat /\ Len(n) >= 1
             /\ n[1] \notin Spaces /\ \A i \in 1 .. Len(n) : n[i] # 0 /\ n[i] # Colon
             /\ v \in Seq(Octets) /\ Len(v) \in Nat
             /\ v # <<>> => v[1] \notin Spaces
             /\ \A i \in 1 .. Len(v) : v[i] # 0 /\ v[i] # Newline
<1>. DEFINE n == item.name
            v == HttpValue(item)
<1>1. ASSUME NEW t, IsText(t), NEW stop, stop \notin Range(t)
      PROVE  \A i \in 1 .. Len(t) : t[i] # 0 /\ t[i] # stop
  <2>1. t \in Seq(Characters)
    BY <1>1, TextIs
  <2>2. DOMAIN t = 1 .. Len(t) /\ \A i \in 1 .. Len(t) : t[i] \in Characters
    BY <2>1, SeqIs
  <2>. QED BY <1>1, <2>2, CharactersAre DEF Range
<1>2. ASSUME NEW t, Begins(t, 1 .. 255 \ Spaces) PROVE t # <<>> /\ t[1] \notin Spaces
  BY <1>2 DEF Begins
<1>3. /\ IsText(n) /\ Begins(n, 1 .. 255 \ Spaces) /\ Colon \notin Range(n)
      /\ \/ /\ item.type = "string" /\ HasText(item) /\ Newline \notin Range(item.text)
            /\ item.text # <<>> => Begins(item.text, 1 .. 255 \ Spaces)
         \/ item.type = "long" /\ HasLong(item)
  BY DEF CanReadHttp
<1>4. n \in Seq(Octets) /\ Len(n) \in Nat /\ n # <<>> /\ n[1] \notin Spaces
      /\ \A i \in 1 .. Len(n) : n[i] # 0 /\ n[i] # Colon
  BY <1>1, <1>2, <1>3, TextIs
<1>5. Len(n) >= 1
  <2>1. Len(n) # 0
    BY <1>4, EmptySeq
  <2>. QED BY <1>4, <2>1
<1>6. CASE item.type = "string" /\ HasText(item) /\ Newline \notin Range(item.text)
             /\ (item.text # <<>> => Begins(item.text, 1 .. 255 \ Spaces))
  <2>1. v = item.text /\ IsText(v)
    BY <1>6 DEF HttpValue, HasText
  <2>2. v \in Seq(Octets) /\ Len(v) \in Nat /\ (v # <<>> => v[1] \notin Spaces)
        /\ \A i \in 1 .. Len(v) : v[i] # 0 /\ v[i] # Newline
    BY <1>1, <1>2, <1>6, <2>1, TextIs
  <2>. QED BY <1>4, <1>5, <2>2
<1>7. CASE item.type = "long" /\ HasLong(item)
  <2>1. v = Decimal(item.long) /\ IsLong(item.long)
    BY <1>7 DEF HttpValue, HasLong
  <2>2. v \in Seq(Octets) /\ Len(v) \in Nat /\ Len(v) >= 1
        /\ \A i \in 1 .. Len(v) : v[i] >= 48 /\ v[i] \in Nat
    BY <2>1, DecimalIs
  <2>3. v[1] \notin Spaces
    BY <2>2, SpacesAre
  <2>4. \A x \in Nat : x >= 48 => x # 0 /\ x # Newline
    BY DEF Newline
  <2>. QED BY <1>4, <1>5, <2>2, <2>3, <2>4
<1>. QED BY <1>3, <1>6, <1>7

-----------------------------------------------------------------------------

LEMMA PairIs == \A a, b : <<a, b>> = <<a>> \o <<b>>
<1>. TAKE a, b
<1>. DEFINE s == <<a>>
            t == <<b>>
            S == {a, b}
<1>1. s \in Seq(S) /\ t \in Seq(S) /\ Len(s) = 1 /\ Len(t) = 1 /\ s[1] = a /\ t[1] = b
  OBVIOUS
<1>. HIDE DEF s, t
<1>2. /\ s \o t \in Seq(S) /\ Len(s \o t) = Len(s) + Len(t)
      /\ \A i \in 1 .. Len(s) + Len(t) : (s \o t)[i] = IF i <= Len(s) THEN s[i] ELSE t[i - Len(s)]
  BY <1>1, ConcatProperties
<1>. DEFINE p == s \o t
<1>. HIDE DEF p, S
<1>3. Len(p) = 2 /\ p[1] = a /\ p[2] = b /\ p \in Seq(S)
  BY <1>1, <1>2 DEF p
<1>4. p = <<a, b>>
  BY <1>3
<1>. QED BY <1>4 DEF p, s, t

LEMMA PackHttpIs ==
  ASSUME NEW item, CanReadHttp(item)
  PROVE  LET n == item.name
             v == HttpValue(item)
         IN  /\ n \o <<Colon>> \in Seq(Octets) /\ Line(v) \o <<Newline>> \in Seq(Octets)
             /\ PackHttp(item) = (n \o <<Colon>>) \o (Line(v) \o <<Newline>>)
             /\ Len(n \o <<Colon>>) = Len(n) + 1 /\ Len(Line(v) \o <<Newline>>) = Len(Line(v)) + 1
<1>. DEFINE n == item.name
            v == HttpValue(item)
            c == <<Colon>>
            s == <<32>>
            r == <<Return>>
            l == <<Newline>>
<1>1. n \in Seq(Octets) /\ v \in Seq(Octets)
  BY HttpTextsAre
<1>2. /\ c \in Seq(Octets) /\ s \in Seq(Octets) /\ r \in Seq(Octets) /\ l \in Seq(Octets)
      /\ Len(c) = 1 /\ Len(l) = 1
  <2>1. Colon \in Octets /\ 32 \in Octets /\ Return \in Octets /\ Newline \in Octets
    BY OctetIs DEF Colon, Return, Newline
  <2>. QED BY <2>1, OneOctet
<1>3. <<Colon, 32>> = c \o s /\ <<Return, Newline>> = r \o l
  BY PairIs
<1>4. PackHttp(item) = ((n \o (c \o s)) \o v) \o (r \o l)
  BY <1>3 DEF PackHttp, HttpValue
<1>5. Line(v) = (s \o v) \o r
  BY DEF Line
<1>. HIDE DEF n, v, c, s, r, l
<1>6. /\ c \o s \in Seq(Octets) /\ s \o v \in Seq(Octets) /\ n \o c \in Seq(Octets) /\ r \o l \in Seq(Octets)
      /\ Len(n \o c) = Len(n) + Len(c)
  BY <1>1, <1>2, Joined
<1>7. /\ (s \o v) \o r \in Seq(Octets) /\ (n \o c) \o s \in Seq(Octets)
  BY <1>1, <1>2, <1>6, Joined
<1>8. n \o (c \o s) = (n \o c) \o s
  BY <1>1, <1>2, JoinedThree
<1>9. ((n \o c) \o s) \o v = (n \o c) \o (s \o v)
  <2>. DEFINE x == n \o c
  <2>1. x \in Seq(Octets)
    BY <1>6
  <2>. HIDE DEF x
  <2>2. (x \o s) \o v = x \o (s \o v)
    BY <1>1, <1>2, <2>1, JoinedThree
  <2>. QED BY <2>2 DEF x
<1>10. ((n \o c) \o (s \o v)) \o (r \o l) = (n \o c) \o ((s \o v) \o (r \o l))
  BY <1>6, JoinedThree
<1>11. (s \o v) \o (r \o l) = ((s \o v) \o r) \o l
  <2>. DEFINE x == s \o v
  <2>1. x \in Seq(Octets)
    BY <1>6
  <2>. HIDE DEF x
  <2>2. (x \o r) \o l = x \o (r \o l)
    BY <1>2, <2>1, JoinedThree
  <2>. QED BY <2>2 DEF x
<1>12. PackHttp(item) = (n \o c) \o (Line(v) \o l)
  BY <1>4, <1>5, <1>8, <1>9, <1>10, <1>11
<1>13. Line(v) \o l \in Seq(Octets) /\ Len(Line(v) \o l) = Len(Line(v)) + Len(l)
  BY <1>2, <1>5, <1>7, Joined
<1>14. Len(n \o c) = Len(n) + 1 /\ Len(Line(v) \o l) = Len(Line(v)) + 1
  BY <1>2, <1>6, <1>13
<1>. QED BY <1>6, <1>12, <1>13, <1>14 DEF n, v, c, l

HttpTravels(bytes, v) ==
  /\ bytes \in Seq(Octets) /\ Len(bytes) \in Nat /\ Len(bytes) >= 1
  /\ \A w, from, end : Ahead(w, from, bytes, end) => UnpackHttp(w, from, end) = Read(v, from + Len(bytes))

(* Every item the http codec can read again is read as its text.            *)
LEMMA HttpItemTravels ==
  ASSUME NEW item, CanReadHttp(item)
  PROVE  HttpTravels(PackHttp(item), StringItem(item.name, HttpValue(item)))
<1>. DEFINE n == item.name
            v == HttpValue(item)
            p == n \o <<Colon>>
            q == Line(v) \o <<Newline>>
            bytes == PackHttp(item)
<1>1. /\ n \in Seq(Octets) /\ Len(n) \in Nat /\ Len(n) >= 1
      /\ n[1] \notin Spaces /\ \A i \in 1 .. Len(n) : n[i] # 0 /\ n[i] # Colon
      /\ v \in Seq(Octets) /\ Len(v) \in Nat
      /\ v # <<>> => v[1] \notin Spaces
      /\ \A i \in 1 .. Len(v) : v[i] # 0 /\ v[i] # Newline
  BY HttpTextsAre
<1>2. /\ p \in Seq(Octets) /\ q \in Seq(Octets) /\ bytes = p \o q
      /\ Len(p) = Len(n) + 1 /\ Len(q) = Len(Line(v)) + 1
  BY PackHttpIs
<1>3. /\ Line(v) \in Seq(Octets) /\ Len(Line(v)) = Len(v) + 2
      /\ \A i \in 1 .. Len(Line(v)) : Line(v)[i] # 0 /\ Line(v)[i] # Newline
  <2>. DEFINE t == Line(v)
  <2>1. /\ t \in Seq(Octets) /\ Len(t) = Len(v) + 2
        /\ t[1] = 32 /\ t[Len(v) + 2] = 13
        /\ \A i \in 1 .. Len(v) : t[i + 1] = v[i]
    BY <1>1, LineIs
  <2>. HIDE DEF t, v
  <2>2. ASSUME NEW i \in 1 .. Len(t) PROVE t[i] # 0 /\ t[i] # Newline
    <3>1. i = 1 \/ i = Len(v) + 2 \/ (i - 1 \in 1 .. Len(v) /\ (i - 1) + 1 = i)
      BY <1>1, <2>1
    <3>2. CASE i = 1
      BY <2>1, <3>2 DEF Newline
    <3>3. CASE i = Len(v) + 2
      BY <2>1, <3>3 DEF Newline
    <3>4. CASE i - 1 \in 1 .. Len(v) /\ (i - 1) + 1 = i
      <4>. DEFINE j == i - 1
      <4>1. j \in 1 .. Len(v) /\ j + 1 = i
        BY <3>4
      <4>. HIDE DEF j
      <4>2. t[i] = v[j] /\ v[j] # 0 /\ v[j] # Newline
        <5>1. t[j + 1] = v[j]
          BY <2>1, <4>1
        <5>2. v[j] # 0 /\ v[j] # Newline
          BY <1>1, <4>1 DEF v
        <5>. QED BY <4>1, <5>1, <5>2
      <4>. QED BY <4>2
    <3>. QED BY <3>1, <3>2, <3>3, <3>4
  <2>. QED BY <2>1, <2>2 DEF t
<1>4. bytes \in Seq(Octets) /\ Len(bytes) \in Nat /\ Len(bytes) >= 1
  <2>. HIDE DEF p, q, n, v
  <2>1. bytes \in Seq(Octets) /\ Len(bytes) = Len(p) + Len(q)
    BY <1>2, Joined
  <2>2. Len(q) \in Nat
    BY <1>2, SeqIs
  <2>. QED BY <1>1, <1>2, <2>1, <2>2
<1>5. Stripped(n) = n
  <2>1. 1 \in 1 .. Len(n)
    BY <1>1
  <2>2. \A j \in 1 .. 1 - 1 : n[j] \in Spaces
    OBVIOUS
  <2>3. Stripped(n) = SubSeq(n, 1, Len(n))
    BY <1>1, <2>1, <2>2, StrippedIs
  <2>4. SubSeq(n, 1, Len(n)) = n
    <3>. HIDE DEF n
    <3>. QED BY <1>1
  <2>. QED BY <2>3, <2>4
<1>6. WithoutReturn(Stripped(Line(v))) = v
  BY <1>1, LineStripped
<1>7. ASSUME NEW w, NEW from, NEW end, Ahead(w, from, bytes, end)
      PROVE  UnpackHttp(w, from, end) = Read(StringItem(n, v), from + Len(bytes))
  <2>. DEFINE g == GetStringEndWith(w, from, end, Colon)
              next == from + Len(n) + 1
              h == GetStringEndWith(w, next, end, Newline)
  <2>0. from \in Nat /\ Colon \in Octets /\ Newline \in Octets
    <3>1. Colon \in Octets /\ Newline \in Octets
      BY OctetIs DEF Colon, Newline
    <3>2. from \in Nat
      BY <1>7 DEF Ahead
    <3>. QED BY <3>1, <3>2
  <2>1. Ahead(w, from, p, end) /\ Ahead(w, from + Len(p), q, end)
    <3>. HIDE DEF p, q
    <3>. QED BY <1>2, <1>7, AheadSplit
  <2>2. g = Read(n, next)
    BY <1>1, <2>0, <2>1, EndWithRead
  <2>3. next = from + Len(p)
    BY <1>1, <1>2, <2>0
  <2>4. Ahead(w, next, Line(v) \o <<Newline>>, end)
    BY <2>1, <2>3
  <2>5. h = Read(Line(v), next + Len(Line(v)) + 1)
    <3>. HIDE DEF next
    <3>. QED BY <1>3, <2>0, <2>4, EndWithRead
  <2>6. next + Len(Line(v)) + 1 = from + Len(bytes)
    <3>1. (from + Len(p)) + Len(q) = from + Len(p \o q)
      <4>. HIDE DEF p, q
      <4>. QED BY <1>2, <2>0, BehindBoth
    <3>2. next + Len(Line(v)) + 1 = next + Len(q)
      <4>1. next \in Nat
        BY <1>1, <2>0
      <4>2. Len(Line(v)) \in Nat
        BY <1>1, <1>3
      <4>. HIDE DEF next, q
      <4>. QED BY <1>2, <4>1, <4>2
    <3>. QED BY <1>2, <2>3, <3>1, <3>2
  <2>7. ~ (next >= end)
    <3>1. next + Len(q) <= end /\ end \in Nat
      BY <2>1, <2>3 DEF Ahead
    <3>2. Len(q) >= 1 /\ Len(q) \in Nat /\ next \in Nat
      BY <1>1, <1>2, <1>3, <2>0
    <3>. HIDE DEF next, q
    <3>. QED BY <3>1, <3>2
  <2>8. g.value = n /\ g.at = next /\ h.value = Line(v) /\ h.at = next + Len(Line(v)) + 1
    BY <2>2, <2>5, ReadIs
  <2>. HIDE DEF g, next, n, v
  <2>9. UnpackHttp(w, from, end) = IF g.at >= end THEN Read(Nothing, g.at)
          ELSE Read(StringItem(Stripped(g.value),
                               WithoutReturn(Stripped(GetStringEndWith(w, g.at, end, Newline).value))),
                    GetStringEndWith(w, g.at, end, Newline).at)
    BY DEF UnpackHttp, Then, Of, g
  <2>10. GetStringEndWith(w, g.at, end, Newline) = h
    BY <2>8
  <2>. HIDE DEF h
  <2>. QED BY <1>5, <1>6, <2>6, <2>7, <2>8, <2>9, <2>10
<1>. QED BY <1>4, <1>7 DEF HttpTravels

-----------------------------------------------------------------------------
(* The buffer that is packed into: MmsOutputBuffer.                        *)

BufferInv == TypeOK /\ RoomForTerminator /\ NoGarbage /\ TransactionsNested

-----------------------------------------------------------------------------
(* mms_output_buffer_extend on a live buffer makes room for n bytes and one *)
(* more, and leaves the data as it was.                                     *)
LEMMA ExtendMakesRoom ==
  ASSUME TypeOK, RoomForTerminator, phase = "live", NEW n \in Nat \ {0}
  PROVE  /\ ExtendedLength(n) \in Nat
         /\ Extended(n) \in [0 .. ExtendedLength(n) - 1 -> Cell]
         /\ length <= ExtendedLength(n)
         /\ data_length + n < ExtendedLength(n)
         /\ \A i \in 0 .. data_length - 1 : Extended(n)[i] = buffer[i]
<1>1. CASE Fits(n)
  BY <1>1 DEF TypeOK, RoomForTerminator, Fits, Extended, ExtendedLength
<1>2. CASE ~Fits(n)
  <2> DEFINE top     == length * 2 + n - 1
             cell(i) == IF i = data_length THEN NUL ELSE IF i < length THEN buffer[i] ELSE Garbage
             mem     == [i \in 0 .. top |-> cell(i)]
  <2>1. ExtendedLength(n) = length * 2 + n /\ Extended(n) = mem
    BY <1>2 DEF ExtendedLength, Extended
  <2>2. data_length < length /\ length \in Nat /\ data_length \in Nat
    BY DEF TypeOK, RoomForTerminator
  <2>3. NUL \in Cell /\ Garbage \in Cell
    BY OutputBufferAssumption DEF Cell
  <2>4. \A i \in 0 .. top : cell(i) \in Cell
    <3>1. \A i \in 0 .. top : i < length => buffer[i] \in Cell
      BY <2>2 DEF TypeOK
    <3> QED BY <2>3, <3>1
  <2>5. \A i \in 0 .. data_length - 1 : i \in 0 .. top /\ cell(i) = buffer[i]
    BY <2>2
  <2> HIDE DEF cell
  <2>6. mem \in [0 .. top -> Cell]
    BY <2>4
  <2>7. \A i \in 0 .. data_length - 1 : mem[i] = buffer[i]
    BY <2>5
  <2> HIDE DEF mem
  <2> QED BY <2>1, <2>2, <2>6, <2>7
<1> QED BY <1>1, <1>2

(* Putting the bytes of s at data_length, after an extend for n bytes that  *)
(* s outgrows by its terminator at most, writes inside the memory, leaves   *)
(* the data before it alone and puts s where it belongs.                    *)
LEMMA WriteKeepsData ==
  ASSUME TypeOK, RoomForTerminator, phase = "live",
         NEW n \in Nat \ {0}, NEW s \in Seq(Byte), Len(s) <= n + 1,
         Write(s, n)
  PROVE  /\ length' \in Nat
         /\ buffer' \in [0 .. length' - 1 -> Cell]
         /\ length <= length'
         /\ data_length + n < length'
         /\ \A i \in 0 .. data_length - 1 : buffer'[i] = buffer[i]
         /\ \A i \in 1 .. Len(s) : buffer'[data_length + i - 1] = s[i]
<1> DEFINE mem == Extended(n)
           len == ExtendedLength(n)
<1>1. /\ len \in Nat /\ mem \in [0 .. len - 1 -> Cell]
      /\ length <= len /\ data_length + n < len
      /\ \A i \in 0 .. data_length - 1 : mem[i] = buffer[i]
  BY ExtendMakesRoom
<1>2. length' = len /\ buffer' = Written(mem, data_length, s)
  BY DEF Write
<1> HIDE DEF mem, len
<1>3. buffer' = [i \in 0 .. len - 1 |->
        IF data_length <= i /\ i < data_length + Len(s) THEN s[i - data_length + 1] ELSE mem[i]]
  BY <1>1, <1>2 DEF Written
<1>4. data_length \in Nat /\ Len(s) \in Nat
  BY DEF TypeOK
<1>5. ASSUME NEW i \in 0 .. len - 1, data_length <= i, i < data_length + Len(s)
      PROVE  s[i - data_length + 1] \in Cell
  <2>1. i - data_length + 1 \in 1 .. Len(s)
    BY <1>1, <1>4, <1>5
  <2> QED BY <2>1 DEF Cell
<1>6. buffer' \in [0 .. len - 1 -> Cell]
  BY <1>1, <1>3, <1>5
<1>7. \A i \in 0 .. data_length - 1 : buffer'[i] = buffer[i]
  BY <1>1, <1>3, <1>4
<1>8. \A i \in 1 .. Len(s) : buffer'[data_length + i - 1] = s[i]
  BY <1>1, <1>3, <1>4
<1> QED BY <1>1, <1>2, <1>6, <1>7, <1>8

(* A write that moves data_length by k <= n, over bytes it wrote, keeps the *)
(* invariant if the transactions stay.                                      *)
LEMMA WriteKeepsInvariant ==
  ASSUME BufferInv, phase = "live", phase' = phase, UNCHANGED stack,
         NEW n \in Nat \ {0}, NEW s \in Seq(Byte), Len(s) <= n + 1, Write(s, n),
         NEW k \in 0 .. n, k <= Len(s), data_length' = data_length + k
  PROVE  BufferInv'
<1>0. TypeOK /\ RoomForTerminator /\ NoGarbage /\ TransactionsNested
  BY DEF BufferInv
<1>1. /\ length' \in Nat /\ buffer' \in [0 .. length' - 1 -> Cell]
      /\ length <= length' /\ data_length + n < length'
      /\ \A i \in 0 .. data_length - 1 : buffer'[i] = buffer[i]
      /\ \A i \in 1 .. Len(s) : buffer'[data_length + i - 1] = s[i]
  BY <1>0, WriteKeepsData
<1>2. /\ data_length \in Nat /\ length \in Nat /\ data_length <= data_length'
      /\ transactions' = transactions /\ transaction_begin' = transaction_begin
  BY <1>0 DEF TypeOK, stack
<1>3. TypeOK'
  <2>1. data_length' \in Nat /\ phase' \in {"none", "live", "detached"}
    BY <1>0, <1>2 DEF TypeOK
  <2>2. /\ transaction_begin' \in Nat
        /\ transactions' \in Seq(Nat) /\ Len(transactions') <= MAX_TRANSACTIONS
    BY <1>0, <1>2 DEF TypeOK
  <2> QED BY <1>1, <2>1, <2>2 DEF TypeOK, Cell
<1>4. RoomForTerminator'
  BY <1>1, <1>2 DEF RoomForTerminator
<1>5. ASSUME NEW i \in 0 .. data_length' - 1
      PROVE  i < length' /\ buffer'[i] \in Byte
  <2>1. CASE i < data_length
    <3>1. i \in 0 .. data_length - 1
      BY <1>2, <1>5, <2>1
    <3>2. i < length /\ buffer[i] \in Byte
      BY <1>0, <3>1 DEF NoGarbage
    <3>3. buffer'[i] = buffer[i]
      BY <1>1, <3>1
    <3> QED BY <1>1, <1>2, <3>1, <3>2, <3>3
  <2>2. CASE i >= data_length
    <3>1. i - data_length + 1 \in 1 .. Len(s) /\ i < length'
      BY <1>1, <1>2, <1>5, <2>2
    <3>2. data_length + (i - data_length + 1) - 1 = i
      BY <1>2
    <3>3. buffer'[i] = s[i - data_length + 1]
      BY <1>1, <3>1, <3>2
    <3> QED BY <3>1, <3>3
  <2> QED BY <1>2, <2>1, <2>2
<1>6. NoGarbage'
  BY <1>5 DEF NoGarbage
<1>7. ASSUME NEW i \in 1 .. Len(transactions) PROVE transactions[i] <= data_length'
  <2>1. transactions[i] \in Nat
    BY <1>0 DEF TypeOK
  <2>2. transactions[i] <= data_length
    BY <1>0 DEF TransactionsNested
  <2>3. data_length' \in Nat
    BY <1>3 DEF TypeOK
  <2> QED BY <1>2, <2>1, <2>2, <2>3
<1>8. TransactionsNested'
  BY <1>0, <1>2, <1>7 DEF TransactionsNested
<1> QED BY <1>3, <1>4, <1>6, <1>8 DEF BufferInv

(* Ending the innermost transaction leaves the outer ones nested, inside    *)
(* the data even when that is cut to transaction_begin.                     *)
LEMMA EndKeepsNested ==
  ASSUME TypeOK, TransactionsNested, EndTransaction,
         data_length' \in {data_length, transaction_begin}
  PROVE  /\ TransactionsNested'
         /\ data_length' \in Nat /\ data_length' <= data_length
         /\ transaction_begin' \in Nat
         /\ transactions' \in Seq(Nat) /\ Len(transactions') <= MAX_TRANSACTIONS
         /\ Len(transactions') = Len(transactions) - 1
         /\ \A i \in 1 .. Len(transactions') : transactions'[i] = transactions[i]
<1> DEFINE m == Len(transactions)
<1>1. /\ transactions \in Seq(Nat) /\ m \in Nat \ {0} /\ m <= MAX_TRANSACTIONS
      /\ transaction_begin = transactions[m]
      /\ data_length \in Nat
      /\ MAX_TRANSACTIONS \in Nat
  BY OutputBufferAssumption DEF TypeOK, EndTransaction, TransactionsNested
<1>2. /\ \A i \in 1 .. m : transactions[i] \in Nat /\ transactions[i] <= data_length
      /\ \A i \in 1 .. m : transactions[i] <= transactions[m]
  BY <1>1 DEF TransactionsNested
<1>3. /\ transactions' \in Seq(Nat) /\ Len(transactions') = m - 1
      /\ \A i \in 1 .. m - 1 : transactions'[i] = transactions[i]
  <2>1. transactions' = SubSeq(transactions, 1, m - 1)
    BY DEF EndTransaction, Outer
  <2>2. \A i \in 1 .. m - 1 : transactions[i] \in Nat
    BY <1>1
  <2> HIDE DEF m
  <2>3. /\ SubSeq(transactions, 1, m - 1) \in Seq(Nat)
        /\ Len(SubSeq(transactions, 1, m - 1)) = IF 1 <= m - 1 THEN m - 1 - 1 + 1 ELSE 0
        /\ \A i \in 1 .. m - 1 - 1 + 1 : SubSeq(transactions, 1, m - 1)[i] = transactions[1 + i - 1]
    BY <1>1, <2>2, SubSeqProperties
  <2>4. m - 1 - 1 + 1 = m - 1 /\ \A i \in 1 .. m - 1 : 1 + i - 1 = i
    BY <1>1
  <2> QED BY <1>1, <2>1, <2>3, <2>4
<1>4. transaction_begin' = IF m > 1 THEN transactions[m - 1] ELSE 0
  BY DEF EndTransaction
<1>5. /\ data_length' \in Nat /\ data_length' <= data_length
      /\ \A i \in 1 .. m - 1 : transactions'[i] <= data_length'
  BY <1>1, <1>2, <1>3
<1>6. ASSUME NEW i \in 1 .. m - 1, NEW j \in 1 .. i
      PROVE  transactions'[j] <= transactions'[i]
  <2>1. i \in 1 .. m /\ j \in 1 .. m - 1
    BY <1>1
  <2>2. transactions[j] <= transactions[i]
    BY <1>1, <2>1 DEF TransactionsNested
  <2> QED BY <1>3, <2>1, <2>2
<1>7. transaction_begin' = IF transactions' = <<>> THEN 0 ELSE transactions'[Len(transactions')]
  <2>1. CASE m > 1
    BY <1>1, <1>3, <1>4, <2>1
  <2>2. CASE m = 1
    BY <1>1, <1>3, <1>4, <2>2
  <2> QED BY <1>1, <2>1, <2>2
<1>8. TransactionsNested'
  BY <1>3, <1>5, <1>6, <1>7 DEF TransactionsNested
<1>9. transaction_begin' \in Nat
  BY <1>1, <1>2, <1>4
<1> QED BY <1>1, <1>3, <1>5, <1>8, <1>9

-----------------------------------------------------------------------------
(* What is put is a nonempty string of bytes, and so it is with its NUL.    *)
LEMMA DataIsBytes ==
  ASSUME NEW d \in Data
  PROVE  /\ d \in Seq(Byte) /\ Len(d) \in Nat \ {0}
         /\ Append(d, NUL) \in Seq(Byte) /\ Len(Append(d, NUL)) = Len(d) + 1
         /\ \A i \in 1 .. Len(d) : Append(d, NUL)[i] = d[i]
<1>1. d \in Seq(Byte) /\ d # <<>> /\ NUL \in Byte
  BY OutputBufferAssumption
<1> QED BY <1>1, EmptySeq

(* A buffer begins well.                                                    *)
LEMMA BufferInvInit == Init => BufferInv
<1> SUFFICES ASSUME Init PROVE BufferInv
  OBVIOUS
<1>1. buffer \in [0 .. length - 1 -> Cell]
  BY DEF Init, NoMemory, Cell
<1>2. TypeOK
  BY <1>1, OutputBufferAssumption DEF Init, TypeOK
<1> QED BY <1>2 DEF Init, BufferInv, RoomForTerminator, NoGarbage, TransactionsNested

(* Every operation preserves the invariant.                                *)
LEMMA BufferInvNext == BufferInv /\ [Next]_vars => BufferInv'
<1> SUFFICES ASSUME BufferInv, [Next]_vars PROVE BufferInv'
  OBVIOUS
<1>0. TypeOK /\ RoomForTerminator /\ NoGarbage /\ TransactionsNested
  BY DEF BufferInv
<1>1. ASSUME NEW n \in InitLengths, Create(n) PROVE BufferInv'
  <2>1. length' \in Nat \ {0}
    BY <1>1, OutputBufferAssumption DEF Create
  <2>2. buffer' \in [0 .. length' - 1 -> Cell]
    BY <1>1, <2>1, OutputBufferAssumption DEF Create, Cell
  <2>3. TypeOK'
    BY <1>1, <2>1, <2>2, OutputBufferAssumption DEF Create, TypeOK, Cell
  <2> QED
    BY <1>1, <2>1, <2>3 DEF Create, RoomForTerminator, NoGarbage, TransactionsNested, BufferInv
<1>2. ASSUME phase' # "live", buffer' = NoMemory, length' = 0, data_length' = 0,
             transaction_begin' = 0, transactions' = <<>>, phase' \in {"none", "detached"}
      PROVE  BufferInv'
  <2>1. buffer' \in [0 .. length' - 1 -> Cell]
    BY <1>2 DEF NoMemory, Cell
  <2>2. transactions' \in Seq(Nat) /\ Len(transactions') <= MAX_TRANSACTIONS
    BY <1>2, OutputBufferAssumption
  <2>3. TypeOK'
    BY <1>2, <2>1, <2>2 DEF TypeOK, Cell
  <2> QED
    BY <1>2, <2>3 DEF RoomForTerminator, NoGarbage, TransactionsNested, BufferInv
<1>3. CASE Destroy
  BY <1>2, <1>3 DEF Destroy
<1>4. ASSUME NEW b \in Byte, PutChar(b) PROVE BufferInv'
  <2>1. /\ <<b>> \in Seq(Byte) /\ Len(<<b>>) <= 1 + 1 /\ 1 \in Nat \ {0}
        /\ 1 \in 0 .. 1 /\ 1 <= Len(<<b>>)
    OBVIOUS
  <2>2. /\ phase = "live" /\ phase' = phase /\ UNCHANGED stack
        /\ Write(<<b>>, 1) /\ data_length' = data_length + 1
    BY <1>4 DEF PutChar
  <2> QED BY <2>1, <2>2, WriteKeepsInvariant
<1>5. ASSUME NEW d \in Data, PutData(d) PROVE BufferInv'
  <2>1. /\ Len(d) \in Nat \ {0} /\ Len(d) \in 0 .. Len(d)
        /\ Append(d, NUL) \in Seq(Byte) /\ Len(Append(d, NUL)) <= Len(d) + 1
        /\ Len(d) <= Len(Append(d, NUL))
    BY DataIsBytes
  <2>2. /\ phase = "live" /\ phase' = phase /\ UNCHANGED stack
        /\ Write(Append(d, NUL), Len(d)) /\ data_length' = data_length + Len(d)
    BY <1>5 DEF PutData
  <2> QED BY <2>1, <2>2, WriteKeepsInvariant
<1>6. CASE Clear
  BY <1>0, <1>6
     DEF Clear, memory, stack, TypeOK, RoomForTerminator, NoGarbage, TransactionsNested, Cell, BufferInv
<1>7. CASE DetachBuffer
  BY <1>0, <1>2, <1>7 DEF DetachBuffer, stack, TransactionsNested
<1>8. CASE TransactionBegin
  <2> DEFINE m == Len(transactions)
  <2>1. /\ transactions \in Seq(Nat) /\ m \in Nat /\ data_length \in Nat
        /\ m < MAX_TRANSACTIONS /\ MAX_TRANSACTIONS \in Nat
        /\ transactions' = Append(transactions, data_length)
        /\ transaction_begin' = data_length
        /\ UNCHANGED <<phase, memory, data_length>>
    BY <1>0, <1>8, OutputBufferAssumption DEF TransactionBegin, TypeOK
  <2>2. /\ transactions' \in Seq(Nat) /\ Len(transactions') = m + 1
        /\ \A i \in 1 .. m : transactions'[i] = transactions[i]
        /\ transactions'[m + 1] = data_length
    BY <2>1
  <2>3. TypeOK' /\ RoomForTerminator' /\ NoGarbage'
    BY <1>0, <2>1, <2>2 DEF TypeOK, RoomForTerminator, NoGarbage, memory, Cell
  <2>4. ASSUME NEW i \in 1 .. m + 1
        PROVE  transactions'[i] <= data_length
    BY <1>0, <2>1, <2>2 DEF TransactionsNested
  <2>5. ASSUME NEW i \in 1 .. m + 1, NEW j \in 1 .. i
        PROVE  transactions'[j] <= transactions'[i]
    <3>1. CASE i = m + 1
      <4>1. j \in 1 .. m + 1
        BY <2>1
      <4> QED BY <2>2, <2>4, <3>1, <4>1
    <3>2. CASE i \in 1 .. m
      <4>1. j \in 1 .. m /\ transactions[j] <= transactions[i]
        BY <1>0, <2>1, <3>2 DEF TransactionsNested
      <4> QED BY <2>2, <3>2, <4>1
    <3> QED BY <2>1, <3>1, <3>2
  <2>6. transactions' # <<>>
    BY <2>1, <2>2
  <2> HIDE DEF m
  <2>7. TransactionsNested'
    BY <2>1, <2>2, <2>4, <2>5, <2>6 DEF TransactionsNested
  <2> QED BY <2>3, <2>7 DEF BufferInv
<1>9. ASSUME EndTransaction, UNCHANGED <<phase, memory>>,
             data_length' \in {data_length, transaction_begin}
      PROVE  BufferInv'
  <2>1. /\ TransactionsNested'
        /\ data_length' \in Nat /\ data_length' <= data_length
        /\ transaction_begin' \in Nat
        /\ transactions' \in Seq(Nat) /\ Len(transactions') <= MAX_TRANSACTIONS
    BY <1>0, <1>9, EndKeepsNested
  <2>2. TypeOK'
    BY <1>0, <1>9, <2>1 DEF TypeOK, memory, Cell
  <2>3. RoomForTerminator'
    BY <1>0, <1>9, <2>1 DEF TypeOK, RoomForTerminator, memory
  <2>4. data_length \in Nat
    BY <1>0 DEF TypeOK
  <2>5. \A i \in 0 .. data_length' - 1 : i \in 0 .. data_length - 1
    <3>1. data_length' \in Nat /\ data_length' <= data_length
      BY <2>1
    <3>2. \A n, m \in Nat : n <= m => \A i \in 0 .. n - 1 : i \in 0 .. m - 1
      OBVIOUS
    <3> QED BY <2>4, <3>1, <3>2, Zenon
  <2>6. NoGarbage'
    BY <1>0, <1>9, <2>5 DEF NoGarbage, memory
  <2> QED BY <2>1, <2>2, <2>3, <2>6 DEF BufferInv
<1>10. CASE TransactionRollback
  BY <1>9, <1>10 DEF TransactionRollback
<1>11. CASE TransactionCommit
  BY <1>9, <1>11 DEF TransactionCommit
<1>12. ASSUME NEW d \in Data, GetLongIntBytes(d) PROVE BufferInv'
  <2>1. /\ d \in Seq(Byte) /\ Len(d) \in Nat \ {0} /\ Len(d) <= Len(d) + 1
        /\ 0 \in 0 .. Len(d) /\ 0 <= Len(d)
    BY DataIsBytes
  <2>2. /\ phase = "live" /\ phase' = phase /\ UNCHANGED stack
        /\ Write(d, Len(d)) /\ data_length' = data_length + 0
    BY <1>0, <1>12 DEF GetLongIntBytes, TypeOK
  <2> QED BY <2>1, <2>2, WriteKeepsInvariant
<1>13. ASSUME NEW d \in Data, GetEncodedStringBytes(d) PROVE BufferInv'
  <2>1. /\ Len(d) \in Nat \ {0} /\ 0 \in 0 .. Len(d)
        /\ Append(d, NUL) \in Seq(Byte) /\ Len(Append(d, NUL)) <= Len(d) + 1
        /\ 0 <= Len(Append(d, NUL))
    BY DataIsBytes
  <2>2. phase = "live" /\ phase' = phase /\ Write(Append(d, NUL), Len(d))
    BY <1>13 DEF GetEncodedStringBytes
  <2>3. CASE Len(transactions) < MAX_TRANSACTIONS
    <3>1. UNCHANGED stack /\ data_length' = data_length + 0
      BY <1>0, <1>13, <2>3 DEF GetEncodedStringBytes, TypeOK
    <3> QED BY <2>1, <2>2, <3>1, WriteKeepsInvariant
  <2>4. CASE ~(Len(transactions) < MAX_TRANSACTIONS)
    <3>1. EndTransaction /\ data_length' = transaction_begin
      BY <1>13, <2>4 DEF GetEncodedStringBytes
    <3>2. /\ TransactionsNested'
          /\ data_length' \in Nat /\ data_length' <= data_length
          /\ transaction_begin' \in Nat
          /\ transactions' \in Seq(Nat) /\ Len(transactions') <= MAX_TRANSACTIONS
      BY <1>0, <3>1, EndKeepsNested
    <3>3. /\ length' \in Nat /\ buffer' \in [0 .. length' - 1 -> Cell]
          /\ length <= length' /\ data_length + Len(d) < length'
          /\ \A i \in 0 .. data_length - 1 : buffer'[i] = buffer[i]
      BY <1>0, <2>1, <2>2, WriteKeepsData
    <3>4. data_length \in Nat /\ length \in Nat
      BY <1>0 DEF TypeOK
    <3>5. TypeOK'
      BY <2>2, <3>2, <3>3 DEF TypeOK, Cell
    <3>6. RoomForTerminator'
      BY <2>1, <3>2, <3>3, <3>4 DEF RoomForTerminator
    <3>7. \A i \in 0 .. data_length' - 1 : i \in 0 .. data_length - 1 /\ (i < length => i < length')
      BY <3>2, <3>3, <3>4
    <3>8. NoGarbage'
      BY <1>0, <3>3, <3>7 DEF NoGarbage
    <3> QED BY <3>2, <3>5, <3>6, <3>8 DEF BufferInv
  <2> QED BY <2>3, <2>4
<1>14. CASE UNCHANGED vars
  BY <1>0, <1>14
     DEF vars, memory, stack, TypeOK, RoomForTerminator, NoGarbage, TransactionsNested, Cell, BufferInv
<1> QED
  BY <1>1, <1>3, <1>4, <1>5, <1>6, <1>7, <1>8, <1>10, <1>11, <1>12, <1>13, <1>14 DEF Next

(* Whatever is put, measured, opened and ended, the buffer is well typed,   *)
(* has room for its terminator, shows no garbage, and nests transactions.   *)
THEOREM BufferInvariance == Spec => []BufferInv
  BY BufferInvInit, BufferInvNext, PTL DEF Spec

-----------------------------------------------------------------------------
(* The refinement: what SavepointText calls text and saved.                *)

(* Text and saved texts are sequences, of the lengths one expects: said of  *)
(* any memory, so that it serves before and after a step.                   *)
LEMMA FrontTypes ==
  ASSUME NEW mem, NEW top \in Nat, NEW marks \in Seq(Nat),
         \A i \in 0 .. top - 1 : mem[i] \in Byte,
         \A k \in 1 .. Len(marks) : marks[k] <= top
  PROVE  /\ FirstBytes(mem, top) \in Seq(Byte) /\ Len(FirstBytes(mem, top)) = top
         /\ Fronts(mem, marks) \in Seq(Seq(Byte)) /\ Len(Fronts(mem, marks)) = Len(marks)
<1>1. ASSUME NEW n \in Nat, n <= top
      PROVE  FirstBytes(mem, n) \in Seq(Byte) /\ Len(FirstBytes(mem, n)) = n
  <2>1. \A i \in 1 .. n : mem[i - 1] \in Byte
    BY <1>1
  <2> QED BY <2>1 DEF FirstBytes
<1>2. \A k \in 1 .. Len(marks) : marks[k] \in Nat /\ marks[k] <= top
  OBVIOUS
<1>3. \A k \in 1 .. Len(marks) : FirstBytes(mem, marks[k]) \in Seq(Byte)
  BY <1>1, <1>2
<1> DEFINE mark(k) == FirstBytes(mem, marks[k])
<1>4. /\ Fronts(mem, marks) = [k \in 1 .. Len(marks) |-> mark(k)]
      /\ \A k \in 1 .. Len(marks) : mark(k) \in Seq(Byte)
  BY <1>3 DEF Fronts
<1> HIDE DEF mark
<1> QED BY <1>1, <1>4

(* The variables of the refinement mapping have their types, before and     *)
(* after a step.                                                            *)
LEMMA AbstractTypes ==
  ASSUME BufferInv, BufferInv'
  PROVE  /\ Text \in Seq(Byte) /\ Len(Text) = data_length
         /\ Saved \in Seq(Seq(Byte)) /\ Len(Saved) = Len(transactions)
         /\ Text' \in Seq(Byte) /\ Len(Text') = data_length'
         /\ Saved' \in Seq(Seq(Byte)) /\ Len(Saved') = Len(transactions')
<1>1. /\ data_length \in Nat /\ transactions \in Seq(Nat)
      /\ \A i \in 0 .. data_length - 1 : buffer[i] \in Byte
      /\ \A k \in 1 .. Len(transactions) : transactions[k] <= data_length
  BY DEF BufferInv, TypeOK, NoGarbage, TransactionsNested
<1>2. /\ data_length' \in Nat /\ transactions' \in Seq(Nat)
      /\ \A i \in 0 .. data_length' - 1 : buffer'[i] \in Byte
      /\ \A k \in 1 .. Len(transactions') : transactions'[k] <= data_length'
  BY DEF BufferInv, TypeOK, NoGarbage, TransactionsNested
<1>3. /\ FirstBytes(buffer, data_length) \in Seq(Byte) /\ Len(FirstBytes(buffer, data_length)) = data_length
      /\ Fronts(buffer, transactions) \in Seq(Seq(Byte))
      /\ Len(Fronts(buffer, transactions)) = Len(transactions)
  BY <1>1, FrontTypes
<1>4. /\ FirstBytes(buffer', data_length') \in Seq(Byte) /\ Len(FirstBytes(buffer', data_length')) = data_length'
      /\ Fronts(buffer', transactions') \in Seq(Seq(Byte))
      /\ Len(Fronts(buffer', transactions')) = Len(transactions')
  BY <1>2, FrontTypes
<1> QED BY <1>3, <1>4 DEF Text, Saved

(* A step that leaves the data's memory alone leaves every prefix alone.    *)
LEMMA FrontKept ==
  ASSUME BufferInv, \A i \in 0 .. data_length - 1 : buffer'[i] = buffer[i]
  PROVE  \A n \in Nat : n <= data_length =>
           FirstBytes(buffer', n) = FirstBytes(buffer, n)
<1>1. data_length \in Nat
  BY DEF BufferInv, TypeOK
<1>2. ASSUME NEW n \in Nat, n <= data_length
      PROVE  \A i \in 1 .. n : buffer'[i - 1] = buffer[i - 1]
  <2>1. \A i \in 1 .. n : i - 1 \in 0 .. data_length - 1
    BY <1>1, <1>2
  <2> QED BY <2>1
<1> QED BY <1>2 DEF FirstBytes

(* ... and with it the savepoints that stay on the stack.                  *)
LEMMA SavedKept ==
  ASSUME BufferInv, BufferInv', \A i \in 0 .. data_length - 1 : buffer'[i] = buffer[i],
         NEW m \in 0 .. Len(transactions), m <= Len(transactions'),
         \A k \in 1 .. m : transactions'[k] = transactions[k]
  PROVE  \A k \in 1 .. m : Saved'[k] = Saved[k]
<1>1. data_length \in Nat /\ transactions \in Seq(Nat) /\ transactions' \in Seq(Nat)
  BY DEF BufferInv, TypeOK
<1> SUFFICES ASSUME NEW k \in 1 .. m PROVE Saved'[k] = Saved[k]
  OBVIOUS
<1>2. k \in 1 .. Len(transactions) /\ k \in 1 .. Len(transactions')
  BY <1>1
<1>3. transactions[k] \in Nat /\ transactions[k] <= data_length
  BY <1>1, <1>2 DEF BufferInv, TransactionsNested
<1>4. Saved[k] = FirstBytes(buffer, transactions[k]) /\ Saved'[k] = FirstBytes(buffer', transactions'[k])
  BY <1>2 DEF Saved, Fronts
<1> QED BY <1>3, <1>4, FrontKept

(* With data and stack untouched nothing has happened to the text.         *)
LEMMA KeptIsStutter ==
  ASSUME BufferInv, BufferInv', \A i \in 0 .. data_length - 1 : buffer'[i] = buffer[i],
         data_length' = data_length, transactions' = transactions
  PROVE  Text' = Text /\ Saved' = Saved
<1>1. data_length \in Nat /\ data_length <= data_length
  BY DEF BufferInv, TypeOK
<1>2. Text' = Text
  BY <1>1, FrontKept DEF Text
<1>3. \A k \in 1 .. Len(transactions) : transactions[k] \in Nat /\ transactions[k] <= data_length
  BY DEF BufferInv, TypeOK, TransactionsNested
<1>4. \A k \in 1 .. Len(transactions) : FirstBytes(buffer', transactions[k]) = FirstBytes(buffer, transactions[k])
  BY <1>3, FrontKept
<1> QED BY <1>2, <1>4 DEF Saved, Fronts

(* Data added at the end, over memory that keeps what it held: Grow.        *)
LEMMA LongerIsGrow ==
  ASSUME BufferInv, BufferInv', \A i \in 0 .. data_length - 1 : buffer'[i] = buffer[i],
         data_length <= data_length', transactions' = transactions
  PROVE  Abstract!Grow
<1>1. /\ Text \in Seq(Byte) /\ Len(Text) = data_length
      /\ Text' \in Seq(Byte) /\ Len(Text') = data_length'
  BY AbstractTypes
<1>2. data_length \in Nat /\ data_length' \in Nat
  BY DEF BufferInv, TypeOK
<1>3. ASSUME NEW i \in 1 .. data_length PROVE Text'[i] = Text[i] /\ i \in 1 .. data_length'
  <2>1. i \in 1 .. data_length' /\ i - 1 \in 0 .. data_length - 1
    BY <1>2
  <2>2. Text'[i] = buffer'[i - 1]
    BY <2>1 DEF Text, FirstBytes
  <2>3. Text[i] = buffer[i - 1]
    BY DEF Text, FirstBytes
  <2> QED BY <2>1, <2>2, <2>3
<1> DEFINE t == Text'
<1>4. /\ \A i \in 1 .. data_length : t[i] \in Byte
      /\ \A i \in 1 .. data_length : t[i] = Text[i]
  BY <1>1, <1>2, <1>3
<1> HIDE DEF t
<1>5. /\ SubSeq(t, 1, data_length) \in Seq(Byte)
      /\ Len(SubSeq(t, 1, data_length)) = data_length
      /\ \A i \in 1 .. data_length : SubSeq(t, 1, data_length)[i] = t[i]
  BY <1>2, <1>4, SubSeqProperties
<1>6. SubSeq(t, 1, data_length) = Text
  BY <1>1, <1>4, <1>5, SeqEqual
<1>7. Saved' = Saved
  <2>1. \A k \in 1 .. Len(transactions) : transactions[k] \in Nat /\ transactions[k] <= data_length
    BY DEF BufferInv, TypeOK, TransactionsNested
  <2>2. \A k \in 1 .. Len(transactions) : FirstBytes(buffer', transactions[k]) = FirstBytes(buffer, transactions[k])
    BY <2>1, FrontKept
  <2> QED BY <2>2 DEF Saved, Fronts
<1> QED BY <1>1, <1>6, <1>7 DEF Abstract!Grow, t

(* An empty buffer without transactions: Renew.                            *)
LEMMA EmptyIsRenew ==
  ASSUME data_length' = 0, transactions' = <<>>
  PROVE  Abstract!Renew
<1>1. Text' = <<>>
  BY DEF Text, FirstBytes
<1>2. Saved' = <<>>
  BY DEF Saved, Fronts
<1> QED BY <1>1, <1>2 DEF Abstract!Renew

(* The end of the innermost transaction pops its savepoint, also when the   *)
(* memory after the data has been written over.                             *)
LEMMA EndIsPop ==
  ASSUME BufferInv, BufferInv', EndTransaction,
         \A i \in 0 .. data_length - 1 : buffer'[i] = buffer[i],
         data_length' \in {data_length, transaction_begin}
  PROVE  Abstract!Pop
<1> DEFINE m == Len(transactions)
<1>1. /\ Saved \in Seq(Seq(Byte)) /\ Len(Saved) = m
      /\ Saved' \in Seq(Seq(Byte)) /\ Len(Saved') = Len(transactions')
  BY AbstractTypes
<1>2. /\ Len(transactions') = m - 1
      /\ \A i \in 1 .. m - 1 : transactions'[i] = transactions[i]
  BY EndKeepsNested DEF BufferInv
<1>3. m \in Nat \ {0}
  BY DEF BufferInv, TypeOK, EndTransaction
<1> HIDE DEF m
<1>4. \A k \in 1 .. m - 1 : Saved'[k] = Saved[k]
  <2>1. m - 1 \in 0 .. Len(transactions) /\ m - 1 <= Len(transactions')
    BY <1>2, <1>3 DEF m
  <2> QED BY <1>2, <2>1, SavedKept
<1>5. \A k \in 1 .. m - 1 : Saved[k] \in Seq(Byte)
  BY <1>1, <1>3
<1>6. /\ SubSeq(Saved, 1, m - 1) \in Seq(Seq(Byte))
      /\ Len(SubSeq(Saved, 1, m - 1)) = m - 1
      /\ \A k \in 1 .. m - 1 : SubSeq(Saved, 1, m - 1)[k] = Saved[k]
  <2>1. /\ SubSeq(Saved, 1, m - 1) \in Seq(Seq(Byte))
        /\ Len(SubSeq(Saved, 1, m - 1)) = IF 1 <= m - 1 THEN m - 1 - 1 + 1 ELSE 0
        /\ \A k \in 1 .. m - 1 - 1 + 1 : SubSeq(Saved, 1, m - 1)[k] = Saved[1 + k - 1]
    BY <1>3, <1>5, SubSeqProperties
  <2>2. m - 1 - 1 + 1 = m - 1 /\ \A k \in 1 .. m - 1 : 1 + k - 1 = k
    BY <1>3
  <2> QED BY <1>3, <2>1, <2>2
<1>7. Saved' = SubSeq(Saved, 1, m - 1)
  <2> DEFINE after == Saved'
  <2>1. /\ after \in Seq(Seq(Byte)) /\ Len(after) = m - 1
        /\ \A k \in 1 .. m - 1 : after[k] = SubSeq(Saved, 1, m - 1)[k]
    BY <1>1, <1>2, <1>4, <1>6
  <2> HIDE DEF after
  <2>2. after = SubSeq(Saved, 1, m - 1)
    BY <1>6, <2>1, SeqEqual
  <2> QED BY <2>2 DEF after
<1>8. Saved # <<>>
  BY <1>1, <1>3
<1> QED BY <1>1, <1>7, <1>8 DEF Abstract!Pop

(* With data_length cut to transaction_begin, it is Rollback.               *)
LEMMA EndIsRollback ==
  ASSUME BufferInv, BufferInv', EndTransaction,
         \A i \in 0 .. data_length - 1 : buffer'[i] = buffer[i],
         data_length' = transaction_begin
  PROVE  Abstract!Rollback
<1> DEFINE m == Len(transactions)
<1>1. Abstract!Pop
  BY EndIsPop
<1>2. /\ m \in Nat \ {0} /\ transaction_begin = transactions[m]
      /\ transactions[m] \in Nat /\ transactions[m] <= data_length
  BY DEF BufferInv, TypeOK, EndTransaction, TransactionsNested
<1>3. Saved[m] = FirstBytes(buffer, transactions[m])
  BY <1>2 DEF Saved, Fronts
<1>4. FirstBytes(buffer', transactions[m]) = FirstBytes(buffer, transactions[m])
  BY <1>2, FrontKept
<1>5. Text' = FirstBytes(buffer', transactions[m])
  BY <1>2 DEF Text
<1>6. Len(Saved) = m
  BY AbstractTypes
<1> QED BY <1>1, <1>3, <1>4, <1>5, <1>6 DEF Abstract!Rollback

(* A begin, on data and memory it leaves alone: Begin.                      *)
LEMMA BeginIsBegin ==
  ASSUME BufferInv, BufferInv', TransactionBegin
  PROVE  Abstract!Begin
<1> DEFINE m == Len(transactions)
<1>1. /\ Text \in Seq(Byte) /\ Saved \in Seq(Seq(Byte)) /\ Len(Saved) = m
      /\ Saved' \in Seq(Seq(Byte)) /\ Len(Saved') = Len(transactions')
  BY AbstractTypes
<1>2. /\ transactions \in Seq(Nat) /\ data_length \in Nat /\ m \in Nat
      /\ transactions' = Append(transactions, data_length) /\ m < MAX_TRANSACTIONS
      /\ buffer' = buffer /\ data_length' = data_length
  BY DEF BufferInv, TypeOK, TransactionBegin, memory
<1>3. /\ Len(transactions') = m + 1 /\ transactions'[m + 1] = data_length
      /\ \A k \in 1 .. m : transactions'[k] = transactions[k]
  BY <1>2
<1>4. Text' = Text
  BY <1>2 DEF Text
<1>5. \A k \in 1 .. m : Saved'[k] = Saved[k]
  <2>1. m \in 0 .. Len(transactions) /\ m <= Len(transactions')
    BY <1>2, <1>3
  <2> HIDE DEF m
  <2> QED BY <1>2, <1>3, <2>1, SavedKept
<1>6. Saved'[m + 1] = Text
  <2>1. m + 1 \in 1 .. Len(transactions')
    BY <1>2, <1>3
  <2>2. Saved'[m + 1] = FirstBytes(buffer', transactions'[m + 1])
    BY <2>1 DEF Saved, Fronts
  <2> QED BY <1>2, <1>3, <2>2 DEF Text
<1>7. Saved' = Append(Saved, Text)
  <2> DEFINE after == Saved'
  <2>1. /\ after \in Seq(Seq(Byte)) /\ Len(after) = m + 1
        /\ \A k \in 1 .. m : after[k] = Saved[k]
        /\ after[m + 1] = Text
    BY <1>1, <1>3, <1>5, <1>6
  <2> HIDE DEF after, m
  <2>2. /\ Append(Saved, Text) \in Seq(Seq(Byte)) /\ Len(Append(Saved, Text)) = m + 1
        /\ \A k \in 1 .. m : Append(Saved, Text)[k] = Saved[k]
        /\ Append(Saved, Text)[m + 1] = Text
    BY <1>1, <1>2
  <2>3. \A k \in 1 .. m + 1 : after[k] = Append(Saved, Text)[k]
    BY <1>2, <2>1, <2>2
  <2>4. after = Append(Saved, Text)
    BY <2>1, <2>2, <2>3, SeqEqual
  <2> QED BY <2>4 DEF after
<1> QED BY <1>1, <1>2, <1>4, <1>7 DEF Abstract!Begin

-----------------------------------------------------------------------------

(* An empty buffer is an empty text.                                        *)
LEMMA BufferInitRefines == Init => Abstract!Init
<1> SUFFICES ASSUME Init PROVE Text = <<>> /\ Saved = <<>>
  BY DEF Abstract!Init
<1>1. Text = <<>>
  BY DEF Init, Text, FirstBytes
<1>2. Saved = <<>>
  BY DEF Init, Saved, Fronts
<1> QED BY <1>1, <1>2

(* Every step is one of SavepointText, or leaves its variables alone.       *)
LEMMA BufferNextRefines == BufferInv /\ BufferInv' /\ [Next]_vars => [Abstract!Next]_(Abstract!vars)
<1> SUFFICES ASSUME BufferInv, BufferInv', [Next]_vars
             PROVE  Abstract!Next \/ (Text' = Text /\ Saved' = Saved)
  BY DEF Abstract!vars
<1> USE DEF Abstract!Next
<1>0. TypeOK /\ RoomForTerminator /\ data_length \in Nat
  BY DEF BufferInv, TypeOK
<1>1. CASE \E n \in InitLengths : Create(n)
  BY <1>1, EmptyIsRenew DEF Create
<1>2. CASE Destroy
  BY <1>2, EmptyIsRenew DEF Destroy
<1>3. ASSUME NEW b \in Byte, PutChar(b) PROVE Abstract!Grow
  <2>1. /\ <<b>> \in Seq(Byte) /\ Len(<<b>>) <= 1 + 1 /\ 1 \in Nat \ {0}
        /\ phase = "live" /\ Write(<<b>>, 1)
        /\ data_length' = data_length + 1 /\ transactions' = transactions
    BY <1>3 DEF PutChar, stack
  <2>2. \A i \in 0 .. data_length - 1 : buffer'[i] = buffer[i]
    BY <1>0, <2>1, WriteKeepsData
  <2> QED BY <1>0, <2>1, <2>2, LongerIsGrow
<1>4. ASSUME NEW d \in Data, PutData(d) PROVE Abstract!Grow
  <2>1. /\ Len(d) \in Nat \ {0} /\ Append(d, NUL) \in Seq(Byte)
        /\ Len(Append(d, NUL)) <= Len(d) + 1
    BY DataIsBytes
  <2>2. /\ phase = "live" /\ Write(Append(d, NUL), Len(d))
        /\ data_length' = data_length + Len(d) /\ transactions' = transactions
    BY <1>4 DEF PutData, stack
  <2>3. \A i \in 0 .. data_length - 1 : buffer'[i] = buffer[i]
    BY <1>0, <2>1, <2>2, WriteKeepsData
  <2> QED BY <1>0, <2>1, <2>2, <2>3, LongerIsGrow
<1>5. CASE Clear
  BY <1>5, EmptyIsRenew DEF Clear, stack
<1>6. CASE DetachBuffer
  BY <1>6, EmptyIsRenew DEF DetachBuffer, stack
<1>7. CASE TransactionBegin
  BY <1>7, BeginIsBegin
<1>8. CASE TransactionRollback
  BY <1>8, EndIsRollback DEF TransactionRollback, memory
<1>9. CASE TransactionCommit
  <2>1. EndTransaction /\ buffer' = buffer /\ data_length' = data_length
    BY <1>9 DEF TransactionCommit, memory
  <2>2. Abstract!Pop
    BY <2>1, EndIsPop
  <2>3. Text' = Text
    BY <2>1 DEF Text
  <2> QED BY <2>2, <2>3 DEF Abstract!Commit
<1>10. ASSUME NEW d \in Data, GetLongIntBytes(d) PROVE Text' = Text /\ Saved' = Saved
  <2>1. d \in Seq(Byte) /\ Len(d) \in Nat \ {0} /\ Len(d) <= Len(d) + 1
    BY DataIsBytes
  <2>2. /\ phase = "live" /\ Write(d, Len(d))
        /\ data_length' = data_length /\ transactions' = transactions
    BY <1>10 DEF GetLongIntBytes, stack
  <2>3. \A i \in 0 .. data_length - 1 : buffer'[i] = buffer[i]
    BY <1>0, <2>1, <2>2, WriteKeepsData
  <2> QED BY <2>2, <2>3, KeptIsStutter
<1>11. ASSUME NEW d \in Data, GetEncodedStringBytes(d)
       PROVE  Abstract!Rollback \/ (Text' = Text /\ Saved' = Saved)
  <2>1. /\ Len(d) \in Nat \ {0} /\ Append(d, NUL) \in Seq(Byte)
        /\ Len(Append(d, NUL)) <= Len(d) + 1
    BY DataIsBytes
  <2>2. /\ phase = "live" /\ Write(Append(d, NUL), Len(d))
        /\ \/ data_length' = data_length /\ transactions' = transactions
           \/ EndTransaction /\ data_length' = transaction_begin
    BY <1>11 DEF GetEncodedStringBytes, stack
  <2>3. \A i \in 0 .. data_length - 1 : buffer'[i] = buffer[i]
    BY <1>0, <2>1, <2>2, WriteKeepsData
  <2> QED BY <2>2, <2>3, KeptIsStutter, EndIsRollback
<1>12. CASE UNCHANGED vars
  BY <1>12 DEF vars, memory, stack, Text, Saved
<1> QED
  BY <1>1, <1>2, <1>3, <1>4, <1>5, <1>6, <1>7, <1>8, <1>9, <1>10, <1>11, <1>12 DEF Next

(* The buffer implements the text with savepoints.                         *)
THEOREM BufferRefinement == Spec => ImplementsSavepointText
  BY BufferInvInit, BufferInitRefines, BufferInvNext, BufferNextRefines, PTL
     DEF Spec, ImplementsSavepointText, Abstract!Spec

(* The invariants that the runs check, one by one.                         *)
THEOREM RoomInvariant == Spec => []RoomForTerminator
<1>1. BufferInv => RoomForTerminator
  BY DEF BufferInv
<1> QED BY <1>1, BufferInvariance, PTL

(* Nothing up to data_length is fresh from realloc.                         *)
THEOREM NoGarbageInvariant == Spec => []NoGarbage
<1>1. BufferInv => NoGarbage
  BY DEF BufferInv
<1> QED BY <1>1, BufferInvariance, PTL

(* The open transactions lie nested in the data.                            *)
THEOREM NestedInvariant == Spec => []TransactionsNested
<1>1. BufferInv => TransactionsNested
  BY DEF BufferInv
<1> QED BY <1>1, BufferInvariance, PTL

(* The memory is as long as length says, and the stack never overflows.     *)
THEOREM BufferTypeInvariant == Spec => []TypeOK
<1>1. BufferInv => TypeOK
  BY DEF BufferInv
<1> QED BY <1>1, BufferInvariance, PTL

=============================================================================
