---------------------------- MODULE SequenceFacts ----------------------------
(***************************************************************************)
(* Facts about sequences, and of least indices, that the proofs of several *)
(* components need.                                                        *)
(***************************************************************************)
EXTENDS Naturals, Sequences, SequencesExt, SequenceTheorems, NaturalsInduction,
        WellFoundedInduction, TLAPS

(* What RemoveAt leaves: the elements before k, then those behind it.       *)
LEMMA RemoveAtIs ==
  ASSUME NEW S, NEW s \in Seq(S), NEW k \in 1 .. Len(s)
  PROVE  /\ RemoveAt(s, k) \in Seq(S)
         /\ Len(RemoveAt(s, k)) = Len(s) - 1
         /\ DOMAIN RemoveAt(s, k) = 1 .. Len(s) - 1
         /\ \A i \in 1 .. Len(s) - 1 :
              RemoveAt(s, k)[i] = IF i < k THEN s[i] ELSE s[i + 1]
<1>1. RemoveAt(s, k) = SubSeq(s, 1, k - 1) \o SubSeq(s, k + 1, Len(s))
  BY DEF RemoveAt
<1>2. SubSeq(s, 1, k - 1) \in Seq(S) /\ Len(SubSeq(s, 1, k - 1)) = k - 1
      /\ \A i \in 1 .. k - 1 : SubSeq(s, 1, k - 1)[i] = s[i]
  OBVIOUS
<1>3. SubSeq(s, k + 1, Len(s)) \in Seq(S) /\ Len(SubSeq(s, k + 1, Len(s))) = Len(s) - k
      /\ \A i \in 1 .. Len(s) - k : SubSeq(s, k + 1, Len(s))[i] = s[k + i]
  OBVIOUS
<1> DEFINE a == SubSeq(s, 1, k - 1)
           b == SubSeq(s, k + 1, Len(s))
<1> HIDE DEF a, b
<1>4. a \in Seq(S) /\ b \in Seq(S) /\ Len(a) = k - 1 /\ Len(b) = Len(s) - k
      /\ (\A i \in 1 .. k - 1 : a[i] = s[i]) /\ (\A i \in 1 .. Len(s) - k : b[i] = s[k + i])
  BY <1>2, <1>3 DEF a, b
<1>5. a \o b \in Seq(S) /\ Len(a \o b) = Len(s) - 1
      /\ \A i \in 1 .. Len(s) - 1 : (a \o b)[i] = IF i < k THEN a[i] ELSE b[i - (k - 1)]
  <2>1. /\ a \o b \in Seq(S) /\ Len(a \o b) = Len(a) + Len(b)
        /\ \A i \in 1 .. Len(a) + Len(b) :
             (a \o b)[i] = IF i <= Len(a) THEN a[i] ELSE b[i - Len(a)]
    BY <1>4, ConcatProperties
  <2>2. Len(s) \in Nat /\ k \in Nat
    OBVIOUS
  <2> QED BY <1>4, <2>1, <2>2
<1>6. \A i \in 1 .. Len(s) - 1 : (a \o b)[i] = IF i < k THEN s[i] ELSE s[i + 1]
  <2> SUFFICES ASSUME NEW i \in 1 .. Len(s) - 1
               PROVE  (a \o b)[i] = IF i < k THEN s[i] ELSE s[i + 1]
    OBVIOUS
  <2>1. CASE i < k
    BY <1>4, <1>5, <2>1
  <2>2. CASE ~(i < k)
    <3>1. i - (k - 1) \in 1 .. Len(s) - k /\ k + (i - (k - 1)) = i + 1
      BY <2>2
    <3> QED BY <1>4, <1>5, <2>2, <3>1
  <2> QED BY <2>1, <2>2
<1>7. RemoveAt(s, k) = a \o b
  BY <1>1 DEF a, b
<1>8. DOMAIN (a \o b) = 1 .. Len(s) - 1
  BY <1>5
<1> QED BY <1>5, <1>6, <1>7, <1>8

(* The same of a node put in front.                                         *)
LEMMA PutInFront ==
  ASSUME NEW S, NEW s \in Seq(S), NEW e \in S
  PROVE  /\ <<e>> \o s \in Seq(S)
         /\ Len(<<e>> \o s) = Len(s) + 1
         /\ \A i \in 1 .. Len(s) + 1 : (<<e>> \o s)[i] = IF i = 1 THEN e ELSE s[i - 1]
OBVIOUS

(* A set of naturals that is not empty has a least element.                 *)
LEMMA LeastOf ==
  ASSUME NEW T, T \subseteq Nat, T # {}
  PROVE  \E x \in T : \A y \in T : x <= y
<1>1. PICK x \in T : \A y \in T : ~ (<<y, x>> \in OpToRel(<, Nat))
  BY NatLessThanWellFounded, WFMin
<1>2. \A y \in T : ~ (y < x)
  BY <1>1 DEF OpToRel
<1> QED BY <1>2

(* The elements of a sequence.                                              *)
LEMMA SeqIs ==
  ASSUME NEW S, NEW s \in Seq(S)
  PROVE  DOMAIN s = 1 .. Len(s) /\ Len(s) \in Nat /\ \A i \in 1 .. Len(s) : s[i] \in S
OBVIOUS

(* What Append adds to them, and RemoveAt takes.                            *)
LEMMA AppendedIs ==
  ASSUME NEW S, NEW s \in Seq(S), NEW e \in S
  PROVE  /\ Append(s, e) \in Seq(S) /\ Len(Append(s, e)) # Len(s)
         /\ Range(Append(s, e)) = Range(s) \cup {e}
<1>. DEFINE more == Append(s, e)
<1>1. /\ more \in Seq(S) /\ Len(more) = Len(s) + 1
      /\ more[Len(s) + 1] = e /\ \A i \in 1 .. Len(s) : more[i] = s[i]
  BY AppendProperties
<1>. HIDE DEF more
<1>2. DOMAIN s = 1 .. Len(s) /\ Len(s) \in Nat /\ DOMAIN more = 1 .. Len(s) + 1
  BY <1>1, SeqIs
<1>3. /\ \A i \in 1 .. Len(s) + 1 : i \in 1 .. Len(s) \/ i = Len(s) + 1
      /\ 1 .. Len(s) \subseteq 1 .. Len(s) + 1 /\ Len(s) + 1 \in 1 .. Len(s) + 1
  BY <1>2
<1>4. Range(more) = Range(s) \cup {e}
  BY <1>1, <1>2, <1>3 DEF Range
<1>5. Len(more) # Len(s)
  <2>1. Len(more) = Len(s) + 1 /\ Len(s) \in Nat
    BY <1>1, <1>2
  <2>. QED BY <2>1
<1>. QED BY <1>1, <1>4, <1>5 DEF more

LEMMA RemoveAtKeeps ==
  ASSUME NEW S, NEW s \in Seq(S), NEW k \in 1 .. Len(s)
  PROVE  /\ RemoveAt(s, k) \in Seq(S) /\ Len(RemoveAt(s, k)) # Len(s)
         /\ Range(RemoveAt(s, k)) \subseteq Range(s)
         /\ Range(s) \subseteq Range(RemoveAt(s, k)) \cup {s[k]}
<1>. DEFINE rest == RemoveAt(s, k)
<1>1. /\ rest \in Seq(S) /\ Len(rest) = Len(s) - 1 /\ DOMAIN rest = 1 .. Len(s) - 1
      /\ \A i \in 1 .. Len(s) - 1 : rest[i] = IF i < k THEN s[i] ELSE s[i + 1]
  BY RemoveAtIs
<1>. HIDE DEF rest
<1>2. DOMAIN s = 1 .. Len(s) /\ Len(s) \in Nat
  OBVIOUS
<1>3. Range(rest) \subseteq Range(s)
  <2>. SUFFICES ASSUME NEW i \in 1 .. Len(s) - 1 PROVE rest[i] \in Range(s)
    BY <1>1 DEF Range
  <2>. DEFINE a == IF i < k THEN i ELSE i + 1
  <2>1. a \in 1 .. Len(s) /\ rest[i] = s[a]
    BY <1>1, <1>2
  <2>. HIDE DEF a
  <2>. QED BY <1>2, <2>1 DEF Range
<1>4. Range(s) \subseteq Range(rest) \cup {s[k]}
  <2>. SUFFICES ASSUME NEW i \in 1 .. Len(s), i # k PROVE s[i] \in Range(rest)
    BY <1>2 DEF Range
  <2>. DEFINE a == IF i < k THEN i ELSE i - 1
  <2>1. a \in 1 .. Len(s) - 1 /\ i = IF a < k THEN a ELSE a + 1
    BY <1>2
  <2>. HIDE DEF a
  <2>2. rest[a] = s[i]
    BY <1>1, <2>1
  <2>. QED BY <1>1, <2>1, <2>2 DEF Range
<1>5. Len(rest) # Len(s)
  BY <1>1, <1>2
<1>. QED BY <1>1, <1>3, <1>4, <1>5 DEF rest

(* The pieces of a flattened sequence, one more at each index.              *)
IsFlattening(p, f, k) ==
  f = [i \in 1 .. k |-> IF i = 1 THEN p[i] ELSE f[i - 1] \o p[i]]

LEMMA FlatteningExists ==
  ASSUME NEW p, NEW n \in Nat
  PROVE  \E f : IsFlattening(p, f, n)
<1>. DEFINE T == {k \in Nat : ~ \E f : IsFlattening(p, f, k)}
<1>1. SUFFICES ASSUME T # {} PROVE FALSE
  OBVIOUS
<1>2. PICK k \in T : \A j \in T : k <= j
  <2>1. T \subseteq Nat
    OBVIOUS
  <2>. HIDE DEF T
  <2>. QED BY <1>1, <2>1, LeastOf
<1>3. k \in Nat /\ ~ \E f : IsFlattening(p, f, k)
  OBVIOUS
<1>4. CASE k = 0
  <2>. DEFINE e == [i \in 1 .. 0 |-> p[i]]
  <2>1. IsFlattening(p, e, 0)
    BY DEF IsFlattening
  <2>. QED BY <1>3, <1>4, <2>1
<1>5. CASE k # 0
  <2>1. k - 1 \in Nat /\ ~ (k <= k - 1)
    BY <1>3, <1>5
  <2>2. k - 1 \notin T
    BY <1>2, <2>1
  <2>3. PICK f : IsFlattening(p, f, k - 1)
    BY <2>1, <2>2
  <2>. DEFINE v == IF k = 1 THEN p[k] ELSE f[k - 1] \o p[k]
              h == [i \in 1 .. k |-> IF i = k THEN v ELSE f[i]]
              d == [i \in 1 .. k |-> IF i = 1 THEN p[i] ELSE h[i - 1] \o p[i]]
  <2>4. ASSUME NEW i \in 1 .. k PROVE h[i] = d[i]
    <3>1. CASE i # k
      <4>1. i \in 1 .. k - 1 /\ (i # 1 => i - 1 \in 1 .. k /\ i - 1 # k)
        BY <1>3, <3>1
      <4>2. f[i] = IF i = 1 THEN p[i] ELSE f[i - 1] \o p[i]
        BY <2>3, <4>1 DEF IsFlattening
      <4>3. h[i] = f[i] /\ (i # 1 => h[i - 1] = f[i - 1])
        BY <3>1, <4>1
      <4>. QED BY <4>2, <4>3
    <3>2. CASE i = k
      <4>1. k # 1 => k - 1 \in 1 .. k /\ k - 1 # k
        BY <1>3, <1>5
      <4>2. k # 1 => h[k - 1] = f[k - 1]
        BY <4>1
      <4>3. h[k] = v
        BY <3>2
      <4>. QED BY <3>2, <4>2, <4>3
    <3>. QED BY <3>1, <3>2
  <2>5. h = d
    BY <2>4
  <2>6. IsFlattening(p, h, k)
    BY <2>5 DEF IsFlattening
  <2>. QED BY <1>3, <2>6
<1>. QED BY <1>4, <1>5

LEMMA FlattenedIs ==
  ASSUME NEW p, Len(p) \in Nat, Len(p) # 0
  PROVE  \E f : IsFlattening(p, f, Len(p)) /\ FlattenSeq(p) = f[Len(p)]
<1>. DEFINE n == Len(p)
            loop == CHOOSE f : f = [i \in 1 .. n |-> IF i = 1 THEN p[i] ELSE f[i - 1] \o p[i]]
<1>1. FlattenSeq(p) = loop[n]
  BY DEF FlattenSeq
<1>2. \E f : f = [i \in 1 .. n |-> IF i = 1 THEN p[i] ELSE f[i - 1] \o p[i]]
  <2>1. PICK h : IsFlattening(p, h, n)
    BY FlatteningExists
  <2>. QED BY <2>1 DEF IsFlattening
<1>3. IsFlattening(p, loop, n)
  BY <1>2 DEF IsFlattening
<1>. QED BY <1>1, <1>3

=============================================================================
