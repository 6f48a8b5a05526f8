--------------------------- MODULE MmsSmil_proofs ----------------------------
(***************************************************************************)
(* Theorems about MmsSmil, for every document, and about MmsNotify, for     *)
(* every set of offsets, every own limit of the receiver and every length   *)
(* of the clock.  The two share no state; each has its own section.         *)
(***************************************************************************)
EXTENDS MmsSmil, MmsNotify, SequenceFacts

-----------------------------------------------------------------------------
(* MmsSmil: regions.                                                       *)

Shaped(s) ==
  /\ {"title", "root", "regions", "pars"} \subseteq DOMAIN s
  /\ s.regions \in Seq(Range(s.regions))

OneEach(s) ==
  /\ Shaped(s)
  /\ \A i, j \in DOMAIN s.regions :
       Fold[s.regions[i].name] = Fold[s.regions[j].name] => i = j

LEMMA OneEachSame ==
  ASSUME NEW s, NEW t, OneEach(s), DOMAIN t = DOMAIN s, t.regions = s.regions
  PROVE  OneEach(t)
BY DEF OneEach, Shaped

LEMMA AddRegionKeepsOneEach ==
  ASSUME NEW s, OneEach(s), NEW name, NEW box
  PROVE  OneEach(AddRegion(s, name, box))
<1> DEFINE at == {i \in DOMAIN s.regions : Fold[s.regions[i].name] = Fold[name]}
           q == s.regions
           new == [name |-> name, box |-> box]
           t == AddRegion(s, name, box)
<1>1. /\ "regions" \in DOMAIN s /\ q \in Seq(Range(q)) /\ DOMAIN q = 1 .. Len(q) /\ Len(q) \in Nat
  <2>1. "regions" \in DOMAIN s /\ q \in Seq(Range(q))
    BY DEF OneEach, Shaped
  <2>. QED BY <2>1, SeqIs
<1>2. CASE at = {}
  <2>1. t = [s EXCEPT !.regions = Append(@, new)]
    BY <1>2 DEF AddRegion
  <2>2. DOMAIN t = DOMAIN s /\ t.regions = Append(q, new)
    BY <1>1, <2>1
  <2> DEFINE S == Range(q) \cup {new}
             more == Append(q, new)
  <2>3. q \in Seq(S) /\ new \in S
    BY <1>1
  <2>. HIDE DEF S
  <2>4. /\ more \in Seq(S) /\ Len(more) = Len(q) + 1 /\ DOMAIN more = 1 .. Len(q) + 1
        /\ \A i \in 1 .. Len(q) : more[i] = q[i]
        /\ more[Len(q) + 1] = new
    BY <2>3
  <2>5. more \in Seq(Range(more))
    <3>. HIDE DEF more
    <3>1. Len(more) \in Nat /\ more = [i \in 1 .. Len(more) |-> more[i]]
      BY <1>1, <2>4
    <3>2. \A i \in 1 .. Len(more) : more[i] \in Range(more)
      BY <1>1, <2>4 DEF Range
    <3>. QED BY <3>1, <3>2
  <2>6. ASSUME NEW i \in DOMAIN more, NEW j \in DOMAIN more, i < j,
               Fold[more[i].name] = Fold[more[j].name]
        PROVE  FALSE
    <3>1. i \in 1 .. Len(q) /\ more[i] = q[i]
      BY <1>1, <2>4, <2>6
    <3>2. CASE j = Len(q) + 1
      <4>1. more[j].name = name
        BY <2>4, <3>2
      <4>. QED BY <1>1, <1>2, <2>6, <3>1, <4>1
    <3>3. CASE j # Len(q) + 1
      <4>1. j \in 1 .. Len(q) /\ more[j] = q[j]
        BY <1>1, <2>4, <3>3
      <4>. QED BY <1>1, <2>6, <3>1, <4>1 DEF OneEach
    <3>. QED BY <3>2, <3>3
  <2>7. \A i, j \in DOMAIN more : Fold[more[i].name] = Fold[more[j].name] => i = j
    <3>. SUFFICES ASSUME NEW i \in DOMAIN more, NEW j \in DOMAIN more,
                         Fold[more[i].name] = Fold[more[j].name], i # j
                  PROVE  FALSE
      OBVIOUS
    <3>1. i < j \/ j < i
      BY <1>1, <2>4
    <3>. QED BY <2>6, <3>1
  <2>. HIDE DEF more, t
  <2>8. {"title", "root", "regions", "pars"} \subseteq DOMAIN t
    BY <2>2 DEF OneEach, Shaped
  <2>. QED BY <2>2, <2>5, <2>7, <2>8 DEF OneEach, Shaped, more, t
<1>3. CASE at # {}
  <2> DEFINE k == CHOOSE i \in at : \A j \in at : i <= j
             moved == [q EXCEPT ![k].box = box]
  <2>1. k \in at
    <3>1. at \subseteq Nat
      BY <1>1
    <3>. HIDE DEF at
    <3>. QED BY <1>3, <3>1, LeastOf
  <2>2. t = [s EXCEPT !.regions = moved]
    BY <1>3 DEF AddRegion
  <2>3. DOMAIN t = DOMAIN s /\ t.regions = moved
    BY <1>1, <2>2
  <2>4. k \in DOMAIN q
    BY <2>1
  <2>. HIDE DEF k
  <2>5. DOMAIN moved = DOMAIN q /\ \A i \in DOMAIN q : i # k => moved[i] = q[i]
    OBVIOUS
  <2>6. moved[k] = [q[k] EXCEPT !.box = box]
    BY <2>4
  <2>7. [q[k] EXCEPT !.box = box].name = q[k].name
    OBVIOUS
  <2>8. moved \in Seq(Range(moved))
    <3>1. \A i \in 1 .. Len(q) : moved[i] \in Range(moved)
      BY <1>1, <2>5 DEF Range
    <3>2. moved = [i \in 1 .. Len(q) |-> moved[i]]
      BY <1>1
    <3>. HIDE DEF moved
    <3>. QED BY <1>1, <3>1, <3>2
  <2>9. \A i \in DOMAIN q : moved[i].name = q[i].name
    BY <2>5, <2>6, <2>7
  <2>. HIDE DEF moved, t
  <2>. QED BY <2>3, <2>5, <2>8, <2>9 DEF OneEach, Shaped, moved, t
<1>. QED BY <1>2, <1>3

(* What the handlers have made of s after each element.                     *)
IsReading(s, elements, g, k) ==
  g = [i \in 0 .. k |-> IF i = 0 THEN s ELSE OnStart(g[i - 1], elements[i])]

LEMMA ReadingExists ==
  ASSUME NEW s, NEW elements, NEW n \in Nat
  PROVE  \E g : IsReading(s, elements, g, n)
<1>. DEFINE T == {k \in Nat : ~ \E g : IsReading(s, elements, g, k)}
<1>1. SUFFICES ASSUME T # {} PROVE FALSE
  OBVIOUS
<1>2. PICK k \in T : \A j \in T : k <= j
  <2>1. T \subseteq Nat
    OBVIOUS
  <2>. HIDE DEF T
  <2>. QED BY <1>1, <2>1, LeastOf
<1>3. k \in Nat /\ ~ \E g : IsReading(s, elements, g, k)
  OBVIOUS
<1>4. CASE k = 0
  <2>. DEFINE g == [i \in 0 .. 0 |-> s]
  <2>1. IsReading(s, elements, g, 0)
    BY DEF IsReading
  <2>. QED BY <1>3, <1>4, <2>1
<1>5. CASE k # 0
  <2>1. k - 1 \in Nat /\ ~ (k <= k - 1)
    BY <1>3, <1>5
  <2>2. k - 1 \notin T
    BY <1>2, <2>1
  <2>3. PICK g : IsReading(s, elements, g, k - 1)
    BY <2>1, <2>2
  <2>. DEFINE h == [i \in 0 .. k |-> IF i = k THEN OnStart(g[k - 1], elements[k]) ELSE g[i]]
              d == [i \in 0 .. k |-> IF i = 0 THEN s ELSE OnStart(h[i - 1], elements[i])]
  <2>4. ASSUME NEW i \in 0 .. k PROVE h[i] = d[i]
    <3>1. CASE i = 0
      BY <1>3, <1>5, <2>1, <2>3, <3>1 DEF IsReading
    <3>2. CASE i # 0 /\ i # k
      <4>1. i \in 0 .. k - 1 /\ i - 1 \in 0 .. k - 1 /\ i - 1 \in 0 .. k /\ i - 1 # k
        BY <1>3, <3>2
      <4>2. g[i] = OnStart(g[i - 1], elements[i])
        BY <3>2, <4>1, <2>3 DEF IsReading
      <4>3. h[i] = g[i] /\ h[i - 1] = g[i - 1]
        BY <3>2, <4>1
      <4>. QED BY <3>2, <4>2, <4>3
    <3>3. CASE i # 0 /\ i = k
      <4>1. k - 1 \in 0 .. k /\ k - 1 # k
        BY <1>3, <1>5
      <4>2. h[k - 1] = g[k - 1] /\ h[k] = OnStart(g[k - 1], elements[k])
        BY <3>3, <4>1
      <4>. QED BY <3>3, <4>2
    <3>. QED BY <3>1, <3>2, <3>3
  <2>5. h = d
    BY <2>4
  <2>6. IsReading(s, elements, h, k)
    BY <2>5 DEF IsReading
  <2>. QED BY <1>3, <2>6
<1>. QED BY <1>4, <1>5

LEMMA UnpackedIs ==
  ASSUME NEW s, NEW elements, Len(elements) \in Nat
  PROVE  \E g : IsReading(s, elements, g, Len(elements)) /\ Unpacked(s, elements) = g[Len(elements)]
<1>. DEFINE n == Len(elements)
            loop == CHOOSE g : g = [i \in 0 .. n |-> IF i = 0 THEN s ELSE OnStart(g[i - 1], elements[i])]
<1>1. Unpacked(s, elements) = loop[n]
  BY DEF Unpacked
<1>2. \E g : g = [i \in 0 .. n |-> IF i = 0 THEN s ELSE OnStart(g[i - 1], elements[i])]
  <2>1. PICK h : IsReading(s, elements, h, n)
    BY ReadingExists
  <2>. QED BY <2>1 DEF IsReading
<1>3. IsReading(s, elements, loop, n)
  BY <1>2 DEF IsReading
<1>. QED BY <1>1, <1>3

LEMMA NewSmilOneEach == OneEach(NewSmil)
<1>1. NewSmil.regions = <<>> /\ DOMAIN NewSmil = {"title", "root", "regions", "pars"}
  BY DEF NewSmil
<1>. QED BY <1>1 DEF OneEach, Shaped

-----------------------------------------------------------------------------
(* MmsSmil: types.                                                         *)

LEMMA GreatestOf ==
  ASSUME NEW n \in Nat, NEW T, T \subseteq 1 .. n, T # {}
  PROVE  \E x \in T : \A y \in T : y <= x
<1>. DEFINE U == {m \in Nat : \A y \in T : y <= m}
<1>0. PICK z \in T : z \in Nat /\ z >= 1
  <2>1. PICK z : z \in T
    OBVIOUS
  <2>. QED BY <2>1
<1>1. n \in U
  OBVIOUS
<1>2. PICK x \in U : \A y \in U : x <= y
  <2>1. U \subseteq Nat /\ U # {}
    BY <1>1
  <2>. HIDE DEF U
  <2>. QED BY <2>1, LeastOf
<1>3. x \in T
  <2>. SUFFICES ASSUME x \notin T PROVE FALSE
    OBVIOUS
  <2>1. x \in Nat /\ \A y \in T : y <= x /\ y # x /\ y \in Nat /\ y >= 1
    OBVIOUS
  <2>2. x - 1 \in Nat /\ \A y \in T : y <= x - 1
    BY <1>0, <2>1
  <2>3. x - 1 \in U
    BY <2>2
  <2>. QED BY <1>2, <2>1, <2>3
<1>. QED BY <1>3

Shapes == [filename: STRING, region: STRING, cid: STRING]

(* Only a sound keeps a cid as its file name.                               *)
Pars ==
  {p \in [duration: Nat, file: [Slots -> Shapes]] :
     p.file["img"].filename \notin Cids /\ p.file["text"].filename \notin Cids}

Regions == [name: STRING, box: Layouts]

Smils == [title: STRING, root: [width: Nat, height: Nat], regions: Seq(Regions), pars: Seq(Pars)]

LEMMA PercentIs == Percent = 65536
BY DEF Percent

LEMMA SizeIs ==
  ASSUME NEW n
  PROVE  n \in Sizes <=> n \in Nat /\ n < 131072
<1>1. 2 * Percent - 1 = 131071 /\ Percent \in Nat
  BY PercentIs
<1>2. n \in Sizes <=> n \in 0 .. 2 * Percent - 1
  BY DEF Sizes
<1>3. n \in 0 .. 2 * Percent - 1 <=> n \in Int /\ 0 <= n /\ n <= 2 * Percent - 1
  BY <1>1
<1>. QED BY <1>1, <1>2, <1>3

(* What sscanf reads of a size is the size that was written, in percent or  *)
(* in pixels.                                                              *)
LEMMA SizeSurvives ==
  ASSUME NEW n \in Sizes
  PROVE  /\ FormatSize(n).n \in Nat /\ FormatSize(n).n < Percent
         /\ ScanfSize(FormatSize(n)) = n
<1>1. n \in Nat /\ n < 131072
  BY SizeIs
<1>3. CASE n < 65536
  <2>1. ~ SmilIsPercent(n)
    BY <1>1, <1>3, PercentIs DEF SmilIsPercent
  <2>2. FormatSize(n).n = n /\ FormatSize(n).p = FALSE
    BY <2>1 DEF FormatSize
  <2>3. ScanfSize(FormatSize(n)) = n
    BY <2>2 DEF ScanfSize
  <2>4. n < Percent
    BY <1>3, PercentIs
  <2>. QED BY <1>1, <2>2, <2>3, <2>4
<1>4. CASE n >= 65536
  <2>1. n % 65536 = n - 65536
    BY <1>1, <1>4
  <2>2. SmilIsPercent(n) /\ SmilFromPercent(n) = n - 65536
    BY <1>1, <1>4, <2>1, PercentIs DEF SmilIsPercent, SmilFromPercent
  <2>3. FormatSize(n).n = n - 65536 /\ FormatSize(n).p = TRUE
    BY <2>2 DEF FormatSize
  <2>4. (n - 65536) \div 65536 = 0
    BY <1>1, <1>4
  <2>5. SmilToPercent(n - 65536) = n
    BY <1>1, <1>4, <2>4, PercentIs DEF SmilToPercent
  <2>6. n - 65536 \in Nat /\ n - 65536 < 65536
    BY <1>1, <1>4
  <2>7. ScanfSize(FormatSize(n)) = n
    BY <2>3, <2>5 DEF ScanfSize
  <2>8. n - 65536 < Percent
    BY <2>6, PercentIs
  <2>. QED BY <2>3, <2>6, <2>7, <2>8
<1>. QED BY <1>1, <1>3, <1>4

LEMMA ScanfSizeTyped ==
  ASSUME NEW a, a.n \in Nat, a.n < Percent
  PROVE  ScanfSize(a) \in Sizes
<1>1. a.n < 65536
  BY PercentIs
<1>2. SmilToPercent(a.n) = a.n \/ SmilToPercent(a.n) = a.n + 65536
  BY PercentIs DEF SmilToPercent
<1>. QED BY <1>1, <1>2, SizeIs DEF ScanfSize

(* The positions at which a handler knows a name.                           *)
KnownAre(g, atts, keys, n) ==
  g = [i \in 1 .. n |-> atts[i].t \in keys /\ (i = 1 \/ ~ g[i - 1])]

LEMMA KnownExists ==
  ASSUME NEW atts, NEW keys, NEW n \in Nat
  PROVE  \E g : KnownAre(g, atts, keys, n)
<1> USE DEF KnownAre
<1>. DEFINE Is(g, k) == g = [i \in 1 .. k |-> atts[i].t \in keys /\ (i = 1 \/ ~ g[i - 1])]
            T == {k \in Nat : ~ \E g : Is(g, k)}
<1>1. SUFFICES ASSUME T # {} PROVE FALSE
  OBVIOUS
<1>2. PICK k \in T : \A j \in T : k <= j
  <2>1. T \subseteq Nat
    OBVIOUS
  <2>. HIDE DEF T
  <2>. QED BY <1>1, <2>1, LeastOf
<1>3. k \in Nat /\ ~ \E g : Is(g, k)
  OBVIOUS
<1>4. CASE k = 0
  <2>. DEFINE e == [i \in 1 .. 0 |-> TRUE]
  <2>1. Is(e, 0)
    OBVIOUS
  <2>. QED BY <1>3, <1>4, <2>1
<1>5. CASE k # 0
  <2>1. k - 1 \in Nat /\ ~ (k <= k - 1)
    BY <1>3, <1>5
  <2>2. k - 1 \notin T
    BY <1>2, <2>1
  <2>3. PICK g : Is(g, k - 1)
    BY <2>1, <2>2
  <2>. DEFINE h == [i \in 1 .. k |-> IF i = k THEN atts[k].t \in keys /\ (k = 1 \/ ~ g[k - 1]) ELSE g[i]]
              d == [i \in 1 .. k |-> atts[i].t \in keys /\ (i = 1 \/ ~ h[i - 1])]
  <2>4. ASSUME NEW i \in 1 .. k PROVE h[i] = d[i]
    <3>1. CASE i # k
      <4>1. i \in 1 .. k - 1 /\ (i # 1 => i - 1 \in 1 .. k - 1 /\ i - 1 \in 1 .. k /\ i - 1 # k)
        BY <1>3, <3>1
      <4>2. g[i] = (atts[i].t \in keys /\ (i = 1 \/ ~ g[i - 1]))
        BY <2>3, <4>1
      <4>3. h[i] = g[i] /\ (i # 1 => h[i - 1] = g[i - 1])
        BY <3>1, <4>1
      <4>. QED BY <4>2, <4>3
    <3>2. CASE i = k
      <4>1. k # 1 => k - 1 \in 1 .. k /\ k - 1 # k
        BY <1>3, <1>5
      <4>2. k # 1 => h[k - 1] = g[k - 1]
        BY <4>1
      <4>3. h[k] = (atts[k].t \in keys /\ (k = 1 \/ ~ g[k - 1]))
        BY <3>2
      <4>. QED BY <3>2, <4>2, <4>3
    <3>. QED BY <3>1, <3>2
  <2>5. h = d
    BY <2>4
  <2>6. Is(h, k)
    BY <2>5
  <2>. QED BY <1>3, <2>6
<1>. QED BY <1>4, <1>5

LEMMA VisitsIs ==
  ASSUME NEW atts, Len(atts) \in Nat, NEW keys
  PROVE  /\ Visits(atts, keys) \subseteq 1 .. Len(atts)
         /\ \A i \in 1 .. Len(atts) :
              i \in Visits(atts, keys) <=>
                atts[i].t \in keys /\ (i = 1 \/ i - 1 \notin Visits(atts, keys))
<1>. DEFINE n == Len(atts)
            known == CHOOSE g : KnownAre(g, atts, keys, n)
<1>0. n \in Nat
  OBVIOUS
<1>1. known = [i \in 1 .. n |-> atts[i].t \in keys /\ (i = 1 \/ ~ known[i - 1])]
  <2>1. KnownAre(known, atts, keys, n)
    <3>1. \E g : KnownAre(g, atts, keys, n)
      BY <1>0, KnownExists
    <3>. QED BY <3>1
  <2>. QED BY <2>1 DEF KnownAre
<1>2. Visits(atts, keys) = {i \in 1 .. n : known[i]}
  BY DEF Visits, KnownAre
<1>. HIDE DEF known, n
<1>3. ASSUME NEW i \in 1 .. n
      PROVE  known[i] <=> atts[i].t \in keys /\ (i = 1 \/ i - 1 \notin Visits(atts, keys))
  <2>1. known[i] = (atts[i].t \in keys /\ (i = 1 \/ ~ known[i - 1]))
    BY <1>1
  <2>2. i = 1 \/ i - 1 \in 1 .. n
    BY <1>0
  <2>. QED BY <1>2, <2>1, <2>2
<1>. QED BY <1>2, <1>3 DEF n

(* A value is one of the tokens, or the one for a name that is not there.    *)
LEMMA AttributeTyped ==
  ASSUME NEW S, NEW atts \in Seq(S), NEW keys, Len(atts) \notin Visits(atts, keys),
         NEW k, NEW absent \in S
  PROVE  Attribute(atts, keys, k, absent) \in S
<1> DEFINE V == Visits(atts, keys)
           at == {i \in V : atts[i].t = k}
           last == CHOOSE i \in at : \A j \in at : j <= i
<1>0. Len(atts) \in Nat /\ \A i \in 1 .. Len(atts) : atts[i] \in S
  BY SeqIs
<1>1. CASE at = {}
  BY <1>1 DEF Attribute
<1>2. CASE at # {}
  <2>1. Attribute(atts, keys, k, absent) = atts[last + 1]
    BY <1>2 DEF Attribute
  <2>2. at \subseteq 1 .. Len(atts) /\ Len(atts) \notin at
    BY <1>0, VisitsIs
  <2>3. last \in at
    <3>. HIDE DEF at
    <3>. QED BY <1>0, <1>2, <2>2, GreatestOf
  <2>4. last + 1 \in 1 .. Len(atts)
    <3>. HIDE DEF at, last
    <3>1. last \in 1 .. Len(atts) /\ last # Len(atts)
      BY <2>2, <2>3
    <3>. QED BY <1>0, <3>1
  <2>. HIDE DEF last
  <2>. QED BY <1>0, <2>1, <2>4
<1>. QED BY <1>1, <1>2

(* ... and the one after a name that is there once.                         *)
LEMMA AttributeAt ==
  ASSUME NEW atts, Len(atts) \in Nat, NEW keys, NEW k, NEW absent, NEW i \in Visits(atts, keys),
         \A j \in Visits(atts, keys) : atts[j].t = k <=> j = i
  PROVE  Attribute(atts, keys, k, absent) = atts[i + 1]
<1> DEFINE at == {j \in Visits(atts, keys) : atts[j].t = k}
<1>1. at = {i} /\ i \in Int
  BY VisitsIs
<1>2. (CHOOSE x \in at : \A j \in at : j <= x) = i
  BY <1>1
<1>. QED BY <1>1, <1>2 DEF Attribute

(* Names and values in turn, the names all known.                           *)
LEMMA VisitsOdd ==
  ASSUME NEW atts, Len(atts) \in Nat, NEW keys,
         \A i \in 1 .. Len(atts) : i % 2 = 1 => atts[i].t \in keys
  PROVE  Visits(atts, keys) = {i \in 1 .. Len(atts) : i % 2 = 1}
<1> DEFINE V == Visits(atts, keys)
           T == {i \in 1 .. Len(atts) : ~ (i \in V <=> i % 2 = 1)}
<1>0. V \subseteq 1 .. Len(atts)
  BY VisitsIs
<1>1. SUFFICES ASSUME T # {} PROVE FALSE
  BY <1>0
<1>2. PICK i \in T : \A j \in T : i <= j
  <2>1. T \subseteq Nat
    OBVIOUS
  <2>. HIDE DEF T
  <2>. QED BY <1>1, <2>1, LeastOf
<1>3. i \in 1 .. Len(atts) /\ ~ (i \in V <=> i % 2 = 1)
  OBVIOUS
<1>4. i \in V <=> atts[i].t \in keys /\ (i = 1 \/ i - 1 \notin V)
  BY <1>3, VisitsIs
<1>5. CASE i = 1
  <2>1. i % 2 = 1
    BY <1>5
  <2>. QED BY <1>3, <1>4, <1>5, <2>1
<1>6. CASE i # 1
  <2>1. i - 1 \in 1 .. Len(atts) /\ ~ (i <= i - 1)
    BY <1>3, <1>6
  <2>2. i - 1 \in V <=> (i - 1) % 2 = 1
    BY <1>2, <2>1
  <2>3. (i - 1) % 2 = 1 <=> ~ (i % 2 = 1)
    BY <1>3
  <2>. QED BY <1>3, <1>4, <1>6, <2>2, <2>3
<1>. QED BY <1>5, <1>6

LEMMA TokensTyped ==
  /\ Empty \in STRING
  /\ \A t \in STRING : Text(t) \in Tokens /\ Text(t).t = t /\ Text(t).n = 0
  /\ \A n \in Nat : Number(n) \in Tokens /\ Number(n).n = n
  /\ \A n \in Sizes : FormatSize(n) \in Tokens
<1>1. Empty \in STRING
  BY SmilAssumption
<1>2. ASSUME NEW t \in STRING PROVE Text(t) \in Tokens /\ Text(t).t = t /\ Text(t).n = 0
  BY DEF Text, Tokens
<1>3. ASSUME NEW n \in Nat PROVE Number(n) \in Tokens /\ Number(n).n = n
  BY <1>1 DEF Number, Tokens
<1>4. ASSUME NEW n \in Sizes PROVE FormatSize(n) \in Tokens
  <2> DEFINE v == IF SmilIsPercent(n) THEN SmilFromPercent(n) ELSE n
             p == SmilIsPercent(n)
  <2>1. FormatSize(n) = [t |-> Empty, n |-> v, p |-> p]
    BY DEF FormatSize
  <2>2. v \in Nat
    BY <2>1, SizeSurvives
  <2>3. p \in BOOLEAN
    BY DEF SmilIsPercent
  <2>. HIDE DEF v, p
  <2>. QED BY <1>1, <2>1, <2>2, <2>3 DEF Tokens
<1>. QED BY <1>1, <1>2, <1>3, <1>4

-----------------------------------------------------------------------------
(* MmsSmil: what the handlers make of a SMIL.                              *)

(* A SMIL with one region of a name.                                        *)
Good(s) == s \in Smils /\ OneEach(s)

LEMMA NewSmilGood == Good(NewSmil)
<1>1. NewSmil \in Smils
  BY TokensTyped DEF NewSmil, Smils, Screen0
<1>. QED BY <1>1, NewSmilOneEach DEF Good

(* The fields one at a time.                                               *)
LEMMA TitleSet ==
  ASSUME NEW s, Good(s), NEW v \in STRING
  PROVE  LET t == [s EXCEPT !.title = v]
         IN  /\ Good(t) /\ t.title = v
             /\ t.root = s.root /\ t.regions = s.regions /\ t.pars = s.pars
<1> DEFINE t == [s EXCEPT !.title = v]
<1>1. t \in Smils /\ t.title = v /\ t.root = s.root /\ t.regions = s.regions /\ t.pars = s.pars
  BY DEF Good, Smils
<1>2. OneEach(t)
  BY <1>1, OneEachSame DEF Good
<1>. QED BY <1>1, <1>2 DEF Good

LEMMA RootSet ==
  ASSUME NEW s, Good(s), NEW v \in [width: Nat, height: Nat]
  PROVE  LET t == [s EXCEPT !.root = v]
         IN  Good(t) /\ t.title = s.title /\ t.regions = s.regions /\ t.pars = s.pars
<1> DEFINE t == [s EXCEPT !.root = v]
           R == [width: Nat, height: Nat]
<1>1. t \in Smils /\ t.title = s.title /\ t.regions = s.regions /\ t.pars = s.pars
  <2>1. v \in R
    OBVIOUS
  <2>2. Smils = [title: STRING, root: R, regions: Seq(Regions), pars: Seq(Pars)]
    BY DEF Smils
  <2>. HIDE DEF R
  <2>. QED BY <2>1, <2>2 DEF Good
<1>2. OneEach(t)
  BY <1>1, OneEachSame DEF Good
<1>. QED BY <1>1, <1>2 DEF Good

LEMMA ParsSet ==
  ASSUME NEW s, Good(s), NEW v \in Seq(Pars)
  PROVE  LET t == [s EXCEPT !.pars = v]
         IN  Good(t) /\ t.title = s.title /\ t.regions = s.regions /\ t.pars = v
<1> DEFINE t == [s EXCEPT !.pars = v]
<1>1. t \in Smils /\ t.title = s.title /\ t.regions = s.regions /\ t.pars = v
  BY DEF Good, Smils
<1>2. OneEach(t)
  BY <1>1, OneEachSame DEF Good
<1>. QED BY <1>1, <1>2 DEF Good

Folded  == {Fold[r] : r \in RegionNames}
Nowhere == [x |-> 0]

(* Where the region of a name is, if there is one.                          *)
LEMMA PlaceIs ==
  ASSUME NEW s, OneEach(s), NEW n \in Folded
  PROVE  /\ \A i \in DOMAIN s.regions :
              Fold[s.regions[i].name] = n => RegionsOf(s)[n] = s.regions[i].box
         /\ (\A i \in DOMAIN s.regions : Fold[s.regions[i].name] # n) => RegionsOf(s)[n] = Nowhere
<1> DEFINE at == {i \in DOMAIN s.regions : Fold[s.regions[i].name] = n}
<1>1. RegionsOf(s)[n] = IF at = {} THEN [x |-> 0] ELSE s.regions[CHOOSE i \in at : TRUE].box
  BY DEF RegionsOf, Folded
<1>2. ASSUME NEW i \in DOMAIN s.regions, Fold[s.regions[i].name] = n
      PROVE  RegionsOf(s)[n] = s.regions[i].box
  <2>1. at = {i}
    BY <1>2 DEF OneEach
  <2>. QED BY <1>1, <2>1
<1>3. ASSUME \A i \in DOMAIN s.regions : Fold[s.regions[i].name] # n
      PROVE  RegionsOf(s)[n] = Nowhere
  <2>1. at = {}
    BY <1>3
  <2>. QED BY <1>1, <2>1 DEF Nowhere
<1>. QED BY <1>2, <1>3

LEMMA SeqExcept ==
  ASSUME NEW S, NEW q \in Seq(S), NEW k \in 1 .. Len(q), NEW e \in S
  PROVE  /\ [q EXCEPT ![k] = e] \in Seq(S) /\ Len([q EXCEPT ![k] = e]) = Len(q)
         /\ DOMAIN [q EXCEPT ![k] = e] = 1 .. Len(q)
         /\ \A i \in 1 .. Len(q) : [q EXCEPT ![k] = e][i] = IF i = k THEN e ELSE q[i]
OBVIOUS

LEMMA SeqAppend ==
  ASSUME NEW S, NEW q \in Seq(S), NEW e \in S
  PROVE  /\ Append(q, e) \in Seq(S) /\ Len(Append(q, e)) = Len(q) + 1
         /\ DOMAIN Append(q, e) = 1 .. Len(q) + 1
         /\ \A i \in 1 .. Len(q) + 1 : Append(q, e)[i] = IF i = Len(q) + 1 THEN e ELSE q[i]
OBVIOUS

(* A region is placed, and no other moves.                                  *)
LEMMA AddRegionIs ==
  ASSUME NEW s, Good(s), NEW name \in STRING, NEW box \in Layouts
  PROVE  LET t == AddRegion(s, name, box)
         IN  /\ Good(t) /\ t.title = s.title /\ t.pars = s.pars
             /\ \A n \in Folded : RegionsOf(t)[n] = IF Fold[name] = n THEN box ELSE RegionsOf(s)[n]
<1> DEFINE at == {i \in DOMAIN s.regions : Fold[s.regions[i].name] = Fold[name]}
           q == s.regions
           new == [name |-> name, box |-> box]
           t == AddRegion(s, name, box)
<1>1. /\ q \in Seq(Regions) /\ DOMAIN q = 1 .. Len(q) /\ Len(q) \in Nat
      /\ OneEach(s) /\ s \in Smils
  <2>1. q \in Seq(Regions) /\ OneEach(s) /\ s \in Smils
    BY DEF Good, Smils
  <2>. QED BY <2>1, SeqIs
<1>2. OneEach(t)
  BY <1>1, AddRegionKeepsOneEach
<1>3. CASE at = {}
  <2>0. new \in Regions
    BY DEF Regions
  <2> DEFINE more == Append(q, new)
  <2>1. t = [s EXCEPT !.regions = more]
    BY <1>3 DEF AddRegion
  <2>2. /\ more \in Seq(Regions) /\ DOMAIN more = 1 .. Len(q) + 1
        /\ \A i \in 1 .. Len(q) + 1 : more[i] = IF i = Len(q) + 1 THEN new ELSE q[i]
    BY <1>1, <2>0, SeqAppend
  <2>. HIDE DEF more, t
  <2>3. t \in Smils /\ t.title = s.title /\ t.pars = s.pars /\ t.regions = more
    BY <1>1, <2>1, <2>2 DEF Smils
  <2>4. more[Len(q) + 1].name = name /\ more[Len(q) + 1].box = box /\ Len(q) + 1 \in DOMAIN more
    BY <1>1, <2>2
  <2>5. ASSUME NEW n \in Folded
        PROVE  RegionsOf(t)[n] = IF Fold[name] = n THEN box ELSE RegionsOf(s)[n]
    <3>1. CASE Fold[name] = n
      BY <1>2, <2>3, <2>4, <3>1, PlaceIs
    <3>2. CASE Fold[name] # n
      <4>1. CASE \E i \in 1 .. Len(q) : Fold[q[i].name] = n
        <5>1. PICK i \in 1 .. Len(q) : Fold[q[i].name] = n
          BY <4>1
        <5>2. i \in DOMAIN more /\ more[i] = q[i]
          BY <1>1, <2>2, <5>1
        <5>3. RegionsOf(t)[n] = q[i].box
          BY <1>2, <2>3, <5>1, <5>2, PlaceIs
        <5>4. RegionsOf(s)[n] = q[i].box
          BY <1>1, <5>1, PlaceIs
        <5>. QED BY <3>2, <5>3, <5>4
      <4>2. CASE \A i \in 1 .. Len(q) : Fold[q[i].name] # n
        <5>1. \A i \in DOMAIN more : Fold[more[i].name] # n
          BY <1>1, <2>2, <2>4, <3>2, <4>2
        <5>2. RegionsOf(t)[n] = Nowhere
          BY <1>2, <2>3, <5>1, PlaceIs
        <5>3. RegionsOf(s)[n] = Nowhere
          BY <1>1, <4>2, PlaceIs
        <5>. QED BY <3>2, <5>2, <5>3
      <4>. QED BY <4>1, <4>2
    <3>. QED BY <3>1, <3>2
  <2>. QED BY <1>2, <2>3, <2>5 DEF Good, t
<1>4. CASE at # {}
  <2> DEFINE k == CHOOSE i \in at : \A j \in at : i <= j
             there == [q[k] EXCEPT !.box = box]
             moved == [q EXCEPT ![k] = there]
  <2>1. k \in at
    <3>1. at \subseteq Nat
      BY <1>1
    <3>. HIDE DEF at
    <3>. QED BY <1>4, <3>1, LeastOf
  <2>2. t = [s EXCEPT !.regions = moved]
    BY <1>4 DEF AddRegion
  <2>3. k \in 1 .. Len(q) /\ Fold[q[k].name] = Fold[name] /\ q[k] \in Regions
    BY <1>1, <2>1, SeqIs
  <2>. HIDE DEF k, at
  <2>4. there \in Regions /\ there.name = q[k].name /\ there.box = box
    BY <2>3 DEF Regions
  <2>. HIDE DEF there
  <2>5. /\ moved \in Seq(Regions) /\ DOMAIN moved = 1 .. Len(q)
        /\ \A i \in 1 .. Len(q) : moved[i] = IF i = k THEN there ELSE q[i]
    BY <1>1, <2>3, <2>4, SeqExcept
  <2>. HIDE DEF moved, t
  <2>6. t \in Smils /\ t.title = s.title /\ t.pars = s.pars /\ t.regions = moved
    BY <1>1, <2>2, <2>5 DEF Smils
  <2>7. ASSUME NEW n \in Folded
        PROVE  RegionsOf(t)[n] = IF Fold[name] = n THEN box ELSE RegionsOf(s)[n]
    <3>1. CASE Fold[name] = n
      <4>1. moved[k] = there /\ Fold[moved[k].name] = n
        BY <2>3, <2>4, <2>5, <3>1
      <4>. QED BY <1>2, <2>3, <2>4, <2>5, <2>6, <3>1, <4>1, PlaceIs
    <3>2. CASE Fold[name] # n
      <4>1. CASE \E i \in 1 .. Len(q) : Fold[q[i].name] = n
        <5>1. PICK i \in 1 .. Len(q) : Fold[q[i].name] = n
          BY <4>1
        <5>2. moved[i] = q[i]
          BY <2>3, <2>5, <3>2, <5>1
        <5>3. RegionsOf(t)[n] = q[i].box
          BY <1>2, <2>5, <2>6, <5>1, <5>2, PlaceIs
        <5>4. RegionsOf(s)[n] = q[i].box
          BY <1>1, <5>1, PlaceIs
        <5>. QED BY <3>2, <5>3, <5>4
      <4>2. CASE \A i \in 1 .. Len(q) : Fold[q[i].name] # n
        <5>1. \A i \in DOMAIN moved : Fold[moved[i].name] # n
          BY <2>3, <2>4, <2>5, <3>2, <4>2
        <5>2. RegionsOf(t)[n] = Nowhere
          BY <1>2, <2>6, <5>1, PlaceIs
        <5>3. RegionsOf(s)[n] = Nowhere
          BY <1>1, <4>2, PlaceIs
        <5>. QED BY <3>2, <5>2, <5>3
      <4>. QED BY <4>1, <4>2
    <3>. QED BY <3>1, <3>2
  <2>. QED BY <1>2, <2>6, <2>7 DEF Good, t
<1>. QED BY <1>3, <1>4

(* Files and pars.                                                         *)
LEMMA ShapesTyped ==
  /\ NoFile \in Shapes /\ NoFile.filename = Empty /\ NoFile.filename \notin Cids
  /\ Empty \notin Cids
<1>1. NoFile \in Shapes /\ NoFile.filename = Empty
  BY TokensTyped DEF NoFile, Shapes
<1>2. Empty \notin Cids
  BY SmilAssumption
<1>. QED BY <1>1, <1>2

LEMMA NewParTyped ==
  ASSUME NEW d \in Nat
  PROVE  /\ NewPar(d) \in Pars /\ NewPar(d).duration = d
         /\ \A slot \in Slots : NewPar(d).file[slot] = NoFile
<1> DEFINE files == [s \in Slots |-> NoFile]
<1>1. NewPar(d) = [duration |-> d, file |-> files]
  BY DEF NewPar
<1>2. files \in [Slots -> Shapes] /\ \A s \in Slots : files[s] = NoFile
  BY ShapesTyped
<1>3. "img" \in Slots /\ "text" \in Slots
  BY DEF Slots
<1>. HIDE DEF files
<1>. QED BY <1>1, <1>2, <1>3, ShapesTyped DEF Pars

LEMMA ParFile ==
  ASSUME NEW p \in Pars, NEW slot \in Slots
  PROVE  /\ p.file[slot] \in Shapes /\ p.duration \in Nat
         /\ slot # "audio" => p.file[slot].filename \notin Cids
<1>1. slot \in {"img", "audio", "text"}
  BY DEF Slots
<1>. QED BY <1>1 DEF Pars

LEMMA ParFileSet ==
  ASSUME NEW p \in Pars, NEW slot \in Slots, NEW g \in Shapes,
         slot # "audio" => g.filename \notin Cids
  PROVE  LET r == [p EXCEPT !.file[slot] = g]
         IN  /\ r \in Pars /\ r.duration = p.duration /\ r.file[slot] = g
             /\ \A o \in Slots : o # slot => r.file[o] = p.file[o]
<1> DEFINE files == [p.file EXCEPT ![slot] = g]
           r == [p EXCEPT !.file[slot] = g]
<1>1. p \in [duration: Nat, file: [Slots -> Shapes]]
  BY DEF Pars
<1>2. r = [p EXCEPT !.file = files] /\ files \in [Slots -> Shapes]
  BY <1>1
<1>3. files[slot] = g /\ \A o \in Slots : o # slot => files[o] = p.file[o]
  BY <1>1
<1>. HIDE DEF files, r
<1>4. r \in [duration: Nat, file: [Slots -> Shapes]] /\ r.duration = p.duration /\ r.file = files
  BY <1>1, <1>2
<1>5. r.file["img"].filename \notin Cids
  <2>1. "img" \in Slots /\ p.file["img"].filename \notin Cids
    BY DEF Slots, Pars
  <2>2. CASE slot = "img"
    BY <1>3, <1>4, <2>2
  <2>3. CASE slot # "img"
    BY <1>3, <1>4, <2>1, <2>3
  <2>. QED BY <2>2, <2>3
<1>6. r.file["text"].filename \notin Cids
  <2>1. "text" \in Slots /\ p.file["text"].filename \notin Cids
    BY DEF Slots, Pars
  <2>2. CASE slot = "text"
    BY <1>3, <1>4, <2>2
  <2>3. CASE slot # "text"
    BY <1>3, <1>4, <2>1, <2>3
  <2>. QED BY <2>2, <2>3
<1>7. r \in Pars
  BY <1>4, <1>5, <1>6 DEF Pars
<1>. QED BY <1>3, <1>4, <1>7 DEF r

(* Whatever an element says of a file: only a sound keeps a cid as its name. *)
LEMMA FileFromTyped ==
  ASSUME NEW f \in Shapes, NEW slot \in Slots, slot # "audio" => f.filename \notin Cids,
         NEW atts \in Seq(Tokens), Len(atts) \notin Visits(atts, FileKeys)
  PROVE  /\ FileFrom(f, slot, atts) \in Shapes
         /\ slot # "audio" => FileFrom(f, slot, atts).filename \notin Cids
<1> DEFINE src == Attribute(atts, FileKeys, "src", Text(Empty)).t
           reg == Attribute(atts, FileKeys, "region", Text(f.region)).t
           g == [f EXCEPT !.region = reg]
           h == IF slot = "audio" THEN [g EXCEPT !.filename = src] ELSE g
<1>1. src \in STRING
  <2>1. Attribute(atts, FileKeys, "src", Text(Empty)) \in Tokens
    BY AttributeTyped, TokensTyped
  <2>. QED BY <2>1 DEF Tokens
<1>2. reg \in STRING
  <2>1. Attribute(atts, FileKeys, "region", Text(f.region)) \in Tokens
    BY AttributeTyped, TokensTyped DEF Shapes
  <2>. QED BY <2>1 DEF Tokens
<1>3. FileFrom(f, slot, atts) = g \/ FileFrom(f, slot, atts) = GetFilename(h, src)
  BY DEF FileFrom
<1>. HIDE DEF src, reg
<1>4. g \in Shapes /\ g.filename = f.filename
  BY <1>2 DEF Shapes
<1>5. h \in Shapes /\ (slot # "audio" => h.filename = f.filename)
  BY <1>1, <1>4 DEF Shapes
<1>. HIDE DEF g, h
<1>6. GetFilename(h, src) \in Shapes
  BY <1>1, <1>5, TokensTyped DEF GetFilename, Shapes
<1>7. slot # "audio" => GetFilename(h, src).filename \notin Cids
  BY <1>5 DEF GetFilename, Shapes
<1>. QED BY <1>3, <1>4, <1>6, <1>7

LEMMA LastParSet ==
  ASSUME NEW s, Good(s), s.pars # <<>>, NEW slot \in Slots, NEW g \in Shapes,
         slot # "audio" => g.filename \notin Cids,
         NEW t, t = [s EXCEPT !.pars[Len(s.pars)].file[slot] = g],
         NEW r, r = [s.pars[Len(s.pars)] EXCEPT !.file[slot] = g]
  PROVE  /\ Good(t) /\ t.title = s.title /\ t.regions = s.regions
         /\ t.pars = [s.pars EXCEPT ![Len(s.pars)] = r]
<1> DEFINE q == s.pars
           k == Len(q)
           pars == [q EXCEPT ![k] = r]
<1>1. q \in Seq(Pars) /\ k \in 1 .. Len(q)
  <2>1. q \in Seq(Pars)
    BY DEF Good, Smils
  <2>. QED BY <2>1
<1>2. r \in Pars
  BY <1>1, ParFileSet, SeqIs
<1>3. t = [s EXCEPT !.pars = pars]
  OBVIOUS
<1>4. pars \in Seq(Pars)
  <2>. HIDE DEF k, q
  <2>. QED BY <1>1, <1>2, SeqExcept
<1>. HIDE DEF pars
<1>5. PICK p : p = pars
  OBVIOUS
<1>6. t = [s EXCEPT !.pars = p]
  BY <1>3, <1>5
<1>7. p \in Seq(Pars)
  BY <1>4, <1>5
<1>. HIDE DEF pars
<1>8. Good(t)
  BY <1>6, <1>7, ParsSet
<1>9. t.title = s.title /\ t.regions = s.regions /\ t.pars = p
  <2>1. s \in Smils
    BY DEF Good
  <2>. QED BY <1>6, <2>1 DEF Smils
<1>. QED BY <1>5, <1>8, <1>9 DEF pars

LEMMA OnFileGood ==
  ASSUME NEW s, Good(s), NEW slot \in Slots,
         NEW atts \in Seq(Tokens), Len(atts) \notin Visits(atts, FileKeys)
  PROVE  Good(OnFile(s, slot, atts))
<1>1. CASE s.pars = <<>>
  BY <1>1 DEF OnFile
<1>2. CASE s.pars # <<>>
  <2> DEFINE f == s.pars[Len(s.pars)].file[slot]
             g == FileFrom(f, slot, atts)
  <2>1. OnFile(s, slot, atts) = [s EXCEPT !.pars[Len(s.pars)].file[slot] = g]
    BY <1>2 DEF OnFile
  <2>2. s.pars[Len(s.pars)] \in Pars
    <3>1. s.pars \in Seq(Pars)
      BY DEF Good, Smils
    <3>. QED BY <1>2, <3>1
  <2>3. f \in Shapes /\ (slot # "audio" => f.filename \notin Cids)
    BY <2>2, ParFile
  <2>. HIDE DEF f
  <2>4. g \in Shapes /\ (slot # "audio" => g.filename \notin Cids)
    BY <2>3, FileFromTyped
  <2>. HIDE DEF g
  <2>5. PICK t : t = [s EXCEPT !.pars[Len(s.pars)].file[slot] = g]
    OBVIOUS
  <2>6. PICK r : r = [s.pars[Len(s.pars)] EXCEPT !.file[slot] = g]
    OBVIOUS
  <2>7. Good(t)
    BY <1>2, <2>4, <2>5, <2>6, LastParSet
  <2>. QED BY <2>1, <2>5, <2>7
<1>. QED BY <1>1, <1>2

LEMMA OnMetaGood ==
  ASSUME NEW s, Good(s), NEW atts \in Seq(Tokens), Len(atts) >= 4
  PROVE  Good(OnMeta(s, atts))
<1>1. atts[4].t \in STRING
  <2>1. atts[4] \in Tokens
    OBVIOUS
  <2>. QED BY <2>1 DEF Tokens
<1>2. Good([s EXCEPT !.title = atts[4].t])
  BY <1>1, TitleSet
<1>. QED BY <1>2 DEF OnMeta

LEMMA OnRootLayoutGood ==
  ASSUME NEW s, Good(s), NEW atts \in Seq(Tokens), Len(atts) \notin Visits(atts, RootKeys)
  PROVE  LET t == OnRootLayout(s, atts)
         IN  Good(t) /\ t.title = s.title /\ t.regions = s.regions /\ t.pars = s.pars
<1> DEFINE w == Attribute(atts, RootKeys, "width", Number(s.root.width))
           h == Attribute(atts, RootKeys, "height", Number(s.root.height))
           v == [width |-> w.n, height |-> h.n]
<1>1. s.root.width \in Nat /\ s.root.height \in Nat
  BY DEF Good, Smils
<1>2. w \in Tokens /\ h \in Tokens
  BY <1>1, AttributeTyped, TokensTyped
<1>3. OnRootLayout(s, atts) = [s EXCEPT !.root = v]
  BY DEF OnRootLayout
<1>. HIDE DEF w, h
<1>4. v \in [width: Nat, height: Nat]
  BY <1>2 DEF Tokens
<1>. HIDE DEF v
<1>. QED BY <1>3, <1>4, RootSet

LEMMA OnRegionGood ==
  ASSUME NEW s, Good(s), NEW atts \in Seq(Tokens), Len(atts) \notin Visits(atts, RegionKeys),
         \A k \in DOMAIN atts : atts[k].n < Percent
  PROVE  Good(OnRegion(s, atts))
<1> DEFINE S == {a \in Tokens : a.n < Percent}
           id == Attribute(atts, RegionKeys, "id", Text(Empty))
           size(k) == ScanfSize(Attribute(atts, RegionKeys, k, Number(0)))
           box == [x |-> size("left"), y |-> size("top"), width |-> size("width"), height |-> size("height")]
<1>1. atts \in Seq(S)
  <2>1. \A k \in 1 .. Len(atts) : atts[k] \in S
    BY SeqIs
  <2>2. atts = [k \in 1 .. Len(atts) |-> atts[k]] /\ Len(atts) \in Nat
    OBVIOUS
  <2>. HIDE DEF S
  <2>. QED BY <2>1, <2>2
<1>2. Number(0) \in S
  BY TokensTyped, PercentIs
<1>3. ASSUME NEW k PROVE size(k) \in Sizes
  <2>1. Attribute(atts, RegionKeys, k, Number(0)) \in S
    <3>. HIDE DEF S
    <3>. QED BY <1>1, <1>2, AttributeTyped
  <2>2. Attribute(atts, RegionKeys, k, Number(0)).n \in Nat
    BY <2>1 DEF Tokens
  <2>. QED BY <2>1, <2>2, ScanfSizeTyped
<1>4. id.t \in STRING
  <2>1. id \in Tokens
    BY AttributeTyped, TokensTyped
  <2>. HIDE DEF id
  <2>. QED BY <2>1 DEF Tokens
<1>5. OnRegion(s, atts) = AddRegion(s, id.t, box)
  BY DEF OnRegion
<1>6. box \in Layouts
  <2>. HIDE DEF size
  <2>. QED BY <1>3 DEF Layouts
<1>. HIDE DEF box, id
<1>7. Good(AddRegion(s, id.t, box))
  BY <1>4, <1>6, AddRegionIs
<1>. QED BY <1>5, <1>7

LEMMA OnParGood ==
  ASSUME NEW s, Good(s), NEW atts \in Seq(Tokens), Len(atts) \notin Visits(atts, ParKeys)
  PROVE  Good(OnPar(s, atts))
<1> DEFINE at == Visits(atts, ParKeys)
           last == CHOOSE i \in at : \A j \in at : j <= i
           d == IF at = {} THEN 0 ELSE atts[last + 1].n
<1>1. at \subseteq 1 .. Len(atts) /\ Len(atts) \in Nat
  BY VisitsIs
<1>2. d \in Nat
  <2>1. CASE at # {}
    <3>1. last \in at
      <4>. HIDE DEF at
      <4>. QED BY <1>1, <2>1, GreatestOf
    <3>2. last + 1 \in 1 .. Len(atts)
      <4>1. last \in 1 .. Len(atts) /\ last # Len(atts)
        BY <1>1, <3>1
      <4>. HIDE DEF last
      <4>. QED BY <1>1, <4>1
    <3>3. atts[last + 1] \in Tokens
      <4>. HIDE DEF last
      <4>. QED BY <3>2, SeqIs
    <3>. HIDE DEF last, at
    <3>. QED BY <2>1, <3>3 DEF Tokens
  <2>. QED BY <2>1
<1>3. OnPar(s, atts) = [s EXCEPT !.pars = Append(s.pars, NewPar(d))]
  BY DEF OnPar
<1>. HIDE DEF d
<1>4. Append(s.pars, NewPar(d)) \in Seq(Pars)
  <2>1. s.pars \in Seq(Pars) /\ NewPar(d) \in Pars
    BY <1>2, NewParTyped DEF Good, Smils
  <2>. QED BY <2>1, SeqAppend
<1>. QED BY <1>3, <1>4, ParsSet

(* Whatever the element.                                                   *)
LEMMA OnStartGood ==
  ASSUME NEW s, Good(s), NEW e \in Elements, WellFormed(e)
  PROVE  Good(OnStart(s, e))
<1>0. e.atts \in Seq(Tokens)
  BY DEF Elements
<1>1. Len(e.atts) \notin Visits(e.atts, KeysOf(e.el))
  BY DEF WellFormed, ReadsPast
<1>2. CASE e.el = "meta"
  <2>1. OnStart(s, e) = OnMeta(s, e.atts)
    BY <1>2 DEF OnStart, Media, Slots
  <2>2. Len(e.atts) >= 4
    BY <1>2 DEF WellFormed
  <2>. QED BY <1>0, <2>1, <2>2, OnMetaGood
<1>3. CASE e.el = "root-layout"
  <2>1. KeysOf(e.el) = RootKeys
    BY <1>3 DEF KeysOf, Media, Slots
  <2>2. OnStart(s, e) = OnRootLayout(s, e.atts)
    BY <1>3 DEF OnStart, Media, Slots
  <2>. QED BY <1>0, <1>1, <2>1, <2>2, OnRootLayoutGood
<1>4. CASE e.el = "region"
  <2>1. KeysOf(e.el) = RegionKeys
    BY <1>4 DEF KeysOf, Media, Slots
  <2>2. OnStart(s, e) = OnRegion(s, e.atts)
    BY <1>4 DEF OnStart, Media, Slots
  <2>3. \A k \in DOMAIN e.atts : e.atts[k].n < Percent
    BY <1>4 DEF WellFormed
  <2>. QED BY <1>0, <1>1, <2>1, <2>2, <2>3, OnRegionGood
<1>5. CASE e.el = "par"
  <2>1. KeysOf(e.el) = ParKeys
    BY <1>5 DEF KeysOf, Media, Slots
  <2>2. OnStart(s, e) = OnPar(s, e.atts)
    BY <1>5 DEF OnStart, Media, Slots
  <2>. QED BY <1>0, <1>1, <2>1, <2>2, OnParGood
<1>6. CASE e.el \in Media
  <2>1. KeysOf(e.el) = FileKeys
    BY <1>6 DEF KeysOf, Media, Slots
  <2>2. OnStart(s, e) = OnFile(s, SlotOf(e.el), e.atts)
    BY <1>6 DEF OnStart, Media, Slots
  <2>3. SlotOf(e.el) \in Slots
    BY <1>6 DEF SlotOf, Media, Slots
  <2>. QED BY <1>0, <1>1, <2>1, <2>2, <2>3, OnFileGood
<1>7. CASE e.el \notin {"meta", "root-layout", "region", "par"} \cup Media
  BY <1>7 DEF OnStart
<1>. QED BY <1>2, <1>3, <1>4, <1>5, <1>6, <1>7

(* What any document that does not crash makes of a SMIL.                   *)
LEMMA UnpackedGood ==
  ASSUME NEW s, Good(s), NEW elements \in Seq(Elements),
         \A i \in DOMAIN elements : WellFormed(elements[i])
  PROVE  Good(Unpacked(s, elements))
<1>0. Len(elements) \in Nat /\ DOMAIN elements = 1 .. Len(elements)
      /\ \A i \in 1 .. Len(elements) : elements[i] \in Elements
  BY SeqIs
<1>1. PICK g : IsReading(s, elements, g, Len(elements)) /\ Unpacked(s, elements) = g[Len(elements)]
  BY <1>0, UnpackedIs
<1>. DEFINE T == {k \in 0 .. Len(elements) : ~ Good(g[k])}
<1>2. SUFFICES ASSUME T # {} PROVE FALSE
  BY <1>0, <1>1
<1>3. PICK k \in T : \A j \in T : k <= j
  <2>1. T \subseteq Nat
    BY <1>0
  <2>. HIDE DEF T
  <2>. QED BY <1>2, <2>1, LeastOf
<1>4. k \in 0 .. Len(elements) /\ ~ Good(g[k])
  OBVIOUS
<1>5. k # 0
  BY <1>1, <1>4 DEF IsReading
<1>6. k - 1 \in 0 .. Len(elements) /\ ~ (k <= k - 1) /\ k \in 1 .. Len(elements)
  BY <1>0, <1>4, <1>5
<1>7. Good(g[k - 1])
  BY <1>3, <1>6
<1>8. g[k] = OnStart(g[k - 1], elements[k])
  BY <1>1, <1>4, <1>5 DEF IsReading
<1>. QED BY <1>0, <1>4, <1>6, <1>7, <1>8, OnStartGood

-----------------------------------------------------------------------------
(* MmsSmil: reading what was written.                                      *)

SameFrom(a, p, b, m) == \A i \in 1 .. m : a[p + i] = b[i]

(* The second of two readings starts where the first one is after p elements, *)
(* and reads the same from there.                                          *)
LEMMA ReadingsAgree ==
  ASSUME NEW s, NEW a, NEW g, NEW n \in Nat, IsReading(s, a, g, n),
         NEW p \in Nat, NEW b, NEW h, NEW m \in Nat, IsReading(g[p], b, h, m),
         p + m <= n, SameFrom(a, p, b, m)
  PROVE  g[p + m] = h[m]
<1>. DEFINE T == {k \in 0 .. m : g[p + k] # h[k]}
<1>1. SUFFICES ASSUME T # {} PROVE FALSE
  OBVIOUS
<1>2. PICK k \in T : \A j \in T : k <= j
  <2>1. T \subseteq Nat
    OBVIOUS
  <2>. HIDE DEF T
  <2>. QED BY <1>1, <2>1, LeastOf
<1>3. k \in 0 .. m /\ g[p + k] # h[k]
  OBVIOUS
<1>4. k # 0
  <2>1. h[0] = g[p]
    BY DEF IsReading
  <2>2. p + 0 = p
    OBVIOUS
  <2>. QED BY <1>3, <2>1, <2>2
<1>5. /\ k - 1 \in 0 .. m /\ ~ (k <= k - 1) /\ k \in 1 .. m
      /\ p + k \in 0 .. n /\ p + k # 0 /\ (p + k) - 1 = p + (k - 1)
  BY <1>3, <1>4
<1>6. g[p + (k - 1)] = h[k - 1]
  BY <1>2, <1>5
<1>7. h[k] = OnStart(h[k - 1], b[k])
  BY <1>3, <1>4 DEF IsReading
<1>8. g[p + k] = OnStart(g[(p + k) - 1], a[p + k])
  BY <1>5 DEF IsReading
<1>9. a[p + k] = b[k]
  BY <1>5 DEF SameFrom
<1>. QED BY <1>3, <1>5, <1>6, <1>7, <1>8, <1>9

LEMMA JoinedIs ==
  ASSUME NEW S, NEW a \in Seq(S), NEW b \in Seq(S)
  PROVE  /\ a \o b \in Seq(S) /\ Len(a \o b) = Len(a) + Len(b)
         /\ Len(a) \in Nat /\ Len(b) \in Nat /\ Len(a \o b) \in Nat
         /\ \A i \in 1 .. Len(a) : (a \o b)[i] = a[i]
         /\ \A i \in 1 .. Len(b) : (a \o b)[Len(a) + i] = b[i]
BY ConcatProperties

LEMMA JoinedFirst ==
  ASSUME NEW S, NEW a \in Seq(S), NEW b \in Seq(S), NEW i \in 1 .. Len(a)
  PROVE  (a \o b)[i] = a[i]
BY JoinedIs

LEMMA JoinedSecond ==
  ASSUME NEW S, NEW a \in Seq(S), NEW b \in Seq(S), NEW i \in 1 .. Len(b)
  PROVE  (a \o b)[Len(a) + i] = b[i]
BY JoinedIs

LEMMA JoinedLen ==
  ASSUME NEW S, NEW a \in Seq(S), NEW b \in Seq(S)
  PROVE  a \o b \in Seq(S) /\ Len(a \o b) = Len(a) + Len(b)
BY JoinedIs

LEMMA UnpackedJoined ==
  ASSUME NEW s, NEW S, NEW a \in Seq(S), NEW b \in Seq(S)
  PROVE  Unpacked(s, a \o b) = Unpacked(Unpacked(s, a), b)
<1> DEFINE c == a \o b
           n == Len(a)
           m == Len(b)
<1>1. /\ Len(c) = n + m /\ n \in Nat /\ m \in Nat /\ Len(c) \in Nat
      /\ \A i \in 1 .. n : c[i] = a[i]
      /\ \A i \in 1 .. m : c[n + i] = b[i]
  BY ConcatProperties
<1>. HIDE DEF c, n, m
<1>2. PICK g : IsReading(s, c, g, Len(c)) /\ Unpacked(s, c) = g[Len(c)]
  BY <1>1, UnpackedIs
<1>3. PICK h : IsReading(s, a, h, n) /\ Unpacked(s, a) = h[n]
  BY <1>1, UnpackedIs DEF n
<1>4. PICK f : IsReading(h[n], b, f, m) /\ Unpacked(h[n], b) = f[m]
  BY <1>1, UnpackedIs DEF m
<1>5. g[n] = h[n]
  <2>1. g[0] = s
    BY <1>1, <1>2 DEF IsReading
  <2>2. 0 + n <= Len(c) /\ 0 + n = n /\ 0 \in Nat
    BY <1>1
  <2>5. SameFrom(c, 0, a, n)
    BY <1>1 DEF SameFrom
  <2>3. IsReading(g[0], a, h, n)
    BY <1>3, <2>1
  <2>4. g[0 + n] = h[n]
    BY <1>1, <1>2, <2>2, <2>3, <2>5, ReadingsAgree
  <2>. QED BY <2>2, <2>4
<1>6. g[n + m] = f[m]
  <2>1. IsReading(g[n], b, f, m)
    BY <1>4, <1>5
  <2>2. n + m <= Len(c)
    BY <1>1
  <2>3. SameFrom(c, n, b, m)
    BY <1>1 DEF SameFrom
  <2>4. n \in Nat /\ m \in Nat /\ Len(c) \in Nat
    BY <1>1
  <2>. QED BY <1>2, <2>1, <2>2, <2>3, <2>4, ReadingsAgree
<1>. QED BY <1>1, <1>2, <1>3, <1>4, <1>6 DEF c

(* What is written either crashes its reader or is well-formed.             *)
Writable == {e \in Elements : ReadsPast(e) \/ WellFormed(e)}

LEMMA ElementsJoined ==
  ASSUME NEW s, NEW a \in Seq(Writable), NEW b \in Seq(Writable)
  PROVE  Unpacked(s, a \o b) = Unpacked(Unpacked(s, a), b)
BY UnpackedJoined

LEMMA UnpackedNothing ==
  ASSUME NEW s
  PROVE  Unpacked(s, <<>>) = s
<1>1. Len(<<>>) = 0 /\ 0 \in Nat
  OBVIOUS
<1>2. PICK g : IsReading(s, <<>>, g, 0) /\ Unpacked(s, <<>>) = g[0]
  BY <1>1, UnpackedIs
<1>. QED BY <1>2 DEF IsReading

LEMMA UnpackedOne ==
  ASSUME NEW s, NEW e
  PROVE  Unpacked(s, <<e>>) = OnStart(s, e)
<1>1. Len(<<e>>) = 1 /\ 1 \in Nat /\ <<e>>[1] = e
  OBVIOUS
<1>2. PICK g : IsReading(s, <<e>>, g, 1) /\ Unpacked(s, <<e>>) = g[1]
  BY <1>1, UnpackedIs
<1>3. g[0] = s
  BY <1>2 DEF IsReading
<1>4. g[1] = OnStart(g[1 - 1], <<e>>[1]) /\ 1 - 1 = 0
  BY <1>2 DEF IsReading
<1>. QED BY <1>1, <1>2, <1>3, <1>4


LEMMA TextTyped ==
  ASSUME NEW t \in STRING
  PROVE  Text(t) \in Tokens
BY TokensTyped

LEMMA WordsTyped ==
  ASSUME NEW t \in Words
  PROVE  t \in STRING /\ Text(t) \in Tokens
BY WordsAssumption, TextTyped

LEMMA TextIs ==
  ASSUME NEW t
  PROVE  Text(t).t = t /\ Text(t).n = 0
BY DEF Text

LEMMA ElementIs ==
  ASSUME NEW el, NEW atts
  PROVE  Element(el, atts).el = el /\ Element(el, atts).atts = atts
BY DEF Element

LEMMA ElementTyped ==
  ASSUME NEW el \in STRING, NEW atts \in Seq(Tokens)
  PROVE  Element(el, atts) \in Elements
BY DEF Element, Elements

LEMMA FourTokens ==
  ASSUME NEW S, NEW a \in S, NEW b \in S, NEW c \in S, NEW d \in S
  PROVE  <<a, b, c, d>> \in Seq(S) /\ Len(<<a, b, c, d>>) = 4
OBVIOUS

LEMMA TenTokens ==
  ASSUME NEW S, NEW a \in S, NEW b \in S, NEW c \in S, NEW d \in S, NEW e \in S,
         NEW f \in S, NEW g \in S, NEW h \in S, NEW i \in S, NEW j \in S
  PROVE  /\ <<a, b, c, d, e, f, g, h, i, j>> \in Seq(S)
         /\ Len(<<a, b, c, d, e, f, g, h, i, j>>) = 10
OBVIOUS

(* A region is read as it was, whatever its name.                           *)
LEMMA RegionRead ==
  ASSUME NEW r \in Regions
  PROVE  /\ RegionToXml(r) \in Elements /\ WellFormed(RegionToXml(r))
         /\ \A u : OnStart(u, RegionToXml(r)) = AddRegion(u, r.name, r.box)
<1> DEFINE a == <<Text("id"), Text(r.name),
                  Text("height"), FormatSize(r.box.height), Text("width"), FormatSize(r.box.width),
                  Text("left"), FormatSize(r.box.x), Text("top"), FormatSize(r.box.y)>>
           e == RegionToXml(r)
<1>1. e = Element("region", a)
  BY DEF RegionToXml
<1>2. e.el = "region" /\ e.atts = a
  BY <1>1, ElementIs
<1>3. /\ r.name \in STRING /\ r.box \in Layouts /\ r.box.x \in Sizes /\ r.box.y \in Sizes
      /\ r.box.width \in Sizes /\ r.box.height \in Sizes
  BY DEF Regions, Layouts
<1>4. a \in Seq(Tokens) /\ Len(a) = 10
  <2>1. /\ Text("id") \in Tokens /\ Text("height") \in Tokens /\ Text("width") \in Tokens
        /\ Text("left") \in Tokens /\ Text("top") \in Tokens
    <3>1. {"id", "height", "width", "left", "top"} \subseteq Words
      BY DEF Words, RegionKeys
    <3>. QED BY <3>1, WordsTyped
  <2>3. Text(r.name) \in Tokens
    BY <1>3, TextTyped
  <2>2. /\ FormatSize(r.box.height) \in Tokens /\ FormatSize(r.box.width) \in Tokens
        /\ FormatSize(r.box.x) \in Tokens /\ FormatSize(r.box.y) \in Tokens
    BY <1>3, TokensTyped
  <2>. QED BY <2>1, <2>2, <2>3, TenTokens
<1>5. /\ a[1].t = "id" /\ a[3].t = "height" /\ a[5].t = "width" /\ a[7].t = "left" /\ a[9].t = "top"
      /\ a[2] = Text(r.name) /\ a[4] = FormatSize(r.box.height) /\ a[6] = FormatSize(r.box.width)
      /\ a[8] = FormatSize(r.box.x) /\ a[10] = FormatSize(r.box.y)
  BY TextIs
<1>6. \A k \in 1 .. 10 : a[k].n < Percent
  <2>1. /\ a[1].n = 0 /\ a[3].n = 0 /\ a[5].n = 0 /\ a[7].n = 0 /\ a[9].n = 0 /\ a[2].n = 0
    BY TextIs
  <2>2. a[4].n < Percent /\ a[6].n < Percent /\ a[8].n < Percent /\ a[10].n < Percent
    BY <1>3, <1>5, SizeSurvives
  <2>3. \A k \in 1 .. 10 : k \in {1, 2, 3, 4, 5, 6, 7, 8, 9, 10}
    OBVIOUS
  <2>4. 0 < Percent
    BY PercentIs
  <2>. HIDE DEF a
  <2>. QED BY <2>1, <2>2, <2>3, <2>4
<1>. HIDE DEF a, e
<1>7. Visits(a, RegionKeys) = {1, 3, 5, 7, 9}
  <2>1. \A i \in 1 .. 10 : i % 2 = 1 <=> i \in {1, 3, 5, 7, 9}
    OBVIOUS
  <2>2. \A i \in 1 .. 10 : i % 2 = 1 => a[i].t \in RegionKeys
    BY <1>5, <2>1 DEF RegionKeys
  <2>3. Len(a) \in Nat
    BY <1>4
  <2>4. Visits(a, RegionKeys) = {i \in 1 .. 10 : i % 2 = 1}
    BY <1>4, <2>2, <2>3, VisitsOdd
  <2>. QED BY <2>1, <2>4
<1>8. KeysOf(e.el) = RegionKeys
  BY <1>2 DEF KeysOf, Media, Slots
<1>9. WellFormed(e)
  <2>1. ~ ReadsPast(e)
    BY <1>2, <1>4, <1>7, <1>8 DEF ReadsPast
  <2>2. \A k \in DOMAIN e.atts : e.atts[k].n < Percent
    BY <1>2, <1>4, <1>6
  <2>. QED BY <1>2, <2>1, <2>2 DEF WellFormed
<1>10. e \in Elements
  <2>1. "region" \in Words
    BY DEF Words
  <2>2. "region" \in STRING
    BY <2>1, WordsTyped
  <2>. QED BY <1>1, <1>4, <2>2, ElementTyped
<1>11. ASSUME NEW u PROVE OnStart(u, e) = AddRegion(u, r.name, r.box)
  <2> DEFINE size(k) == ScanfSize(Attribute(a, RegionKeys, k, Number(0)))
  <2>0. Len(a) \in Nat
    BY <1>4
  <2> DEFINE V == Visits(a, RegionKeys)
  <2>10. 1 \in V /\ \A j \in V : a[j].t = "id" <=> j = 1
    BY <1>5, <1>7
  <2>11. 3 \in V /\ \A j \in V : a[j].t = "height" <=> j = 3
    BY <1>5, <1>7
  <2>12. 5 \in V /\ \A j \in V : a[j].t = "width" <=> j = 5
    BY <1>5, <1>7
  <2>13. 7 \in V /\ \A j \in V : a[j].t = "left" <=> j = 7
    BY <1>5, <1>7
  <2>14. 9 \in V /\ \A j \in V : a[j].t = "top" <=> j = 9
    BY <1>5, <1>7
  <2>1. Attribute(a, RegionKeys, "id", Text(Empty)) = a[1 + 1]
    BY <2>0, <2>10, AttributeAt
  <2>2. Attribute(a, RegionKeys, "height", Number(0)) = a[3 + 1]
    BY <2>0, <2>11, AttributeAt
  <2>3. Attribute(a, RegionKeys, "width", Number(0)) = a[5 + 1]
    BY <2>0, <2>12, AttributeAt
  <2>4. Attribute(a, RegionKeys, "left", Number(0)) = a[7 + 1]
    BY <2>0, <2>13, AttributeAt
  <2>5. Attribute(a, RegionKeys, "top", Number(0)) = a[9 + 1]
    BY <2>0, <2>14, AttributeAt
  <2>6. Attribute(a, RegionKeys, "id", Text(Empty)).t = r.name
    BY <1>5, <2>1, TextIs
  <2>7. /\ size("left") = r.box.x /\ size("top") = r.box.y
        /\ size("width") = r.box.width /\ size("height") = r.box.height
    BY <1>3, <1>5, <2>2, <2>3, <2>4, <2>5, SizeSurvives
  <2>8. [x |-> size("left"), y |-> size("top"), width |-> size("width"), height |-> size("height")] = r.box
    BY <1>3, <2>7 DEF Layouts
  <2>9. OnStart(u, e) = OnRegion(u, a)
    BY <1>2 DEF OnStart, Media, Slots
  <2>. QED BY <2>6, <2>8, <2>9 DEF OnRegion
<1>. QED BY <1>9, <1>10, <1>11 DEF e

LEMMA StaysInside ==
  ASSUME NEW e, NEW a, e.atts = a, NEW keys, KeysOf(e.el) = keys, Len(a) \notin Visits(a, keys)
  PROVE  ~ ReadsPast(e)
BY DEF ReadsPast

LEMMA MetaRead ==
  ASSUME NEW title \in STRING
  PROVE  LET e == Element("meta", <<Text("name"), Text("title"), Text("content"), Text(title)>>)
         IN  /\ e \in Elements /\ e.el = "meta" /\ WellFormed(e)
             /\ \A u : OnStart(u, e) = [u EXCEPT !.title = title]
<1> DEFINE a == <<Text("name"), Text("title"), Text("content"), Text(title)>>
           e == Element("meta", a)
<1>1. "meta" \in STRING /\ Text("name") \in Tokens /\ Text("title") \in Tokens /\ Text("content") \in Tokens
  <2>1. {"meta", "name", "title", "content"} \subseteq Words
    BY DEF Words
  <2>. QED BY <2>1, WordsTyped
<1>2. a \in Seq(Tokens) /\ Len(a) = 4
  BY <1>1, TextTyped, FourTokens
<1>3. a[2].t = "title" /\ a[4].t = title
  BY TextIs
<1>. HIDE DEF a
<1>4. e \in Elements /\ e.el = "meta" /\ e.atts = a
  BY <1>1, <1>2, ElementTyped, ElementIs
<1>. HIDE DEF e
<1>5. Visits(a, {}) = {}
  <2>1. Len(a) \in Nat
    BY <1>2
  <2>. QED BY <2>1, VisitsIs
<1>6. KeysOf(e.el) = {}
  BY <1>4 DEF KeysOf, Media, Slots
<1>7. WellFormed(e)
  <2>1. Len(a) \notin Visits(a, {})
    BY <1>5
  <2>2. ~ ReadsPast(e)
    BY <1>4, <1>6, <2>1, StaysInside
  <2>. QED BY <1>2, <1>4, <2>2 DEF WellFormed
<1>8. ASSUME NEW u PROVE OnStart(u, e) = [u EXCEPT !.title = title]
  <2>1. OnStart(u, e) = OnMeta(u, a)
    BY <1>4 DEF OnStart, Media, Slots
  <2>. QED BY <1>3, <2>1 DEF OnMeta
<1>. QED BY <1>4, <1>7, <1>8 DEF e, a

LEMMA SixTokens ==
  ASSUME NEW S, NEW a \in S, NEW b \in S, NEW c \in S, NEW d \in S, NEW e \in S, NEW f \in S
  PROVE  <<a, b, c, d, e, f>> \in Seq(S) /\ Len(<<a, b, c, d, e, f>>) = 6
OBVIOUS

LEMMA RootLayoutRead ==
  ASSUME NEW s \in Smils
  PROVE  RootLayout(s) \in Elements /\ RootLayout(s).el = "root-layout"
<1> DEFINE full == s.root.width = 0 \/ s.root.height = 0
           w == IF full THEN [Number(100) EXCEPT !.p = TRUE] ELSE Number(s.root.width)
           h == IF full THEN [Number(100) EXCEPT !.p = TRUE] ELSE Number(s.root.height)
           a == <<Text("width"), w, Text("height"), h, Text("title"), Text(s.title)>>
<1>1. s.title \in STRING /\ s.root.width \in Nat /\ s.root.height \in Nat
  BY DEF Smils
<1>2. [Number(100) EXCEPT !.p = TRUE] \in Tokens
  <2>1. Number(100) \in Tokens
    BY TokensTyped
  <2>. QED BY <2>1 DEF Tokens
<1>3. w \in Tokens /\ h \in Tokens
  BY <1>1, <1>2, TokensTyped
<1>4. /\ "root-layout" \in STRING /\ Text("width") \in Tokens
      /\ Text("height") \in Tokens /\ Text("title") \in Tokens
  <2>1. {"root-layout", "width", "height", "title"} \subseteq Words
    BY DEF Words, RegionKeys
  <2>. QED BY <2>1, WordsTyped
<1>5. RootLayout(s) = Element("root-layout", a)
  BY DEF RootLayout
<1>. HIDE DEF w, h
<1>6. a \in Seq(Tokens)
  BY <1>1, <1>3, <1>4, TextTyped, SixTokens
<1>. HIDE DEF a
<1>. QED BY <1>4, <1>5, <1>6, ElementTyped, ElementIs

LEMMA ScreenRead ==
  ASSUME NEW e \in Elements, e.el = "root-layout", ~ ReadsPast(e), NEW u, Good(u)
  PROVE  LET t == OnStart(u, e)
         IN  Good(t) /\ t.title = u.title /\ t.regions = u.regions /\ t.pars = u.pars
<1>1. e.atts \in Seq(Tokens)
  BY DEF Elements
<1>2. Len(e.atts) \notin Visits(e.atts, RootKeys)
  BY DEF ReadsPast, KeysOf, Media, Slots
<1>3. OnStart(u, e) = OnRootLayout(u, e.atts)
  BY DEF OnStart, Media, Slots
<1>. QED BY <1>1, <1>2, <1>3, OnRootLayoutGood

LEMMA TwoTokens ==
  ASSUME NEW S, NEW a \in S, NEW b \in S
  PROVE  <<a, b>> \in Seq(S) /\ Len(<<a, b>>) = 2
OBVIOUS

LEMMA ParElementRead ==
  ASSUME NEW d \in Nat
  PROVE  LET e == Element("par", <<Text("dur"), Number(d)>>)
         IN  /\ e \in Elements /\ e.el = "par" /\ WellFormed(e)
             /\ \A u : OnStart(u, e) = [u EXCEPT !.pars = Append(u.pars, NewPar(d))]
<1> DEFINE a == <<Text("dur"), Number(d)>>
           e == Element("par", a)
<1>1. "par" \in STRING /\ Text("dur") \in Tokens /\ Number(d) \in Tokens
  <2>1. {"par", "dur"} \subseteq Words
    BY DEF Words, ParKeys
  <2>. QED BY <2>1, WordsTyped, TokensTyped
<1>2. a \in Seq(Tokens) /\ Len(a) = 2
  BY <1>1, TwoTokens
<1>3. a[1].t = "dur" /\ a[2].n = d
  BY TextIs, TokensTyped
<1>. HIDE DEF a
<1>4. e \in Elements /\ e.el = "par" /\ e.atts = a
  BY <1>1, <1>2, ElementTyped, ElementIs
<1>. HIDE DEF e
<1>5. Visits(a, ParKeys) = {1}
  <2>1. \A i \in 1 .. 2 : i % 2 = 1 <=> i \in {1}
    OBVIOUS
  <2>2. \A i \in 1 .. 2 : i % 2 = 1 => a[i].t \in ParKeys
    BY <1>3, <2>1 DEF ParKeys
  <2>3. Len(a) \in Nat
    BY <1>2
  <2>4. Visits(a, ParKeys) = {i \in 1 .. 2 : i % 2 = 1}
    BY <1>2, <2>2, <2>3, VisitsOdd
  <2>. QED BY <2>1, <2>4
<1>6. KeysOf(e.el) = ParKeys
  BY <1>4 DEF KeysOf, Media, Slots
<1>7. WellFormed(e)
  <2>1. Len(a) \notin Visits(a, ParKeys)
    BY <1>2, <1>5
  <2>2. ~ ReadsPast(e)
    BY <1>4, <1>6, <2>1, StaysInside
  <2>. QED BY <1>4, <2>2 DEF WellFormed
<1>8. ASSUME NEW u PROVE OnStart(u, e) = [u EXCEPT !.pars = Append(u.pars, NewPar(d))]
  <2>1. OnStart(u, e) = OnPar(u, a)
    BY <1>4 DEF OnStart, Media, Slots
  <2>2. (CHOOSE i \in {1} : \A j \in {1} : j <= i) = 1
    OBVIOUS
  <2>3. {1} # {}
    OBVIOUS
  <2>4. OnPar(u, a) = [u EXCEPT !.pars = Append(u.pars, NewPar(a[1 + 1].n))]
    BY <1>5, <2>2, <2>3 DEF OnPar
  <2>5. a[1 + 1].n = d
    BY <1>3
  <2>. QED BY <2>1, <2>4, <2>5
<1>. QED BY <1>4, <1>7, <1>8 DEF e, a

FileAtts(f) == <<Text("region"), Text(f.region), Text("src"), Text(f.filename)>>

LEMMA FileAttsAre ==
  ASSUME NEW f \in Shapes
  PROVE  /\ FileAtts(f) \in Seq(Tokens) /\ Len(FileAtts(f)) = 4
         /\ Visits(FileAtts(f), FileKeys) = {1, 3}
         /\ \A absent : /\ Attribute(FileAtts(f), FileKeys, "region", absent).t = f.region
                        /\ Attribute(FileAtts(f), FileKeys, "src", absent).t = f.filename
<1> DEFINE a == FileAtts(f)
<1>1. f.region \in STRING /\ f.filename \in STRING
  BY DEF Shapes
<1>2. Text("region") \in Tokens /\ Text("src") \in Tokens
  <2>1. {"region", "src"} \subseteq Words
    BY DEF Words, FileKeys
  <2>. QED BY <2>1, WordsTyped
<1>3. a \in Seq(Tokens) /\ Len(a) = 4
  BY <1>1, <1>2, TextTyped, FourTokens DEF FileAtts
<1>4. a[1].t = "region" /\ a[2].t = f.region /\ a[3].t = "src" /\ a[4].t = f.filename
  BY TextIs DEF FileAtts
<1>. HIDE DEF a
<1>5. Visits(a, FileKeys) = {1, 3}
  <2>1. \A i \in 1 .. 4 : i % 2 = 1 <=> i \in {1, 3}
    OBVIOUS
  <2>2. \A i \in 1 .. 4 : i % 2 = 1 => a[i].t \in FileKeys
    BY <1>4, <2>1 DEF FileKeys
  <2>3. Len(a) \in Nat
    BY <1>3
  <2>4. Visits(a, FileKeys) = {i \in 1 .. 4 : i % 2 = 1}
    BY <1>3, <2>2, <2>3, VisitsOdd
  <2>. QED BY <2>1, <2>4
<1>6. ASSUME NEW absent
      PROVE  /\ Attribute(a, FileKeys, "region", absent).t = f.region
             /\ Attribute(a, FileKeys, "src", absent).t = f.filename
  <2> DEFINE V == Visits(a, FileKeys)
  <2>0. Len(a) \in Nat
    BY <1>3
  <2>1. 1 \in V /\ \A j \in V : a[j].t = "region" <=> j = 1
    BY <1>4, <1>5
  <2>2. 3 \in V /\ \A j \in V : a[j].t = "src" <=> j = 3
    BY <1>4, <1>5
  <2>3. Attribute(a, FileKeys, "region", absent) = a[1 + 1]
    BY <2>0, <2>1, AttributeAt
  <2>4. Attribute(a, FileKeys, "src", absent) = a[3 + 1]
    BY <2>0, <2>2, AttributeAt
  <2>. QED BY <1>4, <2>3, <2>4
<1>. QED BY <1>3, <1>5, <1>6 DEF a

LEMMA FileElementRead ==
  ASSUME NEW slot \in Slots, NEW f \in Shapes
  PROVE  LET e == Element(slot, FileAtts(f))
         IN  /\ e \in Elements /\ e.el = slot /\ WellFormed(e)
             /\ \A u : OnStart(u, e) = OnFile(u, slot, FileAtts(f))
<1> DEFINE a == FileAtts(f)
           e == Element(slot, a)
<1>1. slot \in STRING
  BY WordsTyped DEF Words
<1>2. a \in Seq(Tokens) /\ Len(a) = 4 /\ Visits(a, FileKeys) = {1, 3}
  BY FileAttsAre
<1>3. e \in Elements /\ e.el = slot /\ e.atts = a
  BY <1>1, <1>2, ElementTyped, ElementIs
<1>. HIDE DEF a, e
<1>4. KeysOf(e.el) = FileKeys
  BY <1>3 DEF KeysOf, Media, Slots
<1>5. WellFormed(e)
  <2>1. ~ ReadsPast(e)
    <3>1. Len(a) \notin Visits(a, FileKeys)
      BY <1>2
    <3>. QED BY <1>3, <1>4, <3>1, StaysInside
  <2>2. slot # "meta" /\ slot # "region"
    BY DEF Slots
  <2>. QED BY <1>3, <2>1, <2>2 DEF WellFormed
<1>6. \A u : OnStart(u, e) = OnFile(u, slot, a)
  <2>1. SlotOf(slot) = slot
    BY DEF SlotOf, Slots
  <2>. QED BY <1>3, <2>1 DEF OnStart, Media, Slots
<1>. QED BY <1>3, <1>5, <1>6 DEF a, e

(* A file is read as it was; its cid, if it has one, is another.            *)
LEMMA FileSame ==
  ASSUME NEW slot \in Slots, NEW f \in Shapes, NEW old \in Shapes, f.filename # Empty,
         slot # "audio" => f.filename \notin Cids
  PROVE  /\ FileFrom(old, slot, FileAtts(f)).filename = f.filename
         /\ FileFrom(old, slot, FileAtts(f)).region = f.region
<1> DEFINE a == FileAtts(f)
           g == [old EXCEPT !.region = f.region]
           h == IF slot = "audio" THEN [g EXCEPT !.filename = f.filename] ELSE g
<1>1. /\ Attribute(a, FileKeys, "src", Text(Empty)).t = f.filename
      /\ Attribute(a, FileKeys, "region", Text(old.region)).t = f.region
      /\ 3 \in Visits(a, FileKeys)
  BY FileAttsAre
<1>0. a[3].t = "src"
  BY DEF FileAtts, Text
<1>. HIDE DEF a
<1>2. FileFrom(old, slot, a) = GetFilename(h, f.filename)
  BY <1>0, <1>1 DEF FileFrom
<1>3. DOMAIN old = {"filename", "region", "cid"}
  BY DEF Shapes
<1>4. g.region = f.region /\ DOMAIN g = {"filename", "region", "cid"}
  BY <1>3
<1>. HIDE DEF g
<1>5. /\ h.region = f.region /\ DOMAIN h = {"filename", "region", "cid"}
      /\ slot = "audio" => h.filename = f.filename
  BY <1>4
<1>. HIDE DEF h
<1>6. GetFilename(h, f.filename).filename = f.filename /\ GetFilename(h, f.filename).region = f.region
  <2>1. CASE f.filename \in Cids
    BY <1>5, <2>1 DEF GetFilename
  <2>2. CASE f.filename \notin Cids
    BY <1>5, <2>2 DEF GetFilename
  <2>. QED BY <2>1, <2>2
<1>. QED BY <1>2, <1>6 DEF a

Shown(f) ==
  IF f.filename = Empty THEN NotShown ELSE [file |-> f.filename, region |-> f.region]

LEMMA SlideIs ==
  ASSUME NEW p
  PROVE  SlideOf(p) = [duration |-> p.duration, shown |-> [slot \in Slots |-> Shown(p.file[slot])]]
BY DEF SlideOf, Shown

(* A par after the element of a file.                                       *)
FileInto(r, slot, f) ==
  IF f.filename = Empty THEN r
  ELSE [r EXCEPT !.file[slot] = FileFrom(r.file[slot], slot, FileAtts(f))]

LEMMA FileIntoIs ==
  ASSUME NEW r \in Pars, NEW slot \in Slots, NEW f \in Shapes,
         slot # "audio" => f.filename \notin Cids
  PROVE  LET t == FileInto(r, slot, f)
         IN  /\ t \in Pars /\ t.duration = r.duration
             /\ \A o \in Slots : o # slot => t.file[o] = r.file[o]
             /\ r.file[slot] = NoFile => Shown(t.file[slot]) = Shown(f)
<1> DEFINE g == FileFrom(r.file[slot], slot, FileAtts(f))
           t == FileInto(r, slot, f)
<1>1. CASE f.filename = Empty
  <2>1. t = r
    BY <1>1 DEF FileInto
  <2>2. r.file[slot] = NoFile => Shown(r.file[slot]) = Shown(f)
    BY <1>1, ShapesTyped DEF Shown
  <2>. QED BY <2>1, <2>2
<1>2. CASE f.filename # Empty
  <2>1. r.file[slot] \in Shapes /\ (slot # "audio" => r.file[slot].filename \notin Cids)
    BY ParFile
  <2>2. g \in Shapes /\ (slot # "audio" => g.filename \notin Cids)
    <3>1. FileAtts(f) \in Seq(Tokens) /\ Len(FileAtts(f)) \notin Visits(FileAtts(f), FileKeys)
      <4>1. /\ FileAtts(f) \in Seq(Tokens) /\ Len(FileAtts(f)) = 4
            /\ Visits(FileAtts(f), FileKeys) = {1, 3}
        BY FileAttsAre
      <4>. QED BY <4>1
    <3>. QED BY <2>1, <3>1, FileFromTyped
  <2>3. g.filename = f.filename /\ g.region = f.region
    BY <1>2, <2>1, FileSame
  <2>. HIDE DEF g
  <2>4. t = [r EXCEPT !.file[slot] = g]
    BY <1>2 DEF FileInto, g
  <2>5. Shown(g) = Shown(f)
    BY <2>3 DEF Shown
  <2>. HIDE DEF t
  <2>6. /\ t \in Pars /\ t.duration = r.duration /\ t.file[slot] = g
        /\ \A o \in Slots : o # slot => t.file[o] = r.file[o]
    BY <2>2, <2>4, ParFileSet
  <2>. QED BY <2>5, <2>6 DEF t
<1>. QED BY <1>1, <1>2

LEMMA LastReplaced ==
  ASSUME NEW S, NEW q \in Seq(S), NEW r \in S, NEW t \in S
  PROVE  /\ Append(q, r) # <<>> /\ Append(q, r)[Len(Append(q, r))] = r
         /\ [Append(q, r) EXCEPT ![Len(Append(q, r))] = t] = Append(q, t)
<1> DEFINE a == Append(q, r)
           b == Append(q, t)
           c == [a EXCEPT ![Len(a)] = t]
<1>1. /\ a \in Seq(S) /\ Len(a) = Len(q) + 1 /\ DOMAIN a = 1 .. Len(q) + 1 /\ Len(q) \in Nat
      /\ \A i \in 1 .. Len(q) + 1 : a[i] = IF i = Len(q) + 1 THEN r ELSE q[i]
  BY SeqAppend
<1>2. /\ b \in Seq(S) /\ Len(b) = Len(q) + 1 /\ DOMAIN b = 1 .. Len(q) + 1
      /\ \A i \in 1 .. Len(q) + 1 : b[i] = IF i = Len(q) + 1 THEN t ELSE q[i]
  BY SeqAppend
<1>. HIDE DEF a, b
<1>3. a # <<>> /\ a[Len(a)] = r /\ Len(a) \in 1 .. Len(a)
  BY <1>1
<1>4. /\ c \in Seq(S) /\ Len(c) = Len(q) + 1
      /\ \A i \in 1 .. Len(q) + 1 : c[i] = IF i = Len(q) + 1 THEN t ELSE a[i]
  BY <1>1, <1>3, SeqExcept
<1>. HIDE DEF c
<1>5. \A i \in 1 .. Len(q) + 1 : c[i] = b[i]
  BY <1>1, <1>2, <1>4
<1>6. c = b
  BY <1>2, <1>4, <1>5
<1>. QED BY <1>3, <1>6 DEF a, b, c

LEMMA FileRead ==
  ASSUME NEW u, Good(u), NEW q \in Seq(Pars), NEW r \in Pars, u.pars = Append(q, r),
         NEW slot \in Slots, NEW f \in Shapes, slot # "audio" => f.filename \notin Cids
  PROVE  LET t == Unpacked(u, FileToXml(slot, f))
         IN  /\ Good(t) /\ t.title = u.title /\ t.regions = u.regions
             /\ t.pars = Append(q, FileInto(r, slot, f))
             /\ FileToXml(slot, f) \in Seq(Writable)
<1> DEFINE t == Unpacked(u, FileToXml(slot, f))
<1>1. CASE f.filename = Empty
  <2>1. FileToXml(slot, f) = <<>> /\ FileInto(r, slot, f) = r
    BY <1>1 DEF FileToXml, FileInto
  <2>2. t = u
    BY <2>1, UnpackedNothing
  <2>. QED BY <2>1, <2>2
<1>2. CASE f.filename # Empty
  <2> DEFINE e == Element(slot, FileAtts(f))
             g == FileFrom(r.file[slot], slot, FileAtts(f))
             p == FileInto(r, slot, f)
             last == u.pars[Len(u.pars)]
  <2>1. FileToXml(slot, f) = <<e>>
    BY <1>2 DEF FileToXml, FileAtts
  <2>2. e \in Writable /\ OnStart(u, e) = OnFile(u, slot, FileAtts(f))
    BY FileElementRead DEF Writable
  <2>3. p \in Pars
    BY FileIntoIs
  <2>4. u.pars # <<>> /\ last = r /\ [u.pars EXCEPT ![Len(u.pars)] = p] = Append(q, p)
    <3>. HIDE DEF p
    <3>. QED BY <2>3, LastReplaced
  <2>5. p = [r EXCEPT !.file[slot] = g]
    BY <1>2 DEF FileInto
  <2>6. g \in Shapes /\ (slot # "audio" => g.filename \notin Cids)
    <3>1. FileAtts(f) \in Seq(Tokens) /\ Len(FileAtts(f)) \notin Visits(FileAtts(f), FileKeys)
      <4>1. /\ FileAtts(f) \in Seq(Tokens) /\ Len(FileAtts(f)) = 4
            /\ Visits(FileAtts(f), FileKeys) = {1, 3}
        BY FileAttsAre
      <4>. QED BY <4>1
    <3>2. r.file[slot] \in Shapes /\ (slot # "audio" => r.file[slot].filename \notin Cids)
      BY ParFile
    <3>. QED BY <3>1, <3>2, FileFromTyped
  <2>7. OnFile(u, slot, FileAtts(f)) = [u EXCEPT !.pars[Len(u.pars)].file[slot] = g]
    BY <2>4 DEF OnFile
  <2>. HIDE DEF g, p, e, t
  <2> DEFINE v == [u EXCEPT !.pars[Len(u.pars)].file[slot] = g]
  <2>8. /\ Good(v) /\ v.title = u.title /\ v.regions = u.regions
        /\ v.pars = [u.pars EXCEPT ![Len(u.pars)] = [last EXCEPT !.file[slot] = g]]
    <3>1. u.pars # <<>>
      BY <2>4
    <3>. HIDE DEF v
    <3>2. g \in Shapes /\ (slot # "audio" => g.filename \notin Cids)
      BY <2>6
    <3>3. PICK w : w = [last EXCEPT !.file[slot] = g]
      OBVIOUS
    <3>4. v = [u EXCEPT !.pars[Len(u.pars)].file[slot] = g]
      BY DEF v
    <3>5. Good(v)
      BY <3>1, <3>2, <3>3, <3>4, LastParSet
    <3>6. v.title = u.title /\ v.regions = u.regions
      BY <3>1, <3>2, <3>3, <3>4, LastParSet
    <3>7. v.pars = [u.pars EXCEPT ![Len(u.pars)] = w]
      BY <3>1, <3>2, <3>3, <3>4, LastParSet
    <3>. QED BY <3>3, <3>5, <3>6, <3>7
  <2>. HIDE DEF v
  <2>9. t = v
    BY <2>1, <2>2, <2>7, UnpackedOne DEF t, v
  <2>10. v.pars = Append(q, p)
    BY <2>4, <2>5, <2>8
  <2>11. <<e>> \in Seq(Writable)
    BY <2>2
  <2>. QED BY <2>1, <2>8, <2>9, <2>10, <2>11 DEF t, p
<1>. QED BY <1>1, <1>2

(* A par after it is written and read: the cids are gone.                   *)
ParInto(p) ==
  FileInto(FileInto(FileInto(NewPar(p.duration), "img", p.file["img"]), "audio", p.file["audio"]),
           "text", p.file["text"])

LEMMA SlotsAre ==
  "img" \in Slots /\ "audio" \in Slots /\ "text" \in Slots
BY DEF Slots

LEMMA ParIntoIs ==
  ASSUME NEW p \in Pars
  PROVE  ParInto(p) \in Pars /\ SlideOf(ParInto(p)) = SlideOf(p)
<1> DEFINE r0 == NewPar(p.duration)
           r1 == FileInto(r0, "img", p.file["img"])
           r2 == FileInto(r1, "audio", p.file["audio"])
           r3 == FileInto(r2, "text", p.file["text"])
<1>1. /\ p.duration \in Nat /\ p.file["img"] \in Shapes /\ p.file["audio"] \in Shapes
      /\ p.file["text"] \in Shapes /\ p.file["img"].filename \notin Cids
      /\ p.file["text"].filename \notin Cids
  BY ParFile, SlotsAre
<1>2. r0 \in Pars /\ r0.duration = p.duration /\ \A o \in Slots : r0.file[o] = NoFile
  BY <1>1, NewParTyped
<1>. HIDE DEF r0
<1>3. /\ r1 \in Pars /\ r1.duration = p.duration /\ r1.file["audio"] = NoFile
      /\ r1.file["text"] = NoFile /\ Shown(r1.file["img"]) = Shown(p.file["img"])
  <2>1. r1 \in Pars /\ r1.duration = p.duration
    BY <1>1, <1>2, FileIntoIs, SlotsAre
  <2>2. \A o \in Slots : o # "img" => r1.file[o] = r0.file[o]
    BY <1>1, <1>2, FileIntoIs, SlotsAre
  <2>3. Shown(r1.file["img"]) = Shown(p.file["img"])
    BY <1>1, <1>2, FileIntoIs, SlotsAre
  <2>. HIDE DEF r1
  <2>. QED BY <1>2, <2>1, <2>2, <2>3, SlotsAre
<1>. HIDE DEF r1
<1>4. /\ r2 \in Pars /\ r2.duration = p.duration /\ r2.file["text"] = NoFile
      /\ Shown(r2.file["img"]) = Shown(p.file["img"])
      /\ Shown(r2.file["audio"]) = Shown(p.file["audio"])
  <2>1. r2 \in Pars /\ r2.duration = p.duration
    BY <1>1, <1>3, FileIntoIs, SlotsAre
  <2>2. \A o \in Slots : o # "audio" => r2.file[o] = r1.file[o]
    BY <1>1, <1>3, FileIntoIs, SlotsAre
  <2>3. Shown(r2.file["audio"]) = Shown(p.file["audio"])
    BY <1>1, <1>3, FileIntoIs, SlotsAre
  <2>. HIDE DEF r2
  <2>. QED BY <1>3, <2>1, <2>2, <2>3, SlotsAre
<1>. HIDE DEF r2
<1>5. /\ r3 \in Pars /\ r3.duration = p.duration
      /\ Shown(r3.file["img"]) = Shown(p.file["img"])
      /\ Shown(r3.file["audio"]) = Shown(p.file["audio"])
      /\ Shown(r3.file["text"]) = Shown(p.file["text"])
  <2>1. r3 \in Pars /\ r3.duration = p.duration
    BY <1>1, <1>4, FileIntoIs, SlotsAre
  <2>2. \A o \in Slots : o # "text" => r3.file[o] = r2.file[o]
    BY <1>1, <1>4, FileIntoIs, SlotsAre
  <2>3. Shown(r3.file["text"]) = Shown(p.file["text"])
    BY <1>1, <1>4, FileIntoIs, SlotsAre
  <2>. HIDE DEF r3
  <2>. QED BY <1>4, <2>1, <2>2, <2>3, SlotsAre
<1>. HIDE DEF r3
<1>6. [slot \in Slots |-> Shown(r3.file[slot])] = [slot \in Slots |-> Shown(p.file[slot])]
  BY <1>5 DEF Slots
<1>7. ParInto(p) = r3
  BY DEF ParInto, r0, r1, r2, r3
<1>8. SlideOf(r3) = SlideOf(p)
  BY <1>5, <1>6, SlideIs
<1>. QED BY <1>5, <1>7, <1>8

LEMMA ParRead ==
  ASSUME NEW u, Good(u), NEW p \in Pars
  PROVE  LET t == Unpacked(u, ParToXml(p))
         IN  /\ Good(t) /\ t.title = u.title /\ t.regions = u.regions
             /\ t.pars = Append(u.pars, ParInto(p))
             /\ ParToXml(p) \in Seq(Writable)
<1> DEFINE q == u.pars
           e == Element("par", <<Text("dur"), Number(p.duration)>>)
           x1 == FileToXml("img", p.file["img"])
           x2 == FileToXml("audio", p.file["audio"])
           x3 == FileToXml("text", p.file["text"])
           r0 == NewPar(p.duration)
           r1 == FileInto(r0, "img", p.file["img"])
           r2 == FileInto(r1, "audio", p.file["audio"])
           r3 == FileInto(r2, "text", p.file["text"])
           u0 == Unpacked(u, <<e>>)
           u1 == Unpacked(u0, x1)
           u2 == Unpacked(u1, x2)
           u3 == Unpacked(u2, x3)
<1>1. /\ p.duration \in Nat /\ p.file["img"] \in Shapes /\ p.file["audio"] \in Shapes
      /\ p.file["text"] \in Shapes /\ p.file["img"].filename \notin Cids
      /\ p.file["text"].filename \notin Cids
  BY ParFile, SlotsAre
<1>2. q \in Seq(Pars)
  BY DEF Good, Smils
<1>3. r0 \in Pars
  BY <1>1, NewParTyped
<1>4. r1 \in Pars
  BY <1>1, <1>3, FileIntoIs, SlotsAre
<1>5. r2 \in Pars
  BY <1>1, <1>4, FileIntoIs, SlotsAre
<1>6. r3 = ParInto(p)
  BY DEF ParInto
<1>7. e \in Writable /\ OnStart(u, e) = [u EXCEPT !.pars = Append(q, r0)]
  BY <1>1, ParElementRead DEF Writable
<1>8. ParToXml(p) = <<e>> \o x1 \o x2 \o x3
  BY DEF ParToXml
<1>. HIDE DEF r0, r1, r2, r3, e, q, x1, x2, x3
<1>9. Good(u0) /\ u0.title = u.title /\ u0.regions = u.regions /\ u0.pars = Append(q, r0)
  <2> DEFINE v == [u EXCEPT !.pars = Append(q, r0)]
  <2>1. Append(q, r0) \in Seq(Pars)
    BY <1>2, <1>3
  <2>2. Good(v) /\ v.title = u.title /\ v.regions = u.regions /\ v.pars = Append(q, r0)
    BY <2>1, ParsSet
  <2>3. u0 = v
    BY <1>7, UnpackedOne
  <2>. QED BY <2>2, <2>3
<1>. HIDE DEF u0
<1>10. /\ Good(u1) /\ u1.title = u.title /\ u1.regions = u.regions /\ u1.pars = Append(q, r1)
       /\ x1 \in Seq(Writable)
  BY <1>1, <1>2, <1>3, <1>9, FileRead, SlotsAre DEF x1, r1
<1>. HIDE DEF u1
<1>11. /\ Good(u2) /\ u2.title = u.title /\ u2.regions = u.regions /\ u2.pars = Append(q, r2)
       /\ x2 \in Seq(Writable)
  BY <1>1, <1>2, <1>4, <1>10, FileRead, SlotsAre DEF x2, r2
<1>. HIDE DEF u2
<1>12. /\ Good(u3) /\ u3.title = u.title /\ u3.regions = u.regions /\ u3.pars = Append(q, r3)
       /\ x3 \in Seq(Writable)
  BY <1>1, <1>2, <1>5, <1>11, FileRead, SlotsAre DEF x3, r3
<1>. HIDE DEF u3
<1>13. <<e>> \in Seq(Writable) /\ <<e>> \o x1 \in Seq(Writable) /\ (<<e>> \o x1) \o x2 \in Seq(Writable)
  BY <1>7, <1>10, <1>11
<1>14. Unpacked(u, (<<e>> \o x1 \o x2) \o x3) = u3
  <2> DEFINE y0 == <<e>>
             y1 == y0 \o x1
             y2 == y1 \o x2
  <2>0. y0 \in Seq(Writable) /\ y1 \in Seq(Writable) /\ y2 \in Seq(Writable)
    BY <1>13
  <2>. HIDE DEF y0
  <2>1. Unpacked(u, y1) = Unpacked(Unpacked(u, y0), x1)
    BY <1>10, <2>0, ElementsJoined
  <2>. HIDE DEF y1
  <2>2. Unpacked(u, y2) = Unpacked(Unpacked(u, y1), x2)
    BY <1>11, <2>0, ElementsJoined
  <2>. HIDE DEF y2
  <2>3. Unpacked(u, y2 \o x3) = Unpacked(Unpacked(u, y2), x3)
    BY <1>12, <2>0, ElementsJoined
  <2>. QED BY <2>1, <2>2, <2>3 DEF u0, u1, u2, u3, y0, y1, y2
<1>15. <<e>> \o x1 \o x2 \o x3 \in Seq(Writable)
  BY <1>12, <1>13
<1>. QED BY <1>6, <1>8, <1>12, <1>14, <1>15 DEF q

(* Where a name is after the regions of q were added to u.                  *)
Added(q, k, u, t) ==
  /\ Good(t) /\ t.title = u.title /\ t.pars = u.pars
  /\ \A n \in Folded :
       /\ \A i \in 1 .. k : Fold[q[i].name] = n => RegionsOf(t)[n] = q[i].box
       /\ (\A i \in 1 .. k : Fold[q[i].name] # n) => RegionsOf(t)[n] = RegionsOf(u)[n]

LEMMA RegionsRead ==
  ASSUME NEW u, Good(u), NEW q \in Seq(Regions),
         \A i, j \in DOMAIN q : Fold[q[i].name] = Fold[q[j].name] => i = j
  PROVE  LET x == [i \in DOMAIN q |-> RegionToXml(q[i])]
         IN  x \in Seq(Writable) /\ Added(q, Len(q), u, Unpacked(u, x))
<1> DEFINE x == [i \in DOMAIN q |-> RegionToXml(q[i])]
           m == Len(q)
<1>1. m \in Nat /\ DOMAIN q = 1 .. m /\ \A i \in 1 .. m : q[i] \in Regions
  BY SeqIs
<1>2. x \in Seq(Writable) /\ Len(x) = m /\ \A i \in 1 .. m : x[i] = RegionToXml(q[i])
  <2>1. \A i \in 1 .. m : RegionToXml(q[i]) \in Writable
    BY <1>1, RegionRead DEF Writable
  <2>2. x = [i \in 1 .. m |-> RegionToXml(q[i])]
    BY <1>1
  <2>. HIDE DEF x, m
  <2>. QED BY <1>1, <2>1, <2>2
<1>. HIDE DEF x
<1>3. PICK g : IsReading(u, x, g, m) /\ Unpacked(u, x) = g[m]
  BY <1>1, <1>2, UnpackedIs
<1>. HIDE DEF m
<1>. DEFINE T == {k \in 0 .. m : ~ Added(q, k, u, g[k])}
<1>4. SUFFICES ASSUME T # {} PROVE FALSE
  BY <1>1, <1>2, <1>3 DEF m, x
<1>5. PICK k \in T : \A j \in T : k <= j
  <2>1. T \subseteq Nat
    BY <1>1
  <2>. HIDE DEF T
  <2>. QED BY <1>4, <2>1, LeastOf
<1>6. k \in 0 .. m /\ ~ Added(q, k, u, g[k])
  OBVIOUS
<1>7. k # 0
  <2>1. g[0] = u
    BY <1>1, <1>3 DEF IsReading
  <2>2. Added(q, 0, u, u)
    BY DEF Added
  <2>. QED BY <1>6, <2>1, <2>2
<1>8. k - 1 \in 0 .. m /\ ~ (k <= k - 1) /\ k \in 1 .. m /\ \A i \in 1 .. k : i = k \/ i \in 1 .. k - 1
  BY <1>1, <1>6, <1>7
<1> DEFINE s == g[k - 1]
           t == g[k]
           r == q[k]
<1>9. Added(q, k - 1, u, s)
  BY <1>5, <1>8
<1>10. t = AddRegion(s, r.name, r.box)
  <2>1. t = OnStart(s, x[k])
    BY <1>3, <1>6, <1>7 DEF IsReading
  <2>2. x[k] = RegionToXml(r) /\ r \in Regions
    BY <1>1, <1>2, <1>8
  <2>. HIDE DEF r, s, t
  <2>3. OnStart(s, RegionToXml(r)) = AddRegion(s, r.name, r.box)
    BY <2>2, RegionRead
  <2>. QED BY <2>1, <2>2, <2>3
<1>11. r.name \in STRING /\ r.box \in Layouts
  BY <1>1, <1>8 DEF Regions
<1>12. \A i \in 1 .. k - 1 : Fold[q[i].name] # Fold[r.name]
  <2>. SUFFICES ASSUME NEW i \in 1 .. k - 1, Fold[q[i].name] = Fold[q[k].name] PROVE FALSE
    OBVIOUS
  <2>1. i \in 1 .. m /\ i # k
    BY <1>1, <1>6
  <2>. QED BY <1>1, <1>8, <2>1
<1>. HIDE DEF s, t
<1>13. /\ Good(t) /\ t.title = s.title /\ t.pars = s.pars
       /\ \A n \in Folded : RegionsOf(t)[n] = IF Fold[r.name] = n THEN r.box ELSE RegionsOf(s)[n]
  <2>1. Good(s)
    BY <1>9 DEF Added
  <2>. HIDE DEF r
  <2>2. PICK name \in STRING, box \in Layouts : name = r.name /\ box = r.box
    BY <1>11
  <2> DEFINE v == AddRegion(s, name, box)
  <2>3. /\ Good(v) /\ v.title = s.title /\ v.pars = s.pars
        /\ \A n \in Folded : RegionsOf(v)[n] = IF Fold[name] = n THEN box ELSE RegionsOf(s)[n]
    BY <2>1, AddRegionIs
  <2>. QED BY <1>10, <2>2, <2>3
<1>14. Added(q, k, u, t)
  <2>1. Good(t) /\ t.title = u.title /\ t.pars = u.pars
    BY <1>9, <1>13 DEF Added
  <2>2. ASSUME NEW n \in Folded, NEW i \in 1 .. k, Fold[q[i].name] = n
        PROVE  RegionsOf(t)[n] = q[i].box
    <3>1. CASE i = k
      BY <1>13, <2>2, <3>1
    <3>2. CASE i # k
      <4>1. i \in 1 .. k - 1 /\ n # Fold[r.name]
        BY <1>8, <1>12, <2>2, <3>2
      <4>2. RegionsOf(s)[n] = q[i].box
        BY <1>9, <2>2, <4>1 DEF Added
      <4>. QED BY <1>13, <4>1, <4>2
    <3>. QED BY <3>1, <3>2
  <2>3. ASSUME NEW n \in Folded, \A i \in 1 .. k : Fold[q[i].name] # n
        PROVE  RegionsOf(t)[n] = RegionsOf(u)[n]
    <3>1. Fold[r.name] # n /\ \A i \in 1 .. k - 1 : Fold[q[i].name] # n
      <4>1. k \in 1 .. k /\ 1 .. k - 1 \subseteq 1 .. k
        BY <1>8
      <4>. QED BY <2>3, <4>1
    <3>2. RegionsOf(s)[n] = RegionsOf(u)[n]
      BY <1>9, <3>1 DEF Added
    <3>. QED BY <1>13, <3>1, <3>2
  <2>. QED BY <2>1, <2>2, <2>3 DEF Added
<1>. QED BY <1>6, <1>14 DEF t

(* u after the pars up to the k-th of ps were read.                          *)
ParsAdded(ps, k, u, t) ==
  /\ Good(t) /\ t.title = u.title /\ t.regions = u.regions
  /\ Len(t.pars) = Len(u.pars) + k
  /\ \A i \in 1 .. Len(u.pars) : t.pars[i] = u.pars[i]
  /\ \A i \in 1 .. k : SlideOf(t.pars[Len(u.pars) + i]) = SlideOf(ps[i])

LEMMA OneParAdded ==
  ASSUME NEW ps \in Seq(Pars), NEW k \in 1 .. Len(ps), NEW u, Good(u), NEW s,
         ParsAdded(ps, k - 1, u, s)
  PROVE  ParsAdded(ps, k, u, Unpacked(s, ParToXml(ps[k])))
<1> DEFINE t == Unpacked(s, ParToXml(ps[k]))
           c == Len(u.pars)
           q == s.pars
           r == ParInto(ps[k])
<1>1. Good(s) /\ s.title = u.title /\ s.regions = u.regions
  BY DEF ParsAdded
<1>2. ps[k] \in Pars /\ k \in Int /\ k >= 1
  BY SeqIs
<1>3. q \in Seq(Pars) /\ c \in Nat
  BY <1>1 DEF Good, Smils
<1>4. r \in Pars /\ SlideOf(r) = SlideOf(ps[k])
  BY <1>2, ParIntoIs
<1>5. Good(t) /\ t.title = s.title /\ t.regions = s.regions /\ t.pars = Append(q, r)
  BY <1>1, <1>2, ParRead
<1>6. Len(q) = c + (k - 1) /\ \A i \in 1 .. c : q[i] = u.pars[i]
  BY DEF ParsAdded
<1>7. \A i \in 1 .. k - 1 : SlideOf(q[c + i]) = SlideOf(ps[i])
  BY DEF ParsAdded
<1>. HIDE DEF t, r, q
<1>8. /\ Len(t.pars) = Len(q) + 1
      /\ \A i \in 1 .. Len(q) + 1 : t.pars[i] = IF i = Len(q) + 1 THEN r ELSE q[i]
  BY <1>3, <1>4, <1>5, SeqAppend
<1>. HIDE DEF c
<1>9. Len(q) + 1 = c + k
  BY <1>2, <1>3, <1>6
<1>10. \A i \in 1 .. c : t.pars[i] = u.pars[i]
  BY <1>2, <1>3, <1>6, <1>8, <1>9
<1>11. ASSUME NEW i \in 1 .. k PROVE SlideOf(t.pars[c + i]) = SlideOf(ps[i])
  <2>1. CASE i = k
    <3>1. c + k \in 1 .. Len(q) + 1
      BY <1>2, <1>3, <1>9
    <3>2. t.pars[c + k] = r
      BY <1>8, <1>9, <3>1
    <3>. QED BY <1>4, <2>1, <3>2
  <2>2. CASE i # k
    <3>1. i \in 1 .. k - 1 /\ c + i \in 1 .. Len(q) + 1 /\ c + i # Len(q) + 1
      BY <1>2, <1>3, <1>9, <2>2
    <3>2. t.pars[c + i] = q[c + i]
      BY <1>8, <3>1
    <3>. QED BY <1>7, <3>1, <3>2
  <2>. QED BY <2>1, <2>2
<1>. QED BY <1>1, <1>5, <1>8, <1>9, <1>10, <1>11 DEF ParsAdded, t, c

LEMMA ParsRead ==
  ASSUME NEW u, Good(u), NEW ps \in Seq(Pars)
  PROVE  LET x == FlattenSeq([i \in DOMAIN ps |-> ParToXml(ps[i])])
         IN  x \in Seq(Writable) /\ ParsAdded(ps, Len(ps), u, Unpacked(u, x))
<1> DEFINE p == [i \in DOMAIN ps |-> ParToXml(ps[i])]
           x == FlattenSeq(p)
           n == Len(ps)
<1>1. n \in Nat /\ DOMAIN ps = 1 .. n /\ \A i \in 1 .. n : ps[i] \in Pars
  BY SeqIs
<1>2. Len(p) = n /\ \A i \in 1 .. n : p[i] = ParToXml(ps[i]) /\ p[i] \in Seq(Writable)
  <2>1. \A i \in 1 .. n : ParToXml(ps[i]) \in Seq(Writable)
    BY <1>1, ParRead
  <2>2. p = [i \in 1 .. n |-> ParToXml(ps[i])]
    BY <1>1
  <2>3. p \in Seq(Seq(Writable)) /\ Len(p) = n
    <3>. HIDE DEF p, n
    <3>. QED BY <1>1, <2>1, <2>2
  <2>. QED BY <1>1, <2>1, <2>2, <2>3
<1>3. ParsAdded(ps, 0, u, u)
  <2>1. Len(u.pars) \in Nat
    BY DEF Good, Smils
  <2>. QED BY <2>1 DEF ParsAdded
<1>. HIDE DEF p
<1>4. CASE n = 0
  <2>1. x = <<>>
    <3>1. p = <<>>
      BY <1>1, <1>4 DEF p
    <3>2. Len(<<>>) = 0
      OBVIOUS
    <3>. QED BY <3>1, <3>2 DEF FlattenSeq
  <2>2. <<>> \in Seq(Writable)
    OBVIOUS
  <2>3. Unpacked(u, x) = u
    BY <2>1, UnpackedNothing
  <2>. HIDE DEF x
  <2>. QED BY <1>3, <1>4, <2>1, <2>2, <2>3 DEF x, p
<1>5. CASE n # 0
  <2>1. PICK f : IsFlattening(p, f, n) /\ x = f[n]
    BY <1>1, <1>2, <1>5, FlattenedIs
  <2>. HIDE DEF x, n
  <2>. DEFINE Ok(k) == f[k] \in Seq(Writable) /\ ParsAdded(ps, k, u, Unpacked(u, f[k]))
              T == {k \in 1 .. n : ~ Ok(k)}
  <2>2. SUFFICES ASSUME T # {} PROVE FALSE
    <3>1. n \in 1 .. n
      BY <1>1, <1>5
    <3>2. Ok(n)
      BY <3>1
    <3>. QED BY <2>1, <3>2 DEF n, x, p
  <2>3. PICK k \in T : \A j \in T : k <= j
    <3>1. T \subseteq Nat
      BY <1>1
    <3>. HIDE DEF T
    <3>. QED BY <2>2, <3>1, LeastOf
  <2>4. k \in 1 .. n /\ ~ Ok(k)
    OBVIOUS
  <2>5. k \in 1 .. Len(ps)
    BY <2>4 DEF n
  <2>6. CASE k = 1
    <3>1. f[1] = ParToXml(ps[1]) /\ f[1] \in Seq(Writable)
      BY <1>2, <2>1, <2>4, <2>6 DEF IsFlattening
    <3>2. ParsAdded(ps, 1, u, Unpacked(u, ParToXml(ps[1])))
      <4>1. 1 - 1 = 0
        OBVIOUS
      <4>. QED BY <1>3, <2>5, <2>6, <4>1, OneParAdded
    <3>. QED BY <2>4, <2>6, <3>1, <3>2
  <2>7. CASE k # 1
    <3>1. k - 1 \in 1 .. n /\ ~ (k <= k - 1)
      BY <1>1, <2>4, <2>7
    <3>2. Ok(k - 1)
      BY <2>3, <3>1
    <3>3. f[k] = f[k - 1] \o p[k]
      BY <2>1, <2>4, <2>7 DEF IsFlattening
    <3>4. p[k] = ParToXml(ps[k]) /\ p[k] \in Seq(Writable)
      BY <1>2, <2>4
    <3>5. f[k] \in Seq(Writable)
      BY <3>2, <3>3, <3>4
    <3>6. Unpacked(u, f[k]) = Unpacked(Unpacked(u, f[k - 1]), p[k])
      BY <3>2, <3>3, <3>4, ElementsJoined
    <3>7. ParsAdded(ps, k, u, Unpacked(Unpacked(u, f[k - 1]), ParToXml(ps[k])))
      BY <2>5, <3>2, OneParAdded
    <3>. QED BY <2>4, <3>4, <3>5, <3>6, <3>7
  <2>. QED BY <2>6, <2>7
<1>. QED BY <1>4, <1>5

SlideSet == [duration: Nat, shown: [Slots -> [file: STRING, region: STRING]]]

LEMMA SlidesAre ==
  ASSUME NEW s, Good(s)
  PROVE  /\ SlidesOf(s) \in Seq(SlideSet) /\ Len(SlidesOf(s)) = Len(s.pars)
         /\ Len(s.pars) \in Nat /\ DOMAIN s.pars = 1 .. Len(s.pars)
         /\ \A i \in 1 .. Len(s.pars) : SlidesOf(s)[i] = SlideOf(s.pars[i])
<1> DEFINE q == s.pars
           x == SlidesOf(s)
<1>1. q \in Seq(Pars)
  BY DEF Good, Smils
<1>2. Len(q) \in Nat /\ DOMAIN q = 1 .. Len(q) /\ \A i \in 1 .. Len(q) : q[i] \in Pars
  BY <1>1, SeqIs
<1>3. x = [i \in 1 .. Len(q) |-> SlideOf(q[i])]
  BY <1>2 DEF SlidesOf
<1>4. ASSUME NEW p \in Pars PROVE SlideOf(p) \in SlideSet
  <2>1. p.duration \in Nat
    BY SlotsAre, ParFile
  <2>2. \A slot \in Slots : Shown(p.file[slot]) \in [file: STRING, region: STRING]
    <3>. SUFFICES ASSUME NEW slot \in Slots
                  PROVE  Shown(p.file[slot]) \in [file: STRING, region: STRING]
      OBVIOUS
    <3>1. p.file[slot].filename \in STRING /\ p.file[slot].region \in STRING
      BY ParFile DEF Shapes
    <3>. QED BY <3>1, TokensTyped DEF Shown, NotShown
  <2> DEFINE shown == [slot \in Slots |-> Shown(p.file[slot])]
  <2>3. shown \in [Slots -> [file: STRING, region: STRING]]
    BY <2>2
  <2>4. SlideOf(p) = [duration |-> p.duration, shown |-> shown]
    BY SlideIs
  <2>. HIDE DEF shown
  <2>. QED BY <2>1, <2>3, <2>4 DEF SlideSet
<1>5. \A i \in 1 .. Len(q) : SlideOf(q[i]) \in SlideSet
  BY <1>2, <1>4
<1>. HIDE DEF q, x
<1>6. x \in Seq(SlideSet) /\ Len(x) = Len(q) /\ \A i \in 1 .. Len(q) : x[i] = SlideOf(q[i])
  BY <1>2, <1>3, <1>5
<1>. QED BY <1>2, <1>6 DEF q, x

LEMMA RegionsOfSame ==
  ASSUME NEW s, NEW t, t.regions = s.regions
  PROVE  RegionsOf(t) = RegionsOf(s)
BY DEF RegionsOf

LEMMA RegionsOfIs ==
  ASSUME NEW s
  PROVE  RegionsOf(s) = [n \in Folded |-> RegionsOf(s)[n]]
<1>1. \E f : RegionsOf(s) = [n \in Folded |-> f[n]]
  <2> DEFINE f == RegionsOf(s)
  <2>1. RegionsOf(s) = [n \in Folded |-> f[n]]
    BY DEF RegionsOf, Folded
  <2>. HIDE DEF f
  <2>. QED BY <2>1
<1>. QED BY <1>1

LEMMA SlidesOfSame ==
  ASSUME NEW s, NEW t, t.pars = s.pars
  PROVE  SlidesOf(t) = SlidesOf(s)
BY DEF SlidesOf

(* A document holds elements that can be read, but for the root layout of a *)
(* title that is the name of one of its attributes.                         *)
LEMMA DumpXmlTyped ==
  ASSUME NEW s, Good(s)
  PROVE  /\ DumpXml(s) \in Seq(Writable) /\ Len(DumpXml(s)) \in Nat
         /\ 2 \in DOMAIN DumpXml(s) /\ DumpXml(s)[2] = RootLayout(s)
<1> DEFINE meta == Element("meta", <<Text("name"), Text("title"), Text("content"), Text(s.title)>>)
           root == RootLayout(s)
           x == [i \in DOMAIN s.regions |-> RegionToXml(s.regions[i])]
           y == FlattenSeq([i \in DOMAIN s.pars |-> ParToXml(s.pars[i])])
           h == <<meta, root>>
<1>1. s \in Smils /\ s.title \in STRING /\ s.regions \in Seq(Regions) /\ s.pars \in Seq(Pars)
  BY DEF Good, Smils
<1>2. meta \in Writable
  BY <1>1, MetaRead DEF Writable
<1>3. root \in Writable
  <2>1. root \in Elements /\ root.el = "root-layout"
    BY <1>1, RootLayoutRead
  <2>. HIDE DEF root
  <2>2. ReadsPast(root) \/ WellFormed(root)
    BY <2>1 DEF WellFormed
  <2>. QED BY <2>1, <2>2 DEF Writable
<1>4. x \in Seq(Writable)
  <2>1. \A i, j \in DOMAIN s.regions :
          Fold[s.regions[i].name] = Fold[s.regions[j].name] => i = j
    BY DEF Good, OneEach
  <2>. HIDE DEF x
  <2>. QED BY <1>1, <2>1, RegionsRead DEF x
<1>5. y \in Seq(Writable)
  BY <1>1, ParsRead
<1>6. DumpXml(s) = (h \o x) \o y
  BY DEF DumpXml
<1>. HIDE DEF meta, root, x, y
<1>7. h \in Seq(Writable) /\ Len(h) = 2 /\ h[2] = root
  BY <1>2, <1>3
<1>. HIDE DEF h
<1>8. h \o x \in Seq(Writable) /\ Len(h \o x) = 2 + Len(x) /\ (h \o x)[2] = root /\ Len(x) \in Nat
  <2>1. 2 \in 1 .. Len(h)
    BY <1>7
  <2>2. (h \o x)[2] = h[2]
    <3>1. \A i \in 1 .. Len(h) : (h \o x)[i] = h[i]
      <4>. SUFFICES ASSUME NEW i \in 1 .. Len(h) PROVE (h \o x)[i] = h[i]
        OBVIOUS
      <4>. QED BY <1>4, <1>7, JoinedFirst
    <3>. QED BY <2>1, <3>1
  <2>3. h \o x \in Seq(Writable) /\ Len(h \o x) = Len(h) + Len(x)
    BY <1>4, <1>7, JoinedLen
  <2>4. Len(x) \in Nat
    BY <1>4
  <2>. QED BY <1>7, <2>2, <2>3, <2>4
<1> DEFINE d == (h \o x) \o y
<1>9. /\ d \in Seq(Writable) /\ Len(d) = 2 + Len(x) + Len(y) /\ d[2] = root /\ Len(y) \in Nat
  <2> DEFINE hx == h \o x
  <2>1. 2 \in 1 .. Len(hx)
    BY <1>8
  <2>. HIDE DEF hx
  <2>2. hx \in Seq(Writable) /\ Len(hx) = 2 + Len(x) /\ hx[2] = root
    BY <1>8 DEF hx
  <2>3. hx \o y \in Seq(Writable) /\ Len(hx \o y) = Len(hx) + Len(y) /\ (hx \o y)[2] = hx[2]
    <3>1. (hx \o y)[2] = hx[2]
      BY <1>5, <2>1, <2>2, JoinedFirst
    <3>2. hx \o y \in Seq(Writable) /\ Len(hx \o y) = Len(hx) + Len(y)
      BY <1>5, <2>2, JoinedLen
    <3>. QED BY <2>2, <3>1, <3>2
  <2>4. Len(y) \in Nat
    BY <1>5
  <2>. QED BY <2>2, <2>3, <2>4 DEF hx
<1>. HIDE DEF d
<1>10. Len(d) \in Nat /\ 2 \in DOMAIN d
  BY <1>8, <1>9
<1>. QED BY <1>6, <1>9, <1>10 DEF d, root

(* What was written is read, and added to what is there.                     *)
LEMMA DocumentRead ==
  ASSUME NEW s, Good(s), NEW u, Good(u), ~ Crashes(DumpXml(s))
  PROVE  LET t == Unpacked(u, DumpXml(s))
         IN  /\ Good(t) /\ t.title = s.title
             /\ \A n \in Folded : RegionsOf(t)[n] = IF RegionsOf(s)[n] = Nowhere THEN RegionsOf(u)[n]
                                                    ELSE RegionsOf(s)[n]
             /\ SlidesOf(t) = SlidesOf(u) \o SlidesOf(s)
<1> DEFINE meta == Element("meta", <<Text("name"), Text("title"), Text("content"), Text(s.title)>>)
           root == RootLayout(s)
           x == [i \in DOMAIN s.regions |-> RegionToXml(s.regions[i])]
           y == FlattenSeq([i \in DOMAIN s.pars |-> ParToXml(s.pars[i])])
           v0 == [u EXCEPT !.title = s.title]
           u0 == OnStart(v0, root)
           u1 == Unpacked(u0, x)
           u2 == Unpacked(u1, y)
<1>1. s \in Smils /\ s.title \in STRING /\ s.regions \in Seq(Regions) /\ s.pars \in Seq(Pars) /\ OneEach(s)
  BY DEF Good, Smils
<1>2. Good(v0) /\ v0.title = s.title /\ v0.regions = u.regions /\ v0.pars = u.pars
  BY <1>1, TitleSet
<1>3. ~ ReadsPast(root)
  BY DumpXmlTyped DEF Crashes
<1>4. meta \in Writable /\ root \in Writable /\ OnStart(u, meta) = v0
  <2>1. root \in Elements /\ root.el = "root-layout"
    BY <1>1, RootLayoutRead
  <2>2. meta \in Elements /\ WellFormed(meta) /\ OnStart(u, meta) = v0
    BY <1>1, MetaRead
  <2>. HIDE DEF root, meta, v0
  <2>3. WellFormed(root)
    BY <1>3, <2>1 DEF WellFormed
  <2>. QED BY <2>1, <2>2, <2>3 DEF Writable
<1>5. Good(u0) /\ u0.title = s.title /\ u0.regions = u.regions /\ u0.pars = u.pars
  <2>1. root \in Elements /\ root.el = "root-layout"
    BY <1>1, RootLayoutRead
  <2>. HIDE DEF root, v0
  <2>2. Good(u0) /\ u0.title = v0.title /\ u0.regions = v0.regions /\ u0.pars = v0.pars
    BY <1>2, <1>3, <2>1, ScreenRead
  <2>. QED BY <1>2, <2>2
<1>. HIDE DEF u0
<1>6. x \in Seq(Writable) /\ Added(s.regions, Len(s.regions), u0, u1)
  <2>1. \A i, j \in DOMAIN s.regions :
          Fold[s.regions[i].name] = Fold[s.regions[j].name] => i = j
    BY <1>1 DEF OneEach
  <2>. QED BY <1>1, <1>5, <2>1, RegionsRead
<1>. HIDE DEF x, u1
<1>7. Good(u1) /\ u1.title = s.title /\ u1.pars = u.pars
  BY <1>5, <1>6 DEF Added
<1>8. y \in Seq(Writable) /\ ParsAdded(s.pars, Len(s.pars), u1, u2)
  BY <1>1, <1>7, ParsRead
<1>. HIDE DEF y, u2
<1>9. Unpacked(u, DumpXml(s)) = u2
  <2> DEFINE a == <<meta>>
             b == <<root>>
             c == a \o b
             d == c \o x
  <2>1. DumpXml(s) = d \o y
    <3>1. <<meta, root>> = c
      OBVIOUS
    <3>2. DumpXml(s) = (<<meta, root>> \o x) \o y
      BY DEF DumpXml, x, y
    <3>. HIDE DEF c, meta, root
    <3>. QED BY <3>1, <3>2
  <2>. HIDE DEF meta, root
  <2>2. a \in Seq(Writable) /\ b \in Seq(Writable)
    BY <1>4
  <2>3. Unpacked(u, a) = v0
    BY <1>4, UnpackedOne
  <2>4. Unpacked(v0, b) = u0
    BY UnpackedOne DEF u0
  <2>. HIDE DEF a, b, v0
  <2>5. c \in Seq(Writable)
    BY <2>2
  <2>6. Unpacked(u, c) = Unpacked(v0, b)
    BY <2>2, <2>3, ElementsJoined
  <2>. HIDE DEF c
  <2>7. d \in Seq(Writable)
    BY <1>6, <2>5
  <2>8. Unpacked(u, d) = u1
    BY <1>6, <2>4, <2>5, <2>6, ElementsJoined DEF u1
  <2>. HIDE DEF d
  <2>9. Unpacked(u, d \o y) = Unpacked(Unpacked(u, d), y)
    BY <1>8, <2>7, ElementsJoined
  <2>. QED BY <2>1, <2>8, <2>9 DEF u2
<1>10. Good(u2) /\ u2.title = s.title /\ u2.regions = u1.regions
  BY <1>7, <1>8 DEF ParsAdded
<1>11. ASSUME NEW n \in Folded
       PROVE  RegionsOf(u2)[n] = IF RegionsOf(s)[n] = Nowhere THEN RegionsOf(u)[n] ELSE RegionsOf(s)[n]
  <2>1. RegionsOf(u2) = RegionsOf(u1) /\ RegionsOf(u0) = RegionsOf(u)
    BY <1>5, <1>10, RegionsOfSame
  <2> DEFINE q == s.regions
  <2>2. DOMAIN q = 1 .. Len(q)
    BY <1>1, SeqIs
  <2>3. CASE \E i \in 1 .. Len(q) : Fold[q[i].name] = n
    <3>1. PICK i \in 1 .. Len(q) : Fold[q[i].name] = n
      BY <2>3
    <3>2. RegionsOf(s)[n] = q[i].box
      BY <1>1, <2>2, <3>1, PlaceIs
    <3>3. RegionsOf(u1)[n] = q[i].box
      BY <1>6, <3>1 DEF Added
    <3>4. q[i].box # Nowhere
      <4>1. q[i] \in Regions
        BY <1>1, <3>1, SeqIs
      <4>2. q[i].box \in Layouts
        BY <4>1 DEF Regions
      <4>3. "y" \in DOMAIN q[i].box
        BY <4>2 DEF Layouts
      <4>4. "y" \notin DOMAIN Nowhere
        BY DEF Nowhere
      <4>. QED BY <4>3, <4>4
    <3>. QED BY <2>1, <3>2, <3>3, <3>4
  <2>4. CASE \A i \in 1 .. Len(q) : Fold[q[i].name] # n
    <3>1. RegionsOf(s)[n] = Nowhere
      BY <1>1, <2>2, <2>4, PlaceIs
    <3>2. RegionsOf(u1)[n] = RegionsOf(u0)[n]
      BY <1>6, <2>4 DEF Added
    <3>. QED BY <2>1, <3>1, <3>2
  <2>. QED BY <2>3, <2>4
<1>12. SlidesOf(u2) = SlidesOf(u) \o SlidesOf(s)
  <2> DEFINE a == SlidesOf(u)
             b == SlidesOf(s)
             c == SlidesOf(u2)
             k == Len(u.pars)
             m == Len(s.pars)
  <2>1. a \in Seq(SlideSet) /\ Len(a) = k /\ k \in Nat /\ \A i \in 1 .. k : a[i] = SlideOf(u.pars[i])
    BY SlidesAre
  <2>2. b \in Seq(SlideSet) /\ Len(b) = m /\ m \in Nat /\ \A i \in 1 .. m : b[i] = SlideOf(s.pars[i])
    BY SlidesAre
  <2>3. /\ c \in Seq(SlideSet) /\ Len(c) = Len(u2.pars)
        /\ \A i \in 1 .. Len(u2.pars) : c[i] = SlideOf(u2.pars[i])
    BY <1>10, SlidesAre
  <2>4. /\ Len(u2.pars) = k + m /\ \A i \in 1 .. k : u2.pars[i] = u.pars[i]
        /\ \A i \in 1 .. m : SlideOf(u2.pars[k + i]) = SlideOf(s.pars[i])
    BY <1>7, <1>8 DEF ParsAdded
  <2> DEFINE e == a \o b
  <2>5. /\ e \in Seq(SlideSet) /\ Len(e) = k + m
        /\ \A i \in 1 .. k : e[i] = a[i]
        /\ \A i \in 1 .. m : e[k + i] = b[i]
    <3>. HIDE DEF a, b, k, m
    <3>1. e \in Seq(SlideSet) /\ Len(e) = Len(a) + Len(b)
      BY <2>1, <2>2, JoinedLen
    <3>2. ASSUME NEW i \in 1 .. Len(a) PROVE e[i] = a[i]
      BY <2>1, <2>2, JoinedFirst
    <3>3. ASSUME NEW i \in 1 .. Len(b) PROVE e[Len(a) + i] = b[i]
      BY <2>1, <2>2, JoinedSecond
    <3>. HIDE DEF e
    <3>. QED BY <2>1, <2>2, <3>1, <3>2, <3>3
  <2>. HIDE DEF a, b, c, e, k, m
  <2>6. ASSUME NEW i \in 1 .. k + m PROVE c[i] = e[i]
    <3>1. CASE i <= k
      <4>1. i \in 1 .. k /\ i \in 1 .. Len(u2.pars)
        BY <2>1, <2>4, <3>1
      <4>. QED BY <2>1, <2>3, <2>4, <2>5, <4>1
    <3>2. CASE i > k
      <4>1. i - k \in 1 .. m /\ k + (i - k) = i /\ i \in 1 .. Len(u2.pars)
        BY <2>1, <2>2, <2>4, <3>2
      <4>2. c[i] = SlideOf(u2.pars[k + (i - k)])
        BY <2>3, <4>1
      <4>3. SlideOf(u2.pars[k + (i - k)]) = b[i - k]
        BY <2>2, <2>4, <4>1
      <4>4. e[k + (i - k)] = b[i - k]
        BY <2>5, <4>1
      <4>. QED BY <4>1, <4>2, <4>3, <4>4
    <3>. QED BY <2>1, <3>1, <3>2
  <2>7. c = e
    BY <2>3, <2>4, <2>5, <2>6
  <2>. QED BY <2>7 DEF a, b, c, e
<1>. QED BY <1>9, <1>10, <1>11, <1>12

-----------------------------------------------------------------------------
(* MmsSmil: the invariant.                                                 *)

DocumentInv ==
  \/ document = <<>> /\ written = <<>>
  \/ \E s : Good(s) /\ document = DumpXml(s) /\ written = <<ViewOf(s)>>

SmilInv == Good(smil) /\ DocumentInv

LEMMA NewParAdded ==
  ASSUME NEW s, Good(s), NEW p \in Pars
  PROVE  LET t == [s EXCEPT !.pars = Append(s.pars, p)]
         IN  /\ Good(t) /\ t.title = s.title /\ t.regions = s.regions
             /\ t.pars = Append(s.pars, p)
<1>1. Append(s.pars, p) \in Seq(Pars)
  <2>1. s.pars \in Seq(Pars)
    BY DEF Good, Smils
  <2>. QED BY <2>1, SeqAppend
<1>. QED BY <1>1, ParsSet

LEMMA ParErased ==
  ASSUME NEW s, Good(s), NEW k \in DOMAIN s.pars
  PROVE  LET t == [s EXCEPT !.pars = RemoveAt(s.pars, k)]
         IN  /\ Good(t) /\ t.title = s.title /\ t.regions = s.regions
             /\ t.pars = RemoveAt(s.pars, k)
<1>1. RemoveAt(s.pars, k) \in Seq(Pars)
  <2>1. s.pars \in Seq(Pars)
    BY DEF Good, Smils
  <2>2. k \in 1 .. Len(s.pars)
    BY <2>1
  <2>. QED BY <2>1, <2>2, RemoveAtIs
<1>. QED BY <1>1, ParsSet

LEMMA ParReplaced ==
  ASSUME NEW s, Good(s), NEW k \in DOMAIN s.pars, NEW p \in Pars
  PROVE  LET v == [s.pars EXCEPT ![k] = p]
             t == [s EXCEPT !.pars = v]
         IN  Good(t) /\ t.title = s.title /\ t.regions = s.regions /\ t.pars = v
<1> DEFINE v == [s.pars EXCEPT ![k] = p]
<1>1. v \in Seq(Pars)
  <2>1. s.pars \in Seq(Pars)
    BY DEF Good, Smils
  <2>2. k \in 1 .. Len(s.pars)
    BY <2>1
  <2>. QED BY <2>1, <2>2, SeqExcept
<1>. HIDE DEF v
<1>2. LET t == [s EXCEPT !.pars = v]
      IN  Good(t) /\ t.title = s.title /\ t.regions = s.regions /\ t.pars = v
  BY <1>1, ParsSet
<1>. QED BY <1>2 DEF v

(* What each edit does to the SMIL.                                         *)
LEMMA ParSetDurationIs ==
  ASSUME Good(smil), ParSetDuration
  PROVE  \E k \in DOMAIN smil.pars, p \in Pars :
           smil' = [smil EXCEPT !.pars = [smil.pars EXCEPT ![k] = p]]
<1>1. PICK k \in DOMAIN smil.pars, d \in Durations : smil' = [smil EXCEPT !.pars[k].duration = d]
  BY DEF ParSetDuration
<1> DEFINE p == [smil.pars[k] EXCEPT !.duration = d]
<1>2. smil' = [smil EXCEPT !.pars = [smil.pars EXCEPT ![k] = p]]
  BY <1>1
<1>3. smil.pars[k] \in Pars /\ d \in Nat
  <2>1. smil.pars \in Seq(Pars)
    BY DEF Good, Smils
  <2>2. d \in Nat
    BY SmilAssumption
  <2>. QED BY <2>1, <2>2
<1>4. p \in Pars
  <2>1. smil.pars[k] \in [duration: Nat, file: [Slots -> Shapes]]
    BY <1>3 DEF Pars
  <2>2. p \in [duration: Nat, file: [Slots -> Shapes]] /\ p.file = smil.pars[k].file
    BY <1>3, <2>1
  <2>. HIDE DEF p
  <2>. QED BY <1>3, <2>2 DEF Pars
<1>. HIDE DEF p
<1>. QED BY <1>2, <1>4

LEMMA ParSetFileIs ==
  ASSUME Good(smil), ParSetFile
  PROVE  \E k \in DOMAIN smil.pars, p \in Pars :
           smil' = [smil EXCEPT !.pars = [smil.pars EXCEPT ![k] = p]]
<1>1. PICK k \in DOMAIN smil.pars, s \in Slots, f \in Files, r \in RegionNames :
        smil' = [smil EXCEPT !.pars[k].file[s] = SetFile(smil.pars[k].file[s], f, r)]
  BY DEF ParSetFile
<1> DEFINE old == smil.pars[k]
           g == SetFile(old.file[s], f, r)
           p == [old EXCEPT !.file[s] = g]
<1>2. smil' = [smil EXCEPT !.pars = [smil.pars EXCEPT ![k] = p]]
  BY <1>1
<1>3. old \in Pars
  <2>1. smil.pars \in Seq(Pars)
    BY DEF Good, Smils
  <2>. QED BY <2>1
<1>4. f \in STRING /\ r \in STRING /\ f \notin Cids
  BY SmilAssumption
<1>5. g \in Shapes /\ g.filename \notin Cids
  <2>1. old.file[s] \in Shapes
    BY <1>3, ParFile
  <2>. QED BY <1>4, <2>1 DEF Shapes, SetFile
<1>. HIDE DEF old, g
<1>6. p \in Pars
  BY <1>3, <1>5, ParFileSet
<1>. HIDE DEF p
<1>. QED BY <1>2, <1>6

LEMMA AddParIs ==
  ASSUME AddPar
  PROVE  \E p \in Pars : smil' = [smil EXCEPT !.pars = Append(smil.pars, p)]
<1>1. PICK d \in Durations : smil' = [smil EXCEPT !.pars = Append(smil.pars, NewPar(d))]
  BY DEF AddPar
<1>2. NewPar(d) \in Pars
  <2>1. d \in Nat
    BY SmilAssumption
  <2>. QED BY <2>1, NewParTyped
<1>. QED BY <1>1, <1>2

LEMMA ErasedParIs ==
  ASSUME ErasePar
  PROVE  \E k \in DOMAIN smil.pars : smil' = [smil EXCEPT !.pars = RemoveAt(smil.pars, k)]
BY DEF ErasePar

LEMMA PlaceRegionIs ==
  ASSUME PlaceRegion
  PROVE  \E n \in RegionNames, b \in Boxes :
           n \in STRING /\ b \in Layouts /\ smil' = AddRegion(smil, n, b)
BY SmilAssumption DEF PlaceRegion

LEMMA SetTitleIs ==
  ASSUME SetTitle
  PROVE  \E t \in Titles : t \in STRING /\ smil' = [smil EXCEPT !.title = t]
BY SmilAssumption DEF SetTitle

LEMMA SetRootRegionIs ==
  ASSUME SetRootRegion
  PROVE  \E r \in [width: Nat, height: Nat] : smil' = [smil EXCEPT !.root = r]
<1> DEFINE R == [width: Nat, height: Nat]
<1>1. Screens \subseteq R
  BY SmilAssumption
<1>. HIDE DEF R
<1>2. \E r \in R : smil' = [smil EXCEPT !.root = r]
  BY <1>1 DEF SetRootRegion
<1>. QED BY <1>2 DEF R

LEMMA EditGood ==
  ASSUME Good(smil), Edit
  PROVE  Good(smil')
<1>1. CASE SetTitle
  BY <1>1, SetTitleIs, TitleSet
<1>2. CASE SetRootRegion
  BY <1>2, SetRootRegionIs, RootSet
<1>3. CASE PlaceRegion
  <2>1. PICK n \in RegionNames, b \in Boxes :
          n \in STRING /\ b \in Layouts /\ smil' = AddRegion(smil, n, b)
    BY <1>3, PlaceRegionIs
  <2>2. Good(AddRegion(smil, n, b))
    BY <2>1, AddRegionIs
  <2>. QED BY <2>1, <2>2
<1>4. CASE AddPar
  BY <1>4, AddParIs, NewParAdded
<1>5. CASE ErasePar
  BY <1>5, ErasedParIs, ParErased
<1>6. CASE ParSetDuration
  BY <1>6, ParSetDurationIs, ParReplaced
<1>7. CASE ParSetFile
  BY <1>7, ParSetFileIs, ParReplaced
<1>. QED BY <1>1, <1>2, <1>3, <1>4, <1>5, <1>6, <1>7 DEF Edit

(* A received SMIL, whatever its document.                                  *)
LEMMA ReceivedGood ==
  ASSUME NEW d \in Documents
  PROVE  Good(ReceivedSmil(d))
<1> DEFINE s == Unpacked(NewSmil, d.elements)
           names == d.names
           v == [i \in DOMAIN s.pars |-> ParNamed(s.pars[i], names)]
<1>1. Good(s)
  <2>1. d.elements \in Seq(Elements) /\ \A i \in DOMAIN d.elements : WellFormed(d.elements[i])
    BY DocumentsAssumption
  <2>. QED BY <2>1, NewSmilGood, UnpackedGood
<1>2. \A c \in DOMAIN names : names[c] \in STRING /\ names[c] \notin Cids
  BY DocumentsAssumption
<1>3. ReceivedSmil(d) = [s EXCEPT !.pars = v]
  BY DEF ReceivedSmil, FixFilenames
<1>. HIDE DEF s, names
<1>4. ASSUME NEW p \in Pars PROVE ParNamed(p, names) \in Pars
  <2>1. ASSUME NEW slot \in Slots
        PROVE  Named(p.file[slot], names) \in Shapes /\ (slot # "audio" => Named(p.file[slot], names).filename \notin Cids)
    <3>1. p.file[slot] \in Shapes /\ (slot # "audio" => p.file[slot].filename \notin Cids)
      BY ParFile
    <3> DEFINE f == p.file[slot]
    <3>. HIDE DEF f
    <3>2. CASE f.cid \in DOMAIN names
      <4> DEFINE h == [f EXCEPT !.filename = names[f.cid]]
      <4>1. h \in Shapes /\ h.filename \notin Cids
        BY <1>2, <3>1, <3>2 DEF Shapes, f
      <4>2. Named(p.file[slot], names) = h
        BY <3>2 DEF f, Named
      <4>. QED BY <4>1, <4>2
    <3>3. CASE f.cid \notin DOMAIN names
      BY <3>1, <3>3 DEF f, Named
    <3>. QED BY <3>2, <3>3
  <2> DEFINE files == [slot \in Slots |-> Named(p.file[slot], names)]
  <2>2. files \in [Slots -> Shapes]
    BY <2>1
  <2>3. files["img"].filename \notin Cids /\ files["text"].filename \notin Cids
    BY <2>1, SlotsAre
  <2>. HIDE DEF files
  <2>4. ParNamed(p, names) = [p EXCEPT !.file = files]
    BY DEF files, ParNamed
  <2>5. p \in [duration: Nat, file: [Slots -> Shapes]]
    BY DEF Pars
  <2> DEFINE r == [p EXCEPT !.file = files]
  <2>6. r \in [duration: Nat, file: [Slots -> Shapes]] /\ r.file = files
    BY <2>2, <2>5
  <2>. HIDE DEF r
  <2>7. r \in Pars
    BY <2>3, <2>6 DEF Pars
  <2>. QED BY <2>4, <2>7 DEF r
<1>5. v \in Seq(Pars)
  <2>1. s.pars \in Seq(Pars)
    BY <1>1 DEF Good, Smils
  <2>2. DOMAIN s.pars = 1 .. Len(s.pars) /\ Len(s.pars) \in Nat /\ \A i \in 1 .. Len(s.pars) : s.pars[i] \in Pars
    BY <2>1, SeqIs
  <2>3. \A i \in 1 .. Len(s.pars) : ParNamed(s.pars[i], names) \in Pars
    BY <1>4, <2>2
  <2>4. v = [i \in 1 .. Len(s.pars) |-> ParNamed(s.pars[i], names)]
    BY <2>2
  <2>. HIDE DEF v
  <2>. QED BY <2>2, <2>3, <2>4
<1>. HIDE DEF v
<1>6. Good([s EXCEPT !.pars = v])
  BY <1>1, <1>5, ParsSet
<1>. QED BY <1>3, <1>6

(* The parser stops early or not at all.                                    *)
LEMMA ParsedIs ==
  ASSUME NEW S, NEW d \in Seq(S)
  PROVE  Parsed(d) \in Seq(S)
<1> DEFINE bad == {i \in DOMAIN d : \E k \in DOMAIN d[i].atts : d[i].atts[k].t \in Marked}
           first == CHOOSE i \in bad : \A j \in bad : i <= j
<1>1. CASE bad = {}
  BY <1>1 DEF Parsed
<1>2. CASE bad # {}
  <2>1. Parsed(d) = SubSeq(d, 1, first - 1)
    BY <1>2 DEF Parsed
  <2>2. bad \subseteq 1 .. Len(d) /\ Len(d) \in Nat
    BY SeqIs
  <2>3. first \in bad
    <3>1. bad \subseteq Nat
      BY <2>2
    <3>. HIDE DEF bad
    <3>. QED BY <1>2, <3>1, LeastOf
  <2>. HIDE DEF first, bad
  <2>4. first \in 1 .. Len(d)
    BY <2>2, <2>3
  <2>5. SubSeq(d, 1, first - 1) \in Seq(S)
    BY <2>2, <2>4, SubSeqProperties
  <2>. QED BY <2>1, <2>5
<1>. QED BY <1>1, <1>2

LEMMA UnpackGood ==
  ASSUME SmilInv, NEW s, Good(s), Unpack(s)
  PROVE  Good(smil')
<1> DEFINE elements == Parsed(document)
<1>1. CASE Crashes(elements)
  BY <1>1 DEF Unpack, SmilInv
<1>2. CASE ~ Crashes(elements)
  <2>1. smil' = Unpacked(s, elements)
    BY <1>2 DEF Unpack
  <2>2. document \in Seq(Writable)
    <3>1. CASE document = <<>>
      BY <3>1 DEF Unpack
    <3>2. CASE \E r : Good(r) /\ document = DumpXml(r)
      BY <3>2, DumpXmlTyped
    <3>. QED BY <3>1, <3>2 DEF SmilInv, DocumentInv
  <2>3. elements \in Seq(Writable)
    BY <2>2, ParsedIs
  <2>. HIDE DEF elements
  <2>4. /\ Len(elements) \in Nat /\ DOMAIN elements = 1 .. Len(elements)
        /\ \A i \in 1 .. Len(elements) : elements[i] \in Writable
    BY <2>3, SeqIs
  <2>5. \A i \in 1 .. Len(elements) : elements[i] \in Elements /\ WellFormed(elements[i])
    BY <1>2, <2>4 DEF Crashes, Writable
  <2>6. elements \in Seq(Elements)
    <3>1. elements = [i \in 1 .. Len(elements) |-> elements[i]]
      BY <2>3
    <3>. QED BY <2>4, <2>5, <3>1
  <2>7. Good(Unpacked(s, elements))
    BY <2>4, <2>5, <2>6, UnpackedGood
  <2>. QED BY <2>1, <2>7
<1>. QED BY <1>1, <1>2

LEMMA SmilInit == Init => SmilInv
BY NewSmilGood DEF Init, SmilInv, DocumentInv

LEMMA SmilNext ==
  ASSUME SmilInv, [Next]_vars
  PROVE  SmilInv'
<1>1. CASE Edit
  <2>1. Good(smil')
    BY <1>1, EditGood DEF SmilInv
  <2>2. document' = document /\ written' = written
    BY <1>1 DEF Edit
  <2>. QED BY <2>1, <2>2 DEF SmilInv, DocumentInv
<1>2. CASE Pack
  BY <1>2 DEF Pack, SmilInv, DocumentInv
<1>3. CASE Unpack(NewSmil) \/ Unpack(smil)
  <2>1. Good(smil')
    BY <1>3, UnpackGood, NewSmilGood DEF SmilInv
  <2>2. document' = document /\ written' = written
    BY <1>3 DEF Unpack
  <2>. QED BY <2>1, <2>2 DEF SmilInv, DocumentInv
<1>4. CASE Receive
  <2>1. Good(smil')
    BY <1>4, ReceivedGood DEF Receive
  <2>2. document' = document /\ written' = written
    BY <1>4 DEF Receive
  <2>. QED BY <2>1, <2>2 DEF SmilInv, DocumentInv
<1>5. CASE UNCHANGED vars
  BY <1>5 DEF vars, SmilInv, DocumentInv
<1>. QED BY <1>1, <1>2, <1>3, <1>4, <1>5 DEF Next

LEMMA SmilInvariance == Spec => []SmilInv
<1>1. Init => SmilInv
  BY SmilInit
<1>2. SmilInv /\ [Next]_vars => SmilInv'
  BY SmilNext
<1>. QED BY <1>1, <1>2, PTL DEF Spec

(* Regions are one for all spellings of a name, whatever was edited, read    *)
(* from a document of ours, of which the parser may see only a part, read    *)
(* into another SMIL or received: mms_smil_add_region's lookup finds the     *)
(* only one.                                                               *)
THEOREM OneRegionPerNameInvariant == Spec => []OneRegionPerName
<1>1. SmilInv => OneRegionPerName
  BY DEF SmilInv, Good, OneEach, OneRegionPerName
<1>. QED BY <1>1, SmilInvariance, PTL

-----------------------------------------------------------------------------
(* MmsSmil: what is kept is a presentation.                                *)

LEMMA PlacedIs ==
  ASSUME NEW s, Good(s), NEW name \in RegionNames, name \in STRING, NEW box \in Layouts
  PROVE  RegionsOf(AddRegion(s, name, box)) = [RegionsOf(s) EXCEPT ![Fold[name]] = box]
<1> DEFINE t == AddRegion(s, name, box)
           f == RegionsOf(t)
           g == RegionsOf(s)
           h == [g EXCEPT ![Fold[name]] = box]
<1>1. \A n \in Folded : f[n] = IF Fold[name] = n THEN box ELSE g[n]
  BY AddRegionIs
<1>2. f = [n \in Folded |-> f[n]] /\ g = [n \in Folded |-> g[n]]
  BY RegionsOfIs
<1>3. Fold[name] \in Folded
  BY DEF Folded
<1>. HIDE DEF f, g, t
<1>4. h = [n \in Folded |-> h[n]] /\ \A n \in Folded : h[n] = IF n = Fold[name] THEN box ELSE g[n]
  BY <1>2, <1>3
<1>. HIDE DEF h
<1>5. \A n \in Folded : f[n] = h[n]
  BY <1>1, <1>4
<1>6. f = h
  BY <1>2, <1>4, <1>5
<1>. QED BY <1>6 DEF f, g, h, t

(* The three edits of the slides.                                          *)
LEMMA SlideAdded ==
  ASSUME NEW s, Good(s), NEW t, Good(t), NEW p \in Pars, t.pars = Append(s.pars, p)
  PROVE  LET a == SlidesOf(s)
             b == SlidesOf(t)
         IN  b \in Seq(SlideSet) /\ Len(b) = Len(a) + 1 /\ SubSeq(b, 1, Len(a)) = a
<1> DEFINE a == SlidesOf(s)
           b == SlidesOf(t)
           n == Len(s.pars)
<1>1. a \in Seq(SlideSet) /\ Len(a) = n /\ n \in Nat /\ \A i \in 1 .. n : a[i] = SlideOf(s.pars[i])
  BY SlidesAre
<1>2. /\ b \in Seq(SlideSet) /\ Len(b) = Len(t.pars)
      /\ \A i \in 1 .. Len(t.pars) : b[i] = SlideOf(t.pars[i])
  BY SlidesAre
<1>3. Len(t.pars) = n + 1 /\ \A i \in 1 .. n : t.pars[i] = s.pars[i]
  <2>1. s.pars \in Seq(Pars)
    BY DEF Good, Smils
  <2>2. /\ Len(Append(s.pars, p)) = Len(s.pars) + 1
        /\ \A i \in 1 .. Len(s.pars) + 1 :
             Append(s.pars, p)[i] = IF i = Len(s.pars) + 1 THEN p ELSE s.pars[i]
    BY <2>1, SeqAppend
  <2>. QED BY <1>1, <2>2
<1>. HIDE DEF a, b, n
<1>4. \A i \in 1 .. n : b[i] = a[i]
  BY <1>1, <1>2, <1>3
<1> DEFINE c == SubSeq(b, 1, n)
<1>5. c \in Seq(SlideSet) /\ Len(c) = n /\ \A i \in 1 .. n : c[i] = b[i]
  <2>1. 1 \in 1 .. Len(b) + 1 /\ n \in 0 .. Len(b)
    BY <1>1, <1>2, <1>3
  <2>. QED BY <1>1, <1>2, <1>3, <2>1, SubSeqProperties
<1>. HIDE DEF c
<1>6. c = a
  BY <1>1, <1>4, <1>5
<1>. QED BY <1>1, <1>2, <1>3, <1>6 DEF a, b, c

OneReplaced(a, b, k) ==
  b \in Seq(SlideSet) /\ Len(b) = Len(a) /\ k \in DOMAIN a /\ b = [a EXCEPT ![k] = b[k]]

LEMMA SlideReplaced ==
  ASSUME NEW s, Good(s), NEW t, Good(t), NEW k \in DOMAIN s.pars, NEW p,
         t.pars = [s.pars EXCEPT ![k] = p]
  PROVE  OneReplaced(SlidesOf(s), SlidesOf(t), k)
<1> DEFINE a == SlidesOf(s)
           b == SlidesOf(t)
           n == Len(s.pars)
<1>1. a \in Seq(SlideSet) /\ Len(a) = n /\ n \in Nat /\ \A i \in 1 .. n : a[i] = SlideOf(s.pars[i])
  BY SlidesAre
<1>2. /\ b \in Seq(SlideSet) /\ Len(b) = Len(t.pars) /\ DOMAIN t.pars = 1 .. Len(t.pars)
      /\ Len(t.pars) \in Nat /\ \A i \in 1 .. Len(t.pars) : b[i] = SlideOf(t.pars[i])
  BY SlidesAre
<1>3. DOMAIN t.pars = DOMAIN s.pars /\ DOMAIN s.pars = 1 .. n /\ \A i \in DOMAIN s.pars : i # k => t.pars[i] = s.pars[i]
  <2>1. DOMAIN s.pars = 1 .. n
    BY SlidesAre
  <2>. QED BY <2>1
<1>4. Len(t.pars) = n /\ k \in 1 .. n
  BY <1>1, <1>2, <1>3
<1>5. \A i \in 1 .. n : i # k => b[i] = a[i]
  BY <1>1, <1>2, <1>3, <1>4
<1>. HIDE DEF a, b, n
<1> DEFINE c == [a EXCEPT ![k] = b[k]]
<1>6. c \in Seq(SlideSet) /\ Len(c) = n /\ \A i \in 1 .. n : c[i] = IF i = k THEN b[k] ELSE a[i]
  <2>1. b[k] \in SlideSet
    BY <1>2, <1>4
  <2>. QED BY <1>1, <1>4, <2>1, SeqExcept
<1>. HIDE DEF c
<1>7. \A i \in 1 .. n : c[i] = b[i]
  BY <1>5, <1>6
<1>8. c = b
  BY <1>2, <1>4, <1>6, <1>7
<1>9. k \in DOMAIN a
  BY <1>1, <1>4
<1>. QED BY <1>1, <1>2, <1>4, <1>8, <1>9 DEF OneReplaced, a, b, c

LEMMA SlideErased ==
  ASSUME NEW s, Good(s), NEW t, Good(t), NEW k \in DOMAIN s.pars, t.pars = RemoveAt(s.pars, k)
  PROVE  LET a == SlidesOf(s)
             b == SlidesOf(t)
         IN  /\ b \in Seq(SlideSet) /\ k \in DOMAIN a
             /\ b = SubSeq(a, 1, k - 1) \o SubSeq(a, k + 1, Len(a))
<1> DEFINE a == SlidesOf(s)
           b == SlidesOf(t)
           n == Len(s.pars)
<1>1. a \in Seq(SlideSet) /\ Len(a) = n /\ n \in Nat /\ \A i \in 1 .. n : a[i] = SlideOf(s.pars[i])
  BY SlidesAre
<1>2. /\ b \in Seq(SlideSet) /\ Len(b) = Len(t.pars)
      /\ \A i \in 1 .. Len(t.pars) : b[i] = SlideOf(t.pars[i])
  BY SlidesAre
<1>3. k \in 1 .. n
  <2>1. DOMAIN s.pars = 1 .. n
    BY SlidesAre
  <2>. QED BY <2>1
<1>4. Len(t.pars) = n - 1 /\ \A i \in 1 .. n - 1 : t.pars[i] = IF i < k THEN s.pars[i] ELSE s.pars[i + 1]
  <2>1. s.pars \in Seq(Pars)
    BY DEF Good, Smils
  <2>. QED BY <1>3, <2>1, RemoveAtIs
<1>5. \A i \in 1 .. n - 1 : b[i] = IF i < k THEN a[i] ELSE a[i + 1]
  <2>. SUFFICES ASSUME NEW i \in 1 .. n - 1
                PROVE  b[i] = IF i < k THEN a[i] ELSE a[i + 1]
    OBVIOUS
  <2>1. i \in 1 .. n /\ i + 1 \in 1 .. n /\ i \in 1 .. Len(t.pars)
    BY <1>1, <1>4
  <2>2. b[i] = SlideOf(t.pars[i])
    BY <1>2, <2>1
  <2>3. CASE i < k
    <3>1. t.pars[i] = s.pars[i]
      BY <1>4, <2>3
    <3>. QED BY <1>1, <2>1, <2>2, <2>3, <3>1
  <2>4. CASE ~ (i < k)
    <3>1. t.pars[i] = s.pars[i + 1]
      BY <1>4, <2>4
    <3>. QED BY <1>1, <2>1, <2>2, <2>4, <3>1
  <2>. QED BY <2>3, <2>4
<1>. HIDE DEF a, b, n
<1> DEFINE c == RemoveAt(a, k)
<1>6. /\ c \in Seq(SlideSet) /\ Len(c) = n - 1
      /\ \A i \in 1 .. n - 1 : c[i] = IF i < k THEN a[i] ELSE a[i + 1]
  BY <1>1, <1>3, RemoveAtIs
<1>. HIDE DEF c
<1>7. c = b
  <2>1. \A i \in 1 .. n - 1 : c[i] = b[i]
    BY <1>5, <1>6
  <2>2. Len(b) = n - 1
    BY <1>2, <1>4
  <2>. QED BY <1>2, <1>6, <2>1, <2>2
<1>8. c = SubSeq(a, 1, k - 1) \o SubSeq(a, k + 1, Len(a))
  BY DEF c, RemoveAt
<1>9. k \in DOMAIN a
  BY <1>1, <1>3
<1>. QED BY <1>2, <1>7, <1>8, <1>9 DEF a, b

(* The parser sees all of the document.                                     *)
Unmarked == Parsed(document) = document

LEMMA EditPresents ==
  ASSUME SmilInv, Edit
  PROVE  [Saved!Next]_Saved!vars
<1>0. Good(smil) /\ written' = written /\ Good(smil')
  BY EditGood DEF SmilInv, Edit
<1>1. CASE SetTitle
  <2>1. PICK t \in Titles : t \in STRING /\ smil' = [smil EXCEPT !.title = t]
    BY <1>1, SetTitleIs
  <2>2. smil'.title = t /\ smil'.regions = smil.regions /\ smil'.pars = smil.pars
    BY <1>0, <2>1, TitleSet
  <2>3. RegionsOf(smil') = RegionsOf(smil) /\ SlidesOf(smil') = SlidesOf(smil)
    BY <2>2, RegionsOfSame, SlidesOfSame
  <2>4. Saved!SetTitle
    BY <1>0, <2>1, <2>2, <2>3 DEF Saved!SetTitle
  <2>. QED BY <2>4 DEF Saved!Next
<1>2. CASE SetRootRegion
  <2>1. smil'.title = smil.title /\ smil'.regions = smil.regions /\ smil'.pars = smil.pars
    BY <1>0, <1>2, SetRootRegionIs, RootSet
  <2>2. RegionsOf(smil') = RegionsOf(smil) /\ SlidesOf(smil') = SlidesOf(smil)
    BY <2>1, RegionsOfSame, SlidesOfSame
  <2>. QED BY <1>0, <2>1, <2>2 DEF Saved!vars
<1>3. CASE PlaceRegion
  <2>1. PICK n \in RegionNames, b \in Boxes :
          n \in STRING /\ b \in Layouts /\ smil' = AddRegion(smil, n, b)
    BY <1>3, PlaceRegionIs
  <2> DEFINE v == AddRegion(smil, n, b)
  <2>2. v.title = smil.title /\ v.pars = smil.pars
    BY <1>0, <2>1, AddRegionIs
  <2>3. RegionsOf(v) = [RegionsOf(smil) EXCEPT ![Fold[n]] = b]
    BY <1>0, <2>1, PlacedIs
  <2>. HIDE DEF v
  <2>4. smil' = v
    BY <2>1 DEF v
  <2>5. SlidesOf(smil') = SlidesOf(smil) /\ smil'.title = smil.title
    BY <2>2, <2>4, SlidesOfSame
  <2>6. RegionsOf(smil') = [RegionsOf(smil) EXCEPT ![Fold[n]] = b]
    BY <2>3, <2>4
  <2>7. Fold[n] \in {Fold[r] : r \in RegionNames}
    OBVIOUS
  <2>8. Saved!PlaceRegion
    BY <1>0, <2>5, <2>6, <2>7 DEF Saved!PlaceRegion
  <2>. QED BY <2>8 DEF Saved!Next
<1>4. CASE AddPar
  <2>1. PICK p \in Pars : smil' = [smil EXCEPT !.pars = Append(smil.pars, p)]
    BY <1>4, AddParIs
  <2>2. smil'.title = smil.title /\ smil'.regions = smil.regions /\ smil'.pars = Append(smil.pars, p)
    BY <1>0, <2>1, NewParAdded
  <2>3. RegionsOf(smil') = RegionsOf(smil)
    BY <2>2, RegionsOfSame
  <2>4. /\ SlidesOf(smil') \in Seq(SlideSet) /\ Len(SlidesOf(smil')) = Len(SlidesOf(smil)) + 1
        /\ SubSeq(SlidesOf(smil'), 1, Len(SlidesOf(smil))) = SlidesOf(smil)
    BY <1>0, <2>2, SlideAdded
  <2>5. Saved!EditSlides
    BY <1>0, <2>2, <2>3, <2>4 DEF Saved!EditSlides, SlideSet
  <2>. QED BY <2>5 DEF Saved!Next
<1>5. CASE ErasePar
  <2>1. PICK k \in DOMAIN smil.pars : smil' = [smil EXCEPT !.pars = RemoveAt(smil.pars, k)]
    BY <1>5, ErasedParIs
  <2>2. smil'.title = smil.title /\ smil'.regions = smil.regions /\ smil'.pars = RemoveAt(smil.pars, k)
    BY <1>0, <2>1, ParErased
  <2>3. RegionsOf(smil') = RegionsOf(smil)
    BY <2>2, RegionsOfSame
  <2>4. /\ SlidesOf(smil') \in Seq(SlideSet) /\ k \in DOMAIN SlidesOf(smil)
        /\ SlidesOf(smil') = SubSeq(SlidesOf(smil), 1, k - 1)
                               \o SubSeq(SlidesOf(smil), k + 1, Len(SlidesOf(smil)))
    BY <1>0, <2>2, SlideErased
  <2>5. Saved!EditSlides
    BY <1>0, <2>2, <2>3, <2>4 DEF Saved!EditSlides, SlideSet
  <2>. QED BY <2>5 DEF Saved!Next
<1>6. CASE ParSetDuration \/ ParSetFile
  <2>1. PICK k \in DOMAIN smil.pars, p \in Pars :
          smil' = [smil EXCEPT !.pars = [smil.pars EXCEPT ![k] = p]]
    BY <1>0, <1>6, ParSetDurationIs, ParSetFileIs
  <2>2. /\ smil'.title = smil.title /\ smil'.regions = smil.regions
        /\ smil'.pars = [smil.pars EXCEPT ![k] = p]
    BY <1>0, <2>1, ParReplaced
  <2>3. RegionsOf(smil') = RegionsOf(smil)
    BY <2>2, RegionsOfSame
  <2>4. /\ SlidesOf(smil') \in Seq(SlideSet) /\ Len(SlidesOf(smil')) = Len(SlidesOf(smil))
        /\ k \in DOMAIN SlidesOf(smil)
        /\ SlidesOf(smil') = [SlidesOf(smil) EXCEPT ![k] = SlidesOf(smil')[k]]
    <3> DEFINE t == smil'
    <3>1. Good(t) /\ t.pars = [smil.pars EXCEPT ![k] = p]
      BY <1>0, <2>2
    <3>. HIDE DEF t
    <3>2. OneReplaced(SlidesOf(smil), SlidesOf(t), k)
      BY <1>0, <3>1, SlideReplaced
    <3>. QED BY <3>2 DEF OneReplaced, t
  <2>5. Saved!EditSlides
    BY <1>0, <2>2, <2>3, <2>4 DEF Saved!EditSlides, SlideSet
  <2>. QED BY <2>5 DEF Saved!Next
<1>. QED BY <1>1, <1>2, <1>3, <1>4, <1>5, <1>6 DEF Edit

(* Reading the document into u: it is opened, or opened into what there was. *)
LEMMA DocumentOpened ==
  ASSUME SmilInv, Unmarked, NEW u, Good(u), Unpack(u), ~ Crashes(Parsed(document))
  PROVE  /\ written # <<>> /\ smil'.title = written[1].title
         /\ RegionsOf(smil') =
              [n \in Folded |-> IF written[1].regions[n] = Nowhere THEN RegionsOf(u)[n]
                                ELSE written[1].regions[n]]
         /\ SlidesOf(smil') = SlidesOf(u) \o written[1].slides
<1>1. PICK s : Good(s) /\ document = DumpXml(s) /\ written = <<ViewOf(s)>>
  BY DEF SmilInv, DocumentInv, Unpack
<1>2. smil' = Unpacked(u, DumpXml(s)) /\ ~ Crashes(DumpXml(s))
  BY <1>1 DEF Unpack, Unmarked
<1>3. /\ written # <<>> /\ written[1].title = s.title /\ written[1].regions = RegionsOf(s)
      /\ written[1].slides = SlidesOf(s)
  BY <1>1 DEF ViewOf
<1> DEFINE t == Unpacked(u, DumpXml(s))
<1>4. /\ t.title = s.title /\ SlidesOf(t) = SlidesOf(u) \o SlidesOf(s)
      /\ \A n \in Folded : RegionsOf(t)[n] = IF RegionsOf(s)[n] = Nowhere THEN RegionsOf(u)[n]
                                             ELSE RegionsOf(s)[n]
  BY <1>1, <1>2, DocumentRead
<1>5. RegionsOf(t) = [n \in Folded |-> RegionsOf(t)[n]]
  BY RegionsOfIs
<1>. HIDE DEF t
<1>6. RegionsOf(t) = [n \in Folded |-> IF RegionsOf(s)[n] = Nowhere THEN RegionsOf(u)[n]
                                       ELSE RegionsOf(s)[n]]
  BY <1>4, <1>5
<1>7. smil' = t
  BY <1>2 DEF t
<1>. QED BY <1>3, <1>4, <1>6, <1>7

LEMMA NewSmilShows ==
  /\ \A n \in Folded : RegionsOf(NewSmil)[n] = Nowhere
  /\ SlidesOf(NewSmil) = <<>>
<1>1. NewSmil.regions = <<>> /\ NewSmil.pars = <<>> /\ OneEach(NewSmil)
  BY NewSmilOneEach DEF NewSmil
<1>. QED BY <1>1, PlaceIs DEF SlidesOf

LEMMA UnpackPresents ==
  ASSUME SmilInv, Unmarked, Unpack(NewSmil) \/ Unpack(smil)
  PROVE  [Saved!Next]_Saved!vars
<1>0. Good(smil) /\ Good(NewSmil) /\ written' = written
  BY NewSmilGood DEF SmilInv, Unpack
<1>1. CASE Crashes(Parsed(document))
  <2>1. smil' = smil
    BY <1>1 DEF Unpack
  <2>. QED BY <1>0, <2>1 DEF Saved!vars
<1>2. CASE ~ Crashes(Parsed(document)) /\ Unpack(NewSmil)
  <2>1. /\ written # <<>> /\ smil'.title = written[1].title
        /\ RegionsOf(smil') =
             [n \in Folded |-> IF written[1].regions[n] = Nowhere THEN RegionsOf(NewSmil)[n]
                               ELSE written[1].regions[n]]
        /\ SlidesOf(smil') = SlidesOf(NewSmil) \o written[1].slides
    BY <1>0, <1>2, DocumentOpened
  <2>2. PICK s : Good(s) /\ written = <<ViewOf(s)>>
    BY <2>1 DEF SmilInv, DocumentInv
  <2>3. written[1].regions = RegionsOf(s) /\ written[1].slides = SlidesOf(s)
    BY <2>2 DEF ViewOf
  <2>4. RegionsOf(smil') = RegionsOf(s)
    <3>1. \A n \in Folded : (IF RegionsOf(s)[n] = Nowhere THEN RegionsOf(NewSmil)[n] ELSE RegionsOf(s)[n])
                              = RegionsOf(s)[n]
      BY NewSmilShows
    <3>2. RegionsOf(s) = [n \in Folded |-> RegionsOf(s)[n]]
      BY RegionsOfIs
    <3>. QED BY <2>1, <2>3, <3>1, <3>2
  <2>5. SlidesOf(smil') = SlidesOf(s)
    <3>1. SlidesOf(s) \in Seq(SlideSet)
      BY <2>2, SlidesAre
    <3>2. <<>> \o SlidesOf(s) = SlidesOf(s)
      BY <3>1
    <3>. QED BY <2>1, <2>3, <3>2, NewSmilShows
  <2>6. Saved!Open
    BY <1>0, <2>1, <2>3, <2>4, <2>5 DEF Saved!Open
  <2>. QED BY <2>6 DEF Saved!Next
<1>3. CASE ~ Crashes(Parsed(document)) /\ Unpack(smil)
  <2>1. /\ written # <<>> /\ smil'.title = written[1].title
        /\ RegionsOf(smil') =
             [n \in Folded |-> IF written[1].regions[n] = Nowhere THEN RegionsOf(smil)[n]
                               ELSE written[1].regions[n]]
        /\ SlidesOf(smil') = SlidesOf(smil) \o written[1].slides
    BY <1>0, <1>3, DocumentOpened
  <2>2. Saved!OpenInto
    BY <1>0, <2>1 DEF Saved!OpenInto, Saved!NoBox, Nowhere, Folded
  <2>. QED BY <2>2 DEF Saved!Next
<1>. QED BY <1>1, <1>2, <1>3

LEMMA PackPresents ==
  ASSUME Pack
  PROVE  [Saved!Next]_Saved!vars
<1>1. Saved!Save
  BY DEF Pack, ViewOf, Saved!Save
<1>. QED BY <1>1 DEF Saved!Next

LEMMA ReceivePresents ==
  ASSUME Receive
  PROVE  [Saved!Next]_Saved!vars
<1>1. PICK d \in Documents : smil' = ReceivedSmil(d)
  BY DEF Receive
<1>2. ViewOf(smil') \in Received
  BY <1>1, ReceivedAssumption
<1>3. /\ smil'.title = ViewOf(smil').title /\ RegionsOf(smil') = ViewOf(smil').regions
      /\ SlidesOf(smil') = ViewOf(smil').slides
  BY DEF ViewOf
<1>4. written' = written
  BY DEF Receive
<1>5. Saved!Receive
  BY <1>2, <1>3, <1>4 DEF Saved!Receive
<1>. QED BY <1>5 DEF Saved!Next

LEMMA InitPresents == Init => Saved!Init
<1>. SUFFICES ASSUME Init PROVE Saved!Init
  OBVIOUS
<1>1. smil = NewSmil /\ written = <<>>
  BY DEF Init
<1>2. smil.title = Empty
  BY <1>1 DEF NewSmil
<1>3. RegionsOf(smil) = [n \in Folded |-> Nowhere]
  <2>1. RegionsOf(NewSmil) = [n \in Folded |-> RegionsOf(NewSmil)[n]]
    BY RegionsOfIs
  <2>. QED BY <1>1, <2>1, NewSmilShows
<1>4. SlidesOf(smil) = <<>>
  BY <1>1, NewSmilShows
<1>5. smil.title = ""
  BY <1>2, Zenon DEF Empty
<1>. QED BY <1>1, <1>3, <1>4, <1>5 DEF Saved!Init, Saved!NoBox, Nowhere, Folded

LEMMA NextPresents ==
  ASSUME SmilInv, Unmarked, [Next]_vars
  PROVE  [Saved!Next]_Saved!vars
<1>1. CASE UNCHANGED vars
  <2>1. smil' = smil /\ written' = written
    BY <1>1 DEF vars
  <2>. QED BY <2>1 DEF Saved!vars
<1>2. CASE Next
  BY <1>2, EditPresents, PackPresents, UnpackPresents, ReceivePresents DEF Next
<1>. QED BY <1>1, <1>2

(* Saving loses nothing and reading gives what was saved: as long as the     *)
(* parser sees all of every document written, mms_smil_dump_xml and          *)
(* mms_smil_unpack keep title, places and slides, however a name, a title or *)
(* a file is called, whatever was edited, received, read or written before.  *)
THEOREM PresentationKept == Spec /\ []Unmarked => ImplementsPresentation
<1>1. Init => Saved!Init
  BY InitPresents
<1>2. SmilInv /\ Unmarked /\ [Next]_vars => [Saved!Next]_Saved!vars
  BY NextPresents
<1>. QED BY <1>1, <1>2, SmilInvariance, PTL DEF Spec, ImplementsPresentation, Saved!Spec

(* It does so for good where no text has a character that XML wants escaped. *)
THEOREM ImplementsPresentationHolds ==
  ASSUME Marked = {}
  PROVE  Spec => ImplementsPresentation
<1>1. Unmarked
  BY DEF Unmarked, Parsed
<1>2. Spec => []Unmarked
  BY <1>1, PTL
<1>. QED BY <1>2, PresentationKept, PTL

-----------------------------------------------------------------------------
(* MmsNotify.                                                              *)

(* The expiry set is the time meant, counted from the date if relative.     *)
SetAsMeant ==
  IF expiry.time > 0
    THEN meant = expiry.time + (IF expiry.relative THEN date ELSE 0)
    ELSE meant = 0

(* A message is dated when it is created, and never ahead of the clock.     *)
Dated ==
  /\ date <= now
  /\ expiry = NoExpiry \/ date # 0

(* A notification says of its message what the message says, or nothing.    *)
ToldOrNot ==
  notify = <<>> \/ \E d \in {0, date}, e \in {NoExpiry, expiry} : notify = <<[date |-> d, expiry |-> e]>>

Typed ==
  /\ now \in 1 .. MaxTime /\ date \in Nat /\ meant \in Nat
  /\ expiry \in Headers
  /\ late \in BOOLEAN

(* Only a notification that fixes a time is ever found expired.             *)
LateFixed == late => notify # <<>> /\ Anchored(notify[1]) /\ now >= meant

(* The inductive invariant.                                                *)
NotifyInv == Typed /\ SetAsMeant /\ Dated /\ ToldOrNot /\ LateFixed

-----------------------------------------------------------------------------
(* What a getter answers of a notification that tells of the message.       *)
LEMMA Told ==
  ASSUME NotifyInv, notify # <<>>
  PROVE  /\ DOMAIN notify = {1}
         /\ notify[1].date \in {0, date}
         /\ notify[1].expiry \in {NoExpiry, expiry}
  BY DEF NotifyInv, ToldOrNot

LEMMA ExpiryHeaders ==
  ASSUME NotifyInv
  PROVE  /\ expiry.time \in Nat
         /\ expiry.relative \in BOOLEAN
         /\ NoExpiry.time = 0
         /\ NoExpiry \in Headers
         /\ ThirtyDays \in Nat \ {0}
         /\ now \in Nat
  BY NotifyAssumption DEF NotifyInv, Typed, Headers, NoExpiry

(* The invariant types the notification too.                               *)
LEMMA InvariantTypes ==
  ASSUME NotifyInv
  PROVE  NotifyTypeOK
<1>1. notify \in Seq([date: Nat, expiry: Headers]) /\ Len(notify) <= 1
  <2>1. CASE notify = <<>>
    BY <2>1
  <2>2. CASE notify # <<>>
    <3>1. PICK d \in {0, date}, e \in {NoExpiry, expiry} : notify = <<[date |-> d, expiry |-> e]>>
      BY <2>2 DEF NotifyInv, ToldOrNot
    <3>2. d \in Nat /\ e \in Headers
      BY ExpiryHeaders DEF NotifyInv, Typed
    <3>3. [date |-> d, expiry |-> e] \in [date: Nat, expiry: Headers]
      BY <3>2
    <3>. QED BY <3>1, <3>3
  <2>. QED BY <2>1, <2>2
<1>. QED BY <1>1 DEF NotifyTypeOK, NotifyInv, Typed

(* A notification that fixes a time is read as that time.                   *)
LEMMA InvariantReads ==
  ASSUME NotifyInv
  PROVE  ReadAsMeant
<1>. SUFFICES ASSUME NEW i \in DOMAIN notify, Anchored(notify[i])
              PROVE  GetExpiry(notify[i]) = meant
  BY DEF ReadAsMeant
<1>1. notify # <<>>
  OBVIOUS
<1>2. i = 1 /\ notify[1].date \in {0, date} /\ notify[1].expiry \in {NoExpiry, expiry}
  BY <1>1, Told
<1>3. notify[1].expiry = expiry /\ expiry.time > 0
  BY <1>2, ExpiryHeaders DEF Anchored
<1>4. expiry.relative => notify[1].date = date /\ date # 0
  BY <1>2, <1>3 DEF Anchored
<1>. QED BY <1>2, <1>3, <1>4, ExpiryHeaders DEF NotifyInv, Typed, SetAsMeant, GetExpiry, GetDate

(* Whatever the notification leaves out, the receiver errs to the later side. *)
LEMMA InvariantNotEarly ==
  ASSUME NotifyInv
  PROVE  NeverTooEarly
<1>. SUFFICES ASSUME NEW i \in DOMAIN notify, meant # 0, notify[i].expiry # NoExpiry
              PROVE  GetExpiry(notify[i]) >= meant
  BY DEF NeverTooEarly
<1>1. notify # <<>>
  OBVIOUS
<1>2. i = 1 /\ notify[1].date \in {0, date} /\ notify[1].expiry = expiry
  BY <1>1, Told
<1>3. expiry.time > 0 /\ meant = expiry.time + (IF expiry.relative THEN date ELSE 0)
  BY ExpiryHeaders DEF NotifyInv, SetAsMeant
<1>4. GetDate(notify[1]) \in Nat /\ GetDate(notify[1]) >= date
  BY <1>2, ExpiryHeaders DEF NotifyInv, Typed, Dated, GetDate
<1>5. GetExpiry(notify[1]) = expiry.time + (IF expiry.relative THEN GetDate(notify[1]) ELSE 0)
  BY <1>2, <1>3 DEF GetExpiry
<1>. QED BY <1>2, <1>3, <1>4, <1>5, ExpiryHeaders DEF NotifyInv, Typed

(* A notification found expired fixes a time: without one the expiry is ahead *)
(* of the clock whenever it is asked for.                                  *)
LEMMA ExpiredIsFixed ==
  ASSUME NotifyInv, notify # <<>>, now >= GetExpiry(notify[1])
  PROVE  Anchored(notify[1]) /\ now >= meant
<1>1. /\ notify[1].date \in {0, date}
      /\ notify[1].expiry \in {NoExpiry, expiry}
      /\ 1 \in DOMAIN notify
  BY Told
<1>2. notify[1].expiry.time \in Nat /\ notify[1].expiry.relative \in BOOLEAN /\ notify[1].date \in Nat
  BY <1>1, ExpiryHeaders DEF NotifyInv, Typed, Headers
<1>3. notify[1].expiry.time > 0
  BY <1>2, ExpiryHeaders DEF GetExpiry
<1>4. notify[1].expiry.relative => notify[1].date # 0
  BY <1>2, <1>3, ExpiryHeaders DEF GetExpiry, GetDate
<1>5. Anchored(notify[1])
  BY <1>3, <1>4 DEF Anchored
<1>. QED BY <1>1, <1>5, InvariantReads DEF ReadAsMeant

(* What was found expired stays so.                                        *)
LEMMA InvariantForGood ==
  ASSUME NotifyInv
  PROVE  ExpiredForGood
<1>. SUFFICES ASSUME late, NEW i \in DOMAIN notify PROVE now >= GetExpiry(notify[i])
  BY DEF ExpiredForGood
<1>1. i = 1 /\ Anchored(notify[1]) /\ now >= meant
  BY Told DEF NotifyInv, LateFixed
<1>. QED BY <1>1, InvariantReads DEF ReadAsMeant

-----------------------------------------------------------------------------
(* The invariant holds at the start and is kept by every step.              *)
THEOREM NotifyInvariance == NotifySpec => []NotifyInv
<1>0. NoExpiry \in Headers /\ NoExpiry.time = 0
  BY DEF Headers, NoExpiry
<1>1. NotifyInit => NotifyInv
  <2>. SUFFICES ASSUME NotifyInit PROVE NotifyInv
    OBVIOUS
  <2>1. Typed
    BY <1>0, NotifyAssumption DEF NotifyInit, Typed
  <2>3. SetAsMeant
    BY <1>0 DEF NotifyInit, SetAsMeant
  <2>4. Dated
    BY NotifyAssumption DEF NotifyInit, Dated
  <2>2. ToldOrNot /\ LateFixed
    BY DEF NotifyInit, ToldOrNot, LateFixed
  <2>. QED BY <2>1, <2>2, <2>3, <2>4 DEF NotifyInv
<1>2. NotifyInv /\ [NotifyNext]_notifyVars => NotifyInv'
  <2>. SUFFICES ASSUME NotifyInv, [NotifyNext]_notifyVars PROVE NotifyInv'
    OBVIOUS
  <2>. USE NotifyAssumption
  <2>0. expiry.time \in Nat /\ expiry.relative \in BOOLEAN /\ now \in Nat
    BY ExpiryHeaders
  <2>1. CASE Tick
    BY <2>0, <2>1 DEF Tick, NotifyInv, Typed, SetAsMeant, Dated, ToldOrNot, LateFixed, Anchored
  <2>2. CASE CreateSendReq
    <3>1. CASE expiry' = NoExpiry /\ meant' = 0
      BY <1>0, <2>0, <2>2, <3>1 DEF CreateSendReq, NotifyInv, Typed, SetAsMeant, Dated, ToldOrNot, LateFixed
    <3>2. ASSUME NEW o \in Offsets, expiry' = [time |-> now + o, relative |-> FALSE], meant' = now + o
          PROVE  NotifyInv'
      BY <2>0, <2>2, <3>2 DEF CreateSendReq, NotifyInv, Typed, SetAsMeant, Dated, ToldOrNot, LateFixed, Headers
    <3>. QED BY <2>2, <3>1, <3>2 DEF CreateSendReq
  <2>3. CASE SetExpire
    <3>1. PICK o \in Offsets : expiry' = [time |-> now + o, relative |-> FALSE] /\ meant' = now + o
      BY <2>3 DEF SetExpire
    <3>. QED BY <2>0, <2>3, <3>1 DEF SetExpire, NotifyInv, Typed, SetAsMeant, Dated, ToldOrNot, LateFixed, Headers
  <2>4. CASE SetExpireRelat
    <3>1. PICK o \in Offsets : expiry' = [time |-> o, relative |-> TRUE] /\ meant' = date + o
      BY <2>4 DEF SetExpireRelat
    <3>. QED BY <2>0, <2>4, <3>1 DEF SetExpireRelat, NotifyInv, Typed, SetAsMeant, Dated, ToldOrNot, LateFixed, Headers
  <2>5. CASE Notify
    BY <2>5 DEF Notify, NotifyInv, Typed, SetAsMeant, Dated, ToldOrNot, LateFixed
  <2>6. CASE Ask
    <3>1. LateFixed'
      BY <2>6, ExpiredIsFixed DEF Ask, NotifyInv, LateFixed, Anchored
    <3>. QED BY <2>6, <3>1 DEF Ask, NotifyInv, Typed, SetAsMeant, Dated, ToldOrNot
  <2>7. CASE Drop
    <3>1. Typed'
      BY <1>0, <2>7 DEF Drop, NotifyInv, Typed
    <3>3. SetAsMeant'
      BY <1>0, <2>7 DEF Drop, SetAsMeant
    <3>4. Dated'
      BY <2>0, <2>7 DEF Drop, Dated
    <3>2. ToldOrNot' /\ LateFixed'
      BY <2>7 DEF Drop, ToldOrNot, LateFixed
    <3>. QED BY <3>1, <3>2, <3>3, <3>4 DEF NotifyInv
  <2>8. CASE UNCHANGED notifyVars
    BY <2>8 DEF notifyVars, NotifyInv, Typed, SetAsMeant, Dated, ToldOrNot, LateFixed, Anchored
  <2>. QED BY <2>1, <2>2, <2>3, <2>4, <2>5, <2>6, <2>7, <2>8 DEF NotifyNext
<1>. QED BY <1>1, <1>2, PTL DEF NotifySpec

(* Every variable keeps its type.                                          *)
THEOREM NotifyTypesInvariant == NotifySpec => []NotifyTypeOK
  BY NotifyInvariance, InvariantTypes, PTL

(* However long the clock runs and whatever the MMSC leaves out, a           *)
(* notification that fixes a time is read as the time the sender meant.     *)
THEOREM ReadAsMeantInvariant == NotifySpec => []ReadAsMeant
  BY NotifyInvariance, InvariantReads, PTL

(* ... and no message is taken for expired before the sender's time.        *)
THEOREM NeverTooEarlyInvariant == NotifySpec => []NeverTooEarly
  BY NotifyInvariance, InvariantNotEarly, PTL

(* ... and what the receiver once found expired it never finds alive again. *)
THEOREM ExpiredForGoodInvariant == NotifySpec => []ExpiredForGood
  BY NotifyInvariance, InvariantForGood, PTL

=============================================================================
