-------------------------- MODULE MmsCodec_proofs -----------------------------
(***************************************************************************)
(* Theorems about MmsCodec, for any items and messages that can be read     *)
(* again: the unpacker keeps in step with the packer, value lengths count   *)
(* what follows them, and what a message means is received as it was sent.  *)
(*                                                                         *)
(* That an item is read where it lies is in MmsBytes_proofs.  Parts and     *)
(* bodies follow here, then the state: CodecInv says that all that was sent *)
(* is laid out end to end, and that what was received is the first of it.   *)
(***************************************************************************)
EXTENDS MmsBytes_proofs

-----------------------------------------------------------------------------
(* The prefixes of a flattened sequence, from the empty one.                *)
Joins(g, p, n) == g[0] = <<>> /\ \A k \in 1 .. n : g[k] = g[k - 1] \o p[k]

(* Where each piece of a sequence of pieces begins.                         *)
LEMMA PrefixesExist ==
  ASSUME NEW S, NEW n \in Nat, NEW p, p = [i \in 1 .. n |-> p[i]], \A i \in 1 .. n : p[i] \in Seq(S)
  PROVE  \E g : /\ Joins(g, p, n) /\ FlattenSeq(p) = g[n]
                /\ \A k \in 0 .. n : g[k] \in Seq(S)
<1>1. p \in Seq(Seq(S)) /\ Len(p) = n
  OBVIOUS
<1>2. CASE n = 0
  <2>. DEFINE g == [k \in 0 .. 0 |-> <<>>]
  <2>1. Len(p) = 0 /\ p = <<>>
    BY <1>1, <1>2
  <2>2. FlattenSeq(p) = <<>>
    BY <2>1 DEF FlattenSeq
  <2>3. g[0] = <<>> /\ <<>> \in Seq(S) /\ \A k \in 0 .. 0 : g[k] \in Seq(S)
    OBVIOUS
  <2>4. \A k \in 1 .. 0 : FALSE
    OBVIOUS
  <2>5. Joins(g, p, n)
    BY <1>2, <2>3, <2>4 DEF Joins
  <2>. QED BY <1>2, <2>2, <2>3, <2>5
<1>3. CASE n # 0
  <2>1. PICK f : IsFlattening(p, f, n) /\ FlattenSeq(p) = f[n]
    BY <1>1, <1>3, FlattenedIs
  <2>. DEFINE g == [k \in 0 .. n |-> IF k = 0 THEN <<>> ELSE f[k]]
  <2>2. g[0] = <<>> /\ g[n] = f[n]
    BY <1>3
  <2>3. ASSUME NEW k \in 1 .. n PROVE g[k] = g[k - 1] \o p[k]
    <3>1. f[k] = IF k = 1 THEN p[k] ELSE f[k - 1] \o p[k]
      BY <2>1 DEF IsFlattening
    <3>2. k \in 0 .. n /\ k # 0 /\ k - 1 \in 0 .. n /\ (k - 1 = 0 <=> k = 1)
      OBVIOUS
    <3>3. g[k] = f[k] /\ g[k - 1] = IF k = 1 THEN <<>> ELSE f[k - 1]
      BY <3>2
    <3>4. <<>> \o p[k] = p[k]
      BY ConcatEmptySeq
    <3>. QED BY <3>1, <3>3, <3>4
  <2>4. Joins(g, p, n)
    BY <2>2, <2>3 DEF Joins
  <2>. HIDE DEF g
  <2>5. \A k \in 0 .. n : g[k] \in Seq(S)
    <3>. DEFINE T == {k \in 0 .. n : g[k] \notin Seq(S)}
    <3>1. SUFFICES ASSUME T # {} PROVE FALSE
      OBVIOUS
    <3>2. PICK k \in T : \A j \in T : k <= j
      <4>1. T \subseteq Nat
        OBVIOUS
      <4>. HIDE DEF T
      <4>. QED BY <3>1, <4>1, LeastOf
    <3>3. k \in 0 .. n /\ g[k] \notin Seq(S)
      OBVIOUS
    <3>4. k # 0
      <4>1. g[0] = <<>> /\ <<>> \in Seq(S)
        BY <2>4 DEF Joins
      <4>. QED BY <3>3, <4>1
    <3>5. k \in 1 .. n /\ k - 1 \in 0 .. n /\ ~ (k <= k - 1)
      BY <3>3, <3>4
    <3>6. g[k - 1] \in Seq(S)
      BY <3>2, <3>5
    <3>7. g[k] = g[k - 1] \o p[k] /\ p[k] \in Seq(S)
      BY <2>4, <3>5 DEF Joins
    <3>8. g[k] \in Seq(S)
      <4>. DEFINE x == g[k - 1]
                  y == p[k]
      <4>1. x \in Seq(S) /\ y \in Seq(S)
        BY <3>6, <3>7
      <4>. HIDE DEF x, y
      <4>2. x \o y \in Seq(S)
        BY <4>1, ConcatProperties
      <4>. QED BY <3>7, <4>2 DEF x, y
    <3>. QED BY <3>3, <3>8
  <2>. QED BY <2>1, <2>2, <2>4, <2>5
<1>. QED BY <1>2, <1>3

(* What lies ahead of a prefix.                                             *)
LEMMA PrefixAhead ==
  ASSUME NEW n \in Nat, NEW p, \A i \in 1 .. n : p[i] \in Seq(Octets),
         NEW g, Joins(g, p, n), \A k \in 0 .. n : g[k] \in Seq(Octets),
         NEW w, NEW from, NEW end, Ahead(w, from, g[n], end)
  PROVE  \A k \in 0 .. n : Ahead(w, from, g[k], end)
<1>. DEFINE Ok(j) == Ahead(w, from, g[n - j], end)
            T == {j \in 0 .. n : ~ Ok(j)}
<1>1. T = {}
  <2>1. SUFFICES ASSUME T # {} PROVE FALSE
    OBVIOUS
  <2>2. PICK j \in T : \A i \in T : j <= i
    <3>1. T \subseteq Nat
      OBVIOUS
    <3>. HIDE DEF T
    <3>. QED BY <2>1, <3>1, LeastOf
  <2>3. j \in 0 .. n /\ ~ Ok(j)
    OBVIOUS
  <2>4. j # 0
    <3>1. n - 0 = n
      OBVIOUS
    <3>. QED BY <2>3, <3>1
  <2>5. j - 1 \in 0 .. n /\ ~ (j <= j - 1) /\ n - (j - 1) \in 1 .. n /\ (n - (j - 1)) - 1 = n - j
        /\ n - j \in 0 .. n
    BY <2>3, <2>4
  <2>6. Ok(j - 1)
    BY <2>2, <2>5
  <2>. DEFINE k == n - (j - 1)
              x == g[n - j]
              y == p[k]
  <2>7. g[k] = g[k - 1] \o p[k] /\ k - 1 = n - j
    <3>1. k \in 1 .. n /\ k - 1 = n - j
      BY <2>5
    <3>. HIDE DEF k
    <3>. QED BY <3>1 DEF Joins
  <2>8. x \in Seq(Octets) /\ y \in Seq(Octets)
    BY <2>5
  <2>9. Ahead(w, from, x \o y, end)
    BY <2>6, <2>7
  <2>. HIDE DEF x, y, k
  <2>10. Ahead(w, from, x, end)
    BY <2>8, <2>9, AheadSplit
  <2>. QED BY <2>3, <2>10 DEF x
<1>2. ASSUME NEW k \in 0 .. n PROVE Ahead(w, from, g[k], end)
  <2>1. n - k \in 0 .. n /\ n - (n - k) = k
    OBVIOUS
  <2>2. Ok(n - k)
    BY <1>1, <2>1
  <2>. QED BY <2>1, <2>2
<1>. QED BY <1>2

(* Pieces that lie ahead as one lie ahead one by one.                       *)
LEMMA PieceAhead ==
  ASSUME NEW n \in Nat, NEW p, \A i \in 1 .. n : p[i] \in Seq(Octets),
         NEW g, Joins(g, p, n), \A k \in 0 .. n : g[k] \in Seq(Octets),
         NEW w, NEW from, NEW end, Ahead(w, from, g[n], end), NEW k \in 1 .. n
  PROVE  /\ Ahead(w, from + Len(g[k - 1]), p[k], end)
         /\ Len(g[k]) = Len(g[k - 1]) + Len(p[k]) /\ Len(g[k - 1]) \in Nat /\ Len(p[k]) \in Nat
<1>. DEFINE x == g[k - 1]
            y == p[k]
<1>1. k \in 0 .. n /\ k - 1 \in 0 .. n
  OBVIOUS
<1>. DEFINE All == \A j \in 0 .. n : Ahead(w, from, g[j], end)
<1>6. All
  BY PrefixAhead
<1>7. Ahead(w, from, g[k], end)
  BY <1>1, <1>6
<1>. HIDE DEF All
<1>2. x \in Seq(Octets) /\ y \in Seq(Octets) /\ g[k] = x \o y
  BY <1>1 DEF Joins
<1>. HIDE DEF x, y
<1>3. Ahead(w, from + Len(x), y, end)
  BY <1>7, <1>2, AheadSplit
<1>4. Len(x \o y) = Len(x) + Len(y)
  BY <1>2, Joined
<1>5. Len(x) \in Nat /\ Len(y) \in Nat
  BY <1>2, SeqIs
<1>. QED BY <1>2, <1>3, <1>4, <1>5 DEF x, y

(* The same with the suppositions in one.                                   *)
Pieces(g, p, n, S) ==
  /\ n \in Nat /\ Joins(g, p, n)
  /\ (\A i \in 1 .. n : p[i] \in Seq(S)) /\ (\A k \in 0 .. n : g[k] \in Seq(S))

AllAhead(w, from, g, p, n, end) ==
  \A k \in 1 .. n :
    /\ Ahead(w, from + Len(g[k - 1]), p[k], end)
    /\ Len(g[k]) = Len(g[k - 1]) + Len(p[k]) /\ Len(g[k - 1]) \in Nat /\ Len(p[k]) \in Nat

LEMMA PiecesAhead ==
  ASSUME NEW n, NEW p, NEW g, Pieces(g, p, n, Octets),
         NEW w, NEW from, NEW end, Ahead(w, from, g[n], end)
  PROVE  AllAhead(w, from, g, p, n, end)
BY PieceAhead DEF Pieces, AllAhead

-----------------------------------------------------------------------------
(* The loop over the items of a part.                                       *)
ItemTurns(f, w, from, end, n) ==
  f = [i \in 0 .. n |-> IF i = 0 THEN Read(<<>>, from) ELSE ItemsTurn(f[i - 1], w, end)]

(* The turns of the loops over items and parts are there.                   *)
LEMMA ItemTurnExists ==
  ASSUME NEW w, NEW from, NEW end, NEW n \in Nat
  PROVE  \E f : ItemTurns(f, w, from, end, n)
<1>. DEFINE T == {k \in Nat : ~ \E f : ItemTurns(f, w, from, end, k)}
<1>1. SUFFICES ASSUME T # {} PROVE FALSE
  OBVIOUS
<1>2. PICK k \in T : \A j \in T : k <= j
  <2>1. T \subseteq Nat
    OBVIOUS
  <2>. HIDE DEF T
  <2>. QED BY <1>1, <2>1, LeastOf
<1>3. k \in Nat /\ ~ \E f : ItemTurns(f, w, from, end, k)
  OBVIOUS
<1>4. CASE k = 0
  <2>. DEFINE e == [i \in 0 .. 0 |-> Read(<<>>, from)]
  <2>1. ASSUME NEW i \in 0 .. 0
        PROVE  e[i] = IF i = 0 THEN Read(<<>>, from) ELSE ItemsTurn(e[i - 1], w, end)
    OBVIOUS
  <2>2. ItemTurns(e, w, from, end, 0)
    BY <2>1 DEF ItemTurns
  <2>. QED BY <1>3, <1>4, <2>2
<1>5. CASE k # 0
  <2>1. k - 1 \in Nat /\ ~ (k <= k - 1)
    BY <1>3, <1>5
  <2>2. k - 1 \notin T
    BY <1>2, <2>1
  <2>3. PICK f : ItemTurns(f, w, from, end, k - 1)
    BY <2>1, <2>2
  <2>. DEFINE v == ItemsTurn(f[k - 1], w, end)
              h == [i \in 0 .. k |-> IF i = k THEN v ELSE f[i]]
              again == [i \in 0 .. k |-> IF i = 0 THEN Read(<<>>, from) ELSE ItemsTurn(h[i - 1], w, end)]
  <2>4. ASSUME NEW i \in 0 .. k PROVE h[i] = again[i]
    <3>1. i # 0 => i - 1 \in 0 .. k - 1 /\ i - 1 \in 0 .. k /\ i - 1 # k
      BY <1>3
    <3>2. i # 0 => h[i - 1] = f[i - 1]
      BY <3>1
    <3>3. CASE i # k
      <4>1. i \in 0 .. k - 1
        BY <1>3, <3>3
      <4>2. f[i] = IF i = 0 THEN Read(<<>>, from) ELSE ItemsTurn(f[i - 1], w, end)
        BY <2>3, <4>1 DEF ItemTurns
      <4>3. h[i] = f[i]
        BY <3>3
      <4>. QED BY <3>2, <4>2, <4>3
    <3>4. CASE i = k
      <4>1. h[i] = v
        BY <3>4
      <4>. QED BY <1>5, <3>2, <3>4, <4>1
    <3>. QED BY <3>3, <3>4
  <2>5. h = again
    BY <2>4
  <2>6. ItemTurns(h, w, from, end, k)
    BY <2>5 DEF ItemTurns
  <2>. QED BY <1>3, <2>6
<1>. QED BY <1>4, <1>5


(* The loop over the parts of a body.                                       *)
PartTurns(f, w, from, n) ==
  f = [i \in 0 .. n |-> IF i = 0 THEN Read(<<>>, from) ELSE PartsTurn(f[i - 1], w)]

LEMMA PartTurnExists ==
  ASSUME NEW w, NEW from, NEW n \in Nat
  PROVE  \E f : PartTurns(f, w, from, n)
<1>. DEFINE T == {k \in Nat : ~ \E f : PartTurns(f, w, from, k)}
<1>1. SUFFICES ASSUME T # {} PROVE FALSE
  OBVIOUS
<1>2. PICK k \in T : \A j \in T : k <= j
  <2>1. T \subseteq Nat
    OBVIOUS
  <2>. HIDE DEF T
  <2>. QED BY <1>1, <2>1, LeastOf
<1>3. k \in Nat /\ ~ \E f : PartTurns(f, w, from, k)
  OBVIOUS
<1>4. CASE k = 0
  <2>. DEFINE e == [i \in 0 .. 0 |-> Read(<<>>, from)]
  <2>1. ASSUME NEW i \in 0 .. 0
        PROVE  e[i] = IF i = 0 THEN Read(<<>>, from) ELSE PartsTurn(e[i - 1], w)
    OBVIOUS
  <2>2. PartTurns(e, w, from, 0)
    BY <2>1 DEF PartTurns
  <2>. QED BY <1>3, <1>4, <2>2
<1>5. CASE k # 0
  <2>1. k - 1 \in Nat /\ ~ (k <= k - 1)
    BY <1>3, <1>5
  <2>2. k - 1 \notin T
    BY <1>2, <2>1
  <2>3. PICK f : PartTurns(f, w, from, k - 1)
    BY <2>1, <2>2
  <2>. DEFINE v == PartsTurn(f[k - 1], w)
              h == [i \in 0 .. k |-> IF i = k THEN v ELSE f[i]]
              again == [i \in 0 .. k |-> IF i = 0 THEN Read(<<>>, from) ELSE PartsTurn(h[i - 1], w)]
  <2>4. ASSUME NEW i \in 0 .. k PROVE h[i] = again[i]
    <3>1. i # 0 => i - 1 \in 0 .. k - 1 /\ i - 1 \in 0 .. k /\ i - 1 # k
      BY <1>3
    <3>2. i # 0 => h[i - 1] = f[i - 1]
      BY <3>1
    <3>3. CASE i # k
      <4>1. i \in 0 .. k - 1
        BY <1>3, <3>3
      <4>2. f[i] = IF i = 0 THEN Read(<<>>, from) ELSE PartsTurn(f[i - 1], w)
        BY <2>3, <4>1 DEF PartTurns
      <4>3. h[i] = f[i]
        BY <3>3
      <4>. QED BY <3>2, <4>2, <4>3
    <3>4. CASE i = k
      <4>1. h[i] = v
        BY <3>4
      <4>. QED BY <1>5, <3>2, <3>4, <4>1
    <3>. QED BY <3>3, <3>4
  <2>5. h = again
    BY <2>4
  <2>6. PartTurns(h, w, from, k)
    BY <2>5 DEF PartTurns
  <2>. QED BY <1>3, <2>6
<1>. QED BY <1>4, <1>5



(* What is read of an item is not the failure that ends a loop.             *)
LEMMA ItemNotFailed ==
  ASSUME NEW item, HasText(item) \/ HasLong(item)
  PROVE  item # Failed
<1>1. CASE HasText(item)
  <2>1. item.type = "string"
    BY <1>1 DEF HasText, StringItem
  <2>. QED BY <2>1 DEF Failed
<1>2. CASE HasLong(item)
  <2>1. item.type = "long"
    BY <1>2 DEF HasLong, LongItem
  <2>. QED BY <2>1 DEF Failed
<1>. QED BY <1>1, <1>2

(* A turn reads one item.                                                   *)
LEMMA ItemsTurnIs ==
  ASSUME NEW S, Failed \notin S, NEW items \in Seq(S), NEW bytes, NEW v, WspTravels(bytes, v),
         NEW w, NEW from, NEW end, Ahead(w, from, bytes, end)
  PROVE  ItemsTurn(Read(items, from), w, end) = Read(Append(items, v), from + Len(bytes))
<1>. DEFINE r == Read(items, from)
            g == UnpackWsp(w, from, end)
<1>1. r.value = items /\ r.at = from
  BY ReadIs
<1>2. g = Read(v, from + Len(bytes)) /\ Len(bytes) >= 1 /\ Len(bytes) \in Nat
  BY DEF WspTravels
<1>3. ~ (from >= end)
  <2>1. from \in Nat /\ end \in Nat /\ from + Len(bytes) <= end
    BY DEF Ahead
  <2>. QED BY <1>2, <2>1
<1>4. ~ (items # <<>> /\ Last(items) = Failed)
  <2>1. ASSUME items # <<>> PROVE Last(items) \in S
    <3>1. Len(items) \in 1 .. Len(items)
      BY <2>1, EmptySeq, LenProperties
    <3>2. items[Len(items)] \in S
      BY <3>1, SeqIs
    <3>. QED BY <3>2 DEF Last
  <2>. QED BY <2>1
<1>5. g.value = v /\ g.at = from + Len(bytes)
  BY <1>2, ReadIs
<1>. HIDE DEF r, g
<1>6. ItemsTurn(r, w, end) = Read(Append(items, g.value), g.at)
  BY <1>1, <1>3, <1>4 DEF ItemsTurn, Of, g
<1>. QED BY <1>5, <1>6 DEF r

-----------------------------------------------------------------------------
PartItems(items) ==
  /\ IsList(items)
  /\ \A i \in DOMAIN items : items[i].name = WspContentType \/ CanReadWsp(items[i])

ItemBytes(items) == [i \in DOMAIN items |-> PackWsp(items[i])]
KeptItems(items) == [i \in DOMAIN items |-> Kept(items[i])]

(* An item is written and read again, or leaves nothing.                    *)
LEMMA ItemOrNothing ==
  ASSUME NEW S, NEW item, (item \in S /\ CanReadWsp(item)) \/ item.name = WspContentType
  PROVE  /\ PackWsp(item) \in Seq(Octets) /\ Kept(item) \in Seq(S)
         /\ \/ WspTravels(PackWsp(item), item) /\ Kept(item) = <<item>> /\ item \in S
            \/ PackWsp(item) = <<>> /\ Kept(item) = <<>>
<1>1. CASE item \in S /\ CanReadWsp(item)
  <2>1. WspTravels(PackWsp(item), item) /\ item.name # WspContentType
    BY <1>1, WspItemTravels
  <2>2. PackWsp(item) \in Seq(Octets)
    BY <2>1 DEF WspTravels
  <2>3. Kept(item) = <<item>>
    BY <2>1 DEF Kept
  <2>4. <<item>> \in Seq(S)
    BY <1>1
  <2>. QED BY <1>1, <2>1, <2>2, <2>3, <2>4
<1>2. CASE item.name = WspContentType
  <2>1. PackWsp(item) = <<>> /\ Kept(item) = <<>>
    BY <1>2, PackWspIs DEF Kept
  <2>2. <<>> \in Seq(Octets) /\ <<>> \in Seq(S)
    OBVIOUS
  <2>. QED BY <2>1, <2>2
<1>. QED BY <1>1, <1>2

LEMMA PartItemsAre ==
  ASSUME NEW items, PartItems(items), NEW S, S = {item \in Range(items) : CanReadWsp(item)}
  PROVE  /\ Len(items) \in Nat /\ DOMAIN items = 1 .. Len(items) /\ Failed \notin S
         /\ ItemBytes(items) = [i \in 1 .. Len(items) |-> ItemBytes(items)[i]]
         /\ KeptItems(items) = [i \in 1 .. Len(items) |-> KeptItems(items)[i]]
         /\ \A i \in 1 .. Len(items) :
              /\ ItemBytes(items)[i] \in Seq(Octets) /\ KeptItems(items)[i] \in Seq(S)
              /\ \/ WspTravels(ItemBytes(items)[i], items[i]) /\ KeptItems(items)[i] = <<items[i]>>
                      /\ items[i] \in S
                 \/ ItemBytes(items)[i] = <<>> /\ KeptItems(items)[i] = <<>>
<1>. DEFINE n == Len(items)
<1>1. n \in Nat /\ DOMAIN items = 1 .. n
  <2>1. items \in Seq(Range(items))
    BY DEF PartItems, IsList
  <2>. QED BY <2>1, SeqIs
<1>2. Failed \notin S
  BY WspItemTravels, ItemNotFailed
<1>. HIDE DEF n
<1>3. ASSUME NEW i \in 1 .. n
      PROVE  /\ ItemBytes(items)[i] = PackWsp(items[i]) /\ KeptItems(items)[i] = Kept(items[i])
             /\ (items[i] \in S /\ CanReadWsp(items[i])) \/ items[i].name = WspContentType
  <2>1. items[i] \in Range(items)
    BY <1>1 DEF Range
  <2>. QED BY <1>1, <2>1 DEF ItemBytes, KeptItems, PartItems
<1>4. ASSUME NEW i \in 1 .. n
      PROVE  /\ ItemBytes(items)[i] \in Seq(Octets) /\ KeptItems(items)[i] \in Seq(S)
             /\ \/ WspTravels(ItemBytes(items)[i], items[i]) /\ KeptItems(items)[i] = <<items[i]>>
                     /\ items[i] \in S
                \/ ItemBytes(items)[i] = <<>> /\ KeptItems(items)[i] = <<>>
  BY <1>3, ItemOrNothing
<1>5. /\ ItemBytes(items) = [i \in 1 .. n |-> ItemBytes(items)[i]]
      /\ KeptItems(items) = [i \in 1 .. n |-> KeptItems(items)[i]]
  BY <1>1 DEF ItemBytes, KeptItems
<1>. QED BY <1>1, <1>2, <1>4, <1>5 DEF n

(* The loop, after the turns that k items take.                             *)
ItemsDone(f, kept, from, g, k) ==
  \E i \in Nat : i <= Len(g[k]) /\ f[i] = Read(kept[k], from + Len(g[k]))

(* One turn reads one item of a part, and keeps it or not.                  *)
LEMMA ItemsStep ==
  ASSUME NEW items, PartItems(items), NEW S, S = {item \in Range(items) : CanReadWsp(item)},
         NEW n, n = Len(items),
         NEW g, Joins(g, ItemBytes(items), n), \A k \in 0 .. n : g[k] \in Seq(Octets),
         NEW h, Joins(h, KeptItems(items), n), \A k \in 0 .. n : h[k] \in Seq(S),
         NEW w, NEW from \in Nat, NEW end, AllAhead(w, from, g, ItemBytes(items), n, end),
         end = from + Len(g[n]), NEW f, ItemTurns(f, w, from, end, Len(g[n])),
         NEW k \in 1 .. n, ItemsDone(f, h, from, g, k - 1)
  PROVE  ItemsDone(f, h, from, g, k)
<1>. DEFINE p == ItemBytes(items)
            q == KeptItems(items)
            y == from + Len(g[k - 1])
<1>1. /\ n \in Nat /\ Failed \notin S
      /\ \A i \in 1 .. n :
              /\ p[i] \in Seq(Octets) /\ q[i] \in Seq(S)
              /\ \/ WspTravels(p[i], items[i]) /\ q[i] = <<items[i]>> /\ items[i] \in S
                 \/ p[i] = <<>> /\ q[i] = <<>>
  BY PartItemsAre
<1>2. k - 1 \in 0 .. n /\ k \in 0 .. n
  OBVIOUS
<1>. HIDE DEF p, q
<1>3. Joins(g, p, n) /\ Joins(h, q, n)
  BY DEF p, q
<1>4. /\ Ahead(w, y, p[k], end)
      /\ Len(g[k]) = Len(g[k - 1]) + Len(p[k]) /\ Len(g[k - 1]) \in Nat /\ Len(p[k]) \in Nat
  BY DEF AllAhead, p
<1>5. g[k] = g[k - 1] \o p[k] /\ h[k] = h[k - 1] \o q[k]
  BY <1>3 DEF Joins
<1>6. PICK i \in Nat : i <= Len(g[k - 1]) /\ f[i] = Read(h[k - 1], y)
  BY DEF ItemsDone
<1>7. CASE p[k] = <<>> /\ q[k] = <<>>
  <2>. DEFINE a == g[k - 1]
              b == h[k - 1]
  <2>1. a \in Seq(Octets) /\ b \in Seq(S)
    BY <1>2
  <2>. HIDE DEF a, b
  <2>2. a \o <<>> = a /\ b \o <<>> = b
    BY <2>1, ConcatEmptySeq
  <2>3. g[k] = g[k - 1] /\ h[k] = h[k - 1]
    BY <1>5, <1>7, <2>2 DEF a, b
  <2>. QED BY <1>6, <2>3 DEF ItemsDone
<1>8. CASE WspTravels(p[k], items[k]) /\ q[k] = <<items[k]>> /\ items[k] \in S
  <2>. DEFINE v == items[k]
              b == h[k - 1]
  <2>1. ItemsTurn(Read(b, y), w, end) = Read(Append(b, v), y + Len(p[k]))
    <3>. DEFINE c == p[k]
    <3>1. b \in Seq(S) /\ WspTravels(c, v) /\ Ahead(w, y, c, end)
      BY <1>2, <1>4, <1>8
    <3>. HIDE DEF b, v, y, c
    <3>2. ItemsTurn(Read(b, y), w, end) = Read(Append(b, v), y + Len(c))
      <4>1. Failed \notin S
        BY <1>1
      <4>. QED BY <4>1, <3>1, ItemsTurnIs
    <3>. QED BY <3>2 DEF c
  <2>2. Append(b, v) = h[k]
    <3>1. b \in Seq(S) /\ v \in S
      BY <1>2, <1>8
    <3>2. h[k] = b \o <<v>>
      BY <1>5, <1>8
    <3>. HIDE DEF b, v
    <3>. QED BY <3>1, <3>2
  <2>3. y + Len(p[k]) = from + Len(g[k]) /\ Len(p[k]) >= 1 /\ Len(g[k]) <= Len(g[n])
    <3>1. from \in Nat /\ end \in Nat /\ y + Len(p[k]) <= end
      BY <1>4 DEF Ahead
    <3>2. Len(g[n]) \in Nat
      BY <1>1, SeqIs
    <3>3. Len(p[k]) >= 1
      BY <1>8 DEF WspTravels
    <3>. DEFINE c == Len(p[k])
                before == Len(g[k - 1])
                behind == Len(g[k])
                all == Len(g[n])
    <3>4. /\ c \in Nat /\ before \in Nat /\ all \in Nat /\ c >= 1 /\ behind = before + c
          /\ from \in Nat /\ (from + before) + c <= from + all
      BY <1>4, <3>1, <3>2, <3>3
    <3>. HIDE DEF c, before, behind, all
    <3>5. (from + before) + c = from + behind /\ c >= 1 /\ behind <= all
      BY <3>4
    <3>. QED BY <3>5 DEF c, before, behind, all
  <2>4. i + 1 \in 0 .. Len(g[n]) /\ i + 1 # 0 /\ (i + 1) - 1 = i /\ i + 1 \in Nat /\ i + 1 <= Len(g[k])
    <3>1. Len(g[n]) \in Nat
      BY <1>1, SeqIs
    <3>. DEFINE c == Len(p[k])
                before == Len(g[k - 1])
                behind == Len(g[k])
                all == Len(g[n])
    <3>2. /\ c \in Nat /\ before \in Nat /\ all \in Nat /\ c >= 1 /\ behind = before + c
          /\ i <= before /\ behind <= all
      BY <1>4, <1>6, <2>3, <3>1
    <3>. HIDE DEF c, before, behind, all
    <3>3. i + 1 \in 0 .. all /\ i + 1 # 0 /\ (i + 1) - 1 = i /\ i + 1 \in Nat /\ i + 1 <= behind
      BY <3>2
    <3>. QED BY <3>3 DEF behind, all
  <2>5. f[i + 1] = ItemsTurn(f[i], w, end)
    <3>. DEFINE j == i + 1
                m == Len(g[n])
    <3>1. j \in 0 .. m /\ j # 0 /\ j - 1 = i
      BY <2>4
    <3>. HIDE DEF j, m
    <3>2. f[j] = IF j = 0 THEN Read(<<>>, from) ELSE ItemsTurn(f[j - 1], w, end)
      BY <3>1 DEF ItemTurns, m
    <3>. QED BY <3>1, <3>2 DEF j
  <2>6. f[i + 1] = Read(h[k], from + Len(g[k]))
    BY <1>6, <2>1, <2>2, <2>3, <2>5
  <2>. QED BY <2>4, <2>6 DEF ItemsDone
<1>. QED BY <1>1, <1>7, <1>8

(* After as many turns as there are items the loop is behind them.          *)
LEMMA ItemsReach ==
  ASSUME NEW items, PartItems(items), NEW S, S = {item \in Range(items) : CanReadWsp(item)},
         NEW n, n = Len(items),
         NEW g, Joins(g, ItemBytes(items), n), \A k \in 0 .. n : g[k] \in Seq(Octets),
         NEW h, Joins(h, KeptItems(items), n), \A k \in 0 .. n : h[k] \in Seq(S),
         NEW w, NEW from \in Nat, NEW end, AllAhead(w, from, g, ItemBytes(items), n, end),
         end = from + Len(g[n]), NEW f, ItemTurns(f, w, from, end, Len(g[n]))
  PROVE  ItemsDone(f, h, from, g, n)
<1>. DEFINE Ok(k) == ItemsDone(f, h, from, g, k)
            T == {k \in 0 .. n : ~ Ok(k)}
<1>1. n \in Nat
  BY PartItemsAre
<1>2. Ok(0)
  <2>1. g[0] = <<>> /\ h[0] = <<>>
    BY DEF Joins
  <2>2. Len(g[n]) \in Nat
    <3>1. n \in 0 .. n
      BY <1>1
    <3>. QED BY <3>1, SeqIs
  <2>3. f[0] = Read(<<>>, from)
    <3>. DEFINE m == Len(g[n])
    <3>1. 0 \in 0 .. m
      BY <2>2
    <3>. HIDE DEF m
    <3>. QED BY <3>1 DEF ItemTurns, m
  <2>4. Len(g[0]) = 0 /\ from + Len(g[0]) = from
    BY <2>1
  <2>5. f[0] = Read(h[0], from + Len(g[0])) /\ 0 <= Len(g[0])
    BY <2>1, <2>3, <2>4
  <2>. QED BY <2>5 DEF ItemsDone
<1>3. ASSUME NEW k \in 1 .. n, Ok(k - 1) PROVE Ok(k)
  BY <1>3, ItemsStep
<1>. HIDE DEF Ok
<1>4. T = {}
  <2>1. SUFFICES ASSUME T # {} PROVE FALSE
    OBVIOUS
  <2>2. PICK k \in T : \A j \in T : k <= j
    <3>1. T \subseteq Nat
      OBVIOUS
    <3>. HIDE DEF T
    <3>. QED BY <2>1, <3>1, LeastOf
  <2>3. k \in 0 .. n /\ ~ Ok(k)
    OBVIOUS
  <2>4. k # 0
    BY <1>2, <2>3
  <2>5. k \in 1 .. n /\ k - 1 \in 0 .. n /\ ~ (k <= k - 1)
    BY <2>3, <2>4
  <2>6. Ok(k - 1)
    BY <2>2, <2>5
  <2>. QED BY <1>3, <2>3, <2>5, <2>6
<1>5. n \in 0 .. n
  BY <1>1
<1>6. Ok(n)
  BY <1>4, <1>5
<1>. QED BY <1>6 DEF Ok

(* It stays there.                                                          *)
LEMMA ItemsSettled ==
  ASSUME NEW w, NEW from, NEW end, NEW m \in Nat, NEW f, ItemTurns(f, w, from, end, m),
         NEW last, ItemsTurn(last, w, end) = last, NEW i \in Nat, i <= m, f[i] = last
  PROVE  f[m] = last
<1>1. ASSUME NEW j \in Nat, i < j, j <= m, f[j - 1] = last PROVE f[j] = last
  <2>1. j \in 0 .. m /\ j # 0
    BY <1>1
  <2>2. f[j] = IF j = 0 THEN Read(<<>>, from) ELSE ItemsTurn(f[j - 1], w, end)
    BY <2>1 DEF ItemTurns
  <2>. QED BY <1>1, <2>1, <2>2
<1>. QED BY <1>1, Settled

(* mms_header_unpack reads all items of a part.                             *)
LEMMA ItemsRead ==
  ASSUME NEW items, PartItems(items), NEW w, NEW from, NEW end, NEW limit,
         Ahead(w, from, FlattenSeq(ItemBytes(items)), end),
         limit = from + Len(FlattenSeq(ItemBytes(items)))
  PROVE  UnpackItems(w, from, limit) = Read(FlattenSeq(KeptItems(items)), limit)
<1>. DEFINE S == {item \in Range(items) : CanReadWsp(item)}
            n == Len(items)
            all == FlattenSeq(ItemBytes(items))
            m == Len(all)
            last == Read(FlattenSeq(KeptItems(items)), limit)
<1>1. /\ n \in Nat /\ Failed \notin S
      /\ ItemBytes(items) = [i \in 1 .. n |-> ItemBytes(items)[i]]
      /\ KeptItems(items) = [i \in 1 .. n |-> KeptItems(items)[i]]
      /\ \A i \in 1 .. n : ItemBytes(items)[i] \in Seq(Octets) /\ KeptItems(items)[i] \in Seq(S)
  BY PartItemsAre
<1>. HIDE DEF S, n
<1>2. PICK g : /\ Joins(g, ItemBytes(items), n) /\ all = g[n]
               /\ \A k \in 0 .. n : g[k] \in Seq(Octets)
  <2>. DEFINE p == ItemBytes(items)
  <2>1. p = [i \in 1 .. n |-> p[i]] /\ \A i \in 1 .. n : p[i] \in Seq(Octets)
    BY <1>1
  <2>. HIDE DEF p
  <2>2. \E g : Joins(g, p, n) /\ FlattenSeq(p) = g[n] /\ \A k \in 0 .. n : g[k] \in Seq(Octets)
    BY <1>1, <2>1, PrefixesExist
  <2>. QED BY <2>2 DEF p
<1>3. PICK h : /\ Joins(h, KeptItems(items), n) /\ FlattenSeq(KeptItems(items)) = h[n]
               /\ \A k \in 0 .. n : h[k] \in Seq(S)
  <2>. DEFINE p == KeptItems(items)
  <2>1. p = [i \in 1 .. n |-> p[i]] /\ \A i \in 1 .. n : p[i] \in Seq(S)
    BY <1>1
  <2>. HIDE DEF p
  <2>2. \E j : Joins(j, p, n) /\ FlattenSeq(p) = j[n] /\ \A k \in 0 .. n : j[k] \in Seq(S)
    BY <1>1, <2>1, PrefixesExist
  <2>. QED BY <2>2 DEF p
<1>4. /\ from \in Nat /\ m \in Nat /\ limit = from + m /\ Ahead(w, from, all, limit)
  <2>1. Ahead(w, from, all, limit)
    <3>. HIDE DEF all
    <3>. QED BY AheadLimit DEF all
  <2>2. from \in Nat /\ all \in Seq(Octets)
    BY DEF Ahead
  <2>3. m \in Nat
    BY <2>2
  <2>. QED BY <2>1, <2>2, <2>3
<1>. HIDE DEF all, last
<1>5. AllAhead(w, from, g, ItemBytes(items), n, limit)
  <2>1. Ahead(w, from, g[n], limit)
    BY <1>2, <1>4
  <2>2. Pieces(g, ItemBytes(items), n, Octets)
    BY <1>1, <1>2 DEF Pieces
  <2>. QED BY <2>1, <2>2, PiecesAhead
<1>. HIDE DEF m
<1>6. m = Len(g[n])
  BY <1>2 DEF m
<1>7. PICK f : ItemTurns(f, w, from, limit, m) /\ UnpackItems(w, from, limit) = f[m]
  <2>. DEFINE Turns(t) == t = [i \in 0 .. m |-> IF i = 0 THEN Read(<<>>, from) ELSE ItemsTurn(t[i - 1], w, limit)]
  <2>1. \E t : Turns(t)
    <3>1. \E t : ItemTurns(t, w, from, limit, m)
      BY <1>4, ItemTurnExists
    <3>. QED BY <3>1 DEF ItemTurns
  <2>2. BytesLeft(from, limit) = m
    BY <1>4 DEF BytesLeft
  <2>3. UnpackItems(w, from, limit) = (CHOOSE t : Turns(t))[m]
    BY <2>2 DEF UnpackItems
  <2>4. Turns(CHOOSE t : Turns(t))
    <3>. HIDE DEF Turns
    <3>. QED BY <2>1
  <2>5. ItemTurns(CHOOSE t : Turns(t), w, from, limit, m)
    BY <2>4 DEF ItemTurns
  <2>. QED BY <2>3, <2>5
<1>8. ItemsDone(f, h, from, g, n)
  <2>1. limit = from + Len(g[n]) /\ ItemTurns(f, w, from, limit, Len(g[n]))
    BY <1>4, <1>6, <1>7
  <2>2. S = {item \in Range(items) : CanReadWsp(item)} /\ n = Len(items)
    BY DEF S, n
  <2>. QED BY <1>2, <1>3, <1>4, <1>5, <2>1, <2>2, ItemsReach
<1>9. PICK i \in Nat : i <= m /\ f[i] = last
  BY <1>3, <1>4, <1>6, <1>8 DEF ItemsDone, last
<1>10. ItemsTurn(last, w, limit) = last
  <2>1. last.at >= limit
    <3>1. last.at = limit
      BY ReadIs DEF last
    <3>2. limit \in Nat
      BY <1>4
    <3>. QED BY <3>1, <3>2
  <2>. QED BY <2>1 DEF ItemsTurn
<1>11. f[m] = last
  BY <1>4, <1>7, <1>9, <1>10, ItemsSettled
<1>. QED BY <1>7, <1>11 DEF last

-----------------------------------------------------------------------------
LEMMA PartFieldsAre ==
  ASSUME NEW part, IsPart(part)
  PROVE  /\ PartItems(part.items) /\ IsContentType(part.ct)
         /\ PartMeans(part) = [ct |-> WithoutFilename(part.ct), items |-> FlattenSeq(KeptItems(part.items)),
                               data |-> part.data]
         /\ PartHeader(part) = PackContentType(part.ct) \o FlattenSeq(ItemBytes(part.items))
         /\ part.data \in Seq(Octets) /\ Len(part.data) \in Lengths
<1>1. PartItems(part.items) /\ IsContentType(part.ct)
  BY DEF IsPart, PartItems
<1>2. PartHeader(part) = PackContentType(part.ct) \o FlattenSeq(ItemBytes(part.items))
  BY DEF PartHeader, ItemBytes
<1>3. PartMeans(part) = [ct |-> WithoutFilename(part.ct), items |-> FlattenSeq(KeptItems(part.items)),
                         data |-> part.data]
  <2>1. part = [ct |-> part.ct, items |-> part.items, data |-> part.data]
    BY DEF IsPart
  <2>. DEFINE a == part.ct
              b == part.items
              d == part.data
              x == WithoutFilename(a)
              y == FlattenSeq(KeptItems(b))
  <2>2. PartMeans(part) = [part EXCEPT !.ct = x, !.items = y]
    BY DEF PartMeans, KeptItems
  <2>3. part = [ct |-> a, items |-> b, data |-> d]
    BY <2>1
  <2>. HIDE DEF a, b, d, x, y
  <2>4. [[ct |-> a, items |-> b, data |-> d] EXCEPT !.ct = x, !.items = y]
          = [ct |-> x, items |-> y, data |-> d]
    <3>1. [[ct |-> a, items |-> b, data |-> d] EXCEPT !.ct = x] = [ct |-> x, items |-> b, data |-> d]
      OBVIOUS
    <3>2. [[ct |-> x, items |-> b, data |-> d] EXCEPT !.items = y] = [ct |-> x, items |-> y, data |-> d]
      OBVIOUS
    <3>. QED BY <3>1, <3>2
  <2>5. PartMeans(part) = [ct |-> x, items |-> y, data |-> d]
    BY <2>2, <2>3, <2>4
  <2>. QED BY <2>5 DEF a, b, d, x, y
<1>4. part.data \in Seq(Octets) /\ Len(part.data) < MaxPart
  BY DEF IsPart
<1>5. Len(part.data) \in Nat
  <2>. DEFINE d == part.data
  <2>1. d \in Seq(Octets)
    BY <1>4
  <2>. HIDE DEF d
  <2>2. Len(d) \in Nat
    BY <2>1
  <2>. QED BY <2>2 DEF d
<1>6. Len(part.data) \in Lengths
  BY <1>4, <1>5, LengthsAre
<1>. QED BY <1>1, <1>2, <1>3, <1>4, <1>6

LEMMA ItemBytesFlat ==
  ASSUME NEW items, PartItems(items)
  PROVE  FlattenSeq(ItemBytes(items)) \in Seq(Octets)
<1>. DEFINE p == ItemBytes(items)
            n == Len(items)
<1>1. n \in Nat /\ p = [i \in 1 .. n |-> p[i]] /\ \A i \in 1 .. n : p[i] \in Seq(Octets)
  BY PartItemsAre
<1>. HIDE DEF p, n
<1>2. PICK g : Joins(g, p, n) /\ FlattenSeq(p) = g[n] /\ \A k \in 0 .. n : g[k] \in Seq(Octets)
  <2>1. \E g : Joins(g, p, n) /\ FlattenSeq(p) = g[n] /\ \A k \in 0 .. n : g[k] \in Seq(Octets)
    BY <1>1, PrefixesExist
  <2>. QED BY <2>1
<1>3. n \in 0 .. n
  BY <1>1
<1>. QED BY <1>2, <1>3 DEF p

(* The header of a part is its content type and its items.                  *)
LEMMA PartHeaderIs ==
  ASSUME NEW part, IsPart(part)
  PROVE  /\ PartHeader(part) \in Seq(Octets) /\ Len(PartHeader(part)) \in Lengths
         /\ PackContentType(part.ct) \in Seq(Octets) /\ FlattenSeq(ItemBytes(part.items)) \in Seq(Octets)
<1>. DEFINE c == PackContentType(part.ct)
            f == FlattenSeq(ItemBytes(part.items))
            h == PartHeader(part)
<1>1. c \in Seq(Octets)
  BY PartFieldsAre, ContentTypeIs
<1>2. f \in Seq(Octets)
  BY PartFieldsAre, ItemBytesFlat
<1>3. h = c \o f
  BY PartFieldsAre
<1>4. Len(h) < MaxPart
  BY DEF IsPart
<1>. HIDE DEF c, f, h
<1>5. h \in Seq(Octets)
  BY <1>1, <1>2, <1>3, Joined
<1>6. Len(h) \in Nat
  BY <1>5
<1>7. Len(h) \in Lengths
  BY <1>4, <1>6, LengthsAre
<1>. QED BY <1>1, <1>2, <1>5, <1>7 DEF c, f, h

LEMMA FourAre ==
  ASSUME NEW a \in Seq(Octets), NEW b \in Seq(Octets), NEW c \in Seq(Octets), NEW d \in Seq(Octets)
  PROVE  /\ ((a \o b) \o c) \o d \in Seq(Octets)
         /\ Len(((a \o b) \o c) \o d) = ((Len(a) + Len(b)) + Len(c)) + Len(d)
         /\ \A w, from, end : Ahead(w, from, ((a \o b) \o c) \o d, end) =>
              /\ from \in Nat
              /\ Ahead(w, from, a, end) /\ Ahead(w, from + Len(a), b, end)
              /\ Ahead(w, (from + Len(a)) + Len(b), c, end)
              /\ Ahead(w, ((from + Len(a)) + Len(b)) + Len(c), d, end)
<1>. DEFINE ab == a \o b
            abc == ab \o c
<1>1. ab \in Seq(Octets) /\ Len(ab) = Len(a) + Len(b)
  BY Joined
<1>. HIDE DEF ab
<1>2. abc \in Seq(Octets) /\ Len(abc) = Len(ab) + Len(c)
  BY <1>1, Joined
<1>. HIDE DEF abc
<1>3. abc \o d \in Seq(Octets) /\ Len(abc \o d) = Len(abc) + Len(d)
  BY <1>2, Joined
<1>4. Len(a) \in Nat /\ Len(b) \in Nat /\ Len(c) \in Nat /\ Len(d) \in Nat
  BY SeqIs
<1>5. ASSUME NEW w, NEW from, NEW end, Ahead(w, from, abc \o d, end)
      PROVE  /\ from \in Nat
             /\ Ahead(w, from, a, end) /\ Ahead(w, from + Len(a), b, end)
             /\ Ahead(w, (from + Len(a)) + Len(b), c, end)
             /\ Ahead(w, ((from + Len(a)) + Len(b)) + Len(c), d, end)
  <2>1. from \in Nat
    BY <1>5 DEF Ahead
  <2>2. Ahead(w, from, abc, end) /\ Ahead(w, from + Len(abc), d, end)
    BY <1>2, <1>5, AheadSplit
  <2>3. Ahead(w, from, ab \o c, end)
    BY <2>2 DEF abc
  <2>4. Ahead(w, from, ab, end) /\ Ahead(w, from + Len(ab), c, end)
    BY <1>1, <2>3, AheadSplit
  <2>5. Ahead(w, from, a \o b, end)
    BY <2>4 DEF ab
  <2>6. Ahead(w, from, a, end) /\ Ahead(w, from + Len(a), b, end)
    BY <2>5, AheadSplit
  <2>7. from + Len(ab) = (from + Len(a)) + Len(b)
        /\ from + Len(abc) = ((from + Len(a)) + Len(b)) + Len(c)
    BY <1>1, <1>2, <1>4, <2>1
  <2>. QED BY <2>1, <2>2, <2>4, <2>6, <2>7
<1>. QED BY <1>1, <1>2, <1>3, <1>5 DEF ab, abc

(* A part is two lengths, its header and its data.                          *)
LEMMA PartIs ==
  ASSUME NEW part, IsPart(part)
  PROVE  PackPart(part) \in Seq(Octets) /\ Len(PackPart(part)) \in Nat /\ Len(PackPart(part)) >= 1
<1>. DEFINE h == PartHeader(part)
            d == part.data
            a == PutVarInt(Len(h))
            b == PutVarInt(Len(d))
<1>1. h \in Seq(Octets) /\ Len(h) \in Lengths
  BY PartHeaderIs
<1>2. d \in Seq(Octets) /\ Len(d) \in Lengths
  BY PartFieldsAre
<1>3. a \in Seq(Octets) /\ Len(a) \in Nat /\ 1 <= Len(a)
  <2>. DEFINE n == Len(h)
  <2>1. n \in Lengths
    BY <1>1
  <2>. HIDE DEF n
  <2>2. PutVarInt(n) \in Seq(Octets) /\ Len(PutVarInt(n)) \in Nat /\ 1 <= Len(PutVarInt(n))
    BY <2>1, VarIntIs
  <2>. QED BY <2>2 DEF n
<1>4. b \in Seq(Octets)
  <2>. DEFINE n == Len(d)
  <2>1. n \in Lengths
    BY <1>2
  <2>. HIDE DEF n
  <2>2. PutVarInt(n) \in Seq(Octets)
    BY <2>1, VarIntIs
  <2>. QED BY <2>2 DEF n
<1>5. PackPart(part) = ((a \o b) \o h) \o d
  BY DEF PackPart, PackPartOf
<1>. HIDE DEF a, b, h, d
<1>6. /\ ((a \o b) \o h) \o d \in Seq(Octets)
      /\ Len(((a \o b) \o h) \o d) = ((Len(a) + Len(b)) + Len(h)) + Len(d)
  BY <1>1, <1>2, <1>3, <1>4, FourAre
<1>7. Len(b) \in Nat /\ Len(h) \in Nat /\ Len(d) \in Nat
  BY <1>1, <1>2, <1>4, SeqIs
<1>8. Len(PackPart(part)) = ((Len(a) + Len(b)) + Len(h)) + Len(d)
  BY <1>5, <1>6
<1>. QED BY <1>3, <1>5, <1>6, <1>7, <1>8

(* mms_body_part_unpack reads what mms_body_part_pack wrote.                *)
LEMMA PartRead ==
  ASSUME NEW part, IsPart(part), NEW w, NEW from, NEW end, Ahead(w, from, PackPart(part), end)
  PROVE  UnpackPart(w, from, end) = Read(PartMeans(part), from + Len(PackPart(part)))
<1>. DEFINE h == PartHeader(part)
            d == part.data
            c == PackContentType(part.ct)
            f == FlattenSeq(ItemBytes(part.items))
            nh == Len(h)
            nd == Len(d)
            a == PutVarInt(nh)
            b == PutVarInt(nd)
            x == from + Len(a)
            y == x + Len(b)
            first == y + Len(c)
            z == y + nh
            ct == WithoutFilename(part.ct)
            items == FlattenSeq(KeptItems(part.items))
            all == [ct |-> ct, items |-> items, data |-> d]
<1>1. h \in Seq(Octets) /\ nh \in Lengths /\ h = c \o f /\ c \in Seq(Octets) /\ f \in Seq(Octets)
  BY PartHeaderIs, PartFieldsAre
<1>2. d \in Seq(Octets) /\ nd \in Lengths /\ PartMeans(part) = all
  BY PartFieldsAre
<1>3. a \in Seq(Octets) /\ b \in Seq(Octets)
  <2>. HIDE DEF nh, nd
  <2>. QED BY <1>1, <1>2, VarIntIs
<1>4. PackPart(part) = ((a \o b) \o h) \o d
  BY DEF PackPart, PackPartOf
<1>5. /\ from \in Nat /\ Ahead(w, from, a, end) /\ Ahead(w, x, b, end)
      /\ Ahead(w, y, h, end) /\ Ahead(w, z, d, end)
      /\ Len(PackPart(part)) = ((Len(a) + Len(b)) + nh) + nd
  <2>1. Ahead(w, from, ((a \o b) \o h) \o d, end)
    BY <1>4
  <2>2. h \in Seq(Octets)
    BY <1>1
  <2>3. d \in Seq(Octets)
    BY <1>2
  <2>. DEFINE p == PackPart(part)
  <2>4. p = ((a \o b) \o h) \o d
    BY <1>4
  <2>. HIDE DEF a, b, h, d, p
  <2>5. /\ from \in Nat
        /\ Ahead(w, from, a, end) /\ Ahead(w, from + Len(a), b, end)
        /\ Ahead(w, (from + Len(a)) + Len(b), h, end)
        /\ Ahead(w, ((from + Len(a)) + Len(b)) + Len(h), d, end)
        /\ Len(((a \o b) \o h) \o d) = ((Len(a) + Len(b)) + Len(h)) + Len(d)
    BY <1>3, <2>1, <2>2, <2>3, FourAre
  <2>. QED BY <2>4, <2>5 DEF p
<1>6. Len(a) \in Nat /\ Len(b) \in Nat /\ nh \in Nat /\ nd \in Nat /\ Len(c) \in Nat /\ Len(f) \in Nat
  <2>1. h \in Seq(Octets) /\ c \in Seq(Octets) /\ f \in Seq(Octets)
    BY <1>1
  <2>2. d \in Seq(Octets)
    BY <1>2
  <2>. HIDE DEF a, b, h, d, c, f
  <2>. QED BY <1>3, <2>1, <2>2, SeqIs
<1>7. GetVarInt(w, from, end) = Read(nh, x)
  <2>. HIDE DEF nh
  <2>. QED BY <1>1, <1>5, VarIntRead
<1>8. GetVarInt(w, x, end) = Read(nd, y)
  <2>. HIDE DEF nd, x
  <2>. QED BY <1>2, <1>5, VarIntRead
<1>9. Ahead(w, y, h, z) /\ Limit(w, z, end) = z
  <2>. HIDE DEF h, y
  <2>. QED BY <1>5, AheadLimit
<1>10. Ahead(w, y, c, z) /\ Ahead(w, first, f, z) /\ z = first + Len(f)
  <2>1. Ahead(w, y, c \o f, z)
    BY <1>1, <1>9
  <2>2. nh = Len(c) + Len(f)
    <3>1. h = c \o f /\ c \in Seq(Octets) /\ f \in Seq(Octets)
      BY <1>1
    <3>. HIDE DEF c, f, h
    <3>. QED BY <3>1, Joined
  <2>3. y \in Nat
    BY <1>5, <1>6
  <2>4. c \in Seq(Octets) /\ f \in Seq(Octets)
    BY <1>1
  <2>5. z = first + Len(f)
    <3>. HIDE DEF c, f, nh, y
    <3>. QED BY <1>6, <2>2, <2>3
  <2>6. Ahead(w, y, c, z) /\ Ahead(w, y + Len(c), f, z)
    <3>. HIDE DEF c, f, z, y
    <3>. QED BY <2>1, <2>4, AheadSplit
  <2>. QED BY <2>5, <2>6
<1>11. UnpackContentType(w, y, z) = Read(ct, first)
  <2>1. IsContentType(part.ct)
    BY PartFieldsAre
  <2>. HIDE DEF y, z
  <2>. QED BY <1>10, <2>1, ContentTypeRead
<1>12. UnpackItems(w, first, z) = Read(items, z)
  <2>1. PartItems(part.items)
    BY PartFieldsAre
  <2>. HIDE DEF first, z
  <2>. QED BY <1>10, <2>1, ItemsRead
<1>13. GetData(w, z, end, nd) = Read(d, z + nd)
  <2>. HIDE DEF z, d
  <2>. QED BY <1>5, DataRead DEF nd
<1>14. z + nd = from + Len(PackPart(part))
  <2>. HIDE DEF nh, nd, a, b
  <2>1. ((((from + Len(a)) + Len(b)) + nh) + nd) = from + (((Len(a) + Len(b)) + nh) + nd)
    BY <1>5, <1>6
  <2>. QED BY <1>5, <2>1
<1>. HIDE DEF x, y, z, first, ct, items, d, nd, nh, h, all
<1>15. UnpackPartOf(nd, w, y, z, end) = Read(all, z + nd)
  <2>. DEFINE g1 == UnpackContentType(w, y, z)
              g2 == UnpackItems(w, first, z)
              g3 == GetData(w, z, end, nd)
  <2>1. g1.value = ct /\ g1.at = first /\ g2.value = items /\ g2.at = z /\ g3.value = d /\ g3.at = z + nd
    BY <1>11, <1>12, <1>13, ReadIs
  <2>2. UnpackPartOf(nd, w, y, z, end)
          = Read([ct |-> ct, items |-> items, data |-> g3.value], g3.at)
    <3>1. UnpackPartOf(nd, w, y, z, end)
            = Read([ct |-> g1.value, items |-> UnpackItems(w, g1.at, z).value,
                    data |-> GetData(w, UnpackItems(w, g1.at, z).at, end, nd).value],
                   GetData(w, UnpackItems(w, g1.at, z).at, end, nd).at)
      BY DEF UnpackPartOf, Then, Of
    <3>2. UnpackItems(w, g1.at, z) = g2
      BY <2>1
    <3>3. GetData(w, UnpackItems(w, g1.at, z).at, end, nd) = g3
      BY <2>1, <3>2
    <3>. HIDE DEF g1, g2, g3
    <3>. QED BY <2>1, <3>1, <3>2, <3>3
  <2>. QED BY <2>1, <2>2 DEF all
<1>16. UnpackPart(w, from, end) = UnpackPartOf(nd, w, y, z, end)
  <2>. DEFINE g1 == GetVarInt(w, from, end)
              g2 == GetVarInt(w, x, end)
  <2>1. g1.value = nh /\ g1.at = x /\ g2.value = nd /\ g2.at = y
    BY <1>7, <1>8, ReadIs
  <2>2. y + nh = z
    BY DEF z
  <2>3. UnpackPart(w, from, end) = UnpackPartOf(g2.value, w, g2.at, Limit(w, g2.at + nh, end), end)
    BY <2>1 DEF UnpackPart, Then
  <2>. QED BY <1>9, <2>1, <2>2, <2>3
<1>. QED BY <1>2, <1>14, <1>15, <1>16

-----------------------------------------------------------------------------
(* A small number is its own byte, as value length and as integer.           *)
LEMMA SmallVarInt ==
  ASSUME NEW n \in Nat, n <= 127
  PROVE  PutVarInt(n) = <<n>> /\ n \in Lengths
<1>. DEFINE p == PutVarInt(n)
            q == [k \in 1 .. Len(p) |-> p[k] % 128]
<1>1. n <= 255
  OBVIOUS
<1>2. n \in Lengths
  BY <1>1, SmallLengths
<1>3. VarBytes(n) = 1
  BY <1>2, VarBytesIs
<1>4. /\ p \in Seq(Octets) /\ p[Len(p)] < 128 /\ Number(q, 128) = n
  BY <1>2, VarIntIs
<1>5. Len(p) = 1
  <2>. DEFINE count == VarBytes(n)
  <2>1. p = [i \in 1 .. count |-> Digits(n, 128, count)[i] + (IF i < count THEN 128 ELSE 0)]
    BY DEF PutVarInt, VarBytes
  <2>2. DOMAIN p = 1 .. 1
    BY <1>3, <2>1
  <2>3. DOMAIN p = 1 .. Len(p) /\ Len(p) \in Nat
    BY <1>4, SeqIs
  <2>. QED BY <2>2, <2>3
<1>. HIDE DEF p
<1>6. p[1] \in 0 .. 255 /\ p[1] < 128
  <2>1. p[1] \in Octets
    BY <1>4, <1>5, SeqIs
  <2>. QED BY <1>4, <1>5, <2>1 DEF Octets
<1>7. Len(q) = 1 /\ q[1] = p[1]
  <2>1. p[1] % 128 = p[1]
    BY <1>6
  <2>. QED BY <1>5, <2>1
<1>8. p[1] = n
  <2>. HIDE DEF q
  <2>1. Len(q) \in 1 .. 4 /\ \A i \in 1 .. Len(q) : q[i] \in Nat
    BY <1>6, <1>7
  <2>2. Number(q, 128) = q[1]
    BY <1>7, <2>1, VarNumbers
  <2>. QED BY <1>4, <1>7, <2>2
<1>9. p = <<n>>
  <2>1. p = <<p[1]>>
    BY <1>4, <1>5
  <2>. QED BY <1>8, <2>1
<1>. QED BY <1>2, <1>9 DEF p

PartBytes(parts) == [i \in DOMAIN parts |-> PackPart(parts[i])]
MeantParts(parts) == [i \in DOMAIN parts |-> PartMeans(parts[i])]

Parts(parts) ==
  IsList(parts) /\ Len(parts) <= 30 /\ \A i \in DOMAIN parts : IsPart(parts[i])

LEMMA PartsAre ==
  ASSUME NEW parts, Parts(parts)
  PROVE  /\ Len(parts) \in Nat /\ DOMAIN parts = 1 .. Len(parts)
         /\ PartBytes(parts) = [i \in 1 .. Len(parts) |-> PartBytes(parts)[i]]
         /\ MeantParts(parts) = [i \in 1 .. Len(parts) |-> MeantParts(parts)[i]]
         /\ \A i \in 1 .. Len(parts) :
              /\ IsPart(parts[i])
              /\ PartBytes(parts)[i] = PackPart(parts[i]) /\ MeantParts(parts)[i] = PartMeans(parts[i])
              /\ PartBytes(parts)[i] \in Seq(Octets) /\ Len(PartBytes(parts)[i]) >= 1
<1>. DEFINE n == Len(parts)
<1>1. n \in Nat /\ DOMAIN parts = 1 .. n
  <2>1. parts \in Seq(Range(parts))
    BY DEF Parts, IsList
  <2>. QED BY <2>1, SeqIs
<1>. HIDE DEF n
<1>2. ASSUME NEW i \in 1 .. n
      PROVE  /\ IsPart(parts[i])
             /\ PartBytes(parts)[i] = PackPart(parts[i]) /\ MeantParts(parts)[i] = PartMeans(parts[i])
             /\ PartBytes(parts)[i] \in Seq(Octets) /\ Len(PartBytes(parts)[i]) >= 1
  <2>1. IsPart(parts[i])
    BY <1>1 DEF Parts
  <2>2. PartBytes(parts)[i] = PackPart(parts[i]) /\ MeantParts(parts)[i] = PartMeans(parts[i])
    BY <1>1 DEF PartBytes, MeantParts
  <2>. QED BY <2>1, <2>2, PartIs
<1>3. /\ PartBytes(parts) = [i \in 1 .. n |-> PartBytes(parts)[i]]
      /\ MeantParts(parts) = [i \in 1 .. n |-> MeantParts(parts)[i]]
  BY <1>1 DEF PartBytes, MeantParts
<1>. QED BY <1>1, <1>2, <1>3 DEF n

(* The parts that have been read, one a turn.                               *)
PartsDone(f, meant, from, g, k) ==
  /\ f[k].value \in Seq(Range(meant)) /\ Len(f[k].value) = k
  /\ \A i \in 1 .. k : f[k].value[i] = meant[i]
  /\ f[k] = Read(f[k].value, from + Len(g[k]))

(* One turn reads one part.                                                 *)
LEMMA PartsStep ==
  ASSUME NEW parts, Parts(parts), NEW n, n = Len(parts), NEW g, NEW w, NEW from \in Nat,
         AllAhead(w, from, g, PartBytes(parts), n, Len(w)),
         NEW f, PartTurns(f, w, from, n), NEW k \in 1 .. n,
         PartsDone(f, MeantParts(parts), from, g, k - 1)
  PROVE  PartsDone(f, MeantParts(parts), from, g, k)
<1>. DEFINE m == MeantParts(parts)
            p == PackPart(parts[k])
            v == PartMeans(parts[k])
            y == from + Len(g[k - 1])
            before == f[k - 1].value
            u == UnpackPart(w, y, Len(w))
<1>1. /\ n \in Nat /\ DOMAIN parts = 1 .. n /\ IsPart(parts[k]) /\ PartBytes(parts)[k] = p /\ m[k] = v
      /\ p \in Seq(Octets) /\ Len(p) >= 1 /\ m = [i \in 1 .. n |-> m[i]]
  BY PartsAre
<1>2. /\ Ahead(w, y, p, Len(w))
      /\ Len(g[k]) = Len(g[k - 1]) + Len(p) /\ Len(g[k - 1]) \in Nat /\ Len(p) \in Nat
  BY <1>1 DEF AllAhead
<1>3. u = Read(v, y + Len(p))
  <2>. HIDE DEF y
  <2>. QED BY <1>1, <1>2, PartRead
<1>4. f[k] = PartsTurn(f[k - 1], w)
  <2>1. k \in 0 .. n /\ k # 0
    BY <1>1
  <2>. QED BY <2>1 DEF PartTurns
<1>5. before \in Seq(Range(m)) /\ Len(before) = k - 1 /\ (\A i \in 1 .. k - 1 : before[i] = m[i])
      /\ f[k - 1] = Read(before, y)
  BY DEF PartsDone
<1>6. v \in Range(m)
  <2>1. k \in DOMAIN m
    BY <1>1
  <2>. HIDE DEF m
  <2>. QED BY <1>1, <2>1 DEF Range
<1>7. ~ (y >= Len(w))
  <2>1. y \in Nat /\ Len(w) \in Nat /\ y + Len(p) <= Len(w)
    BY <1>2 DEF Ahead
  <2>. HIDE DEF y, p
  <2>. QED BY <1>1, <1>2, <2>1
<1>8. y + Len(p) = from + Len(g[k])
  <2>. DEFINE a == Len(g[k - 1])
              b == Len(p)
              c == Len(g[k])
  <2>1. a \in Nat /\ b \in Nat /\ c = a + b
    BY <1>2
  <2>. HIDE DEF a, b, c
  <2>2. (from + a) + b = from + c
    BY <2>1
  <2>. QED BY <2>2 DEF a, b, c
<1>. HIDE DEF m, p, v, y, before, u
<1>9. f[k - 1].value = before /\ f[k - 1].at = y /\ u.value = v /\ u.at = y + Len(p)
  BY <1>3, <1>5, ReadIs
<1>10. PartsTurn(f[k - 1], w) = Read(Append(before, u.value), u.at)
  BY <1>7, <1>9 DEF PartsTurn, Of, u
<1>11. f[k] = Read(Append(before, v), from + Len(g[k]))
  BY <1>4, <1>8, <1>9, <1>10
<1>. DEFINE after == Append(before, v)
<1>12. /\ after \in Seq(Range(m)) /\ Len(after) = (k - 1) + 1 /\ after[(k - 1) + 1] = v
       /\ \A i \in 1 .. k - 1 : after[i] = before[i]
  BY <1>5, <1>6, AppendProperties
<1>. HIDE DEF after
<1>13. Len(after) = k /\ \A i \in 1 .. k : after[i] = m[i]
  <2>1. ASSUME NEW i \in 1 .. k PROVE after[i] = m[i]
    <3>1. CASE i = k
      <4>1. (k - 1) + 1 = k
        OBVIOUS
      <4>. QED BY <1>1, <1>12, <3>1, <4>1
    <3>2. CASE i # k
      <4>1. i \in 1 .. k - 1
        BY <3>2
      <4>. QED BY <1>5, <1>12, <4>1
    <3>. QED BY <3>1, <3>2
  <2>. QED BY <1>12, <2>1
<1>14. f[k].value = after
  <2>1. f[k] = Read(after, from + Len(g[k]))
    BY <1>11 DEF after
  <2>. QED BY <2>1, ReadIs
<1>. QED BY <1>11, <1>12, <1>13, <1>14 DEF PartsDone, after, m

-----------------------------------------------------------------------------
(* What holds of the first, and of each behind one it holds of.              *)
LEMMA UpTo ==
  ASSUME NEW n \in Nat, NEW T, T \subseteq 0 .. n, 0 \in T, \A k \in 1 .. n : k - 1 \in T => k \in T
  PROVE  n \in T
<1>. DEFINE B == {k \in 0 .. n : k \notin T}
<1>1. SUFFICES ASSUME B # {} PROVE FALSE
  <2>1. n \in 0 .. n
    OBVIOUS
  <2>. QED BY <2>1
<1>2. PICK k \in B : \A j \in B : k <= j
  <2>1. B \subseteq Nat
    OBVIOUS
  <2>. HIDE DEF B
  <2>. QED BY <1>1, <2>1, LeastOf
<1>3. k \in 1 .. n /\ k \notin T /\ k - 1 \in 0 .. n /\ ~ (k <= k - 1)
  OBVIOUS
<1>4. k - 1 \in T
  BY <1>2, <1>3
<1>. QED BY <1>3, <1>4

LEMMA PartsReach ==
  ASSUME NEW parts, Parts(parts), NEW n, n = Len(parts), NEW g, Joins(g, PartBytes(parts), n),
         NEW w, NEW from \in Nat, AllAhead(w, from, g, PartBytes(parts), n, Len(w)),
         NEW f, PartTurns(f, w, from, n)
  PROVE  PartsDone(f, MeantParts(parts), from, g, n) /\ Len(g[n]) \in Nat /\ n <= Len(g[n])
<1>. DEFINE Ok(k) == PartsDone(f, MeantParts(parts), from, g, k) /\ Len(g[k]) \in Nat /\ k <= Len(g[k])
            T == {k \in 0 .. n : Ok(k)}
<1>1. n \in Nat
  BY PartsAre
<1>2. Ok(0)
  <2>1. g[0] = <<>>
    BY DEF Joins
  <2>2. Len(g[0]) = 0 /\ from + Len(g[0]) = from
    BY <2>1
  <2>3. f[0] = Read(<<>>, from)
    <3>1. 0 \in 0 .. n
      BY <1>1
    <3>. QED BY <3>1 DEF PartTurns
  <2>4. f[0].value = <<>>
    BY <2>3, ReadIs
  <2>5. <<>> \in Seq(Range(MeantParts(parts))) /\ Len(<<>>) = 0 /\ \A i \in 1 .. 0 : FALSE
    OBVIOUS
  <2>6. PartsDone(f, MeantParts(parts), from, g, 0)
    BY <2>2, <2>3, <2>4, <2>5 DEF PartsDone
  <2>. QED BY <2>2, <2>6
<1>3. ASSUME NEW k \in 1 .. n, Ok(k - 1) PROVE Ok(k)
  <2>1. PartsDone(f, MeantParts(parts), from, g, k)
    BY <1>3, PartsStep
  <2>2. Len(PartBytes(parts)[k]) >= 1
    BY PartsAre
  <2>3. Len(g[k]) = Len(g[k - 1]) + Len(PartBytes(parts)[k]) /\ Len(g[k - 1]) \in Nat
        /\ Len(PartBytes(parts)[k]) \in Nat
    BY DEF AllAhead
  <2>. DEFINE a == Len(g[k - 1])
              b == Len(PartBytes(parts)[k])
              c == Len(g[k])
  <2>4. a \in Nat /\ b \in Nat /\ b >= 1 /\ c = a + b /\ k - 1 <= a
    BY <1>3, <2>2, <2>3
  <2>. HIDE DEF a, b, c
  <2>5. c \in Nat /\ k <= c
    BY <2>4
  <2>. QED BY <2>1, <2>5 DEF c
<1>. HIDE DEF Ok
<1>4. n \in T
  <2>1. 0 \in T
    BY <1>1, <1>2
  <2>2. ASSUME NEW k \in 1 .. n, k - 1 \in T PROVE k \in T
    BY <1>3, <2>2
  <2>3. T \subseteq 0 .. n
    OBVIOUS
  <2>. HIDE DEF T
  <2>. QED BY <1>1, <2>1, <2>2, <2>3, UpTo
<1>. QED BY <1>4 DEF Ok

(* A body is the number of its parts, then the parts; nothing when there    *)
(* are none.                                                                *)
LEMMA BodyIs ==
  ASSUME NEW parts, Parts(parts)
  PROVE  /\ PackBody(parts) \in Seq(Octets)
         /\ parts = <<>> <=> Len(parts) = 0
         /\ parts # <<>> => PackBody(parts) = <<Len(parts)>> \o FlattenSeq(PartBytes(parts))
         /\ FlattenSeq(PartBytes(parts)) \in Seq(Octets)
         /\ \E g : /\ Joins(g, PartBytes(parts), Len(parts)) /\ FlattenSeq(PartBytes(parts)) = g[Len(parts)]
                   /\ \A k \in 0 .. Len(parts) : g[k] \in Seq(Octets)
<1>. DEFINE n == Len(parts)
            p == PartBytes(parts)
            all == FlattenSeq(p)
<1>1. n \in Nat /\ p = [i \in 1 .. n |-> p[i]] /\ \A i \in 1 .. n : p[i] \in Seq(Octets)
  BY PartsAre
<1>2. n <= 30
  BY DEF Parts
<1>3. \E g : /\ Joins(g, p, n) /\ FlattenSeq(p) = g[n] /\ \A k \in 0 .. n : g[k] \in Seq(Octets)
  <2>. HIDE DEF p, n
  <2>. QED BY <1>1, PrefixesExist
<1>4. all \in Seq(Octets)
  <2>1. n \in 0 .. n
    BY <1>1
  <2>. QED BY <1>3, <2>1
<1>5. parts = <<>> <=> n = 0
  <2>1. parts \in Seq(Range(parts))
    BY DEF Parts, IsList
  <2>. QED BY <2>1
<1>6. parts # <<>> => PackBody(parts) = <<n>> \o all
  <2>1. n <= 30 => PutValueLength(n) = <<n>>
    BY DEF PutValueLength
  <2>. QED BY <1>2, <2>1 DEF PackBody, PartBytes
<1>7. <<n>> \in Seq(Octets)
  <2>0. n \in Nat /\ n <= 30
    BY <1>1, <1>2
  <2>. HIDE DEF n
  <2>1. n \in Octets
    <3>1. n <= 255
      BY <2>0
    <3>. QED BY <2>0, <3>1, OctetIs
  <2>. QED BY <2>1
<1>8. PackBody(parts) \in Seq(Octets)
  <2>1. CASE parts = <<>>
    <3>1. PackBody(parts) = <<>> /\ <<>> \in Seq(Octets)
      BY <2>1 DEF PackBody
    <3>. QED BY <3>1
  <2>2. CASE parts # <<>>
    <3>. HIDE DEF n, all
    <3>1. <<n>> \o all \in Seq(Octets)
      BY <1>4, <1>7, Joined
    <3>. QED BY <1>6, <2>2, <3>1
  <2>. QED BY <2>1, <2>2
<1>. QED BY <1>3, <1>4, <1>5, <1>6, <1>8

LEMMA NoPartsRead ==
  ASSUME NEW w, NEW from \in Nat, Len(w) = from
  PROVE  UnpackBody(w, from) = Read(<<>>, from)
<1>. DEFINE Q(j) == Peek(w, j, from) < 128
            g == GetVarInt(w, from, from)
            d == [k \in 1 .. 1 |-> Peek(w, from + k - 1, from) % 128]
<1>1. Peek(w, from, from) = 0
  BY DEF Peek
<1>2. First(from, from + Len(w), Q) = from
  <2>1. Q(from) /\ from \in from .. from + Len(w)
    BY <1>1
  <2>2. \A j \in from .. from - 1 : ~ Q(j)
    OBVIOUS
  <2>3. ASSUME NEW m \in from .. from + Len(w), Q(m), \A j \in from .. m - 1 : ~ Q(j)
        PROVE  m = from
    <3>1. ~ (from < m)
      <4>1. from < m => from \in from .. m - 1
        OBVIOUS
      <4>. QED BY <2>1, <2>3, <4>1
    <3>. QED BY <3>1
  <2>4. First(from, from + Len(w), Q)
          = CHOOSE m \in from .. from + Len(w) : Q(m) /\ \A j \in from .. m - 1 : ~ Q(j)
    BY DEF First
  <2>. HIDE DEF Q
  <2>. QED BY <2>1, <2>2, <2>3, <2>4
<1>3. g = VarIntUpTo(w, from, from, from)
  BY <1>2 DEF GetVarInt
<1>4. VarIntUpTo(w, from, from, from) = Read(Number(d, 128), from)
  <2>1. from - from + 1 = 1
    OBVIOUS
  <2>2. Behind(from, 1, from) = from
    BY DEF Behind
  <2>. QED BY <2>1, <2>2 DEF VarIntUpTo
<1>5. Number(d, 128) = 0
  <2>1. d[1] = 0
    <3>1. from + 1 - 1 = from /\ 0 % 128 = 0
      OBVIOUS
    <3>2. d[1] = Peek(w, from + 1 - 1, from) % 128
      OBVIOUS
    <3>. QED BY <1>1, <3>1, <3>2
  <2>2. Len(d) = 1
    OBVIOUS
  <2>. HIDE DEF d
  <2>3. Len(d) \in 1 .. 4 /\ \A i \in 1 .. Len(d) : d[i] \in Nat
    BY <2>1, <2>2
  <2>. QED BY <2>1, <2>2, <2>3, VarNumbers
<1>6. g.value = 0 /\ g.at = from
  BY <1>3, <1>4, <1>5, ReadIs
<1>. HIDE DEF g
<1>7. UnpackBody(w, from) = UnpackParts(g.value, w, g.at)
  BY DEF UnpackBody, Then, g
<1>8. UnpackParts(0, w, from) = Read(<<>>, from)
  <2>. DEFINE Turns(t) == t = [i \in 0 .. 0 |-> IF i = 0 THEN Read(<<>>, from) ELSE PartsTurn(t[i - 1], w)]
  <2>1. \E t : Turns(t)
    <3>1. 0 \in Nat
      OBVIOUS
    <3>2. \E t : PartTurns(t, w, from, 0)
      BY <3>1, PartTurnExists
    <3>. QED BY <3>2 DEF PartTurns
  <2>2. (IF 0 < BytesLeft(from, Len(w)) THEN 0 ELSE BytesLeft(from, Len(w))) = 0
    BY DEF BytesLeft
  <2>3. UnpackParts(0, w, from) = (CHOOSE t : Turns(t))[0]
    BY <2>2 DEF UnpackParts
  <2>4. Turns(CHOOSE t : Turns(t))
    <3>. HIDE DEF Turns
    <3>. QED BY <2>1
  <2>. DEFINE f == CHOOSE t : Turns(t)
  <2>5. f = [i \in 0 .. 0 |-> IF i = 0 THEN Read(<<>>, from) ELSE PartsTurn(f[i - 1], w)]
    BY <2>4
  <2>6. UnpackParts(0, w, from) = f[0]
    BY <2>3
  <2>. HIDE DEF f
  <2>7. f[0] = Read(<<>>, from)
    BY <2>5
  <2>. QED BY <2>6, <2>7
<1>. QED BY <1>6, <1>7, <1>8

(* All parts are read, one behind the other.                                *)
LEMMA PartsRead ==
  ASSUME NEW parts, Parts(parts), NEW n, n = Len(parts), NEW w, NEW from,
         Ahead(w, from, FlattenSeq(PartBytes(parts)), Len(w)),
         Len(w) = from + Len(FlattenSeq(PartBytes(parts)))
  PROVE  UnpackParts(n, w, from) = Read(MeantParts(parts), Len(w))
<1>. DEFINE p == PartBytes(parts)
            all == FlattenSeq(p)
            m == MeantParts(parts)
<1>1. n \in Nat /\ (\A i \in 1 .. n : p[i] \in Seq(Octets)) /\ m = [i \in 1 .. n |-> m[i]]
  BY PartsAre
<1>2. PICK g : Joins(g, p, n) /\ all = g[n] /\ \A k \in 0 .. n : g[k] \in Seq(Octets)
  BY BodyIs
<1>3. from \in Nat
  BY DEF Ahead
<1>4. AllAhead(w, from, g, p, n, Len(w))
  <2>1. Ahead(w, from, g[n], Len(w))
    BY <1>2
  <2>2. Pieces(g, p, n, Octets)
    BY <1>1, <1>2 DEF Pieces
  <2>. HIDE DEF p
  <2>. DEFINE end == Len(w)
  <2>3. Ahead(w, from, g[n], end)
    BY <2>1
  <2>. HIDE DEF end
  <2>4. AllAhead(w, from, g, p, n, end)
    BY <2>2, <2>3, PiecesAhead
  <2>. QED BY <2>4 DEF end
<1>5. PICK f : PartTurns(f, w, from, n)
  BY <1>1, PartTurnExists
<1>6. PartsDone(f, m, from, g, n) /\ Len(g[n]) \in Nat /\ n <= Len(g[n])
  BY <1>2, <1>3, <1>4, <1>5, PartsReach
<1>7. Len(w) = from + Len(g[n])
  BY <1>2
<1>. HIDE DEF m, all, p
<1>8. f[n] = Read(m, Len(w))
  <2>1. f[n] = Read(f[n].value, Len(w))
    BY <1>6, <1>7 DEF PartsDone
  <2>. DEFINE v == f[n].value
  <2>2. v \in Seq(Range(m)) /\ Len(v) = n /\ \A i \in 1 .. n : v[i] = m[i]
    BY <1>6 DEF PartsDone
  <2>. HIDE DEF v
  <2>3. v = m
    BY <1>1, <2>2
  <2>. QED BY <2>1, <2>3 DEF v
<1>9. UnpackParts(n, w, from) = f[n]
  <2>. DEFINE Turns(t) == t = [i \in 0 .. n |-> IF i = 0 THEN Read(<<>>, from) ELSE PartsTurn(t[i - 1], w)]
              c == CHOOSE t : Turns(t)
  <2>1. Turns(f)
    BY <1>5 DEF PartTurns
  <2>2. (IF n < BytesLeft(from, Len(w)) THEN n ELSE BytesLeft(from, Len(w))) = n
    <3>. DEFINE a == Len(g[n])
                b == Len(w)
    <3>1. a \in Nat /\ n <= a /\ b = from + a
      BY <1>6, <1>7
    <3>. HIDE DEF a, b
    <3>2. BytesLeft(from, b) = a
      BY <1>3, <3>1 DEF BytesLeft
    <3>3. (IF n < BytesLeft(from, b) THEN n ELSE BytesLeft(from, b)) = n
      BY <1>1, <3>1, <3>2
    <3>. QED BY <3>3 DEF b
  <2>3. UnpackParts(n, w, from) = c[n]
    BY <2>2 DEF UnpackParts
  <2>4. Turns(c)
    <3>. HIDE DEF Turns
    <3>. QED BY <2>1
  <2>5. PartTurns(c, w, from, n)
    BY <2>4 DEF PartTurns
  <2>. HIDE DEF c
  <2>6. PartsDone(c, m, from, g, n)
    BY <1>2, <1>3, <1>4, <2>5, PartsReach DEF m, p
  <2>7. c[n].value = f[n].value
    <3>. DEFINE v == c[n].value
                u == f[n].value
    <3>1. v \in Seq(Range(m)) /\ Len(v) = n /\ \A i \in 1 .. n : v[i] = m[i]
      BY <2>6 DEF PartsDone
    <3>2. u \in Seq(Range(m)) /\ Len(u) = n /\ \A i \in 1 .. n : u[i] = m[i]
      BY <1>6 DEF PartsDone
    <3>. HIDE DEF u, v
    <3>3. u = v
      BY <1>1, <3>1, <3>2
    <3>. QED BY <3>3 DEF u, v
  <2>8. c[n] = f[n]
    BY <1>6, <2>6, <2>7 DEF PartsDone
  <2>. QED BY <2>3, <2>8
<1>. QED BY <1>8, <1>9 DEF m

-----------------------------------------------------------------------------

(* mms_body_unpack reads what mms_body_pack wrote.                          *)
THEOREM BodyRead ==
  ASSUME NEW parts, Parts(parts), NEW w, NEW from, NEW end, end = Len(w),
         Ahead(w, from, PackBody(parts), end), end = from + Len(PackBody(parts))
  PROVE  UnpackBody(w, from) = Read(MeantParts(parts), end)
<1>1. from \in Nat
  BY DEF Ahead
<1>2. CASE parts = <<>>
  <2>1. PackBody(parts) = <<>> /\ MeantParts(parts) = <<>>
    <3>1. PackBody(parts) = <<>>
      BY <1>2 DEF PackBody
    <3>2. DOMAIN parts = {}
      BY <1>2
    <3>3. MeantParts(parts) = [i \in {} |-> PartMeans(parts[i])]
      BY <3>2 DEF MeantParts
    <3>4. MeantParts(parts) = <<>>
      BY <3>3
    <3>. QED BY <3>1, <3>4
  <2>2. Len(w) = from
    BY <1>1, <2>1
  <2>3. UnpackBody(w, from) = Read(<<>>, from)
    BY <1>1, <2>2, NoPartsRead
  <2>. QED BY <2>1, <2>2, <2>3
<1>3. CASE parts # <<>>
  <2>. DEFINE n == Len(parts)
              all == FlattenSeq(PartBytes(parts))
              next == from + 1
              g == GetVarInt(w, from, Len(w))
  <2>1. PackBody(parts) = <<n>> \o all /\ all \in Seq(Octets)
    BY <1>3, BodyIs
  <2>2. n \in Nat /\ n <= 30
    BY PartsAre DEF Parts
  <2>3. PutVarInt(n) = <<n>> /\ n \in Lengths
    <3>. HIDE DEF n
    <3>1. n <= 127
      BY <2>2
    <3>. QED BY <2>2, <3>1, SmallVarInt
  <2>4. <<n>> \in Seq(Octets) /\ Len(<<n>>) = 1
    <3>. HIDE DEF n
    <3>1. n \in Octets
      <4>1. n <= 255
        BY <2>2
      <4>. QED BY <2>2, <4>1, OctetIs
    <3>. QED BY <3>1
  <2>5. Ahead(w, from, <<n>>, Len(w)) /\ Ahead(w, next, all, Len(w)) /\ Len(w) = next + Len(all)
    <3>1. Ahead(w, from, <<n>> \o all, Len(w))
      BY <2>1
    <3>. DEFINE h == <<n>>
    <3>2. h \in Seq(Octets) /\ all \in Seq(Octets) /\ Len(h) = 1 /\ Ahead(w, from, h \o all, Len(w))
      BY <2>1, <2>4, <3>1
    <3>3. Len(w) = from + Len(h \o all)
      BY <2>1
    <3>. DEFINE e == Len(w)
    <3>4. Ahead(w, from, h \o all, e) /\ e = from + Len(h \o all)
      BY <3>2, <3>3
    <3>. HIDE DEF h, all, e
    <3>5. Ahead(w, from, h, e) /\ Ahead(w, from + Len(h), all, e)
      BY <3>2, <3>4, AheadSplit
    <3>6. Len(h \o all) = Len(h) + Len(all) /\ Len(all) \in Nat
      BY <3>2, Joined, SeqIs
    <3>7. e = next + Len(all)
      BY <1>1, <3>2, <3>4, <3>6
    <3>. QED BY <3>2, <3>5, <3>7 DEF h, e
  <2>6. g = Read(n, next)
    <3>. DEFINE e == Len(w)
    <3>1. Ahead(w, from, PutVarInt(n), e) /\ Len(PutVarInt(n)) = 1
      BY <2>3, <2>4, <2>5
    <3>. HIDE DEF n, e
    <3>2. GetVarInt(w, from, e) = Read(n, from + Len(PutVarInt(n)))
      BY <2>3, <3>1, VarIntRead
    <3>. QED BY <3>1, <3>2 DEF e
  <2>7. g.value = n /\ g.at = next
    BY <2>6, ReadIs
  <2>. HIDE DEF g, next, all, n
  <2>8. UnpackBody(w, from) = UnpackParts(g.value, w, g.at)
    BY DEF UnpackBody, Then, g
  <2>9. UnpackParts(n, w, next) = Read(MeantParts(parts), Len(w))
    BY <2>5, PartsRead DEF all, n
  <2>. QED BY <2>7, <2>8, <2>9
<1>. QED BY <1>2, <1>3

(* No part that has been read has failed.                                   *)
LEMMA BodyNotFailed ==
  ASSUME NEW parts, Parts(parts), NEW part \in Range(MeantParts(parts))
  PROVE  part.ct # Failed /\ Failed \notin Range(part.items)
<1>. DEFINE n == Len(parts)
            m == MeantParts(parts)
<1>1. PICK i \in DOMAIN m : part = m[i]
  BY DEF Range
<1>2. m = [k \in 1 .. n |-> m[k]]
  BY PartsAre
<1>3. i \in 1 .. n
  <2>. HIDE DEF m
  <2>. QED BY <1>1, <1>2
<1>4. IsPart(parts[i]) /\ part = PartMeans(parts[i])
  BY <1>1, <1>3, PartsAre
<1>. DEFINE p == parts[i]
<1>5. /\ PartItems(p.items) /\ IsContentType(p.ct)
      /\ PartMeans(p) = [ct |-> WithoutFilename(p.ct), items |-> FlattenSeq(KeptItems(p.items)), data |-> p.data]
  BY <1>4, PartFieldsAre
<1>6. part.ct = WithoutFilename(p.ct) /\ part.items = FlattenSeq(KeptItems(p.items))
  <2>. DEFINE a == WithoutFilename(p.ct)
              b == FlattenSeq(KeptItems(p.items))
              d == p.data
  <2>1. part = [ct |-> a, items |-> b, data |-> d]
    BY <1>4, <1>5
  <2>. HIDE DEF a, b, d
  <2>2. part.ct = a /\ part.items = b
    BY <2>1
  <2>. QED BY <2>2 DEF a, b
<1>7. part.ct # Failed
  BY <1>5, <1>6, WithoutFilenameIs, CTIs
<1>8. Failed \notin Range(part.items)
  <2>. DEFINE S == {item \in Range(p.items) : CanReadWsp(item)}
              l == Len(p.items)
              q == KeptItems(p.items)
  <2>1. /\ l \in Nat /\ Failed \notin S /\ q = [k \in 1 .. l |-> q[k]] /\ \A k \in 1 .. l : q[k] \in Seq(S)
    BY <1>5, PartItemsAre
  <2>. HIDE DEF S, l, q
  <2>2. \E h : Joins(h, q, l) /\ FlattenSeq(q) = h[l] /\ \A k \in 0 .. l : h[k] \in Seq(S)
    BY <2>1, PrefixesExist
  <2>3. l \in 0 .. l
    BY <2>1
  <2>. DEFINE s == FlattenSeq(q)
  <2>4. s \in Seq(S)
    BY <2>2, <2>3
  <2>5. part.items = s
    BY <1>6 DEF q
  <2>. HIDE DEF s
  <2>6. Range(s) \subseteq S
    BY <2>4, SeqIs DEF Range
  <2>. QED BY <2>1, <2>5, <2>6
<1>. QED BY <1>7, <1>8

-----------------------------------------------------------------------------
(* Where each of several pieces lies.                                       *)
StartOf(e, i) == IF i = 1 THEN 0 ELSE e[i - 1]

LaidOut(w, b, e) ==
  /\ w \in Seq(Octets) /\ e \in Seq(Nat) /\ Len(b) = Len(e)
  /\ StartOf(e, Len(e) + 1) = Len(w)
  /\ \A i \in 1 .. Len(e) :
       Ahead(w, StartOf(e, i), b[i], Len(w)) /\ e[i] = StartOf(e, i) + Len(b[i])

(* Nothing is laid out in no bytes.                                         *)
LEMMA NothingLaidOut == LaidOut(<<>>, <<>>, <<>>)
<1>1. <<>> \in Seq(Octets) /\ <<>> \in Seq(Nat) /\ Len(<<>>) = 0 /\ \A i \in 1 .. 0 : FALSE
  OBVIOUS
<1>2. StartOf(<<>>, 0 + 1) = 0
  BY DEF StartOf
<1>. QED BY <1>1, <1>2 DEF LaidOut

(* What lies ahead still does when more is written behind.                  *)
LEMMA AheadMore ==
  ASSUME NEW w, NEW from, NEW p, Ahead(w, from, p, Len(w)), NEW q \in Seq(Octets)
  PROVE  Ahead(w \o q, from, p, Len(w \o q))
<1>. DEFINE v == w \o q
<1>1. /\ w \in Seq(Octets) /\ p \in Seq(Octets) /\ from \in Nat /\ Len(p) \in Nat
      /\ from + Len(p) <= Len(w) /\ \A i \in 1 .. Len(p) : w[from + i] = p[i]
  <2>1. w \in Seq(Octets) /\ p \in Seq(Octets) /\ from \in Nat
        /\ from + Len(p) <= Len(w) /\ \A i \in 1 .. Len(p) : w[from + i] = p[i]
    BY DEF Ahead
  <2>. QED BY <2>1, SeqIs
<1>2. Len(w) \in Nat /\ Len(q) \in Nat
  BY <1>1, SeqIs
<1>3. v \in Seq(Octets) /\ Len(v) = Len(w) + Len(q) /\ \A i \in 1 .. Len(w) : v[i] = w[i]
  <2>1. v \in Seq(Octets) /\ Len(v) = Len(w) + Len(q)
        /\ \A i \in 1 .. Len(w) + Len(q) : v[i] = IF i <= Len(w) THEN w[i] ELSE q[i - Len(w)]
    BY <1>1, ConcatProperties
  <2>. HIDE DEF v
  <2>2. ASSUME NEW i \in 1 .. Len(w) PROVE v[i] = w[i]
    <3>1. i \in 1 .. Len(w) + Len(q) /\ i <= Len(w)
      BY <1>2
    <3>. QED BY <2>1, <3>1
  <2>. QED BY <2>1, <2>2
<1>. HIDE DEF v
<1>4. ASSUME NEW i \in 1 .. Len(p) PROVE v[from + i] = p[i]
  <2>1. from + i \in 1 .. Len(w)
    BY <1>1, <1>2
  <2>. QED BY <1>1, <1>3, <2>1
<1>5. from + Len(p) <= Len(v) /\ Len(v) \in Nat
  BY <1>1, <1>2, <1>3
<1>6. Ahead(v, from, p, Len(v))
  BY <1>1, <1>3, <1>4, <1>5 DEF Ahead
<1>. QED BY <1>6 DEF v

(* What is written behind the bytes lies ahead of their end.                *)
LEMMA AheadNew ==
  ASSUME NEW w \in Seq(Octets), NEW q \in Seq(Octets)
  PROVE  Ahead(w \o q, Len(w), q, Len(w \o q)) /\ Len(w \o q) = Len(w) + Len(q)
<1>. DEFINE v == w \o q
<1>1. v \in Seq(Octets) /\ Len(v) = Len(w) + Len(q)
      /\ \A i \in 1 .. Len(w) + Len(q) : v[i] = IF i <= Len(w) THEN w[i] ELSE q[i - Len(w)]
  BY ConcatProperties
<1>2. Len(w) \in Nat /\ Len(q) \in Nat
  BY SeqIs
<1>. HIDE DEF v
<1>3. ASSUME NEW i \in 1 .. Len(q) PROVE v[Len(w) + i] = q[i]
  <2>1. Len(w) + i \in 1 .. Len(w) + Len(q) /\ ~ (Len(w) + i <= Len(w)) /\ (Len(w) + i) - Len(w) = i
    BY <1>2
  <2>. QED BY <1>1, <2>1
<1>4. Len(v) \in Nat /\ Len(w) + Len(q) <= Len(v)
  BY <1>1, <1>2
<1>. QED BY <1>1, <1>2, <1>3, <1>4 DEF Ahead, v

(* A piece written behind the others is laid out with them.                 *)
LEMMA LaidOutMore ==
  ASSUME NEW S, NEW w, NEW b \in Seq(S), NEW e, LaidOut(w, b, e), NEW p \in Seq(Octets), p \in S
  PROVE  LaidOut(w \o p, Append(b, p), Append(e, Len(w \o p)))
<1>. DEFINE v == w \o p
            x == Len(v)
            c == Append(b, p)
            d == Append(e, x)
            n == Len(e)
<1>1. /\ w \in Seq(Octets) /\ e \in Seq(Nat) /\ Len(b) = n /\ StartOf(e, n + 1) = Len(w)
      /\ \A i \in 1 .. n : Ahead(w, StartOf(e, i), b[i], Len(w)) /\ e[i] = StartOf(e, i) + Len(b[i])
  BY DEF LaidOut
<1>2. v \in Seq(Octets) /\ Ahead(v, Len(w), p, x) /\ x = Len(w) + Len(p)
  BY <1>1, AheadNew, Joined
<1>3. x \in Nat
  BY <1>2, SeqIs
<1>4. ASSUME NEW i \in 1 .. n PROVE Ahead(v, StartOf(e, i), b[i], x)
  BY <1>1, AheadMore
<1>. HIDE DEF v, x
<1>5. n \in Nat
  BY <1>1, SeqIs
<1>6. c \in Seq(S) /\ Len(c) = n + 1 /\ c[n + 1] = p /\ \A i \in 1 .. n : c[i] = b[i]
  BY <1>1, AppendProperties
<1>7. d \in Seq(Nat) /\ Len(d) = n + 1 /\ d[n + 1] = x /\ \A i \in 1 .. n : d[i] = e[i]
  BY <1>1, <1>3, AppendProperties
<1>. HIDE DEF c, d, n
<1>8. ASSUME NEW i \in 1 .. n + 1 PROVE StartOf(d, i) = StartOf(e, i)
  <2>1. CASE i = 1
    BY <2>1 DEF StartOf
  <2>2. CASE i # 1
    <3>1. i - 1 \in 1 .. n
      BY <1>5, <2>2
    <3>2. d[i - 1] = e[i - 1]
      BY <1>7, <3>1
    <3>. QED BY <2>2, <3>2 DEF StartOf
  <2>. QED BY <2>1, <2>2
<1>9. StartOf(d, (n + 1) + 1) = x
  <2>1. (n + 1) + 1 # 1 /\ ((n + 1) + 1) - 1 = n + 1
    BY <1>5
  <2>. QED BY <1>7, <2>1 DEF StartOf
<1>10. ASSUME NEW i \in 1 .. n + 1
       PROVE  Ahead(v, StartOf(d, i), c[i], x) /\ d[i] = StartOf(d, i) + Len(c[i])
  <2>1. CASE i = n + 1
    <3>1. StartOf(d, i) = Len(w)
      BY <1>1, <1>8, <2>1 DEF n
    <3>. QED BY <1>2, <1>6, <1>7, <2>1, <3>1
  <2>2. CASE i # n + 1
    <3>1. i \in 1 .. n
      BY <1>5, <2>2
    <3>2. StartOf(d, i) = StartOf(e, i) /\ c[i] = b[i] /\ d[i] = e[i]
      BY <1>6, <1>7, <1>8, <3>1
    <3>3. e[i] = StartOf(e, i) + Len(b[i])
      BY <1>1, <3>1 DEF n
    <3>. QED BY <1>4, <3>1, <3>2, <3>3 DEF n
  <2>. QED BY <2>1, <2>2
<1>11. LaidOut(v, c, d)
  BY <1>2, <1>6, <1>7, <1>9, <1>10 DEF LaidOut, x
<1>. QED BY <1>11 DEF v, x, c, d

-----------------------------------------------------------------------------
(* What is packed, as bytes, and what it is read as.                        *)
Codecs == {"mms", "wsp", "http"}

UnpackAs(c, w, from, end) ==
  CASE c = "mms" -> UnpackMms(w, from, end)
    [] c = "wsp" -> UnpackWsp(w, from, end)
    [] OTHER     -> UnpackHttp(w, from, end)

Bytes(c, v) ==
  IF v.type = "body" THEN PackBody(v.parts)
  ELSE CASE c = "mms" -> PackMms(v) [] c = "wsp" -> PackWsp(v) [] OTHER -> PackHttp(v)

Came(c, v) ==
  IF v.type = "body" THEN Body(MeantParts(v.parts))
  ELSE IF v.type = "data" THEN DataItem(v.name, WithoutFilename(v.ct))
  ELSE CASE c = "mms" -> Again(v) [] c = "wsp" -> v [] OTHER -> StringItem(v.name, HttpValue(v))

IsItem(c, v) ==
  CASE c = "mms" -> CanReadMms(v) [] c = "wsp" -> CanReadWsp(v) [] OTHER -> CanReadHttp(v)

IsTypeItem(v) == v = DataItem(ContentType, v.ct) /\ IsContentType(v.ct)
IsBody(v)     == v = Body(v.parts) /\ Parts(v.parts)

Travels(c, bytes, v) ==
  /\ bytes \in Seq(Octets) /\ Len(bytes) \in Nat /\ Len(bytes) >= 1
  /\ \A w, from, end : Ahead(w, from, bytes, end) => UnpackAs(c, w, from, end) = Read(v, from + Len(bytes))

(* The types of items.                                                      *)
LEMMA MmsTypes ==
  ASSUME NEW v, CanReadMms(v)
  PROVE  /\ v.type \in {"string", "encoded", "time", "long"} /\ PacksMms(v) /\ v.name # ContentType
         /\ HasText(v) \/ HasEncoded(v) \/ HasTime(v) \/ HasLong(v)
<1>. DEFINE id == IdOf(MmsNames, v.name)
<1>1. \/ v.type = "string" /\ HasText(v)
           /\ (id < 0 \/ id \in Strings \/ id = ClassId \/ id \in Statuses)
      \/ id \in Encodeds \union {FromId} /\ ((v.type = "string" /\ HasText(v)) \/ (v.type = "encoded" /\ HasEncoded(v)))
      \/ id \in Times /\ v.type = "time" /\ HasTime(v)
      \/ v.type = "long" /\ HasLong(v)
           /\ (id \in Longs \/ id \in Chars \/ id = FromId \/ id = ClassId \/ id = VersionId)
  <2>1. \/ v.type = "string" /\ HasText(v)
             /\ \/ id < 0 /\ IsName(v.name)
                \/ id \in Strings
                \/ id = ClassId /\ Begins(v.text, 1 .. 127)
                \/ id \in Statuses /\ Begins(v.text, 32 .. 127)
        \/ id \in Encodeds \union {FromId} /\ IsAddress(v)
        \/ id \in Times /\ v.type = "time" /\ HasTime(v)
        \/ v.type = "long"
             /\ \/ id \in Longs /\ HasLong(v)
                \/ id \in Chars /\ HasChar(v)
                \/ id = FromId /\ HasChar(v) /\ Low(v.long) # AddressPresent
                \/ id = ClassId /\ HasChar(v) /\ Low(v.long) >= 128
                \/ id = VersionId /\ HasChar(v) /\ Low(v.long) < 128
    BY DEF CanReadMms
  <2>2. IsAddress(v) => (v.type = "string" /\ HasText(v)) \/ (v.type = "encoded" /\ HasEncoded(v))
    BY Zenon DEF IsAddress
  <2>3. HasChar(v) => HasLong(v)
    BY DEF HasChar
  <2>. HIDE DEF id
  <2>. QED BY <2>1, <2>2, <2>3
<1>2. id # ContentTypeId
  <2>1. id < 0 => id # ContentTypeId
    <3>1. id = ContentTypeId => ~ (id < 0)
      BY DEF ContentTypeId
    <3>. QED BY <3>1
  <2>. HIDE DEF id
  <2>. QED BY <1>1, <2>1
       DEF ContentTypeId, Strings, ClassId, Statuses, Encodeds, FromId, Times, Longs, Chars, VersionId
<1>3. v.name # ContentType
  BY <1>2, ContentTypeName
<1>4. PacksMms(v)
  <2>0. id = -1 \/ id \in 0 .. 33
    <3>1. id = -1 \/ (id \in Nat /\ id <= 33)
      BY MmsIdIs
    <3>. HIDE DEF id
    <3>. QED BY <3>1
  <2>00. /\ id \in Strings => id # ContentTypeId /\ id \notin Longs \union Chars \union Encodeds \union Times \union {FromId}
         /\ id \in Longs \union Chars => id # ContentTypeId /\ id \notin Strings /\ id \in 0 .. 33
         /\ id \in Encodeds => id # ContentTypeId /\ id \notin Strings \union Longs \union Chars /\ id \in 0 .. 33
         /\ id = FromId => id # ContentTypeId /\ id \notin Strings \union Longs \union Chars \union Encodeds /\ id \in 0 .. 33
         /\ id \in Times => /\ id # ContentTypeId /\ id \in 0 .. 33 /\ id # FromId
                           /\ id \notin Strings \union Longs \union Chars \union Encodeds
         /\ id \in Statuses \union {ClassId, VersionId} =>
              /\ id \in 0 .. 33 /\ id # ContentTypeId /\ id # FromId
              /\ id \notin Strings \union Longs \union Chars \union Encodeds \union Times
         /\ id = -1 => id \notin Longs \union Chars \union Encodeds \union Times \union {FromId, ClassId, VersionId}
         /\ id \in 0 .. 33 => ~ (id < 0)
    <3>. HIDE DEF id
    <3>. QED BY <2>0 DEF Strings, ClassId, Statuses, Encodeds, FromId, Times, Longs, Chars, VersionId, ContentTypeId
  <2>1. (id < 0 \/ id \in Strings) /\ v.type = "string" => PacksMms(v)
    <3>1. id < 0 => id = -1
      BY <2>0, <2>00
    <3>2. id < 0 \/ id \in Strings => /\ id # ContentTypeId /\ id # FromId
                                    /\ id \notin Longs \union Chars \union Encodeds \union Times
      <4>1. id = -1 => id # ContentTypeId
        BY DEF ContentTypeId
      <4>. QED BY <2>00, <3>1, <4>1
    <3>. QED BY <3>2 DEF PacksMms
  <2>2. id \in Longs \union Chars /\ v.type = "long" => PacksMms(v)
    BY <2>00 DEF PacksMms
  <2>3. id \in Encodeds /\ v.type \in {"string", "encoded"} => PacksMms(v)
    BY <2>00 DEF PacksMms
  <2>4. id = FromId /\ v.type \in {"string", "encoded", "long"} => PacksMms(v)
    BY <2>00 DEF PacksMms
  <2>5. id \in Times /\ v.type = "time" => PacksMms(v)
    BY <2>00 DEF PacksMms
  <2>6. id \in Statuses \union {ClassId, VersionId} /\ v.type \in {"string", "long"} => PacksMms(v)
    BY <2>00 DEF PacksMms
  <2>. HIDE DEF id
  <2>. QED BY <1>1, <2>1, <2>2, <2>3, <2>4, <2>5, <2>6
<1>. QED BY <1>1, <1>3, <1>4

-----------------------------------------------------------------------------
(* What is read is none of the values that stop a reader.                   *)
Good(v) == v # Failed /\ v # Nothing /\ (v.type = "data" => v.ct # Failed)

(* What is unpacked is an item, never a failure.                            *)
LEMMA TypesGood ==
  ASSUME NEW v, v.type \in {"string", "encoded", "time", "long"}
  PROVE  Good(v) /\ v.type # "data" /\ v.type # "body"
BY DEF Good, Failed, Nothing

LEMMA PlainTypes ==
  ASSUME NEW v
  PROVE  /\ HasText(v) => v.type = "string" /\ v = StringItem(v.name, v.text)
         /\ HasLong(v) => v.type = "long" /\ v = LongItem(v.name, v.long)
BY ItemsAre

LEMMA StringTypes == \A name, text : StringItem(name, text).type = "string" /\ StringItem(name, text).name = name
                                      /\ StringItem(name, text).text = text
BY DEF StringItem

(* An item that can be read travels: by mms, by wsp, by http, by any of     *)
(* them.                                                                    *)
LEMMA MmsItem ==
  ASSUME NEW v, IsItem("mms", v)
  PROVE  /\ Travels("mms", Bytes("mms", v), Came("mms", v)) /\ Good(Came("mms", v))
         /\ v.type \notin {"data", "body"} /\ v.name # ContentType /\ Came("mms", v).name # ContentType
         /\ Came("mms", v) = Again(v) /\ Bytes("mms", v) = PackMms(v)
<1>1. CanReadMms(v)
  BY DEF IsItem
<1>2. v.type \in {"string", "encoded", "time", "long"} /\ v.name # ContentType
  BY <1>1, MmsTypes
<1>3. v.type # "data" /\ v.type # "body"
  BY <1>2
<1>4. Bytes("mms", v) = PackMms(v) /\ Came("mms", v) = Again(v)
  BY <1>3 DEF Bytes, Came
<1>5. MmsTravels(PackMms(v), Again(v))
  BY <1>1, MmsItemTravels
<1>6. Travels("mms", PackMms(v), Again(v))
  BY <1>5 DEF MmsTravels, Travels, UnpackAs
<1>7. Again(v).type \in {"string", "encoded", "time", "long"} /\ Again(v).name # ContentType
  <2>1. CASE v.type = "encoded" /\ v.charset = 0
    <3>1. Again(v) = StringItem(v.name, v.text)
      BY <2>1 DEF Again
    <3>. QED BY <1>2, <3>1, StringTypes
  <2>2. CASE ~ (v.type = "encoded" /\ v.charset = 0)
    <3>1. Again(v) = v
      BY <2>2 DEF Again
    <3>. QED BY <1>2, <3>1
  <2>. QED BY <2>1, <2>2
<1>8. Good(Again(v))
  BY <1>7, TypesGood
<1>. QED BY <1>2, <1>3, <1>4, <1>6, <1>7, <1>8

LEMMA WspItem ==
  ASSUME NEW v, IsItem("wsp", v)
  PROVE  /\ Travels("wsp", Bytes("wsp", v), Came("wsp", v)) /\ Good(Came("wsp", v))
         /\ v.type \notin {"data", "body"} /\ v.type \in {"string", "long"} /\ PacksWsp(v)
         /\ Came("wsp", v) = v /\ Bytes("wsp", v) = PackWsp(v)
<1>1. CanReadWsp(v)
  BY DEF IsItem
<1>2. WspTravels(PackWsp(v), v) /\ PacksWsp(v) /\ v.type \in {"string", "long"}
  BY <1>1, WspItemTravels, PlainTypes
<1>3. v.type # "data" /\ v.type # "body"
  BY <1>2
<1>4. Bytes("wsp", v) = PackWsp(v) /\ Came("wsp", v) = v
  BY <1>3 DEF Bytes, Came
<1>5. Travels("wsp", PackWsp(v), v)
  BY <1>2 DEF WspTravels, Travels, UnpackAs
<1>6. Good(v)
  BY <1>2, TypesGood
<1>. QED BY <1>2, <1>3, <1>4, <1>5, <1>6

LEMMA HttpItem ==
  ASSUME NEW v, IsItem("http", v)
  PROVE  /\ Travels("http", Bytes("http", v), Came("http", v)) /\ Good(Came("http", v))
         /\ v.type \notin {"data", "body"} /\ v.type \in {"string", "long"}
         /\ v.type = "string" => v = StringItem(v.name, v.text)
         /\ Came("http", v) = StringItem(v.name, HttpValue(v)) /\ Bytes("http", v) = PackHttp(v)
<1>1. CanReadHttp(v)
  BY DEF IsItem
<1>2. HttpTravels(PackHttp(v), StringItem(v.name, HttpValue(v)))
  BY <1>1, HttpItemTravels
<1>7. HasText(v) \/ HasLong(v)
  BY <1>1 DEF CanReadHttp
<1>8. /\ v.type \in {"string", "long"}
      /\ v.type = "string" => v = StringItem(v.name, v.text)
  BY <1>7, PlainTypes
<1>3. v.type # "data" /\ v.type # "body"
  BY <1>8
<1>4. Bytes("http", v) = PackHttp(v) /\ Came("http", v) = StringItem(v.name, HttpValue(v))
  BY <1>3 DEF Bytes, Came
<1>5. Travels("http", PackHttp(v), StringItem(v.name, HttpValue(v)))
  BY <1>2 DEF HttpTravels, Travels, UnpackAs
<1>6. Good(StringItem(v.name, HttpValue(v)))
  BY StringTypes, TypesGood
<1>. QED BY <1>3, <1>4, <1>5, <1>6, <1>8

LEMMA AnyItem ==
  ASSUME NEW c \in Codecs, NEW v, IsItem(c, v)
  PROVE  /\ Travels(c, Bytes(c, v), Came(c, v)) /\ Good(Came(c, v)) /\ v.type \notin {"data", "body"}
         /\ c = "mms" => Came(c, v).name # ContentType
BY MmsItem, WspItem, HttpItem DEF Codecs

LEMMA DataTypes == \A name, ct : LET v == DataItem(name, ct) IN v.type = "data" /\ v.name = name /\ v.ct = ct
BY DEF DataItem

LEMMA TypeItem ==
  ASSUME NEW v, IsTypeItem(v)
  PROVE  /\ Travels("mms", Bytes("mms", v), Came("mms", v)) /\ Good(Came("mms", v))
         /\ v.type = "data" /\ v.name = ContentType /\ Came("mms", v).name = ContentType
         /\ Came("mms", v) = DataItem(ContentType, WithoutFilename(v.ct)) /\ Bytes("mms", v) = PackMms(v)
<1>. DEFINE ct == v.ct
            u == DataItem(ContentType, WithoutFilename(ct))
<1>1. v = DataItem(ContentType, ct) /\ IsContentType(ct)
  BY DEF IsTypeItem
<1>2. v.type = "data" /\ v.name = ContentType
  <2>. HIDE DEF ct
  <2>. QED BY <1>1, DataTypes
<1>3. Bytes("mms", v) = PackMms(v) /\ Came("mms", v) = u
  BY <1>2 DEF Bytes, Came
<1>4. MmsTravels(PackMms(v), u)
  <2>. HIDE DEF ct
  <2>1. MmsTravels(PackMms(DataItem(ContentType, ct)), u)
    BY <1>1, DataItemTravels
  <2>. QED BY <1>1, <2>1
<1>5. Travels("mms", PackMms(v), u)
  BY <1>4 DEF MmsTravels, Travels, UnpackAs
<1>6. u.type = "data" /\ u.name = ContentType /\ u.ct = WithoutFilename(ct)
  BY DataTypes
<1>7. WithoutFilename(ct) # Failed
  BY <1>1, WithoutFilenameIs, CTIs
<1>8. Good(u)
  <2>1. u.type # "failed" /\ u.type # "nothing"
    BY <1>6
  <2>2. Failed.type = "failed" /\ Nothing.type = "nothing"
    BY DEF Failed, Nothing
  <2>. HIDE DEF u
  <2>. QED BY <1>6, <1>7, <2>1, <2>2 DEF Good
<1>. QED BY <1>2, <1>3, <1>5, <1>6, <1>8

-----------------------------------------------------------------------------
(* The bytes of what was sent, one behind the other.                        *)
AllBytes(c, s) == [i \in 1 .. Len(s) |-> Bytes(c, s[i])]

Laid(c, w, s, e) == LaidOut(w, AllBytes(c, s), e)

(* One more item, one more piece.                                           *)
LEMMA MoreBytes ==
  ASSUME NEW c, NEW T, NEW s \in Seq(T), NEW x \in T
  PROVE  LET S == {Bytes(c, y) : y \in T}
         IN  /\ AllBytes(c, s) \in Seq(S) /\ Bytes(c, x) \in S
             /\ AllBytes(c, Append(s, x)) = Append(AllBytes(c, s), Bytes(c, x))
<1>. DEFINE S == {Bytes(c, y) : y \in T}
            b == AllBytes(c, s)
            p == Bytes(c, x)
            n == Len(s)
            t == Append(s, x)
            d == Append(b, p)
<1>1. n \in Nat /\ \A i \in 1 .. n : s[i] \in T
  BY SeqIs
<1>2. t \in Seq(T) /\ Len(t) = n + 1 /\ t[n + 1] = x /\ \A i \in 1 .. n : t[i] = s[i]
  BY AppendProperties
<1>3. b = [i \in 1 .. n |-> Bytes(c, s[i])] /\ p \in S
  BY DEF AllBytes
<1>4. b \in Seq(S) /\ Len(b) = n /\ \A i \in 1 .. n : b[i] = Bytes(c, s[i])
  <2>1. \A i \in 1 .. n : Bytes(c, s[i]) \in S
    BY <1>1
  <2>. HIDE DEF S, n, b
  <2>. QED BY <1>1, <1>3, <2>1
<1>5. d \in Seq(S) /\ Len(d) = n + 1 /\ d[n + 1] = p /\ \A i \in 1 .. n : d[i] = b[i]
  <2>. HIDE DEF S, n, b, p, d
  <2>1. /\ d \in Seq(S) /\ Len(d) = Len(b) + 1 /\ d[Len(b) + 1] = p
        /\ \A i \in 1 .. Len(b) : d[i] = b[i]
    <3>1. b \in Seq(S) /\ p \in S
      BY <1>3, <1>4
    <3>. QED BY <3>1, AppendProperties DEF d
  <2>. QED BY <1>4, <2>1
<1>6. AllBytes(c, t) = [i \in 1 .. n + 1 |-> Bytes(c, t[i])]
  BY <1>2 DEF AllBytes
<1>7. d = [i \in 1 .. n + 1 |-> d[i]]
  <2>. HIDE DEF d, n, S
  <2>. QED BY <1>1, <1>5
<1>8. \A i \in 1 .. n + 1 : d[i] = Bytes(c, t[i])
  <2>1. ASSUME NEW i \in 1 .. n + 1 PROVE d[i] = Bytes(c, t[i])
    <3>1. CASE i = n + 1
      BY <1>2, <1>5, <3>1
    <3>2. CASE i # n + 1
      <4>1. i \in 1 .. n
        <5>. HIDE DEF n
        <5>. QED BY <1>1, <3>2
      <4>. HIDE DEF n, d, b, t
      <4>. QED BY <1>2, <1>4, <1>5, <4>1
    <3>. QED BY <3>1, <3>2
  <2>. QED BY <2>1
<1>9. AllBytes(c, t) = d
  <2>. HIDE DEF d, n, t
  <2>. QED BY <1>6, <1>7, <1>8
<1>. QED BY <1>3, <1>4, <1>9

(* An item sent is laid out behind the others.                              *)
LEMMA LaidMore ==
  ASSUME NEW c, NEW T, NEW s \in Seq(T), NEW x \in T, NEW w, NEW e, Laid(c, w, s, e),
         Bytes(c, x) \in Seq(Octets)
  PROVE  Laid(c, w \o Bytes(c, x), Append(s, x), Append(e, Len(w \o Bytes(c, x))))
<1>. DEFINE S == {Bytes(c, y) : y \in T}
            b == AllBytes(c, s)
            p == Bytes(c, x)
<1>1. b \in Seq(S) /\ p \in S /\ AllBytes(c, Append(s, x)) = Append(b, p)
  BY MoreBytes
<1>2. LaidOut(w, b, e)
  BY DEF Laid
<1>3. p \in Seq(Octets)
  OBVIOUS
<1>. HIDE DEF S, b, p
<1>4. LaidOut(w \o p, Append(b, p), Append(e, Len(w \o p)))
  BY <1>1, <1>2, <1>3, LaidOutMore
<1>. QED BY <1>1, <1>4 DEF Laid, p

LEMMA NothingLaid == \A c : Laid(c, <<>>, <<>>, <<>>)
<1>1. ASSUME NEW c PROVE AllBytes(c, <<>>) = <<>>
  <2>1. Len(<<>>) = 0 /\ 1 .. 0 = {}
    OBVIOUS
  <2>2. AllBytes(c, <<>>) = [i \in {} |-> Bytes(c, <<>>[i])]
    BY <2>1 DEF AllBytes
  <2>. QED BY <2>2
<1>. QED BY <1>1, NothingLaidOut DEF Laid

(* Where a piece lies, and what follows it.                                 *)
LEMMA LaidIs ==
  ASSUME NEW c, NEW T, NEW w, NEW s \in Seq(T), NEW e, Laid(c, w, s, e)
  PROVE  /\ w \in Seq(Octets) /\ Len(w) \in Nat /\ Len(s) \in Nat /\ Len(e) = Len(s) /\ e \in Seq(Nat)
         /\ StartOf(e, 1) = 0 /\ StartOf(e, Len(s) + 1) = Len(w)
         /\ \A i \in 1 .. Len(s) :
              /\ Ahead(w, StartOf(e, i), Bytes(c, s[i]), Len(w))
              /\ e[i] = StartOf(e, i) + Len(Bytes(c, s[i])) /\ e[i] = StartOf(e, i + 1)
              /\ StartOf(e, i) \in Nat
<1>. DEFINE n == Len(s)
            b == AllBytes(c, s)
<1>1. n \in Nat
  BY SeqIs
<1>2. b = [i \in 1 .. n |-> Bytes(c, s[i])]
  BY DEF AllBytes
<1>3. Len(b) = n /\ \A i \in 1 .. n : b[i] = Bytes(c, s[i])
  <2>. HIDE DEF n, b
  <2>. QED BY <1>1, <1>2
<1>4. LaidOut(w, b, e)
  BY DEF Laid
<1>. HIDE DEF n, b
<1>5. /\ w \in Seq(Octets) /\ e \in Seq(Nat) /\ n = Len(e)
      /\ StartOf(e, n + 1) = Len(w)
      /\ \A i \in 1 .. n : Ahead(w, StartOf(e, i), b[i], Len(w)) /\ e[i] = StartOf(e, i) + Len(b[i])
  BY <1>3, <1>4 DEF LaidOut
<1>6. Len(w) \in Nat
  BY <1>5, SeqIs
<1>7. ASSUME NEW i \in 1 .. n PROVE e[i] = StartOf(e, i + 1)
  <2>1. i + 1 # 1 /\ (i + 1) - 1 = i
    BY <1>1
  <2>. QED BY <2>1 DEF StartOf
<1>8. StartOf(e, 1) = 0
  BY DEF StartOf
<1>9. ASSUME NEW i \in 1 .. n PROVE StartOf(e, i) \in Nat
  BY <1>5 DEF Ahead
<1>. QED BY <1>1, <1>3, <1>5, <1>6, <1>7, <1>8, <1>9 DEF n

(* An item is read where it lies, up to the next.                           *)
LEMMA NextComes ==
  ASSUME NEW c, NEW T, NEW w, NEW s \in Seq(T), NEW e, Laid(c, w, s, e), NEW i \in 1 .. Len(s),
         Travels(c, Bytes(c, s[i]), Came(c, s[i]))
  PROVE  /\ UnpackAs(c, w, StartOf(e, i), Len(w)) = Read(Came(c, s[i]), StartOf(e, i + 1))
         /\ StartOf(e, i) < Len(w)
<1>. DEFINE b == Bytes(c, s[i])
            x == StartOf(e, i)
            v == Came(c, s[i])
<1>1. Ahead(w, x, b, Len(w)) /\ StartOf(e, i + 1) = x + Len(b) /\ x \in Nat /\ Len(w) \in Nat
  BY LaidIs
<1>. HIDE DEF b, x, v
<1>2. Travels(c, b, v)
  BY DEF b, v
<1>3. Len(b) \in Nat /\ Len(b) >= 1 /\ UnpackAs(c, w, x, Len(w)) = Read(v, x + Len(b))
  BY <1>1, <1>2 DEF Travels
<1>4. x + Len(b) <= Len(w)
  BY <1>1 DEF Ahead
<1>5. x < Len(w)
  BY <1>1, <1>3, <1>4
<1>. QED BY <1>1, <1>3, <1>5 DEF x, v

-----------------------------------------------------------------------------
(* What is sent: items, and of a whole message its content type and body.   *)
SentWell(c, whole, s) ==
  /\ \A i \in 1 .. (IF whole THEN Len(s) - 2 ELSE Len(s)) : IsItem(c, s[i])
  /\ whole => c = "mms" /\ Len(s) >= 2 /\ IsTypeItem(s[Len(s) - 1]) /\ IsBody(s[Len(s)])

AllCame(c, s) == {Came(c, s[i]) : i \in 1 .. Len(s)}

(* What is received: what was sent, as it comes, up to some item.           *)
ReceivedWell(c, s, r) ==
  /\ Len(r) \in 0 .. Len(s)
  /\ r = [i \in 1 .. Len(r) |-> Came(c, s[i])]

(* Nothing has been received yet; then one more item each time.             *)
LEMMA NothingReceived == \A c, s : Len(s) \in Nat => ReceivedWell(c, s, <<>>)
<1>1. ASSUME NEW c, NEW s, Len(s) \in Nat PROVE ReceivedWell(c, s, <<>>)
  <2>1. Len(<<>>) = 0 /\ 1 .. 0 = {} /\ 0 \in 0 .. Len(s)
    BY <1>1
  <2>2. <<>> = [i \in {} |-> Came(c, s[i])]
    OBVIOUS
  <2>. QED BY <2>1, <2>2 DEF ReceivedWell
<1>. QED BY <1>1

LEMMA ReceivedIs ==
  ASSUME NEW c, NEW s, NEW r, Len(s) \in Nat, ReceivedWell(c, s, r)
  PROVE  /\ Len(r) \in Nat /\ Len(r) <= Len(s)
         /\ r \in Seq(AllCame(c, s))
         /\ \A i \in 1 .. Len(r) : r[i] = Came(c, s[i])
         /\ r = <<>> <=> Len(r) = 0
         /\ r # <<>> => Last(r) = Came(c, s[Len(r)])
<1>. DEFINE n == Len(r)
            S == AllCame(c, s)
<1>1. n \in Nat /\ n <= Len(s) /\ r = [i \in 1 .. n |-> Came(c, s[i])]
  BY DEF ReceivedWell
<1>2. \A i \in 1 .. n : i \in 1 .. Len(s)
  <2>. HIDE DEF n
  <2>. QED BY <1>1
<1>3. \A i \in 1 .. n : Came(c, s[i]) \in S
  BY <1>2 DEF AllCame
<1>4. r \in Seq(S) /\ \A i \in 1 .. n : r[i] = Came(c, s[i])
  <2>. HIDE DEF n, S
  <2>. QED BY <1>1, <1>3
<1>5. r = <<>> <=> n = 0
  BY <1>4, EmptySeq
<1>6. r # <<>> => Last(r) = Came(c, s[n])
  <2>1. Last(r) = r[n]
    BY DEF Last
  <2>2. r # <<>> => n \in 1 .. n
    <3>1. r # <<>> => n # 0
      BY <1>5
    <3>. HIDE DEF n
    <3>. QED BY <1>1, <3>1
  <2>. HIDE DEF n
  <2>. QED BY <1>4, <2>1, <2>2
<1>. QED BY <1>1, <1>4, <1>5, <1>6

LEMMA ReceivedMore ==
  ASSUME NEW c, NEW s, NEW r, Len(s) \in Nat, ReceivedWell(c, s, r), Len(r) < Len(s)
  PROVE  LET q == Append(r, Came(c, s[Len(r) + 1]))
         IN  ReceivedWell(c, s, q) /\ Len(q) = Len(r) + 1
<1>. DEFINE n == Len(r)
            S == AllCame(c, s)
            v == Came(c, s[n + 1])
            q == Append(r, v)
<1>1. n \in Nat /\ n < Len(s) /\ r \in Seq(S) /\ \A i \in 1 .. n : r[i] = Came(c, s[i])
  BY ReceivedIs
<1>2. v \in S
  <2>1. n + 1 \in 1 .. Len(s)
    <3>. HIDE DEF n
    <3>. QED BY <1>1
  <2>. QED BY <2>1 DEF AllCame
<1>. HIDE DEF S
<1>3. q \in Seq(S) /\ Len(q) = n + 1 /\ q[n + 1] = v /\ \A i \in 1 .. n : q[i] = r[i]
  <2>1. r \in Seq(S) /\ v \in S
    BY <1>1, <1>2
  <2>. HIDE DEF v
  <2>. QED BY <2>1, AppendProperties
<1>4. q = [i \in 1 .. n + 1 |-> q[i]]
  <2>. HIDE DEF q, n
  <2>. QED BY <1>1, <1>3
<1>5. ASSUME NEW i \in 1 .. n + 1 PROVE q[i] = Came(c, s[i])
  <2>1. CASE i = n + 1
    BY <1>3, <2>1
  <2>2. CASE i # n + 1
    <3>1. i \in 1 .. n
      <4>. HIDE DEF n
      <4>. QED BY <1>1, <2>2
    <3>. HIDE DEF n, q
    <3>. QED BY <1>1, <1>3, <3>1
  <2>. QED BY <2>1, <2>2
<1>6. q = [i \in 1 .. n + 1 |-> Came(c, s[i])]
  <2>. HIDE DEF q, n
  <2>. QED BY <1>4, <1>5
<1>7. n + 1 \in 0 .. Len(s)
  <2>. HIDE DEF n
  <2>. QED BY <1>1
<1>8. ReceivedWell(c, s, q)
  <2>. HIDE DEF q, n
  <2>. QED BY <1>3, <1>6, <1>7 DEF ReceivedWell
<1>. QED BY <1>3, <1>8

(* All but the body of a whole message comes as an item.                    *)
LEMMA SentTravels ==
  ASSUME NEW c \in Codecs, NEW whole \in BOOLEAN, NEW s, Len(s) \in Nat, SentWell(c, whole, s),
         NEW i \in 1 .. Len(s), whole => i # Len(s)
  PROVE  /\ Travels(c, Bytes(c, s[i]), Came(c, s[i])) /\ Good(Came(c, s[i]))
         /\ whole => (Came(c, s[i]).name = ContentType <=> i = Len(s) - 1)
<1>1. CASE whole /\ i = Len(s) - 1
  <2>1. c = "mms" /\ IsTypeItem(s[i])
    BY <1>1 DEF SentWell
  <2>. QED BY <1>1, <2>1, TypeItem
<1>2. CASE ~ (whole /\ i = Len(s) - 1)
  <2>1. IsItem(c, s[i])
    <3>1. i \in 1 .. (IF whole THEN Len(s) - 2 ELSE Len(s))
      BY <1>2
    <3>. QED BY <3>1 DEF SentWell
  <2>2. whole => c = "mms"
    BY DEF SentWell
  <2>3. /\ Travels(c, Bytes(c, s[i]), Came(c, s[i])) /\ Good(Came(c, s[i]))
        /\ c = "mms" => Came(c, s[i]).name # ContentType
    BY <2>1, AnyItem
  <2>. QED BY <1>2, <2>2, <2>3
<1>. QED BY <1>1, <1>2

-----------------------------------------------------------------------------
(* The next item, from where the unpacker stands.                           *)
LEMMA TakesNext ==
  ASSUME NEW c \in Codecs, NEW T, NEW w, NEW s \in Seq(T), NEW e, Laid(c, w, s, e),
         NEW whole \in BOOLEAN, SentWell(c, whole, s), NEW r, ReceivedWell(c, s, r),
         Len(r) < Len(s), whole => Len(r) + 1 # Len(s)
  PROVE  LET i == Len(r) + 1
             v == Came(c, s[i])
         IN  /\ UnpackAs(c, w, StartOf(e, i), Len(w)) = Read(v, StartOf(e, i + 1)) /\ Good(v)
             /\ StartOf(e, i) < Len(w)
<1>. DEFINE i == Len(r) + 1
<1>1. Len(s) \in Nat /\ Len(r) \in Nat
  BY SeqIs, ReceivedIs
<1>2. i \in 1 .. Len(s) /\ (whole => i # Len(s))
  BY <1>1
<1>. HIDE DEF i
<1>3. Travels(c, Bytes(c, s[i]), Came(c, s[i])) /\ Good(Came(c, s[i]))
  BY <1>1, <1>2, SentTravels
<1>4. /\ UnpackAs(c, w, StartOf(e, i), Len(w)) = Read(Came(c, s[i]), StartOf(e, i + 1))
      /\ StartOf(e, i) < Len(w)
  BY <1>2, <1>3, NextComes
<1>. QED BY <1>3, <1>4 DEF i

(* Of a whole message the last item received is a content type before the   *)
(* body, and there only.                                                    *)
LEMMA BeforeBody ==
  ASSUME NEW c \in Codecs, NEW s, Len(s) \in Nat, SentWell(c, TRUE, s), NEW r,
         ReceivedWell(c, s, r), Len(r) < Len(s)
  PROVE  (r # <<>> /\ Last(r).name = ContentType) <=> Len(r) + 1 = Len(s)
<1>. DEFINE n == Len(r)
<1>1. /\ n \in Nat /\ (r = <<>> <=> n = 0) /\ (r # <<>> => Last(r) = Came(c, s[n]))
  BY ReceivedIs
<1>2. Len(s) >= 2
  BY DEF SentWell
<1>3. CASE n = 0
  <2>. HIDE DEF n
  <2>1. r = <<>>
    BY <1>1, <1>3
  <2>2. n + 1 # Len(s)
    <3>1. n + 1 = 1
      BY <1>3
    <3>. QED BY <1>2, <3>1
  <2>. QED BY <2>1, <2>2 DEF n
<1>4. CASE n # 0
  <2>1. n \in 1 .. Len(s) /\ n # Len(s) /\ (n = Len(s) - 1 <=> n + 1 = Len(s))
    <3>1. n < Len(s)
      OBVIOUS
    <3>. HIDE DEF n
    <3>. QED BY <1>1, <1>4, <3>1
  <2>2. r # <<>> /\ Last(r) = Came(c, s[n])
    BY <1>1, <1>4
  <2>. HIDE DEF n
  <2>3. Came(c, s[n]).name = ContentType <=> n = Len(s) - 1
    BY <2>1, SentTravels
  <2>. QED BY <2>1, <2>2, <2>3 DEF n
<1>. QED BY <1>3, <1>4

(* The body, from where the unpacker stands.                                *)
LEMMA TakesBody ==
  ASSUME NEW c \in Codecs, NEW T, NEW w, NEW s \in Seq(T), NEW e, Laid(c, w, s, e),
         SentWell(c, TRUE, s)
  PROVE  LET v == s[Len(s)]
         IN  /\ UnpackBody(w, StartOf(e, Len(s))) = Read(MeantParts(v.parts), Len(w))
             /\ Came(c, v) = Body(MeantParts(v.parts))
             /\ StartOf(e, Len(s) + 1) = Len(w)
             /\ \A part \in Range(MeantParts(v.parts)) : part.ct # Failed /\ Failed \notin Range(part.items)
<1>. DEFINE n == Len(s)
            v == s[n]
            parts == v.parts
            x == StartOf(e, n)
<1>1. n \in Nat /\ n >= 2 /\ IsBody(v)
  <2>1. n \in Nat
    BY SeqIs
  <2>2. n >= 2 /\ IsBody(v)
    BY DEF SentWell
  <2>. QED BY <2>1, <2>2
<1>2. n \in 1 .. n
  <2>. HIDE DEF n
  <2>. QED BY <1>1
<1>3. v = Body(parts) /\ Parts(parts)
  BY <1>1 DEF IsBody
<1>4. v.type = "body"
  <2>1. Body(parts).type = "body"
    BY DEF Body
  <2>. HIDE DEF v, parts
  <2>. QED BY <1>3, <2>1
<1>5. Bytes(c, v) = PackBody(parts) /\ Came(c, v) = Body(MeantParts(parts))
  BY <1>4 DEF Bytes, Came
<1>6. /\ Ahead(w, x, Bytes(c, v), Len(w)) /\ StartOf(e, n + 1) = Len(w)
      /\ e[n] = x + Len(Bytes(c, v)) /\ e[n] = StartOf(e, n + 1)
  BY <1>2, LaidIs
<1>. HIDE DEF v, parts, x, n
<1>7. Ahead(w, x, PackBody(parts), Len(w)) /\ Len(w) = x + Len(PackBody(parts))
  BY <1>5, <1>6
<1>8. UnpackBody(w, x) = Read(MeantParts(parts), Len(w))
  <2>. DEFINE end == Len(w)
  <2>1. end = Len(w) /\ Ahead(w, x, PackBody(parts), end) /\ end = x + Len(PackBody(parts))
    BY <1>7
  <2>. HIDE DEF end
  <2>2. UnpackBody(w, x) = Read(MeantParts(parts), end)
    BY <1>3, <2>1, BodyRead
  <2>. QED BY <2>1, <2>2
<1>9. \A part \in Range(MeantParts(parts)) : part.ct # Failed /\ Failed \notin Range(part.items)
  BY <1>3, BodyNotFailed
<1>. QED BY <1>5, <1>6, <1>8, <1>9 DEF v, parts, x, n

-----------------------------------------------------------------------------
LEMMA TwoMore ==
  ASSUME NEW T, NEW s \in Seq(T), NEW a \in T, NEW b \in T
  PROVE  s \o <<a, b>> = Append(Append(s, a), b)
<1>. DEFINE n == Len(s)
            t == Append(s, a)
            u == Append(t, b)
            p == <<a, b>>
            v == s \o p
<1>1. n \in Nat
  BY SeqIs
<1>2. t \in Seq(T) /\ Len(t) = n + 1 /\ t[n + 1] = a /\ \A i \in 1 .. n : t[i] = s[i]
  BY AppendProperties
<1>3. u \in Seq(T) /\ Len(u) = Len(t) + 1 /\ u[Len(t) + 1] = b /\ \A i \in 1 .. Len(t) : u[i] = t[i]
  <2>. HIDE DEF t
  <2>. QED BY <1>2, AppendProperties
<1>4. p \in Seq(T) /\ Len(p) = 2 /\ p[1] = a /\ p[2] = b
  OBVIOUS
<1>5. v \in Seq(T) /\ Len(v) = n + 2 /\ \A i \in 1 .. n + 2 : v[i] = IF i <= n THEN s[i] ELSE p[i - n]
  <2>. HIDE DEF p
  <2>1. v \in Seq(T) /\ Len(v) = n + Len(p)
        /\ \A i \in 1 .. n + Len(p) : v[i] = IF i <= n THEN s[i] ELSE p[i - n]
    BY <1>4, ConcatProperties
  <2>. QED BY <1>4, <2>1
<1>. HIDE DEF n, t, u, p, v
<1>6. Len(u) = n + 2 /\ Len(v) = n + 2
  BY <1>1, <1>2, <1>3, <1>5
<1>7. ASSUME NEW i \in 1 .. n + 2 PROVE u[i] = v[i]
  <2>1. CASE i <= n
    <3>1. i \in 1 .. n /\ i \in 1 .. Len(t)
      BY <1>1, <1>2, <2>1
    <3>2. u[i] = s[i]
      BY <1>2, <1>3, <3>1
    <3>3. v[i] = s[i]
      BY <1>5, <2>1
    <3>. QED BY <3>2, <3>3
  <2>2. CASE i = n + 1
    <3>1. i \in 1 .. Len(t) /\ ~ (i <= n) /\ i - n = 1
      BY <1>1, <1>2, <2>2
    <3>2. u[i] = a
      BY <1>2, <1>3, <2>2, <3>1
    <3>3. v[i] = a
      BY <1>4, <1>5, <3>1
    <3>. QED BY <3>2, <3>3
  <2>3. CASE i = n + 2
    <3>1. i = Len(t) + 1 /\ ~ (i <= n) /\ i - n = 2
      BY <1>1, <1>2, <2>3
    <3>2. u[i] = b
      BY <1>3, <3>1
    <3>3. v[i] = b
      BY <1>4, <1>5, <3>1
    <3>. QED BY <3>2, <3>3
  <2>. QED BY <1>1, <2>1, <2>2, <2>3
<1>8. u = [i \in 1 .. n + 2 |-> u[i]] /\ v = [i \in 1 .. n + 2 |-> v[i]]
  BY <1>3, <1>5, <1>6, SeqIs
<1>9. u = v
  BY <1>7, <1>8
<1>. QED BY <1>9 DEF p, t, u, v

(* What has been sent when more items are.                                  *)
LEMMA SentItem ==
  ASSUME NEW c, NEW T, NEW s \in Seq(T), NEW x \in T, SentWell(c, FALSE, s), IsItem(c, x)
  PROVE  SentWell(c, FALSE, Append(s, x))
<1>. DEFINE n == Len(s)
            t == Append(s, x)
<1>1. n \in Nat
  BY SeqIs
<1>2. Len(t) = n + 1 /\ t[n + 1] = x /\ \A i \in 1 .. n : t[i] = s[i]
  BY AppendProperties
<1>3. \A i \in 1 .. n : IsItem(c, s[i])
  BY DEF SentWell
<1>. HIDE DEF n, t
<1>4. ASSUME NEW i \in 1 .. n + 1 PROVE IsItem(c, t[i])
  <2>1. CASE i = n + 1
    BY <1>2, <2>1
  <2>2. CASE i # n + 1
    <3>1. i \in 1 .. n
      BY <1>1, <2>2
    <3>. QED BY <1>2, <1>3, <3>1
  <2>. QED BY <2>1, <2>2
<1>5. SentWell(c, FALSE, t)
  BY <1>2, <1>4 DEF SentWell
<1>. QED BY <1>5 DEF t

(* A message closed by its content type and body is whole.                  *)
LEMMA SentWhole ==
  ASSUME NEW T, NEW s \in Seq(T), NEW x \in T, NEW y \in T, SentWell("mms", FALSE, s),
         IsTypeItem(x), IsBody(y)
  PROVE  SentWell("mms", TRUE, Append(Append(s, x), y))
<1>. DEFINE n == Len(s)
            t == Append(s, x)
            u == Append(t, y)
<1>1. n \in Nat
  BY SeqIs
<1>2. t \in Seq(T) /\ Len(t) = n + 1 /\ t[n + 1] = x /\ \A i \in 1 .. n : t[i] = s[i]
  BY AppendProperties
<1>3. Len(u) = Len(t) + 1 /\ u[Len(t) + 1] = y /\ \A i \in 1 .. Len(t) : u[i] = t[i]
  <2>. HIDE DEF t
  <2>. QED BY <1>2, AppendProperties
<1>4. \A i \in 1 .. n : IsItem("mms", s[i])
  BY DEF SentWell
<1>. HIDE DEF n, t, u
<1>5. Len(u) = n + 2 /\ Len(u) - 1 = n + 1 /\ Len(u) - 2 = n /\ n + 2 >= 2 /\ Len(t) + 1 = n + 2
      /\ n + 1 \in 1 .. Len(t)
  BY <1>1, <1>2, <1>3
<1>6. u[n + 2] = y /\ u[n + 1] = x
  BY <1>2, <1>3, <1>5
<1>7. ASSUME NEW i \in 1 .. n PROVE IsItem("mms", u[i])
  <2>1. i \in 1 .. Len(t)
    BY <1>1, <1>2
  <2>. QED BY <1>2, <1>3, <1>4, <2>1
<1>8. SentWell("mms", TRUE, u)
  BY <1>5, <1>6, <1>7 DEF SentWell
<1>. QED BY <1>8 DEF t, u

LEMMA NothingSent == \A c : SentWell(c, FALSE, <<>>)
<1>1. Len(<<>>) = 0 /\ 1 .. 0 = {}
  OBVIOUS
<1>. QED BY <1>1 DEF SentWell

-----------------------------------------------------------------------------
(* The invariant.                                                           *)
Sendable ==
  (UNION {Items[c] : c \in DOMAIN Items})
    \union {DataItem(ContentType, m.ct) : m \in Messages} \union {Body(m.parts) : m \in Messages}

Whole == codec = "mms" /\ stage # "pack"

CodecInv ==
  /\ codec \in DOMAIN Items /\ stage \in {"pack", "unpack", "read"}
  /\ sent \in Seq(Sendable) /\ Laid(codec, wire, sent, ends)
  /\ SentWell(codec, Whole, sent)
  /\ ReceivedWell(codec, sent, received) /\ at = StartOf(ends, Len(received) + 1)
  /\ stage = "pack" => received = <<>>
  /\ Whole /\ stage = "unpack" => Len(received) < Len(sent)
  /\ stage = "read" => Len(received) = Len(sent)

(* It holds when nothing has been packed.                                   *)
LEMMA CodecInvInit ==
  ASSUME CodecInit
  PROVE  CodecInv
<1>1. codec \in DOMAIN Items /\ stage = "pack" /\ wire = <<>> /\ at = 0 /\ sent = <<>> /\ ends = <<>> /\ received = <<>>
  BY DEF CodecInit
<1>2. sent \in Seq(Sendable) /\ Len(sent) \in Nat /\ Len(received) = 0
  BY <1>1
<1>3. Laid(codec, wire, sent, ends)
  BY <1>1, NothingLaid
<1>4. ReceivedWell(codec, sent, received)
  BY <1>1, <1>2, NothingReceived
<1>5. Whole = FALSE
  BY <1>1 DEF Whole
<1>6. SentWell(codec, FALSE, sent)
  BY <1>1, NothingSent
<1>7. at = StartOf(ends, Len(received) + 1)
  <2>1. StartOf(ends, 1) = 0
    BY DEF StartOf
  <2>2. Len(received) + 1 = 1
    BY <1>2
  <2>. QED BY <1>1, <2>1, <2>2
<1>. QED BY <1>1, <1>2, <1>3, <1>4, <1>5, <1>6, <1>7 DEF CodecInv

(* What the constants hold.                                                 *)
LEMMA SendableAre ==
  ASSUME CanRead(Items), CanReadMessages(Messages), CodecAssumption, NEW c \in DOMAIN Items
  PROVE  /\ c \in Codecs
         /\ \A item \in Items[c] : item \in Sendable /\ IsItem(c, item)
         /\ \A m \in Messages :
              /\ DataItem(ContentType, m.ct) \in Sendable /\ Body(m.parts) \in Sendable
              /\ IsTypeItem(DataItem(ContentType, m.ct)) /\ IsBody(Body(m.parts))
<1>1. c \in Codecs
  BY DEF CodecAssumption, Codecs
<1>2. ASSUME NEW item \in Items[c] PROVE item \in Sendable /\ IsItem(c, item)
  <2>1. item \in Sendable
    BY DEF Sendable
  <2>2. (CASE c = "mms" -> CanReadMms(item) [] c = "wsp" -> CanReadWsp(item) [] OTHER -> CanReadHttp(item))
    BY DEF CanRead
  <2>. QED BY <2>1, <2>2 DEF IsItem
<1>3. ASSUME NEW m \in Messages
      PROVE  /\ DataItem(ContentType, m.ct) \in Sendable /\ Body(m.parts) \in Sendable
             /\ IsTypeItem(DataItem(ContentType, m.ct)) /\ IsBody(Body(m.parts))
  <2>. DEFINE ct == m.ct
              parts == m.parts
  <2>1. DataItem(ContentType, ct) \in Sendable /\ Body(parts) \in Sendable
    <3>1. /\ DataItem(ContentType, m.ct) \in {DataItem(ContentType, k.ct) : k \in Messages}
          /\ Body(m.parts) \in {Body(k.parts) : k \in Messages}
      BY Zenon
    <3>. DEFINE A == UNION {Items[k] : k \in DOMAIN Items}
                B == {DataItem(ContentType, k.ct) : k \in Messages}
                C == {Body(k.parts) : k \in Messages}
    <3>2. Sendable = A \union B \union C
      BY DEF Sendable
    <3>. HIDE DEF A, B, C
    <3>3. B \subseteq Sendable /\ C \subseteq Sendable
      BY <3>2
    <3>4. DataItem(ContentType, m.ct) \in B /\ Body(m.parts) \in C
      BY <3>1 DEF B, C
    <3>. QED BY <3>3, <3>4
  <2>2. IsContentType(ct) /\ Parts(parts)
    BY DEF CanReadMessages, Parts
  <2>. HIDE DEF ct, parts
  <2>3. DataItem(ContentType, ct).ct = ct /\ Body(parts).parts = parts
    BY DEF DataItem, Body
  <2>4. IsTypeItem(DataItem(ContentType, ct)) /\ IsBody(Body(parts))
    BY <2>2, <2>3 DEF IsTypeItem, IsBody
  <2>. QED BY <2>1, <2>4 DEF ct, parts
<1>. QED BY <1>1, <1>2, <1>3

(* An item that can be read is packed as its bytes.                         *)
LEMMA PackIs ==
  ASSUME NEW item, codec \in Codecs, IsItem(codec, item)
  PROVE  /\ Packs(item) /\ Pack(item) = Bytes(codec, item)
         /\ Pack(item) \in Seq(Octets)
<1>1. item.type # "body"
  BY AnyItem
<1>2. Bytes(codec, item) = Pack(item)
  BY <1>1 DEF Bytes, Pack
<1>3. Travels(codec, Bytes(codec, item), Came(codec, item))
  BY AnyItem
<1>4. Bytes(codec, item) \in Seq(Octets)
  BY <1>3 DEF Travels
<1>5. Packs(item)
  <2>1. codec = "mms" => PacksMms(item)
    BY MmsTypes DEF IsItem
  <2>2. codec = "wsp" => PacksWsp(item)
    BY WspItem
  <2>. QED BY <2>1, <2>2 DEF Packs
<1>. QED BY <1>2, <1>4, <1>5

LEMMA ClosingIs ==
  ASSUME NEW v, IsTypeItem(v), NEW u, IsBody(u)
  PROVE  /\ PackMms(v) = Bytes("mms", v) /\ PackMms(v) \in Seq(Octets)
         /\ PackBody(u.parts) = Bytes("mms", u) /\ PackBody(u.parts) \in Seq(Octets)
<1>1. Travels("mms", Bytes("mms", v), Came("mms", v)) /\ Bytes("mms", v) = PackMms(v)
  BY TypeItem
<1>2. PackMms(v) \in Seq(Octets)
  BY <1>1 DEF Travels
<1>3. u = Body(u.parts) /\ Parts(u.parts)
  BY DEF IsBody
<1>4. Bytes("mms", u) = PackBody(u.parts)
  <2>. DEFINE parts == u.parts
  <2>1. Body(parts).type = "body"
    BY DEF Body
  <2>. HIDE DEF parts
  <2>2. u.type = "body"
    BY <1>3, <2>1 DEF parts
  <2>. QED BY <2>2 DEF Bytes
<1>5. PackBody(u.parts) \in Seq(Octets)
  BY <1>3, BodyIs
<1>. QED BY <1>1, <1>2, <1>4, <1>5

-----------------------------------------------------------------------------
(* A packed item is behind the others.                                      *)
LEMMA PackItemKeeps ==
  ASSUME CanRead(Items), CanReadMessages(Messages), CodecAssumption,
         CodecInv, NEW item \in Items[codec], PackItem(item)
  PROVE  CodecInv'
<1>1. /\ codec \in DOMAIN Items /\ stage = "pack" /\ sent \in Seq(Sendable)
      /\ Laid(codec, wire, sent, ends) /\ SentWell(codec, Whole, sent)
      /\ at = StartOf(ends, Len(received) + 1) /\ received = <<>>
  BY DEF CodecInv, PackItem
<1>2. codec \in Codecs /\ item \in Sendable /\ IsItem(codec, item)
  BY <1>1, SendableAre
<1>3. Packs(item) /\ Pack(item) = Bytes(codec, item) /\ Pack(item) \in Seq(Octets)
  BY <1>2, PackIs
<1>4. /\ wire' = wire \o Bytes(codec, item) /\ sent' = Append(sent, item)
      /\ ends' = Append(ends, Len(wire \o Bytes(codec, item)))
      /\ stage' = "pack" /\ codec' = codec /\ at' = at /\ received' = received
  BY <1>1, <1>3 DEF PackItem
<1>5. Whole = FALSE /\ Whole' = FALSE
  BY <1>1, <1>4 DEF Whole
<1>6. Bytes(codec, item) \in Seq(Octets)
  BY <1>3
<1>7. Laid(codec, wire', sent', ends')
  BY <1>1, <1>2, <1>4, <1>6, LaidMore
<1>8. SentWell(codec, FALSE, sent')
  BY <1>1, <1>2, <1>4, <1>5, SentItem
<1>9. sent' \in Seq(Sendable)
  BY <1>1, <1>2, <1>4, AppendProperties
<1>10. Len(sent') \in Nat /\ Len(received') = 0
  BY <1>1, <1>4, <1>9, SeqIs
<1>11. ReceivedWell(codec, sent', received')
  BY <1>1, <1>4, <1>10, NothingReceived
<1>12. at' = StartOf(ends', Len(received') + 1)
  <2>1. Len(received) + 1 = 1 /\ Len(received') + 1 = 1
    BY <1>1, <1>4
  <2>. QED BY <1>1, <1>4, <2>1 DEF StartOf
<1>. QED BY <1>1, <1>4, <1>5, <1>7, <1>8, <1>9, <1>11, <1>12 DEF CodecInv

(* A closed message ends with its content type and its body.                *)
LEMMA PackMessageKeeps ==
  ASSUME CanRead(Items), CanReadMessages(Messages), CodecAssumption,
         CodecInv, NEW m \in Messages, PackMessage(m.ct, m.parts)
  PROVE  CodecInv'
<1>. DEFINE v == DataItem(ContentType, m.ct)
            u == Body(m.parts)
            p == PackMms(v)
            q == PackBody(m.parts)
<1>1. /\ codec \in DOMAIN Items /\ stage = "pack" /\ codec = "mms" /\ sent \in Seq(Sendable)
      /\ Laid("mms", wire, sent, ends) /\ SentWell("mms", Whole, sent)
      /\ at = StartOf(ends, Len(received) + 1) /\ received = <<>>
  BY DEF CodecInv, PackMessage
<1>2. v \in Sendable /\ u \in Sendable /\ IsTypeItem(v) /\ IsBody(u)
  BY <1>1, SendableAre
<1>3. p = Bytes("mms", v) /\ p \in Seq(Octets) /\ q = Bytes("mms", u) /\ q \in Seq(Octets)
  <2>1. u.parts = m.parts
    BY DEF Body
  <2>. HIDE DEF v, u
  <2>2. /\ PackMms(v) = Bytes("mms", v) /\ PackMms(v) \in Seq(Octets)
        /\ PackBody(u.parts) = Bytes("mms", u) /\ PackBody(u.parts) \in Seq(Octets)
    BY <1>2, ClosingIs
  <2>. QED BY <2>1, <2>2
<1>4. /\ wire' = (wire \o p) \o q /\ sent' = sent \o <<v, u>>
      /\ ends' = ends \o <<Len(wire \o p), Len((wire \o p) \o q)>>
      /\ stage' = "unpack" /\ codec' = "mms" /\ at' = at /\ received' = received
  BY <1>1 DEF PackMessage
<1>. HIDE DEF v, u, p, q
<1>5. Whole = FALSE /\ Whole' = TRUE
  BY <1>1, <1>4 DEF Whole
<1>6. Laid("mms", wire \o p, Append(sent, v), Append(ends, Len(wire \o p)))
  <2>1. Bytes("mms", v) \in Seq(Octets)
    BY <1>3
  <2>2. Laid("mms", wire \o Bytes("mms", v), Append(sent, v), Append(ends, Len(wire \o Bytes("mms", v))))
    BY <1>1, <1>2, <2>1, LaidMore
  <2>. QED BY <1>3, <2>2
<1>7. Append(sent, v) \in Seq(Sendable)
  BY <1>1, <1>2, AppendProperties
<1>8. Laid("mms", (wire \o p) \o q, Append(Append(sent, v), u),
           Append(Append(ends, Len(wire \o p)), Len((wire \o p) \o q)))
  <2>. DEFINE w == wire \o p
              s == Append(sent, v)
              e == Append(ends, Len(wire \o p))
  <2>1. s \in Seq(Sendable) /\ Laid("mms", w, s, e) /\ Bytes("mms", u) \in Seq(Octets)
    BY <1>3, <1>6, <1>7
  <2>. HIDE DEF w, s, e
  <2>2. Laid("mms", w \o Bytes("mms", u), Append(s, u), Append(e, Len(w \o Bytes("mms", u))))
    BY <1>2, <2>1, LaidMore
  <2>3. Laid("mms", w \o q, Append(s, u), Append(e, Len(w \o q)))
    BY <1>3, <2>2
  <2>. QED BY <2>3 DEF w, s, e
<1>9. sent' = Append(Append(sent, v), u)
  BY <1>1, <1>2, <1>4, TwoMore
<1>10. ends' = Append(Append(ends, Len(wire \o p)), Len((wire \o p) \o q))
  <2>1. ends \in Seq(Nat) /\ wire \in Seq(Octets)
    BY <1>1, LaidIs
  <2>2. wire \o p \in Seq(Octets) /\ (wire \o p) \o q \in Seq(Octets)
    BY <1>3, <2>1, Joined
  <2>3. Len(wire \o p) \in Nat /\ Len((wire \o p) \o q) \in Nat
    BY <2>2, SeqIs
  <2>. DEFINE a == Len(wire \o p)
              b == Len((wire \o p) \o q)
  <2>4. a \in Nat /\ b \in Nat /\ ends' = ends \o <<a, b>>
    BY <1>4, <2>3
  <2>. HIDE DEF a, b
  <2>5. ends' = Append(Append(ends, a), b)
    BY <2>1, <2>4, TwoMore
  <2>. QED BY <2>5 DEF a, b
<1>11. SentWell("mms", TRUE, sent')
  BY <1>1, <1>2, <1>5, <1>9, SentWhole
<1>12. sent' \in Seq(Sendable) /\ Len(sent') \in Nat /\ Len(sent') >= 2
  <2>1. sent' \in Seq(Sendable)
    <3>. DEFINE s == Append(sent, v)
    <3>1. s \in Seq(Sendable) /\ sent' = Append(s, u)
      BY <1>7, <1>9
    <3>. HIDE DEF s
    <3>. QED BY <1>2, <3>1, AppendProperties
  <2>2. Len(sent') >= 2
    BY <1>11 DEF SentWell
  <2>. QED BY <2>1, <2>2, SeqIs
<1>13. ReceivedWell("mms", sent', received') /\ Len(received') = 0
  BY <1>1, <1>4, <1>12, NothingReceived
<1>14. at' = StartOf(ends', Len(received') + 1)
  <2>1. Len(received) + 1 = 1 /\ Len(received') + 1 = 1
    BY <1>1, <1>4
  <2>. QED BY <1>1, <1>4, <2>1 DEF StartOf
<1>15. Laid("mms", wire', sent', ends')
  BY <1>4, <1>8, <1>9, <1>10
<1>16. Len(received') < Len(sent')
  BY <1>12, <1>13
<1>. QED BY <1>1, <1>4, <1>5, <1>11, <1>12, <1>13, <1>14, <1>15, <1>16 DEF CodecInv

-----------------------------------------------------------------------------

(* The invariant, as its steps use it.                                      *)
LEMMA InvIs ==
  ASSUME CodecAssumption, CodecInv
  PROVE  /\ codec \in Codecs /\ codec \in DOMAIN Items /\ Whole \in BOOLEAN /\ sent \in Seq(Sendable)
         /\ Laid(codec, wire, sent, ends)
         /\ SentWell(codec, Whole, sent) /\ ReceivedWell(codec, sent, received)
         /\ Len(sent) \in Nat /\ Len(received) \in Nat /\ Len(received) <= Len(sent)
         /\ at = StartOf(ends, Len(received) + 1) /\ StartOf(ends, Len(sent) + 1) = Len(wire)
         /\ Len(wire) \in Nat
<1>1. /\ codec \in DOMAIN Items /\ sent \in Seq(Sendable) /\ Laid(codec, wire, sent, ends)
      /\ SentWell(codec, Whole, sent) /\ ReceivedWell(codec, sent, received)
      /\ at = StartOf(ends, Len(received) + 1)
  BY DEF CodecInv
<1>2. codec \in Codecs
  BY <1>1 DEF CodecAssumption, Codecs
<1>3. Len(sent) \in Nat
  BY <1>1, SeqIs
<1>4. Len(received) \in Nat /\ Len(received) <= Len(sent)
  BY <1>1, <1>3, ReceivedIs
<1>5. StartOf(ends, Len(sent) + 1) = Len(wire) /\ Len(wire) \in Nat
  BY <1>1, LaidIs
<1>. QED BY <1>1, <1>2, <1>3, <1>4, <1>5 DEF Whole

(* The stage of unpacking begins, with what was packed.                     *)
LEMMA CloseKeeps ==
  ASSUME CodecAssumption, CodecInv, Close
  PROVE  CodecInv'
<1>1. /\ stage = "pack" /\ codec # "mms" /\ stage' = "unpack"
      /\ UNCHANGED <<codec, wire, at, sent, ends, received>>
  BY DEF Close
<1>2. Whole = FALSE /\ Whole' = FALSE
  BY <1>1 DEF Whole
<1>. QED BY <1>1, <1>2 DEF CodecInv

(* Where an item is taken, or everything has been.                          *)
LEMMA ItemIsNext ==
  ASSUME CodecAssumption, CodecInv, stage = "unpack", ~AtContentType
  PROVE  /\ at < Len(wire) => Len(received) < Len(sent)
         /\ Len(received) < Len(sent) => ~ (Whole /\ Len(received) + 1 = Len(sent))
         /\ Len(received) < Len(sent) =>
              LET v == Came(codec, sent[Len(received) + 1])
              IN  /\ Unpack(wire, at, Len(wire)) = Read(v, StartOf(ends, (Len(received) + 1) + 1))
                  /\ Good(v) /\ at < Len(wire)
         /\ Len(received) = Len(sent) => at = Len(wire) /\ ~ Whole
<1>1. /\ codec \in Codecs /\ Whole \in BOOLEAN /\ sent \in Seq(Sendable) /\ Laid(codec, wire, sent, ends)
      /\ SentWell(codec, Whole, sent) /\ ReceivedWell(codec, sent, received)
      /\ Len(sent) \in Nat /\ Len(received) \in Nat /\ Len(received) <= Len(sent)
      /\ at = StartOf(ends, Len(received) + 1) /\ StartOf(ends, Len(sent) + 1) = Len(wire)
      /\ Len(wire) \in Nat
  BY InvIs
<1>2. Len(received) = Len(sent) => at = Len(wire)
  BY <1>1
<1>3. Whole => Len(received) < Len(sent)
  BY DEF CodecInv
<1>4. Len(received) = Len(sent) => ~ Whole
  BY <1>1, <1>3
<1>5. at < Len(wire) => Len(received) < Len(sent)
  <2>1. at < Len(wire) => Len(received) # Len(sent)
    BY <1>1, <1>2
  <2>. QED BY <1>1, <2>1
<1>6. Len(received) < Len(sent) => ~ (Whole /\ Len(received) + 1 = Len(sent))
  <2>1. ASSUME Len(received) < Len(sent), Whole, Len(received) + 1 = Len(sent) PROVE FALSE
    <3>1. SentWell(codec, TRUE, sent) /\ codec = "mms"
      BY <1>1, <2>1 DEF Whole
    <3>2. received # <<>> /\ Last(received).name = ContentType
      BY <1>1, <2>1, <3>1, BeforeBody
    <3>. QED BY <3>1, <3>2 DEF AtContentType
  <2>. QED BY <2>1
<1>7. ASSUME Len(received) < Len(sent)
      PROVE  LET v == Came(codec, sent[Len(received) + 1])
             IN  /\ Unpack(wire, at, Len(wire)) = Read(v, StartOf(ends, (Len(received) + 1) + 1))
                 /\ Good(v) /\ at < Len(wire)
  <2>. DEFINE i == Len(received) + 1
              v == Came(codec, sent[i])
  <2>1. Whole => i # Len(sent)
    BY <1>6, <1>7
  <2>2. /\ UnpackAs(codec, wire, StartOf(ends, i), Len(wire)) = Read(v, StartOf(ends, i + 1))
        /\ Good(v) /\ StartOf(ends, i) < Len(wire)
    BY <1>1, <1>7, <2>1, TakesNext
  <2>3. Unpack(wire, at, Len(wire)) = UnpackAs(codec, wire, at, Len(wire))
    BY DEF Unpack, UnpackAs
  <2>. QED BY <1>1, <2>2, <2>3
<1>. QED BY <1>2, <1>4, <1>5, <1>6, <1>7

(* The unpacker takes the next item, then the end of the items, or the      *)
(* message whole.                                                           *)
LEMMA UnpackItemKeeps ==
  ASSUME CodecAssumption, CodecInv, UnpackItem
  PROVE  /\ CodecInv' /\ Len(received) < Len(sent) /\ sent' = sent
         /\ received' = Append(received, Came(codec, sent[Len(received) + 1]))
<1>. DEFINE n == Len(received)
            v == Came(codec, sent[n + 1])
            x == StartOf(ends, (n + 1) + 1)
            g == Unpack(wire, at, Len(wire))
<1>1. stage = "unpack" /\ at < Len(wire) /\ ~AtContentType /\ UNCHANGED <<codec, wire, sent, ends>>
  BY DEF UnpackItem
<1>2. n < Len(sent) /\ ~ (Whole /\ n + 1 = Len(sent)) /\ g = Read(v, x) /\ Good(v)
  BY <1>1, ItemIsNext
<1>3. g.value = v /\ g.at = x
  <2>. HIDE DEF g, v, x
  <2>. QED BY <1>2, ReadIs
<1>4. /\ at' = g.at
      /\ IF g.value = Failed \/ (g.value.type = "data" /\ g.value.ct = Failed)
         THEN stage' = "aborted" /\ UNCHANGED received
         ELSE IF g.value = Nothing THEN stage' = "read" /\ UNCHANGED received
         ELSE received' = Append(received, g.value) /\ UNCHANGED stage
  <2>1. \E item \in {g} :
          /\ at' = item.at
          /\ IF item.value = Failed \/ (item.value.type = "data" /\ item.value.ct = Failed)
             THEN stage' = "aborted" /\ UNCHANGED received
             ELSE IF item.value = Nothing THEN stage' = "read" /\ UNCHANGED received
             ELSE received' = Append(received, item.value) /\ UNCHANGED stage
    BY DEF UnpackItem
  <2>. HIDE DEF g
  <2>. QED BY <2>1
<1>5. at' = x /\ received' = Append(received, v) /\ stage' = "unpack"
  <2>. HIDE DEF g, v, x
  <2>. QED BY <1>1, <1>2, <1>3, <1>4 DEF Good
<1>6. /\ codec \in DOMAIN Items /\ sent \in Seq(Sendable) /\ Laid(codec, wire, sent, ends)
      /\ SentWell(codec, Whole, sent) /\ ReceivedWell(codec, sent, received)
      /\ Len(sent) \in Nat /\ n \in Nat
  BY InvIs
<1>7. ReceivedWell(codec, sent, received') /\ Len(received') = n + 1
  BY <1>2, <1>5, <1>6, ReceivedMore
<1>8. Whole' = Whole
  BY <1>1, <1>5 DEF Whole
<1>9. Whole => n + 1 < Len(sent)
  <2>. HIDE DEF n
  <2>. QED BY <1>2, <1>6
<1>10. CodecInv'
  <2>1. at' = StartOf(ends, Len(received') + 1)
    BY <1>5, <1>7
  <2>2. Whole => Len(received') < Len(sent)
    BY <1>7, <1>9
  <2>. HIDE DEF n, v, x, g
  <2>. QED BY <1>1, <1>5, <1>6, <1>7, <1>8, <2>1, <2>2 DEF CodecInv
<1>. QED BY <1>1, <1>2, <1>5, <1>10

LEMMA EndItemsKeeps ==
  ASSUME CodecAssumption, CodecInv, EndItems
  PROVE  CodecInv'
<1>1. /\ stage = "unpack" /\ at >= Len(wire) /\ ~AtContentType /\ stage' = "read"
      /\ UNCHANGED <<codec, wire, at, sent, ends, received>>
  BY DEF EndItems
<1>2. /\ Len(received) \in Nat /\ Len(sent) \in Nat /\ Len(received) <= Len(sent) /\ Len(wire) \in Nat
      /\ SentWell(codec, Whole, sent)
  BY InvIs
<1>3. Len(received) = Len(sent) /\ ~ Whole
  <2>1. Len(received) < Len(sent) => at < Len(wire)
    BY <1>1, ItemIsNext
  <2>2. Len(received) = Len(sent) => at = Len(wire) /\ ~ Whole
    BY <1>1, ItemIsNext
  <2>3. Laid(codec, wire, sent, ends) /\ sent \in Seq(Sendable) /\ at = StartOf(ends, Len(received) + 1)
    BY InvIs
  <2>4. at \in Nat
    <3>1. CASE Len(received) < Len(sent)
      <4>1. Len(received) + 1 \in 1 .. Len(sent)
        BY <1>2, <3>1
      <4>. QED BY <2>3, <4>1, LaidIs
    <3>2. CASE Len(received) = Len(sent)
      BY <1>2, <2>2, <3>2
    <3>. QED BY <1>2, <3>1, <3>2
  <2>5. ~ (at < Len(wire))
    BY <1>1, <1>2, <2>4
  <2>. QED BY <1>2, <2>1, <2>2, <2>5
<1>4. Whole' = FALSE /\ Whole = FALSE
  BY <1>1, <1>3 DEF Whole
<1>5. CodecInv'
  BY <1>1, <1>3, <1>4 DEF CodecInv
<1>. QED BY <1>5

LEMMA UnpackMessageKeeps ==
  ASSUME CodecAssumption, CodecInv, UnpackMessage
  PROVE  /\ CodecInv' /\ Len(received) < Len(sent) /\ sent' = sent
         /\ received' = Append(received, Came(codec, sent[Len(received) + 1]))
<1>. DEFINE n == Len(received)
            v == sent[Len(sent)]
            parts == MeantParts(v.parts)
            g == UnpackBody(wire, at)
<1>1. stage = "unpack" /\ AtContentType /\ UNCHANGED <<codec, wire, sent, ends>>
  BY DEF UnpackMessage
<1>2. codec = "mms" /\ Whole /\ Whole = TRUE /\ received # <<>> /\ Last(received).name = ContentType
  BY <1>1 DEF AtContentType, Whole
<1>3. n < Len(sent)
  BY <1>1, <1>2 DEF CodecInv
<1>4. /\ codec \in Codecs /\ codec \in DOMAIN Items /\ sent \in Seq(Sendable) /\ Laid(codec, wire, sent, ends)
      /\ SentWell(codec, TRUE, sent) /\ ReceivedWell(codec, sent, received)
      /\ Len(sent) \in Nat /\ n \in Nat /\ at = StartOf(ends, n + 1)
  BY <1>2, InvIs
<1>5. n + 1 = Len(sent)
  BY <1>2, <1>3, <1>4, BeforeBody
<1>6. /\ UnpackBody(wire, StartOf(ends, Len(sent))) = Read(parts, Len(wire))
      /\ Came(codec, v) = Body(parts)
      /\ StartOf(ends, Len(sent) + 1) = Len(wire)
      /\ \A part \in Range(parts) : part.ct # Failed /\ Failed \notin Range(part.items)
  BY <1>4, TakesBody
<1>7. g = Read(parts, Len(wire))
  BY <1>4, <1>5, <1>6
<1>8. g.value = parts /\ g.at = Len(wire)
  <2>. HIDE DEF g, parts
  <2>. QED BY <1>7, ReadIs
<1>9. /\ at' = g.at
      /\ IF \E part \in Range(g.value) : part.ct = Failed \/ Failed \in Range(part.items)
         THEN stage' = "aborted" /\ UNCHANGED received
         ELSE stage' = "read" /\ received' = Append(received, Body(g.value))
  <2>1. \E body \in {g} :
          /\ at' = body.at
          /\ IF \E part \in Range(body.value) : part.ct = Failed \/ Failed \in Range(part.items)
             THEN stage' = "aborted" /\ UNCHANGED received
             ELSE stage' = "read" /\ received' = Append(received, Body(body.value))
    BY DEF UnpackMessage
  <2>. HIDE DEF g
  <2>. QED BY <2>1
<1>10. at' = Len(wire) /\ stage' = "read" /\ received' = Append(received, Body(parts))
  <2>. HIDE DEF g, parts
  <2>1. ~ (\E part \in Range(g.value) : part.ct = Failed \/ Failed \in Range(part.items))
    BY <1>6, <1>8
  <2>. QED BY <1>8, <1>9, <2>1
<1>11. received' = Append(received, Came(codec, sent[n + 1]))
  BY <1>5, <1>6, <1>10
<1>12. ReceivedWell(codec, sent, received') /\ Len(received') = n + 1
  BY <1>3, <1>4, <1>11, ReceivedMore
<1>13. Whole' = TRUE
  BY <1>1, <1>2, <1>10 DEF Whole
<1>14. at' = StartOf(ends, Len(received') + 1)
  BY <1>5, <1>6, <1>10, <1>12
<1>15. CodecInv'
  <2>1. Len(received') = Len(sent)
    BY <1>5, <1>12
  <2>. HIDE DEF n, v, parts, g
  <2>. QED BY <1>1, <1>4, <1>10, <1>12, <1>13, <1>14, <2>1 DEF CodecInv
<1>. QED BY <1>1, <1>3, <1>11, <1>15

-----------------------------------------------------------------------------
(* What is unpacked means what was packed.                                  *)
MeansAs(c, v) ==
  CASE v.type = "encoded" /\ v.charset = 0 -> StringItem(v.name, v.text)
    [] v.type = "long" /\ c = "http" -> StringItem(v.name, Decimal(v.long))
    [] v.type = "data" -> [v EXCEPT !.ct = WithoutFilename(v.ct)]
    [] v.type = "body" -> Body(MeantParts(v.parts))
    [] OTHER           -> v

(* Means of the model, for whatever codec.                                  *)
LEMMA MeansOf == \A v : Means(v) = MeansAs(codec, v)
BY Zenon DEF Means, MeansAs, MeantParts

(* What is dropped once is not there to be dropped again.                   *)
LEMMA WithoutFilenameAgain ==
  ASSUME NEW ct, IsContentType(ct)
  PROVE  WithoutFilename(WithoutFilename(ct)) = WithoutFilename(ct)
<1>. DEFINE name == ct.name
            ty == ct.type
            pa == ct.param
            st == ct.start
            id == IdOf(MediaNames, name)
<1>1. WithoutFilename(ct) = CT(name, ty, pa, st)
  BY WithoutFilenameIs
<1>2. CT(name, ty, pa, st) = [id |-> id, name |-> name, type |-> ty, param |-> pa, filename |-> <<>>, start |-> st]
  BY DEF CT
<1>. HIDE DEF name, ty, pa, st, id
<1>3. WithoutFilename(CT(name, ty, pa, st)) = CT(name, ty, pa, st)
  BY <1>2 DEF WithoutFilename
<1>. QED BY <1>1, <1>3

(* A list of items, one in each list.                                       *)
LEMMA FlattenOnes ==
  ASSUME NEW S, NEW q \in Seq(S), NEW p, p = [i \in 1 .. Len(q) |-> <<q[i]>>]
  PROVE  FlattenSeq(p) = q
<1>. DEFINE n == Len(q)
<1>1. n \in Nat /\ \A i \in 1 .. n : q[i] \in S
  BY SeqIs
<1>2. p = [i \in 1 .. n |-> p[i]] /\ \A i \in 1 .. n : p[i] = <<q[i]>>
  <2>. HIDE DEF n
  <2>1. p = [i \in 1 .. n |-> <<q[i]>>]
    BY DEF n
  <2>. QED BY <2>1
<1>3. \A i \in 1 .. n : p[i] \in Seq(S)
  <2>. HIDE DEF n
  <2>. QED BY <1>1, <1>2
<1>. HIDE DEF n
<1>4. PICK g : Joins(g, p, n) /\ FlattenSeq(p) = g[n] /\ \A k \in 0 .. n : g[k] \in Seq(S)
  <2>. DEFINE f == p
  <2>1. f = [i \in 1 .. n |-> f[i]] /\ n \in Nat
    BY <1>1, <1>2
  <2>2. \A i \in 1 .. n : f[i] \in Seq(S)
    BY <1>3
  <2>. HIDE DEF f
  <2>3. \E g : Joins(g, f, n) /\ FlattenSeq(f) = g[n] /\ \A k \in 0 .. n : g[k] \in Seq(S)
    BY <2>1, <2>2, PrefixesExist
  <2>. QED BY <2>3 DEF f
<1>5. g[0] = <<>> /\ \A k \in 1 .. n : g[k] = g[k - 1] \o p[k]
  BY <1>4 DEF Joins
<1>. DEFINE Upto(k) == Len(g[k]) = k /\ \A i \in 1 .. k : g[k][i] = q[i]
            T == {k \in 0 .. n : Upto(k)}
<1>6. 0 \in T
  <2>1. Len(g[0]) = 0 /\ 1 .. 0 = {} /\ 0 \in 0 .. n
    BY <1>1, <1>5
  <2>. QED BY <2>1
<1>7. ASSUME NEW k \in 1 .. n, k - 1 \in T PROVE k \in T
  <2>. DEFINE h == g[k - 1]
              x == q[k]
  <2>1. k \in Nat /\ k >= 1 /\ k \in 0 .. n /\ k - 1 \in 0 .. n /\ (k - 1) + 1 = k
    BY <1>1
  <2>2. h \in Seq(S) /\ Len(h) = k - 1 /\ \A i \in 1 .. k - 1 : h[i] = q[i]
    BY <1>4, <1>7, <2>1
  <2>3. g[k] = h \o <<x>> /\ x \in S
    BY <1>1, <1>2, <1>5
  <2>. HIDE DEF h, x
  <2>4. h \o <<x>> = Append(h, x)
    BY <2>2, <2>3, AppendIsConcat
  <2>5. Len(Append(h, x)) = Len(h) + 1 /\ Append(h, x)[Len(h) + 1] = x /\ \A i \in 1 .. Len(h) : Append(h, x)[i] = h[i]
    BY <2>2, <2>3, AppendProperties
  <2>6. Len(g[k]) = k /\ g[k][k] = x /\ \A i \in 1 .. k - 1 : g[k][i] = h[i]
    BY <2>1, <2>2, <2>3, <2>4, <2>5
  <2>7. ASSUME NEW i \in 1 .. k PROVE g[k][i] = q[i]
    <3>1. CASE i = k
      BY <2>6, <3>1 DEF x
    <3>2. CASE i # k
      <4>1. i \in 1 .. k - 1
        BY <2>1, <3>2
      <4>. QED BY <2>2, <2>6, <4>1
    <3>. QED BY <3>1, <3>2
  <2>. QED BY <2>1, <2>6, <2>7
<1>8. n \in T
  <2>1. T \subseteq 0 .. n
    OBVIOUS
  <2>. HIDE DEF T
  <2>. QED BY <1>1, <1>6, <1>7, <2>1, UpTo
<1>9. g[n] \in Seq(S) /\ Len(g[n]) = n /\ \A i \in 1 .. n : g[n][i] = q[i]
  <2>1. n \in 0 .. n
    BY <1>1
  <2>. QED BY <1>4, <1>8, <2>1
<1>. DEFINE f == g[n]
<1>10. f \in Seq(S) /\ Len(f) = Len(q) /\ \A i \in 1 .. Len(q) : f[i] = q[i]
  BY <1>9 DEF n
<1>. HIDE DEF f
<1>11. f = q
  BY <1>10, SeqEqual
<1>. QED BY <1>4, <1>11 DEF f

LEMMA KeptAgain ==
  ASSUME NEW items, PartItems(items)
  PROVE  LET q == FlattenSeq(KeptItems(items)) IN FlattenSeq(KeptItems(q)) = q
<1>. DEFINE S == {item \in Range(items) : CanReadWsp(item)}
            l == Len(items)
            p == KeptItems(items)
            q == FlattenSeq(p)
<1>1. l \in Nat /\ p = [k \in 1 .. l |-> p[k]] /\ \A k \in 1 .. l : p[k] \in Seq(S)
  BY PartItemsAre
<1>2. \A item \in S : CanReadWsp(item)
  OBVIOUS
<1>. HIDE DEF S, l, p
<1>3. PICK h : Joins(h, p, l) /\ FlattenSeq(p) = h[l] /\ \A k \in 0 .. l : h[k] \in Seq(S)
  BY <1>1, PrefixesExist
<1>4. l \in 0 .. l
  BY <1>1
<1>5. q \in Seq(S)
  BY <1>3, <1>4
<1>. HIDE DEF q
<1>6. DOMAIN q = 1 .. Len(q) /\ \A i \in 1 .. Len(q) : q[i] \in S
  BY <1>5, SeqIs
<1>7. ASSUME NEW i \in 1 .. Len(q) PROVE Kept(q[i]) = <<q[i]>>
  <2>1. q[i].name # WspContentType
    BY <1>2, <1>6, WspItemTravels
  <2>. QED BY <2>1 DEF Kept
<1>8. KeptItems(q) = [i \in 1 .. Len(q) |-> <<q[i]>>]
  BY <1>6, <1>7 DEF KeptItems
<1>9. FlattenSeq(KeptItems(q)) = q
  BY <1>5, <1>8, FlattenOnes
<1>. QED BY <1>9 DEF q, p

LEMMA PartMeansAgain ==
  ASSUME NEW part, IsPart(part)
  PROVE  PartMeans(PartMeans(part)) = PartMeans(part)
<1>. DEFINE a == WithoutFilename(part.ct)
            b == FlattenSeq(KeptItems(part.items))
            d == part.data
            m == [ct |-> a, items |-> b, data |-> d]
<1>1. PartItems(part.items) /\ IsContentType(part.ct) /\ PartMeans(part) = m
  BY PartFieldsAre
<1>2. WithoutFilename(a) = a /\ FlattenSeq(KeptItems(b)) = b
  BY <1>1, WithoutFilenameAgain, KeptAgain
<1>. HIDE DEF a, b, d
<1>3. m.ct = a /\ m.items = b
  OBVIOUS
<1>4. PartMeans(m) = [m EXCEPT !.ct = WithoutFilename(m.ct), !.items = FlattenSeq(KeptItems(m.items))]
  BY DEF PartMeans, KeptItems
<1>5. PartMeans(m) = [m EXCEPT !.ct = a, !.items = b]
  <2>. HIDE DEF m
  <2>. QED BY <1>2, <1>3, <1>4
<1>6. [m EXCEPT !.ct = a, !.items = b] = m
  <2>1. [m EXCEPT !.ct = a] = m
    OBVIOUS
  <2>2. [m EXCEPT !.items = b] = m
    OBVIOUS
  <2>. HIDE DEF m
  <2>. QED BY <2>1, <2>2
<1>. HIDE DEF m
<1>. QED BY <1>1, <1>5, <1>6

LEMMA PartsMeanAgain ==
  ASSUME NEW parts, Parts(parts)
  PROVE  MeantParts(MeantParts(parts)) = MeantParts(parts)
<1>. DEFINE n == Len(parts)
            m == MeantParts(parts)
<1>1. n \in Nat /\ m = [i \in 1 .. n |-> m[i]] /\ \A i \in 1 .. n : IsPart(parts[i]) /\ m[i] = PartMeans(parts[i])
  BY PartsAre
<1>2. \A i \in 1 .. n : PartMeans(m[i]) = m[i]
  <2>. HIDE DEF n, m
  <2>. QED BY <1>1, PartMeansAgain
<1>. HIDE DEF n, m
<1>3. DOMAIN m = 1 .. n
  BY <1>1
<1>4. MeantParts(m) = [i \in 1 .. n |-> PartMeans(m[i])]
  BY <1>3 DEF MeantParts
<1>5. MeantParts(m) = m
  BY <1>1, <1>2, <1>4
<1>. QED BY <1>5 DEF m

-----------------------------------------------------------------------------

(* What each type of item means.                                            *)
LEMMA MeansPlain ==
  ASSUME NEW c, NEW v
  PROVE  /\ v.type = "string" => MeansAs(c, v) = v
         /\ v.type = "time" => MeansAs(c, v) = v
         /\ v.type = "long" /\ c # "http" => MeansAs(c, v) = v
         /\ v.type = "long" /\ c = "http" => MeansAs(c, v) = StringItem(v.name, Decimal(v.long))
         /\ v.type = "encoded" /\ v.charset # 0 => MeansAs(c, v) = v
         /\ v.type = "encoded" /\ v.charset = 0 => MeansAs(c, v) = StringItem(v.name, v.text)
<1>1. v.type = "string" => MeansAs(c, v) = v
  BY DEF MeansAs
<1>2. v.type = "time" => MeansAs(c, v) = v
  BY DEF MeansAs
<1>3. v.type = "long" /\ c # "http" => MeansAs(c, v) = v
  BY DEF MeansAs
<1>4. v.type = "long" /\ c = "http" => MeansAs(c, v) = StringItem(v.name, Decimal(v.long))
  BY DEF MeansAs
<1>5. v.type = "encoded" /\ v.charset # 0 => MeansAs(c, v) = v
  BY DEF MeansAs
<1>6. v.type = "encoded" /\ v.charset = 0 => MeansAs(c, v) = StringItem(v.name, v.text)
  BY DEF MeansAs
<1>. QED BY <1>1, <1>2, <1>3, <1>4, <1>5, <1>6

(* What came of an item means what the item did.                            *)
LEMMA ItemMeans ==
  ASSUME NEW c \in Codecs, NEW v, IsItem(c, v)
  PROVE  MeansAs(c, Came(c, v)) = MeansAs(c, v)
<1>1. CASE c = "mms"
  <2>1. CanReadMms(v) /\ Came("mms", v) = Again(v)
    BY <1>1, MmsItem DEF IsItem
  <2>2. v.type \in {"string", "encoded", "time", "long"}
    BY <2>1, MmsTypes
  <2>3. CASE v.type = "encoded" /\ v.charset = 0
    <3>1. Again(v) = StringItem(v.name, v.text)
      BY <2>3 DEF Again
    <3>2. MeansAs(c, v) = StringItem(v.name, v.text)
      BY <2>3, MeansPlain
    <3>3. MeansAs(c, StringItem(v.name, v.text)) = StringItem(v.name, v.text)
      BY StringTypes, MeansPlain
    <3>. QED BY <1>1, <2>1, <3>1, <3>2, <3>3
  <2>4. CASE ~ (v.type = "encoded" /\ v.charset = 0)
    <3>1. Again(v) = v
      BY <2>4 DEF Again
    <3>. QED BY <1>1, <2>1, <3>1
  <2>. QED BY <2>3, <2>4
<1>2. CASE c = "wsp"
  BY <1>2, WspItem
<1>3. CASE c = "http"
  <2>1. /\ v.type \in {"string", "long"} /\ (v.type = "string" => v = StringItem(v.name, v.text))
        /\ Came(c, v) = StringItem(v.name, HttpValue(v))
    BY <1>3, HttpItem
  <2>2. MeansAs(c, Came(c, v)) = StringItem(v.name, HttpValue(v))
    BY <2>1, StringTypes, MeansPlain
  <2>3. CASE v.type = "string"
    <3>1. HttpValue(v) = v.text /\ MeansAs(c, v) = v
      BY <2>3, MeansPlain DEF HttpValue
    <3>. QED BY <2>1, <2>2, <2>3, <3>1
  <2>4. CASE v.type = "long"
    <3>1. HttpValue(v) = Decimal(v.long) /\ MeansAs(c, v) = StringItem(v.name, Decimal(v.long))
      BY <1>3, <2>4, MeansPlain DEF HttpValue
    <3>. QED BY <2>2, <3>1
  <2>. QED BY <2>1, <2>3, <2>4
<1>. QED BY <1>1, <1>2, <1>3 DEF Codecs

LEMMA TypeItemMeans ==
  ASSUME NEW c, NEW v, IsTypeItem(v)
  PROVE  MeansAs(c, Came(c, v)) = MeansAs(c, v)
<1>. DEFINE ct == v.ct
            a == WithoutFilename(ct)
            u == DataItem(ContentType, a)
<1>1. v = DataItem(ContentType, ct) /\ IsContentType(ct)
  BY DEF IsTypeItem
<1>2. WithoutFilename(a) = a
  BY <1>1, WithoutFilenameAgain
<1>3. v.type = "data" /\ v.name = ContentType
  <2>. HIDE DEF ct
  <2>. QED BY <1>1, DataTypes
<1>4. Came(c, v) = u
  BY <1>3 DEF Came
<1>5. MeansAs(c, v) = u
  <2>1. MeansAs(c, v) = [v EXCEPT !.ct = a]
    BY <1>3 DEF MeansAs
  <2>. HIDE DEF ct, a
  <2>2. [DataItem(ContentType, ct) EXCEPT !.ct = a] = DataItem(ContentType, a)
    <3>. DEFINE x == ContentType
    <3>. HIDE DEF x
    <3>1. [DataItem(x, ct) EXCEPT !.ct = a] = DataItem(x, a)
      BY DEF DataItem
    <3>. QED BY <3>1 DEF x
  <2>3. [v EXCEPT !.ct = a] = [DataItem(ContentType, ct) EXCEPT !.ct = a]
    BY <1>1
  <2>. QED BY <2>1, <2>2, <2>3
<1>6. MeansAs(c, u) = u
  <2>. HIDE DEF a
  <2>1. u.type = "data" /\ u.ct = a
    BY DataTypes
  <2>2. MeansAs(c, u) = [u EXCEPT !.ct = WithoutFilename(u.ct)]
    <3>. HIDE DEF u
    <3>. QED BY <2>1 DEF MeansAs
  <2>3. [u EXCEPT !.ct = a] = u
    <3>. DEFINE x == ContentType
    <3>1. u = DataItem(x, a)
      OBVIOUS
    <3>. HIDE DEF x, u
    <3>. QED BY <3>1 DEF DataItem
  <2>. HIDE DEF u
  <2>. QED BY <1>2, <2>1, <2>2, <2>3
<1>. QED BY <1>4, <1>5, <1>6

LEMMA BodyMeans ==
  ASSUME NEW c, NEW v, IsBody(v)
  PROVE  MeansAs(c, Came(c, v)) = MeansAs(c, v)
<1>. DEFINE parts == v.parts
            m == MeantParts(parts)
<1>1. v = Body(parts) /\ Parts(parts)
  BY DEF IsBody
<1>2. MeantParts(m) = m
  BY <1>1, PartsMeanAgain
<1>3. \A list : Body(list).type = "body" /\ Body(list).parts = list
  BY DEF Body
<1>4. v.type = "body"
  <2>. HIDE DEF parts
  <2>. QED BY <1>1, <1>3
<1>5. Came(c, v) = Body(m) /\ MeansAs(c, v) = Body(m)
  BY <1>4 DEF Came, MeansAs
<1>. HIDE DEF m
<1>. DEFINE u == Body(m)
<1>6. u.type = "body" /\ u.parts = m
  BY <1>3
<1>7. MeansAs(c, u) = Body(MeantParts(u.parts))
  <2>. HIDE DEF u
  <2>. QED BY <1>6 DEF MeansAs
<1>. QED BY <1>2, <1>5, <1>6, <1>7

(* And so of everything that is sent.                                       *)
LEMMA SentMeans ==
  ASSUME NEW c \in Codecs, NEW whole \in BOOLEAN, NEW s, Len(s) \in Nat, SentWell(c, whole, s),
         NEW i \in 1 .. Len(s)
  PROVE  MeansAs(c, Came(c, s[i])) = MeansAs(c, s[i])
<1>1. CASE whole /\ i = Len(s)
  <2>1. IsBody(s[i])
    BY <1>1 DEF SentWell
  <2>. QED BY <2>1, BodyMeans
<1>2. CASE whole /\ i = Len(s) - 1
  <2>1. IsTypeItem(s[i])
    BY <1>2 DEF SentWell
  <2>. QED BY <2>1, TypeItemMeans
<1>3. CASE ~ (whole /\ (i = Len(s) \/ i = Len(s) - 1))
  <2>1. i \in 1 .. (IF whole THEN Len(s) - 2 ELSE Len(s))
    BY <1>3
  <2>2. IsItem(c, s[i])
    BY <2>1 DEF SentWell
  <2>. QED BY <2>2, ItemMeans
<1>. QED BY <1>1, <1>2, <1>3

-----------------------------------------------------------------------------
AllMeans(c, s) == [i \in DOMAIN s |-> MeansAs(c, s[i])]

(* The meanings of a sequence, one by one.                                  *)
LEMMA AllMeansIs ==
  ASSUME NEW c, NEW T, NEW s \in Seq(T)
  PROVE  LET m == AllMeans(c, s) IN
         /\ m \in Seq({MeansAs(c, y) : y \in T}) /\ Len(m) = Len(s)
         /\ \A i \in 1 .. Len(s) : m[i] = MeansAs(c, s[i])
<1>. DEFINE n == Len(s)
            m == AllMeans(c, s)
            S == {MeansAs(c, y) : y \in T}
<1>1. n \in Nat /\ DOMAIN s = 1 .. n /\ \A i \in 1 .. n : s[i] \in T
  BY SeqIs
<1>2. m = [i \in 1 .. n |-> MeansAs(c, s[i])]
  BY <1>1 DEF AllMeans
<1>3. \A i \in 1 .. n : MeansAs(c, s[i]) \in S
  BY <1>1
<1>. HIDE DEF m, S, n
<1>4. m \in Seq(S) /\ Len(m) = n /\ \A i \in 1 .. n : m[i] = MeansAs(c, s[i])
  BY <1>1, <1>2, <1>3
<1>. QED BY <1>4 DEF m, S, n

(* What has been sent stays in front.                                       *)
LEMMA MeansStay ==
  ASSUME NEW c, NEW T, NEW s \in Seq(T), NEW t \in Seq(T), Len(t) >= Len(s),
         \A i \in 1 .. Len(s) : t[i] = s[i]
  PROVE  LET a == AllMeans(c, s)
             b == AllMeans(c, t)
         IN  Len(b) >= Len(a) /\ SubSeq(b, 1, Len(a)) = a
<1>. DEFINE a == AllMeans(c, s)
            b == AllMeans(c, t)
            S == {MeansAs(c, y) : y \in T}
            n == Len(s)
            k == Len(t)
<1>1. a \in Seq(S) /\ Len(a) = n /\ \A i \in 1 .. n : a[i] = MeansAs(c, s[i])
  BY AllMeansIs
<1>2. b \in Seq(S) /\ Len(b) = k /\ \A i \in 1 .. k : b[i] = MeansAs(c, t[i])
  BY AllMeansIs
<1>3. n \in Nat /\ k \in Nat /\ k >= n
  BY SeqIs
<1>4. \A i \in 1 .. n : t[i] = s[i]
  OBVIOUS
<1>. HIDE DEF a, b, S, n, k
<1>5. \A i \in 1 .. n : i \in 1 .. k /\ b[i] = a[i]
  BY <1>1, <1>2, <1>3, <1>4
<1>. DEFINE f == SubSeq(b, 1, n)
<1>6. f \in Seq(S) /\ Len(f) = n /\ \A i \in 1 .. n : f[i] = b[i]
  <2>1. f = [i \in 1 .. n |-> b[i]]
    BY <1>2, <1>3
  <2>2. \A i \in 1 .. n : b[i] \in S
    BY <1>2, <1>5, SeqIs
  <2>. HIDE DEF f
  <2>. QED BY <1>3, <2>1, <2>2
<1>. HIDE DEF f
<1>7. f = a
  BY <1>1, <1>5, <1>6, SeqEqual
<1>8. Len(b) >= Len(a) /\ SubSeq(b, 1, Len(a)) = a
  BY <1>1, <1>2, <1>3, <1>7 DEF f
<1>. QED BY <1>8 DEF a, b

LEMMA MeansMore ==
  ASSUME NEW c, NEW T, NEW s \in Seq(T), NEW x \in T
  PROVE  AllMeans(c, Append(s, x)) = Append(AllMeans(c, s), MeansAs(c, x))
<1>. DEFINE S == {MeansAs(c, y) : y \in T}
            t == Append(s, x)
            a == AllMeans(c, s)
            b == AllMeans(c, t)
            v == MeansAs(c, x)
            d == Append(a, v)
            n == Len(s)
<1>1. t \in Seq(T) /\ Len(t) = n + 1 /\ t[n + 1] = x /\ \A i \in 1 .. n : t[i] = s[i]
  BY AppendProperties
<1>2. a \in Seq(S) /\ Len(a) = n /\ \A i \in 1 .. n : a[i] = MeansAs(c, s[i])
  BY AllMeansIs
<1>3. b \in Seq(S) /\ Len(b) = Len(t) /\ \A i \in 1 .. Len(t) : b[i] = MeansAs(c, t[i])
  <2>. HIDE DEF t
  <2>. QED BY <1>1, AllMeansIs
<1>4. v \in S /\ n \in Nat
  BY SeqIs
<1>. HIDE DEF S, t, a, b, n
<1>5. v = MeansAs(c, x)
  OBVIOUS
<1>. HIDE DEF v
<1>6. d \in Seq(S) /\ Len(d) = n + 1 /\ d[n + 1] = v /\ \A i \in 1 .. n : d[i] = a[i]
  <2>1. a \in Seq(S) /\ v \in S
    BY <1>2, <1>4
  <2>2. d \in Seq(S) /\ Len(d) = Len(a) + 1 /\ d[Len(a) + 1] = v /\ \A i \in 1 .. Len(a) : d[i] = a[i]
    BY <2>1, AppendProperties
  <2>. QED BY <1>2, <2>2
<1>. HIDE DEF d
<1>7. ASSUME NEW i \in 1 .. n + 1 PROVE d[i] = b[i]
  <2>1. b[i] = MeansAs(c, t[i])
    BY <1>1, <1>3
  <2>2. CASE i = n + 1
    BY <1>1, <1>5, <1>6, <2>1, <2>2
  <2>3. CASE i # n + 1
    <3>1. i \in 1 .. n
      BY <1>4, <2>3
    <3>. QED BY <1>1, <1>2, <1>6, <2>1, <3>1
  <2>. QED BY <2>2, <2>3
<1>8. Len(b) = Len(d) /\ \A i \in 1 .. Len(d) : d[i] = b[i]
  BY <1>1, <1>3, <1>6, <1>7
<1>9. d = b
  BY <1>3, <1>6, <1>8, SeqEqual
<1>. QED BY <1>9 DEF b, d, v, a, t

LEMMA NothingMeans == \A c : AllMeans(c, <<>>) = <<>>
<1>1. DOMAIN <<>> = {}
  OBVIOUS
<1>2. \A c : AllMeans(c, <<>>) = [i \in {} |-> MeansAs(c, <<>>[i])]
  BY <1>1 DEF AllMeans
<1>. QED BY <1>2

-----------------------------------------------------------------------------
(* More is sent, behind what was.                                           *)
LEMMA PackItemSends ==
  ASSUME CanRead(Items), CanReadMessages(Messages), CodecAssumption,
         CodecInv, NEW item \in Items[codec], PackItem(item)
  PROVE  /\ sent \in Seq(Sendable) /\ sent' \in Seq(Sendable) /\ Len(sent') >= Len(sent)
         /\ \A i \in 1 .. Len(sent) : sent'[i] = sent[i]
         /\ codec' = codec /\ received' = received
<1>1. codec \in Codecs /\ sent \in Seq(Sendable) /\ codec \in DOMAIN Items
  BY InvIs
<1>2. item \in Sendable /\ IsItem(codec, item)
  BY <1>1, SendableAre
<1>3. Packs(item)
  BY <1>1, <1>2, PackIs
<1>4. sent' = Append(sent, item) /\ codec' = codec /\ received' = received
  BY <1>3 DEF PackItem
<1>5. /\ Append(sent, item) \in Seq(Sendable) /\ Len(Append(sent, item)) = Len(sent) + 1
      /\ \A i \in 1 .. Len(sent) : Append(sent, item)[i] = sent[i]
  BY <1>1, <1>2, AppendProperties
<1>6. Len(sent) \in Nat
  BY <1>1, SeqIs
<1>. QED BY <1>1, <1>4, <1>5, <1>6

(* A whole message adds its items, its content type and its body.           *)
LEMMA PackMessageSends ==
  ASSUME CanRead(Items), CanReadMessages(Messages), CodecAssumption,
         CodecInv, NEW m \in Messages, PackMessage(m.ct, m.parts)
  PROVE  /\ sent \in Seq(Sendable) /\ sent' \in Seq(Sendable) /\ Len(sent') >= Len(sent)
         /\ \A i \in 1 .. Len(sent) : sent'[i] = sent[i]
         /\ codec' = codec /\ received' = received
<1>. DEFINE v == DataItem(ContentType, m.ct)
            u == Body(m.parts)
            p == <<v, u>>
<1>1. sent \in Seq(Sendable) /\ codec \in DOMAIN Items
  BY InvIs
<1>2. v \in Sendable /\ u \in Sendable
  BY <1>1, SendableAre
<1>3. sent' = sent \o p /\ codec' = codec /\ received' = received
  BY DEF PackMessage
<1>. HIDE DEF v, u
<1>4. p \in Seq(Sendable) /\ Len(p) = 2
  BY <1>2
<1>. HIDE DEF p
<1>5. /\ sent \o p \in Seq(Sendable) /\ Len(sent \o p) = Len(sent) + 2
      /\ \A i \in 1 .. Len(sent) + 2 : (sent \o p)[i] = IF i <= Len(sent) THEN sent[i] ELSE p[i - Len(sent)]
  <2>1. /\ sent \o p \in Seq(Sendable) /\ Len(sent \o p) = Len(sent) + Len(p)
        /\ \A i \in 1 .. Len(sent) + Len(p) : (sent \o p)[i] = IF i <= Len(sent) THEN sent[i] ELSE p[i - Len(sent)]
    BY <1>1, <1>4, ConcatProperties
  <2>. QED BY <1>4, <2>1
<1>6. Len(sent) \in Nat
  BY <1>1, SeqIs
<1>7. ASSUME NEW i \in 1 .. Len(sent) PROVE (sent \o p)[i] = sent[i]
  <2>1. i \in 1 .. Len(sent) + 2 /\ i <= Len(sent)
    BY <1>6
  <2>. QED BY <1>5, <2>1
<1>. QED BY <1>1, <1>3, <1>5, <1>6, <1>7

(* A step of the programs sends, receives or does neither.                  *)
Extends ==
  /\ sent \in Seq(Sendable) /\ sent' \in Seq(Sendable) /\ Len(sent') >= Len(sent)
  /\ \A i \in 1 .. Len(sent) : sent'[i] = sent[i]
  /\ codec' = codec /\ received' = received

Takes ==
  /\ Len(received) < Len(sent) /\ codec' = codec /\ sent' = sent
  /\ received' = Append(received, Came(codec, sent[Len(received) + 1]))

LEMMA CodecStep ==
  ASSUME CanRead(Items), CanReadMessages(Messages), CodecAssumption, CodecInv, [CodecNext]_codecVars
  PROVE  /\ CodecInv'
         /\ Extends \/ Takes \/ UNCHANGED <<codec, sent, received>>
<1>1. ASSUME NEW item \in Items[codec], PackItem(item) PROVE CodecInv' /\ Extends
  BY <1>1, PackItemKeeps, PackItemSends DEF Extends
<1>2. ASSUME NEW m \in Messages, PackMessage(m.ct, m.parts) PROVE CodecInv' /\ Extends
  BY <1>2, PackMessageKeeps, PackMessageSends DEF Extends
<1>3. CASE Close
  BY <1>3, CloseKeeps DEF Close
<1>4. CASE UnpackItem
  BY <1>4, UnpackItemKeeps DEF UnpackItem, Takes
<1>5. CASE EndItems
  BY <1>5, EndItemsKeeps DEF EndItems
<1>6. CASE UnpackMessage
  BY <1>6, UnpackMessageKeeps DEF UnpackMessage, Takes
<1>7. CASE UNCHANGED codecVars
  <2>1. UNCHANGED <<codec, stage, wire, at, sent, ends, received>>
    BY <1>7 DEF codecVars
  <2>2. Whole' = Whole
    BY <2>1 DEF Whole
  <2>. QED BY <2>1, <2>2 DEF CodecInv
<1>. QED BY <1>1, <1>2, <1>3, <1>4, <1>5, <1>6, <1>7 DEF CodecNext

(* Whatever is packed and unpacked by a codec, all that was sent is laid    *)
(* out end to end in the bytes, the offsets noted are the ends of the       *)
(* pieces, and what has been received is the first of what was sent, as it  *)
(* comes, up to where the unpacker stands. It supposes that the items and   *)
(* messages can be read again (CanRead).                                    *)
THEOREM CodecInvariant ==
  ASSUME CanRead(Items), CanReadMessages(Messages)
  PROVE  CodecSpec => []CodecInv
<1>1. CodecInit => CodecInv
  BY CodecInvInit
<1>2. CodecInv /\ [CodecNext]_codecVars => CodecInv'
  BY CodecStep, CodecAssumption
<1>. QED BY <1>1, <1>2, PTL DEF CodecSpec

(* What InStep says follows from where the unpacker stands.                 *)
LEMMA InStepIs ==
  ASSUME CodecAssumption, CodecInv
  PROVE  InStep
<1>1. /\ Len(sent) \in Nat /\ Len(received) \in Nat /\ StartOf(ends, Len(sent) + 1) = Len(wire)
      /\ at = StartOf(ends, Len(received) + 1) /\ ReceivedWell(codec, sent, received)
  BY InvIs
<1>2. received # <<>> => at = ends[Len(received)]
  <2>1. received # <<>> => Len(received) # 0
    BY <1>1, ReceivedIs
  <2>2. received # <<>> => Len(received) + 1 # 1 /\ (Len(received) + 1) - 1 = Len(received)
    BY <1>1, <2>1
  <2>. QED BY <1>1, <2>2 DEF StartOf
<1>3. stage = "read" => Len(received) = Len(sent)
  BY DEF CodecInv
<1>4. stage # "aborted"
  BY DEF CodecInv
<1>. QED BY <1>1, <1>2, <1>3, <1>4 DEF InStep

(* InStep: at each point between two items the unpacker of a codec stands   *)
(* at an end the packer noted: it reads as many bytes of an item as the     *)
(* packer wrote, whatever the item, and neither aborts nor stops early      *)
(* (mms_header_codec.c, mms_content_type.c, mms_body.c).                    *)
THEOREM CodecsKeepInStep ==
  ASSUME CanRead(Items), CanReadMessages(Messages)
  PROVE  CodecSpec => []InStep
<1>1. CodecInv => InStep
  BY InStepIs, CodecAssumption
<1>. QED BY <1>1, CodecInvariant, PTL

(* The mapping to the channel, now and after a step.                        *)
LEMMA CodecMapping ==
  /\ [i \in DOMAIN sent |-> Means(sent[i])] = AllMeans(codec, sent)
  /\ [i \in DOMAIN received |-> Means(received[i])] = AllMeans(codec, received)
BY MeansOf, Zenon DEF AllMeans

LEMMA CodecMappingNext ==
  /\ [i \in DOMAIN sent |-> Means(sent[i])]' = AllMeans(codec, sent)'
  /\ [i \in DOMAIN received |-> Means(received[i])]' = AllMeans(codec, received)'
<1>1. ASSUME NEW v PROVE Means(v)' = MeansAs(codec', v)
  BY Zenon DEF Means, MeansAs, MeantParts
<1>2. [i \in DOMAIN sent' |-> Means(sent[i])'] = [i \in DOMAIN sent' |-> MeansAs(codec', sent'[i])]
  BY Zenon DEF Means, MeansAs, MeantParts
<1>3. [i \in DOMAIN received' |-> Means(received[i])'] = [i \in DOMAIN received' |-> MeansAs(codec', received'[i])]
  BY Zenon DEF Means, MeansAs, MeantParts
<1>. QED BY <1>2, <1>3, Zenon DEF AllMeans

(* Receiving takes the first meaning that was not received yet.             *)
LEMMA TakesMeans ==
  ASSUME CodecAssumption, CodecInv, Takes
  PROVE  LET a == AllMeans(codec, sent)
             r == AllMeans(codec, received)
         IN  /\ Len(r) < Len(a) /\ AllMeans(codec', sent') = a
             /\ AllMeans(codec', received') = Append(r, a[Len(r) + 1])
<1>. DEFINE n == Len(received)
            v == Came(codec, sent[n + 1])
            S == AllCame(codec, sent)
<1>1. /\ codec \in Codecs /\ Whole \in BOOLEAN /\ sent \in Seq(Sendable)
      /\ SentWell(codec, Whole, sent) /\ ReceivedWell(codec, sent, received)
      /\ Len(sent) \in Nat /\ n \in Nat
  BY InvIs
<1>2. n < Len(sent) /\ codec' = codec /\ sent' = sent /\ received' = Append(received, v)
  BY DEF Takes
<1>3. received \in Seq(S)
  BY <1>1, ReceivedIs
<1>4. n + 1 \in 1 .. Len(sent)
  <2>. HIDE DEF n
  <2>. QED BY <1>1, <1>2
<1>5. v \in S
  BY <1>4 DEF AllCame
<1>6. MeansAs(codec, v) = MeansAs(codec, sent[n + 1])
  <2>. DEFINE i == n + 1
  <2>1. i \in 1 .. Len(sent)
    BY <1>4
  <2>. HIDE DEF i
  <2>2. MeansAs(codec, Came(codec, sent[i])) = MeansAs(codec, sent[i])
    BY <1>1, <2>1, SentMeans
  <2>. QED BY <2>2 DEF i
<1>. HIDE DEF S, v
<1>7. AllMeans(codec, received') = Append(AllMeans(codec, received), MeansAs(codec, v))
  BY <1>2, <1>3, <1>5, MeansMore
<1>8. Len(AllMeans(codec, received)) = n
  BY <1>3, AllMeansIs
<1>9. Len(AllMeans(codec, sent)) = Len(sent) /\ AllMeans(codec, sent)[n + 1] = MeansAs(codec, sent[n + 1])
  BY <1>1, <1>4, AllMeansIs
<1>. QED BY <1>2, <1>6, <1>7, <1>8, <1>9

(* The codecs implement ItemChannel: what a message means is received as it *)
(* was sent, in order, none lost or made up (mms_header_pack and            *)
(* mms_header_unpack with each codec, mms_body_pack and mms_body_unpack).   *)
THEOREM CodecsImplementChannel ==
  ASSUME CanRead(Items), CanReadMessages(Messages)
  PROVE  CodecSpec => ImplementsChannel
<1>. DEFINE a == AllMeans(codec, sent)
            r == AllMeans(codec, received)
<1>1. /\ [i \in DOMAIN sent |-> Means(sent[i])] = a
      /\ [i \in DOMAIN received |-> Means(received[i])] = r
  BY CodecMapping
<1>2. CodecInit => Channel!Init
  <2>1. CodecInit => a = <<>> /\ r = <<>>
    BY NothingMeans DEF CodecInit
  <2>. HIDE DEF a, r
  <2>. QED BY <1>1, <2>1 DEF Channel!Init
<1>3. CodecInv /\ [CodecNext]_codecVars => CodecInv' /\ [Channel!Send \/ Channel!Receive]_Channel!vars
  <2>. SUFFICES ASSUME CodecInv, [CodecNext]_codecVars
                PROVE  CodecInv' /\ [Channel!Send \/ Channel!Receive]_Channel!vars
    OBVIOUS
  <2>1. CodecInv' /\ (Extends \/ Takes \/ UNCHANGED <<codec, sent, received>>)
    BY CodecStep, CodecAssumption
  <2>2. /\ [i \in DOMAIN sent |-> Means(sent[i])]' = a'
        /\ [i \in DOMAIN received |-> Means(received[i])]' = r'
    BY CodecMappingNext
  <2>3. ASSUME Extends PROVE Channel!Send
    <3>1. Len(AllMeans(codec, sent')) >= Len(a) /\ SubSeq(AllMeans(codec, sent'), 1, Len(a)) = a
      BY <2>3, MeansStay DEF Extends
    <3>2. a' = AllMeans(codec, sent') /\ r' = r
      BY <2>3 DEF Extends
    <3>. HIDE DEF a, r
    <3>. QED BY <1>1, <2>2, <3>1, <3>2 DEF Channel!Send
  <2>4. ASSUME Takes PROVE Channel!Receive
    <3>1. Len(r) < Len(a) /\ a' = a /\ r' = Append(r, a[Len(r) + 1])
      BY <2>4, TakesMeans, CodecAssumption
    <3>. HIDE DEF a, r
    <3>. QED BY <1>1, <2>2, <3>1 DEF Channel!Receive
  <2>5. ASSUME UNCHANGED <<codec, sent, received>> PROVE UNCHANGED Channel!vars
    <3>1. a' = a /\ r' = r
      BY <2>5
    <3>. HIDE DEF a, r
    <3>. QED BY <1>1, <2>2, <3>1 DEF Channel!vars
  <2>. QED BY <2>1, <2>3, <2>4, <2>5
<1>4. CodecInit => CodecInv
  BY CodecInvInit
<1>. QED BY <1>2, <1>3, <1>4, PTL DEF CodecSpec, ImplementsChannel, Channel!Spec

-----------------------------------------------------------------------------
(* Value lengths: q is what is left of p from an offset on.                 *)
Rest(p, from, q) == Ahead(p, from, q, Len(p)) /\ Len(p) = from + Len(q)

(* Behind its first byte, the value of an item.                             *)
LEMMA HeadRest ==
  ASSUME NEW id \in Nat, id <= 127, NEW q \in Seq(Octets)
  PROVE  Rest(<<128 + id>> \o q, 1, q)
<1>. DEFINE p == <<128 + id>> \o q
<1>1. p \in Seq(Octets) /\ Len(p) \in Nat
  BY HeadIs
<1>2. <<>> \in Seq(Octets) /\ Len(<<>>) = 0
  OBVIOUS
<1>3. Ahead(<<>> \o p, 0, p, Len(<<>> \o p))
  <2>. HIDE DEF p
  <2>. QED BY <1>1, <1>2, AheadNew
<1>4. <<>> \o p = p
  <2>. HIDE DEF p
  <2>. QED BY <1>1, ConcatEmptySeq
<1>5. Ahead(p, 0, p, Len(p))
  BY <1>3, <1>4
<1>6. Ahead(p, 0, <<128 + id>> \o q, Len(p))
  BY <1>5
<1>. DEFINE e == Len(p)
<1>7. Ahead(p, 0 + 1, q, e) /\ 0 + Len(<<128 + id>> \o q) = (0 + 1) + Len(q)
  <2>1. Ahead(p, 0, <<128 + id>> \o q, e)
    BY <1>6
  <2>. DEFINE w == p
  <2>2. Ahead(w, 0, <<128 + id>> \o q, e)
    BY <2>1
  <2>. HIDE DEF w, e
  <2>3. Ahead(w, 0 + 1, q, e) /\ 0 + Len(<<128 + id>> \o q) = (0 + 1) + Len(q)
    BY <2>2, HeadRead
  <2>. QED BY <2>3 DEF w
<1>8. Len(p) = 1 + Len(q)
  <2>1. 0 + Len(p) = (0 + 1) + Len(q)
    BY <1>7
  <2>. HIDE DEF p
  <2>. QED BY <1>1, <2>1
<1>9. Ahead(p, 1, q, Len(p))
  <2>1. 0 + 1 = 1
    OBVIOUS
  <2>. QED BY <1>7, <2>1
<1>. QED BY <1>8, <1>9 DEF Rest

(* A value length counts to the end of what it was put before.              *)
LEMMA CountedFills ==
  ASSUME NEW p, NEW from, NEW b \in Octets, NEW q \in Seq(Octets), Len(q) + 1 \in Lengths,
         Rest(p, from, Counted(b, q))
  PROVE  Fills(p, from) /\ Rest(p, GetValueLength(p, from, Len(p)).at + 1, q)
<1>. DEFINE e == Len(p)
            g == GetValueLength(p, from, e)
            l == Len(Counted(b, q))
<1>1. Ahead(p, from, Counted(b, q), e) /\ e = from + l
  BY DEF Rest
<1>2. g.at + g.value = from + l /\ Ahead(p, g.at + 1, q, e) /\ g.at + 1 + Len(q) = from + l
  <2>. DEFINE w == p
  <2>1. Ahead(w, from, Counted(b, q), e)
    BY <1>1
  <2>. HIDE DEF w, e
  <2>2. LET h == GetValueLength(w, from, e)
        IN  /\ h.at + h.value = from + Len(Counted(b, q))
            /\ Ahead(w, h.at + 1, q, e)
            /\ h.at + 1 + Len(q) = from + Len(Counted(b, q))
    BY <2>1, CountedRead
  <2>. QED BY <2>2 DEF w
<1>3. Fills(p, from)
  BY <1>1, <1>2 DEF Fills
<1>4. Rest(p, g.at + 1, q)
  BY <1>1, <1>2 DEF Rest
<1>. QED BY <1>3, <1>4

LEMMA TextFills ==
  ASSUME NEW p, NEW from, NEW t, NEW c, IsText(t), IsCharset(c), c = 0 => Begins(t, 32 .. 255),
         Rest(p, from, PutEncodedString(t, c))
  PROVE  /\ IsValueLength(p, from, Len(p)) <=> c # 0
         /\ c # 0 => Fills(p, from)
<1>. DEFINE e == Len(p)
            g == GetValueLength(p, from, e)
            v == Charsetted(t, c)
            n == Len(v)
            l == PutValueLength(n)
<1>1. Ahead(p, from, PutEncodedString(t, c), e) /\ e = from + Len(PutEncodedString(t, c)) /\ from \in Nat
  BY DEF Rest, Ahead
<1>2. (IsValueLength(p, from, e) <=> c # 0) /\ (c # 0 => g = Read(n, from + Len(l)))
  <2>. DEFINE w == p
  <2>1. Ahead(w, from, PutEncodedString(t, c), e)
    BY <1>1
  <2>. HIDE DEF w, e
  <2>2. /\ IsValueLength(w, from, e) <=> c # 0
        /\ c # 0 => GetValueLength(w, from, e)
              = Read(Len(Charsetted(t, c)), from + Len(PutValueLength(Len(Charsetted(t, c)))))
    <3>. DEFINE S == 32 .. 255
    <3>1. IsText(t) /\ IsCharset(c) /\ (c = 0 => Begins(t, S))
      OBVIOUS
    <3>2. LengthAhead(w, from, e, t, c)
      BY <2>1, <3>1, EncodedStringRead
    <3>. QED BY <3>2 DEF LengthAhead
  <2>. QED BY <2>2 DEF w
<1>3. ASSUME c # 0 PROVE Fills(p, from)
  <2>1. g.value = n /\ g.at = from + Len(l)
    <3>. HIDE DEF g, n, l
    <3>. QED BY <1>2, <1>3, ReadIs
  <2>2. PutEncodedString(t, c) = l \o v
    BY <1>3, EncodedStringIs
  <2>3. v \in Seq(Octets) /\ n \in Lengths
    BY CharsettedIs
  <2>4. l \in Seq(Octets)
    <3>. HIDE DEF n
    <3>. QED BY <2>3, ValueLengthIs
  <2>5. (from + Len(l)) + Len(v) = from + Len(l \o v)
    <3>. HIDE DEF l, v
    <3>. QED BY <1>1, <2>3, <2>4, BehindBoth
  <2>. HIDE DEF g, e, l, v
  <2>6. g.at + g.value = e
    BY <1>1, <2>1, <2>2, <2>5
  <2>. QED BY <2>6 DEF Fills, g, e
<1>. QED BY <1>2, <1>3

LEMMA TypeFills ==
  ASSUME NEW p, NEW from, NEW ct, IsContentType(ct), Rest(p, from, PackContentType(ct)),
         IsValueLength(p, from, Len(p))
  PROVE  Fills(p, from)
<1>. DEFINE e == Len(p)
            g == GetValueLength(p, from, e)
            v == Value(ct)
            n == Len(v)
            l == PutValueLength(n)
<1>1. Ahead(p, from, PackContentType(ct), e) /\ e = from + Len(PackContentType(ct)) /\ from \in Nat
      /\ IsValueLength(p, from, e)
  BY DEF Rest, Ahead
<1>2. HasParams(ct) /\ g = Read(n, from + Len(l))
  <2>. DEFINE w == p
  <2>1. Ahead(w, from, PackContentType(ct), e) /\ IsValueLength(w, from, e)
    BY <1>1
  <2>. HIDE DEF w, e
  <2>2. HasParams(ct) /\ GetValueLength(w, from, e) = Read(Len(Value(ct)), from + Len(PutValueLength(Len(Value(ct)))))
    BY <2>1, ContentTypeRead
  <2>. QED BY <2>2 DEF w
<1>3. g.value = n /\ g.at = from + Len(l)
  <2>. HIDE DEF g, n, l
  <2>. QED BY <1>2, ReadIs
<1>4. PackContentType(ct) = l \o v /\ v \in Seq(Octets) /\ n \in Lengths
  BY <1>2, ContentTypeIs
<1>5. l \in Seq(Octets)
  <2>. HIDE DEF n
  <2>. QED BY <1>4, ValueLengthIs
<1>6. (from + Len(l)) + Len(v) = from + Len(l \o v)
  <2>. HIDE DEF l, v
  <2>. QED BY <1>1, <1>4, <1>5, BehindBoth
<1>. HIDE DEF g, e, l, v
<1>7. g.at + g.value = e
  BY <1>1, <1>3, <1>4, <1>6
<1>. QED BY <1>7 DEF Fills, g, e

-----------------------------------------------------------------------------
(* The lengths in the bytes p of an item.                                   *)
LengthsIn(id, v, p) ==
  /\ (id \in Times \union {FromId} \/ (id \in Encodeds \union {ContentTypeId} /\ IsValueLength(p, 1, Len(p))))
       => Fills(p, 1)
  /\ (id = FromId /\ v.type = "encoded" /\ v.charset # 0)
       => Fills(p, GetValueLength(p, 1, Len(p)).at + 1)

(* Items of other numbers hold no value length.                             *)
LEMMA NoLengths ==
  ASSUME NEW id, id \notin Times \union Encodeds \union {FromId, ContentTypeId}
  PROVE  \A v, p : LengthsIn(id, v, p)
BY DEF LengthsIn

LEMMA IdsApart ==
  /\ \A id \in Times : id # FromId /\ id \notin Encodeds /\ id # ContentTypeId
  /\ \A id \in Encodeds : id # FromId /\ id \notin Times /\ id # ContentTypeId
  /\ FromId # ContentTypeId /\ FromId \notin Times \union Encodeds
  /\ ContentTypeId \notin Times \union Encodeds
  /\ \A id : id \in Longs \union Chars \union Strings \union Statuses \union {ClassId, VersionId}
       => id \notin Times \union Encodeds \union {FromId, ContentTypeId}
BY DEF Times, Encodeds, FromId, ContentTypeId, Longs, Chars, Strings, Statuses, ClassId, VersionId

LEMMA AddressFills ==
  ASSUME NEW id, id \in Encodeds, NEW v, NEW p, NEW t, NEW c, IsText(t), IsCharset(c),
         c = 0 => Begins(t, 32 .. 255), Rest(p, 1, PutEncodedString(t, c))
  PROVE  LengthsIn(id, v, p)
<1>1. IsValueLength(p, 1, Len(p)) => Fills(p, 1)
  BY TextFills
<1>2. id # FromId /\ id \notin Times
  BY IdsApart
<1>. QED BY <1>1, <1>2 DEF LengthsIn

LEMMA FromFills ==
  ASSUME NEW v, NEW p, NEW t, NEW c, IsText(t), IsCharset(c),
         c = 0 => Begins(t, 32 .. 255), v.type = "encoded" => c = v.charset,
         Rest(p, 1, Counted(AddressPresent, PutEncodedString(t, c)))
  PROVE  LengthsIn(FromId, v, p)
<1>. DEFINE q == PutEncodedString(t, c)
            x == GetValueLength(p, 1, Len(p)).at + 1
<1>1. q \in Seq(Octets) /\ Len(q) + 1 \in Lengths
  BY EncodedValueIs
<1>2. AddressPresent \in Octets
  <2>1. AddressPresent \in Nat /\ AddressPresent <= 255
    BY DEF AddressPresent
  <2>. QED BY <2>1, OctetIs
<1>3. Rest(p, 1, Counted(AddressPresent, q))
  OBVIOUS
<1>4. Fills(p, 1) /\ Rest(p, x, q)
  <2>. DEFINE b == AddressPresent
  <2>1. b \in Octets /\ Rest(p, 1, Counted(b, q))
    BY <1>2, <1>3
  <2>. HIDE DEF q, b
  <2>. QED BY <1>1, <2>1, CountedFills
<1>5. c # 0 => Fills(p, x)
  <2>. HIDE DEF x
  <2>. QED BY <1>4, TextFills
<1>6. FromId \notin Encodeds \union {ContentTypeId}
  BY IdsApart
<1>. QED BY <1>4, <1>5, <1>6 DEF LengthsIn

LEMMA CountedLengths ==
  ASSUME NEW id, id \in Times \union {FromId}, NEW v, v.type # "encoded", NEW p, NEW b \in Octets,
         NEW q \in Seq(Octets), Len(q) + 1 \in Lengths, Rest(p, 1, Counted(b, q))
  PROVE  LengthsIn(id, v, p)
<1>1. Fills(p, 1)
  BY CountedFills
<1>. QED BY <1>1 DEF LengthsIn

LEMMA HeadedRest ==
  ASSUME NEW v, NEW id, id = IdOf(MmsNames, v.name), ~ (id < 0)
  PROVE  /\ PackMms(v) = <<128 + id>> \o MmsBytes(v)
         /\ \A q \in Seq(Octets) : MmsBytes(v) = q => Rest(PackMms(v), 1, q)
<1>1. PackMms(v) = <<128 + id>> \o MmsBytes(v)
  BY PackMmsIs
<1>2. id \in Nat /\ id <= 127
  <2>1. id = -1 \/ (id \in Nat /\ id <= 33)
    BY MmsIdIs
  <2>. QED BY <2>1
<1>3. ASSUME NEW q \in Seq(Octets), MmsBytes(v) = q PROVE Rest(PackMms(v), 1, q)
  BY <1>1, <1>2, <1>3, HeadRest
<1>. QED BY <1>1, <1>3

(* The lengths of every item that can be read are true, and of the content  *)
(* type.                                                                    *)
LEMMA ItemLengths ==
  ASSUME NEW v, CanReadMms(v)
  PROVE  LengthsIn(IdOf(MmsNames, v.name), v, PackMms(v))
<1>. DEFINE id == IdOf(MmsNames, v.name)
            p == PackMms(v)
<1>0. \/ v.type = "string" /\ HasText(v) /\ (id < 0 \/ id \in Strings \/ id = ClassId \/ id \in Statuses)
      \/ id \in Encodeds \union {FromId} /\ IsAddress(v)
      \/ id \in Times /\ v.type = "time" /\ HasTime(v)
      \/ v.type = "long" /\ HasLong(v)
           /\ (id \in Longs \/ id \in Chars \/ (id = FromId /\ HasChar(v)) \/ id = ClassId \/ id = VersionId)
  <2>1. HasChar(v) => HasLong(v)
    BY DEF HasChar
  <2>2. \/ v.type = "string" /\ HasText(v)
             /\ \/ id < 0 /\ IsName(v.name)
                \/ id \in Strings
                \/ id = ClassId /\ Begins(v.text, 1 .. 127)
                \/ id \in Statuses /\ Begins(v.text, 32 .. 127)
        \/ id \in Encodeds \union {FromId} /\ IsAddress(v)
        \/ id \in Times /\ v.type = "time" /\ HasTime(v)
        \/ v.type = "long"
             /\ \/ id \in Longs /\ HasLong(v)
                \/ id \in Chars /\ HasChar(v)
                \/ id = FromId /\ HasChar(v) /\ Low(v.long) # AddressPresent
                \/ id = ClassId /\ HasChar(v) /\ Low(v.long) >= 128
                \/ id = VersionId /\ HasChar(v) /\ Low(v.long) < 128
    BY DEF CanReadMms
  <2>. HIDE DEF id
  <2>. QED BY <2>1, <2>2
<1>00. (id < 0 => id \notin Times \union Encodeds \union {FromId, ContentTypeId})
  <2>. HIDE DEF id
  <2>. QED BY DEF Times, Encodeds, FromId, ContentTypeId
<1>000. id \in Times \union Encodeds \union {FromId} => ~ (id < 0)
  <2>. HIDE DEF id
  <2>. QED BY DEF Times, Encodeds, FromId
<1>1. ASSUME id < 0 \/ id \in Longs \union Chars \union Strings \union Statuses \union {ClassId, VersionId}
      PROVE  LengthsIn(id, v, p)
  <2>1. id \notin Times \union Encodeds \union {FromId, ContentTypeId}
    <3>. HIDE DEF id
    <3>. QED BY <1>00, <1>1, IdsApart
  <2>. HIDE DEF id, p
  <2>. QED BY <2>1, NoLengths
<1>2. ASSUME id \in Encodeds \union {FromId}, IsAddress(v) PROVE LengthsIn(id, v, p)
  <2>1. PICK t, c : /\ IsText(t) /\ IsCharset(c) /\ (c = 0 => Begins(t, 32 .. 255))
                    /\ v.type = "encoded" => c = v.charset
                    /\ id \in Encodeds => MmsBytes(v) = PutEncodedString(t, c)
                    /\ id = FromId => MmsBytes(v) = Counted(AddressPresent, PutEncodedString(t, c))
    <3>0. id = FromId => MmsBytes(v) = PutFrom(v)
      BY MmsBytesAre
    <3>1. CASE v.type = "string" /\ HasText(v) /\ Begins(v.text, 32 .. 255)
      <4>1. id \in Encodeds => MmsBytes(v) = PutEncodedString(v.text, 0)
        BY <3>1, MmsBytesAre, NoCharset
      <4>2. PutFrom(v) = Counted(AddressPresent, PutEncodedString(v.text, 0))
        BY <3>1, NoCharset DEF PutFrom, Counted
      <4>3. IsText(v.text) /\ IsCharset(0)
        BY <3>1, ItemsAre, NoCharset
      <4>. HIDE DEF id
      <4>4. v.type # "encoded"
        BY <3>1
      <4>. QED BY <3>0, <3>1, <4>1, <4>2, <4>3, <4>4
    <3>2. CASE v.type = "encoded" /\ HasEncoded(v) /\ (v.charset = 0 => Begins(v.text, 32 .. 255))
      <4>1. id \in Encodeds => MmsBytes(v) = PutEncodedString(v.text, v.charset)
        BY <3>2, MmsBytesAre
      <4>2. PutFrom(v) = Counted(AddressPresent, PutEncodedString(v.text, v.charset))
        BY <3>2 DEF PutFrom, Counted
      <4>3. IsText(v.text) /\ IsCharset(v.charset)
        BY <3>2, ItemsAre
      <4>. HIDE DEF id
      <4>. QED BY <3>0, <3>2, <4>1, <4>2, <4>3
    <3>. QED BY <1>2, <3>1, <3>2 DEF IsAddress
  <2>2. ~ (id < 0)
    <3>. HIDE DEF id
    <3>. QED BY <1>2, <1>000
  <2>3. CASE id \in Encodeds
    <3>1. PutEncodedString(t, c) \in Seq(Octets)
      BY <2>1, EncodedStringIs
    <3>2. Rest(p, 1, PutEncodedString(t, c))
      BY <2>1, <2>2, <2>3, <3>1, HeadedRest
    <3>. HIDE DEF id, p
    <3>. QED BY <2>1, <2>3, <3>2, AddressFills
  <2>4. CASE id = FromId
    <3>1. PutEncodedString(t, c) \in Seq(Octets) /\ Len(PutEncodedString(t, c)) + 1 \in Lengths
      BY <2>1, EncodedValueIs
    <3>2. AddressPresent \in Octets
      <4>1. AddressPresent \in Nat /\ AddressPresent <= 255
        BY DEF AddressPresent
      <4>. QED BY <4>1, OctetIs
    <3>3. Counted(AddressPresent, PutEncodedString(t, c)) \in Seq(Octets)
      BY <3>1, <3>2, CountedIs
    <3>4. Rest(p, 1, Counted(AddressPresent, PutEncodedString(t, c)))
      BY <2>1, <2>2, <2>4, <3>3, HeadedRest
    <3>5. LengthsIn(FromId, v, p)
      <4>. HIDE DEF id, p
      <4>. QED BY <2>1, <3>4, FromFills
    <3>. QED BY <2>4, <3>5
  <2>. QED BY <1>2, <2>3, <2>4
<1>3. ASSUME id \in Times, v.type = "time", HasTime(v) PROVE LengthsIn(id, v, p)
  <2>1. MmsBytes(v) = Counted(v.token, PutLongInt(v.time))
    BY <1>3, MmsBytesAre DEF PutTime, Counted, LongIntBytes
  <2>2. v.token \in Octets /\ IsLong(v.time)
    BY <1>3, ItemsAre
  <2>. DEFINE q == PutLongInt(v.time)
              b == v.token
  <2>3. q \in Seq(Octets) /\ Len(q) \in Nat /\ Len(q) <= 5
    BY <2>2, LongIntIs
  <2>. HIDE DEF q, b
  <2>4. Len(q) + 1 \in Lengths
    BY <2>3, SmallLengths
  <2>5. Counted(b, q) \in Seq(Octets)
    BY <2>2, <2>3, <2>4, CountedIs DEF b
  <2>6. Rest(p, 1, Counted(b, q))
    BY <1>3, <1>000, <2>1, <2>5, HeadedRest DEF b, q
  <2>7. v.type # "encoded"
    BY <1>3
  <2>8. id \in Times \union {FromId} /\ b \in Octets
    BY <1>3, <2>2 DEF b
  <2>. HIDE DEF id, p
  <2>. QED BY <2>3, <2>4, <2>6, <2>7, <2>8, CountedLengths
<1>4. ASSUME v.type = "long", id = FromId, HasChar(v) PROVE LengthsIn(id, v, p)
  <2>. DEFINE b == Low(v.long)
  <2>1. MmsBytes(v) = PutValueLength(1) \o <<b>>
    BY <1>4, MmsBytesAre DEF PutFrom
  <2>2. b \in Octets
    <3>1. IsChar(v.long)
      BY <1>4, ItemsAre DEF HasChar, IsChar
    <3>. QED BY <3>1, CharIs
  <2>. HIDE DEF b
  <2>3. <<>> \in Seq(Octets) /\ Len(<<>>) + 1 = 1
    OBVIOUS
  <2>4. 1 \in Lengths
    BY SmallLengths
  <2>5. Counted(b, <<>>) = PutValueLength(1) \o <<b>> /\ Counted(b, <<>>) \in Seq(Octets)
    <3>1. PutValueLength(1) \in Seq(Octets)
      BY <2>4, ValueLengthIs
    <3>. DEFINE l == PutValueLength(1)
    <3>. HIDE DEF l
    <3>2. l \o <<b>> \in Seq(Octets)
      <4>1. l \in Seq(Octets) /\ <<b>> \in Seq(Octets)
        BY <2>2, <3>1 DEF l
      <4>. QED BY <4>1, Joined
    <3>3. (l \o <<b>>) \o <<>> = l \o <<b>>
      BY <3>2, ConcatEmptySeq
    <3>. QED BY <2>3, <3>2, <3>3 DEF Counted, l
  <2>6. Rest(p, 1, Counted(b, <<>>))
    BY <1>4, <1>000, <2>1, <2>5, HeadedRest
  <2>7. v.type # "encoded" /\ id \in Times \union {FromId}
    BY <1>4
  <2>. DEFINE q == <<>>
  <2>8. q \in Seq(Octets) /\ Len(q) + 1 \in Lengths /\ Rest(p, 1, Counted(b, q))
    BY <2>3, <2>4, <2>6
  <2>. HIDE DEF id, p, q
  <2>. QED BY <2>2, <2>7, <2>8, CountedLengths
<1>. HIDE DEF id, p
<1>5. LengthsIn(id, v, p)
  BY <1>0, <1>1, <1>2, <1>3, <1>4
<1>. QED BY <1>5 DEF id, p

LEMMA TypeLengths ==
  ASSUME NEW v, IsTypeItem(v)
  PROVE  LengthsIn(IdOf(MmsNames, v.name), v, PackMms(v))
<1>. DEFINE ct == v.ct
            p == PackMms(v)
            q == PackContentType(ct)
<1>1. v.name = ContentType /\ v.type = "data"
  BY TypeItem
<1>2. IsContentType(ct)
  BY DEF IsTypeItem
<1>3. IdOf(MmsNames, v.name) = ContentTypeId
  BY <1>1, ContentTypeName
<1>4. MmsBytes(v) = q
  BY <1>3, MmsBytesAre
<1>5. q \in Seq(Octets)
  <2>. HIDE DEF ct
  <2>. QED BY <1>2, ContentTypeIs
<1>6. Rest(p, 1, q)
  <2>1. ~ (IdOf(MmsNames, v.name) < 0)
    BY <1>3 DEF ContentTypeId
  <2>. QED BY <1>4, <1>5, <2>1, HeadedRest
<1>7. IsValueLength(p, 1, Len(p)) => Fills(p, 1)
  <2>. HIDE DEF ct, p
  <2>. QED BY <1>2, <1>6, TypeFills
<1>8. ContentTypeId \notin Times \union {FromId}
  BY IdsApart
<1>. QED BY <1>3, <1>7, <1>8 DEF LengthsIn

-----------------------------------------------------------------------------

(* And so of all that was packed: it lies where its offsets say.            *)
LEMMA LengthsTrueIs ==
  ASSUME CodecAssumption, CodecInv
  PROVE  LengthsTrue
<1>. SUFFICES ASSUME codec = "mms", NEW i \in DOMAIN sent
              PROVE  LET id    == IF sent[i].type = "body" THEN -1 ELSE IdOf(MmsNames, sent[i].name)
                         bytes == SubSeq(wire, IF i = 1 THEN 1 ELSE ends[i - 1] + 1, ends[i])
                     IN  LengthsIn(id, sent[i], bytes)
  BY DEF LengthsTrue, LengthsIn
<1>. DEFINE v == sent[i]
            p == Bytes("mms", v)
            n == Len(sent)
<1>1. /\ sent \in Seq(Sendable) /\ Laid("mms", wire, sent, ends) /\ SentWell("mms", Whole, sent)
      /\ Whole \in BOOLEAN /\ n \in Nat
  BY InvIs
<1>2. i \in 1 .. n
  BY <1>1, SeqIs
<1>3. Ahead(wire, StartOf(ends, i), p, Len(wire)) /\ ends[i] = StartOf(ends, i) + Len(p) /\ ends \in Seq(Nat)
  BY <1>1, <1>2, LaidIs
<1>4. SubSeq(wire, StartOf(ends, i) + 1, StartOf(ends, i) + Len(p)) = p
  <2>. HIDE DEF p
  <2>. QED BY <1>3, AheadIs
<1>5. (IF i = 1 THEN 1 ELSE ends[i - 1] + 1) = StartOf(ends, i) + 1
  BY DEF StartOf
<1>6. SubSeq(wire, IF i = 1 THEN 1 ELSE ends[i - 1] + 1, ends[i]) = p
  BY <1>3, <1>4, <1>5
<1>7. CASE Whole /\ i = n
  <2>1. IsBody(v)
    BY <1>1, <1>7 DEF SentWell
  <2>2. v.type = "body"
    <3>. DEFINE parts == v.parts
    <3>1. v = Body(parts)
      BY <2>1 DEF IsBody
    <3>. HIDE DEF v, parts
    <3>. QED BY <3>1 DEF Body
  <2>3. LengthsIn(-1, v, p)
    <3>1. -1 \notin Times \union Encodeds \union {FromId, ContentTypeId}
      BY DEF Times, Encodeds, FromId, ContentTypeId
    <3>. HIDE DEF v, p
    <3>. QED BY <3>1, NoLengths
  <2>. QED BY <1>6, <2>2, <2>3
<1>8. CASE ~ (Whole /\ i = n)
  <2>1. IsItem("mms", v) \/ IsTypeItem(v)
    <3>1. CASE Whole /\ i = n - 1
      BY <1>1, <3>1 DEF SentWell
    <3>2. CASE ~ (Whole /\ i = n - 1)
      <4>1. i \in 1 .. (IF Whole THEN n - 2 ELSE n)
        BY <1>1, <1>2, <1>8, <3>2
      <4>. QED BY <1>1, <4>1 DEF SentWell
    <3>. QED BY <3>1, <3>2
  <2>2. v.type # "body" /\ p = PackMms(v)
    <3>. HIDE DEF v
    <3>1. IsItem("mms", v) => v.type # "body" /\ Bytes("mms", v) = PackMms(v)
      BY MmsItem
    <3>2. IsTypeItem(v) => v.type # "body" /\ Bytes("mms", v) = PackMms(v)
      BY TypeItem
    <3>. QED BY <2>1, <3>1, <3>2
  <2>3. LengthsIn(IdOf(MmsNames, v.name), v, PackMms(v))
    <3>. HIDE DEF v
    <3>. QED BY <2>1, ItemLengths, TypeLengths DEF IsItem
  <2>. QED BY <1>6, <2>2, <2>3
<1>. QED BY <1>7, <1>8

(* LengthsTrue: each value length in the bytes of a message counts exactly  *)
(* the bytes up to the end of its value (mms_output_buffer_put_value_length *)
(* against what is written behind it).                                      *)
THEOREM ValueLengthsTrue ==
  ASSUME CanRead(Items), CanReadMessages(Messages)
  PROVE  CodecSpec => []LengthsTrue
<1>1. CodecInv => LengthsTrue
  BY LengthsTrueIs, CodecAssumption
<1>. QED BY <1>1, CodecInvariant, PTL

=============================================================================
