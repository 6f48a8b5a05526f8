--------------------------- MODULE MmsHeader_proofs ---------------------------
(***************************************************************************)
(* Theorems about MmsHeader, for any names, contents and received headers: *)
(* its invariants, and that it implements HeaderFields.                    *)
(*                                                                         *)
(* A header that ends at its content type has at most one (ContentTypeOnce)*)
(* and that one is last after packing.  In a composed message, in front of *)
(* a protocol field that kept its place are only those that come before it,*)
(* and the content type until it is packed (Leads): a call that takes such *)
(* a field away makes it one that did not keep its place.                  *)
(***************************************************************************)
EXTENDS MmsHeader, SequenceFacts

ContentTypeOnce ==
  unpack_end_at_content_type =>
    \A i, j \in DOMAIN items :
      items[i].name = "Content-Type" /\ items[j].name = "Content-Type" => i = j

EndsWithContentType ==
  asked.call = "pack" /\ unpack_end_at_content_type =>
    \A i \in DOMAIN items : items[i].name = "Content-Type" => i = Len(items)

(* In front of the field k of the protocol may be those of K before it, and *)
(* with ct a content type.                                                  *)
Before(n, K, k, ct) == (ct /\ n = "Content-Type") \/ \E l \in K : l < k /\ n = Protocol[l]

(* The fields K of the protocol are in s, with only such in front of them.  *)
InFront(s, K, ct) ==
  \A k \in K :
    /\ \E j \in 1 .. Len(s) : s[j].name = Protocol[k]
    /\ \A j \in 1 .. Len(s) : s[j].name = Protocol[k] =>
         \A i \in 1 .. j - 1 : Before(s[i].name, K, k, ct)

Leads ==
  origin \in {"send_req", "ack"} =>
    unpack_end_at_content_type /\ InFront(items, Kept, asked.call # "pack")

IInv == TypeOK /\ ContentTypeOnce /\ EndsWithContentType /\ Leads

-----------------------------------------------------------------------------
(* Sequences of items.                                                      *)

LEMMA FirstIs ==
  ASSUME NEW s \in Seq(Items), NEW n, Has(s, n)
  PROVE  /\ First(s, n) \in 1 .. Len(s) /\ s[First(s, n)].name = n
         /\ \A j \in 1 .. Len(s) : s[j].name = n => First(s, n) <= j
<1> DEFINE T == {i \in 1 .. Len(s) : s[i].name = n}
<1>1. Len(s) \in Nat /\ DOMAIN s = 1 .. Len(s)
  OBVIOUS
<1>2. T \subseteq Nat /\ T # {}
  BY <1>1 DEF Has
<1>3. PICK x \in T : \A y \in T : x <= y
  BY <1>2, LeastOf
<1> QED BY <1>1, <1>3 DEF First

(* The three cases of Shown.                                                *)
LEMMA ShownAbsent ==
  ASSUME NEW s \in Seq(Items), NEW n, \A i \in 1 .. Len(s) : s[i].name # n
  PROVE  Shown(s, n) = Absent
BY DEF Shown, Has

LEMMA ShownOne ==
  ASSUME NEW s \in Seq(Items), NEW n, NEW k \in 1 .. Len(s), s[k].name = n,
         \A i \in 1 .. Len(s) : s[i].name = n => i = k
  PROVE  Shown(s, n) = s[k].content
<1>1. DOMAIN s = 1 .. Len(s)
  OBVIOUS
<1>2. Has(s, n)
  BY <1>1 DEF Has
<1>3. First(s, n) = k
  BY <1>2, FirstIs
<1> QED BY <1>1, <1>2, <1>3 DEF Shown

LEMMA ShownMany ==
  ASSUME NEW s \in Seq(Items), NEW n, NEW i \in 1 .. Len(s), NEW j \in 1 .. Len(s),
         i # j, s[i].name = n, s[j].name = n
  PROVE  Shown(s, n) = Unknown
BY DEF Shown, Has

LEMMA ShownIsField ==
  ASSUME NEW s \in Seq(Items), NEW n \in Names
  PROVE  Shown(s, n) \in Contents \cup {Absent, Unknown}
<1>1. CASE \A i \in 1 .. Len(s) : s[i].name # n
  BY <1>1, ShownAbsent
<1>2. CASE \E i, j \in 1 .. Len(s) : i # j /\ s[i].name = n /\ s[j].name = n
  BY <1>2, ShownMany
<1>3. CASE \E k \in 1 .. Len(s) :
             s[k].name = n /\ \A i \in 1 .. Len(s) : s[i].name = n => i = k
  <2>1. PICK k \in 1 .. Len(s) :
               s[k].name = n /\ \A i \in 1 .. Len(s) : s[i].name = n => i = k
    BY <1>3
  <2>2. s[k].content \in Contents
    <3>1. s[k] \in Items
      BY <2>1
    <3> QED BY <3>1 DEF Items
  <2>3. Shown(s, n) = s[k].content
    BY <2>1, ShownOne
  <2> QED BY <2>2, <2>3
<1> QED BY <1>1, <1>2, <1>3

(* f leads from the items of a name in s to those in t.                     *)
SameItems(s, t, n, f) ==
  /\ \A i \in 1 .. Len(s) : s[i].name = n => f[i] \in 1 .. Len(t) /\ t[f[i]] = s[i]
  /\ \A i, j \in 1 .. Len(s) : s[i].name = n /\ s[j].name = n /\ f[i] = f[j] => i = j
  /\ \A j \in 1 .. Len(t) : t[j].name = n => \E i \in 1 .. Len(s) : s[i].name = n /\ f[i] = j

(* Two sequences with the same items of a name show the same of it.         *)
LEMMA ShownSame ==
  ASSUME NEW s \in Seq(Items), NEW t \in Seq(Items), NEW n, NEW f, SameItems(s, t, n, f)
  PROVE  Shown(t, n) = Shown(s, n)
<1> USE DEF SameItems
<1>1. CASE \A i \in 1 .. Len(s) : s[i].name # n
  <2>1. \A j \in 1 .. Len(t) : t[j].name # n
    BY <1>1
  <2> QED BY <1>1, <2>1, ShownAbsent
<1>2. CASE \E i, j \in 1 .. Len(s) : i # j /\ s[i].name = n /\ s[j].name = n
  <2>1. PICK i \in 1 .. Len(s), j \in 1 .. Len(s) : i # j /\ s[i].name = n /\ s[j].name = n
    BY <1>2
  <2>2. /\ f[i] \in 1 .. Len(t) /\ f[j] \in 1 .. Len(t) /\ f[i] # f[j]
        /\ t[f[i]].name = n /\ t[f[j]].name = n
    BY <2>1
  <2> QED BY <2>1, <2>2, ShownMany
<1>3. CASE \E k \in 1 .. Len(s) :
             s[k].name = n /\ \A i \in 1 .. Len(s) : s[i].name = n => i = k
  <2>1. PICK k \in 1 .. Len(s) :
               s[k].name = n /\ \A i \in 1 .. Len(s) : s[i].name = n => i = k
    BY <1>3
  <2>2. f[k] \in 1 .. Len(t) /\ t[f[k]] = s[k]
    BY <2>1
  <2>3. \A j \in 1 .. Len(t) : t[j].name = n => j = f[k]
    BY <2>1
  <2>4. Shown(s, n) = s[k].content
    BY <2>1, ShownOne
  <2>5. t[f[k]].name = n
    BY <2>1, <2>2
  <2> DEFINE m == f[k]
  <2>6. m \in 1 .. Len(t) /\ t[m].name = n /\ \A j \in 1 .. Len(t) : t[j].name = n => j = m
    BY <2>2, <2>3, <2>5
  <2> HIDE DEF m
  <2>7. Shown(t, n) = t[m].content
    BY <2>6, ShownOne
  <2> QED BY <2>2, <2>4, <2>7 DEF m
<1> QED BY <1>1, <1>2, <1>3

LEMMA AppendIs ==
  ASSUME NEW s \in Seq(Items), NEW e \in Items
  PROVE  /\ Append(s, e) \in Seq(Items) /\ Len(Append(s, e)) = Len(s) + 1
         /\ \A i \in 1 .. Len(s) + 1 : Append(s, e)[i] = IF i = Len(s) + 1 THEN e ELSE s[i]
OBVIOUS

LEMMA AppendShows ==
  ASSUME NEW s \in Seq(Items), NEW e \in Items
  PROVE  /\ \A n : n # e.name => Shown(Append(s, e), n) = Shown(s, n)
         /\ (\A i \in 1 .. Len(s) : s[i].name # e.name) => Shown(Append(s, e), e.name) = e.content
<1> DEFINE t == Append(s, e)
           f == [i \in 1 .. Len(s) |-> i]
<1>1. /\ t \in Seq(Items) /\ Len(t) = Len(s) + 1 /\ Len(s) \in Nat
      /\ \A i \in 1 .. Len(s) + 1 : t[i] = IF i = Len(s) + 1 THEN e ELSE s[i]
  BY AppendIs
<1> HIDE DEF t
<1>2. ASSUME NEW n, n # e.name
      PROVE  Shown(t, n) = Shown(s, n)
  <2>1. \A i \in 1 .. Len(s) : f[i] \in 1 .. Len(t) /\ t[f[i]] = s[i]
    BY <1>1
  <2>2. \A j \in 1 .. Len(t) : t[j].name = n => 
             \E i \in 1 .. Len(s) : s[i].name = n /\ f[i] = j
    BY <1>1, <1>2
  <2>3. \A i, j \in 1 .. Len(s) : f[i] = f[j] => i = j
    OBVIOUS
  <2> HIDE DEF f
  <2>4. SameItems(s, t, n, f)
    BY <2>1, <2>2, <2>3 DEF SameItems
  <2> QED BY <1>1, <2>4, ShownSame
<1>3. (\A i \in 1 .. Len(s) : s[i].name # e.name) => Shown(t, e.name) = e.content
  <2> SUFFICES ASSUME \A i \in 1 .. Len(s) : s[i].name # e.name
               PROVE  Shown(t, e.name) = e.content
    OBVIOUS
  <2>1. Len(t) \in 1 .. Len(t) /\ t[Len(t)] = e
    BY <1>1
  <2>2. \A i \in 1 .. Len(t) : t[i].name = e.name => i = Len(t)
    BY <1>1
  <2> QED BY <1>1, <2>1, <2>2, ShownOne
<1> QED BY <1>2, <1>3 DEF t

LEMMA RemoveShows ==
  ASSUME NEW s \in Seq(Items), NEW k \in 1 .. Len(s)
  PROVE  \A n : n # s[k].name => Shown(RemoveAt(s, k), n) = Shown(s, n)
<1> DEFINE t == RemoveAt(s, k)
           f == [i \in 1 .. Len(s) |-> IF i < k THEN i ELSE i - 1]
<1>1. /\ t \in Seq(Items) /\ Len(t) = Len(s) - 1 /\ Len(s) \in Nat /\ k \in Nat
      /\ \A i \in 1 .. Len(s) - 1 : t[i] = IF i < k THEN s[i] ELSE s[i + 1]
  <2>1. /\ RemoveAt(s, k) \in Seq(Items) /\ Len(RemoveAt(s, k)) = Len(s) - 1
        /\ \A i \in 1 .. Len(s) - 1 : RemoveAt(s, k)[i] = IF i < k THEN s[i] ELSE s[i + 1]
    BY RemoveAtIs
  <2> QED BY <2>1
<1> HIDE DEF t
<1> SUFFICES ASSUME NEW n, n # s[k].name
             PROVE  Shown(t, n) = Shown(s, n)
  BY DEF t
<1>2. \A i \in 1 .. Len(s) : i # k => f[i] \in 1 .. Len(t) /\ t[f[i]] = s[i]
  BY <1>1
<1>3. \A i \in 1 .. Len(s) : s[i].name = n => i # k
  OBVIOUS
<1>4. \A i, j \in 1 .. Len(s) : i # k /\ j # k /\ f[i] = f[j] => i = j
  BY <1>1
<1>5. ASSUME NEW j \in 1 .. Len(t), t[j].name = n
      PROVE  \E i \in 1 .. Len(s) : s[i].name = n /\ f[i] = j
  <2>1. CASE j < k
    BY <1>1, <1>5, <2>1
  <2>2. CASE ~(j < k)
    <3>1. j + 1 \in 1 .. Len(s) /\ f[j + 1] = j /\ t[j] = s[j + 1]
      BY <1>1, <2>2
    <3> QED BY <1>5, <3>1
  <2> QED BY <2>1, <2>2
<1> HIDE DEF f
<1>6. SameItems(s, t, n, f)
  BY <1>2, <1>3, <1>4, <1>5 DEF SameItems
<1> QED BY <1>1, <1>6, ShownSame

(* An erase takes one item of its name, the first, and leaves the others.   *)
LEMMA ErasedIs ==
  ASSUME NEW s \in Seq(Items), NEW n
  PROVE  /\ Erased(s, n) \in Seq(Items)
         /\ \A m : m # n => Shown(Erased(s, n), m) = Shown(s, m)
         /\ Shown(s, n) # Unknown => \A i \in 1 .. Len(Erased(s, n)) : Erased(s, n)[i].name # n
<1>1. CASE ~Has(s, n)
  BY <1>1 DEF Erased, Has
<1>2. CASE Has(s, n)
  <2> DEFINE k == First(s, n)
  <2>1. k \in 1 .. Len(s) /\ s[k].name = n /\ Erased(s, n) = RemoveAt(s, k)
    BY <1>2, FirstIs DEF Erased
  <2>2. Shown(s, n) # Unknown => \A i \in 1 .. Len(s) : s[i].name = n => i = k
    BY <2>1, ShownMany
  <2> HIDE DEF k
  <2>3. /\ RemoveAt(s, k) \in Seq(Items) /\ Len(RemoveAt(s, k)) = Len(s) - 1
        /\ \A i \in 1 .. Len(s) - 1 : RemoveAt(s, k)[i] = IF i < k THEN s[i] ELSE s[i + 1]
        /\ Len(s) \in Nat /\ k \in Nat
    <3>1. k \in 1 .. Len(s)
      BY <2>1
    <3> QED BY <3>1, RemoveAtIs
  <2>4. Erased(s, n) \in Seq(Items) /\ \A m : m # n => Shown(Erased(s, n), m) = Shown(s, m)
    BY <2>1, <2>3, RemoveShows
  <2>5. Shown(s, n) # Unknown => \A i \in 1 .. Len(Erased(s, n)) : Erased(s, n)[i].name # n
    BY <2>1, <2>2, <2>3
  <2> QED BY <2>4, <2>5
<1> QED BY <1>1, <1>2

LEMMA ExceptShows ==
  ASSUME NEW s \in Seq(Items), NEW k \in 1 .. Len(s), NEW e \in Items, s[k].name = e.name
  PROVE  /\ [s EXCEPT ![k] = e] \in Seq(Items)
         /\ \A n : n # e.name => Shown([s EXCEPT ![k] = e], n) = Shown(s, n)
         /\ Shown(s, e.name) # Unknown => Shown([s EXCEPT ![k] = e], e.name) = e.content
<1> DEFINE t == [s EXCEPT ![k] = e]
           f == [i \in 1 .. Len(s) |-> i]
<1>1. /\ t \in Seq(Items) /\ Len(t) = Len(s) /\ Len(s) \in Nat
      /\ \A i \in 1 .. Len(s) : t[i] = IF i = k THEN e ELSE s[i]
  OBVIOUS
<1> HIDE DEF t
<1>2. ASSUME NEW n, n # e.name
      PROVE  Shown(t, n) = Shown(s, n)
  <2>1. \A i \in 1 .. Len(s) : s[i].name = n => f[i] \in 1 .. Len(t) /\ t[f[i]] = s[i]
    BY <1>1, <1>2
  <2>2. \A j \in 1 .. Len(t) : t[j].name = n => 
             \E i \in 1 .. Len(s) : s[i].name = n /\ f[i] = j
    BY <1>1, <1>2
  <2>3. \A i, j \in 1 .. Len(s) : f[i] = f[j] => i = j
    OBVIOUS
  <2> HIDE DEF f
  <2>4. SameItems(s, t, n, f)
    BY <2>1, <2>2, <2>3 DEF SameItems
  <2> QED BY <1>1, <2>4, ShownSame
<1>3. ASSUME Shown(s, e.name) # Unknown
      PROVE  Shown(t, e.name) = e.content
  <2>1. \A i \in 1 .. Len(s) : s[i].name = e.name => i = k
    BY <1>3, ShownMany
  <2>2. \A i \in 1 .. Len(t) : t[i].name = e.name => i = k
    BY <1>1, <2>1
  <2>3. k \in 1 .. Len(t) /\ t[k] = e
    BY <1>1
  <2> QED BY <1>1, <2>2, <2>3, ShownOne
<1> QED BY <1>1, <1>2, <1>3 DEF t

LEMMA WithShows ==
  ASSUME NEW s \in Seq(Items), NEW n \in Names, NEW c \in Contents
  PROVE  /\ With(s, n, c) \in Seq(Items)
         /\ \A m : m # n => Shown(With(s, n, c), m) = Shown(s, m)
         /\ Shown(s, n) # Unknown => Shown(With(s, n, c), n) = c
<1>1. Item(n, c) \in Items /\ Item(n, c).name = n /\ Item(n, c).content = c
  BY DEF Item, Items
<1>2. CASE InPlace(s, n, c)
  <2>1. First(s, n) \in 1 .. Len(s) /\ s[First(s, n)].name = n
    BY <1>2, FirstIs DEF InPlace
  <2>2. With(s, n, c) = [s EXCEPT ![First(s, n)] = Item(n, c)]
    BY <1>2 DEF With
  <2> DEFINE k == First(s, n)
             e == Item(n, c)
  <2>3. k \in 1 .. Len(s) /\ e \in Items /\ s[k].name = e.name /\ e.name = n /\ e.content = c
        /\ With(s, n, c) = [s EXCEPT ![k] = e]
    BY <1>1, <2>1, <2>2
  <2> HIDE DEF k, e
  <2>4. /\ [s EXCEPT ![k] = e] \in Seq(Items)
        /\ \A m : m # e.name => Shown([s EXCEPT ![k] = e], m) = Shown(s, m)
        /\ Shown(s, e.name) # Unknown => Shown([s EXCEPT ![k] = e], e.name) = e.content
    BY <2>3, ExceptShows
  <2> QED BY <2>3, <2>4
<1>3. CASE ~InPlace(s, n, c)
  <2>1. With(s, n, c) = Append(Erased(s, n), Item(n, c))
    BY <1>3 DEF With
  <2>2. Erased(s, n) \in Seq(Items)
    BY ErasedIs
  <2>3. \A m : m # n => Shown(With(s, n, c), m) = Shown(Erased(s, n), m)
    BY <1>1, <2>1, <2>2, AppendShows
  <2>4. Shown(s, n) # Unknown => Shown(With(s, n, c), n) = c
    BY <1>1, <2>1, <2>2, ErasedIs, AppendShows
  <2> QED BY <1>1, <2>1, <2>2, <2>3, <2>4, ErasedIs, AppendIs
<1> QED BY <1>2, <1>3

-----------------------------------------------------------------------------
(* The invariant.                                                           *)

LEMMA ConstantNames ==
  /\ {"X-Mms-Message-Type", "X-Mms-Transaction-Id", "X-Mms-MMS-Version", "Content-Type",
      "X-Mms-Delivery-Report", "X-Mms-Read-Report", "From", "To", "Subject", "X-Mms-Expiry",
      "Date"} \subseteq Names
  /\ Protocol[1] = "X-Mms-Message-Type" /\ Protocol[2] = "X-Mms-Transaction-Id"
  /\ Protocol[3] = "X-Mms-MMS-Version"
  /\ \A k \in 1 .. 3 : Protocol[k] \in Names /\ Protocol[k] # "Content-Type"
  /\ \A k, l \in 1 .. 3 : Protocol[k] = Protocol[l] => k = l
<1>1. Protocol[1] = "X-Mms-Message-Type" /\ Protocol[2] = "X-Mms-Transaction-Id"
      /\ Protocol[3] = "X-Mms-MMS-Version"
  BY DEF Protocol
<1>2. 1 .. 3 = {1, 2, 3}
  OBVIOUS
<1>3. {Protocol[1], Protocol[2], Protocol[3]} \subseteq Leading
  BY <1>2 DEF Leading
<1>4. \A k \in 1 .. 3 : Protocol[k] \in Names /\ Protocol[k] # "Content-Type"
  BY <1>1, <1>2, <1>3, HeaderAssumption
<1>5. \A k, l \in 1 .. 3 : Protocol[k] = Protocol[l] => k = l
  BY <1>1, <1>2
<1> QED BY <1>1, <1>3, <1>4, <1>5, HeaderAssumption DEF Reports

(* What the setters set is an item.                                         *)
LEMMA OwnItemsAre ==
  /\ OwnItems \subseteq [name : {"From", "To", "Subject", "X-Mms-Expiry"} \cup Reports,
                         content : Contents]
  /\ \A v \in Texts : String(v) \in Contents
  /\ \A v \in Numbers \cup Times \cup {Token, "send_req", "ack", "yes", "no"} : Long(v) \in Contents
  /\ \A r \in {"relative", "absolute"}, t \in Times : Time(r, t) \in Contents
  /\ \A ct \in ContentTypes : Object(ct) \in Contents
<1>1. \A v \in Texts : String(v) \in Contents
  BY DEF String, Contents
<1>2. \A v \in Numbers \cup Times \cup {Token, "send_req", "ack", "yes", "no"} : Long(v) \in Contents
  BY DEF Long, Contents
<1>3. \A r \in {"relative", "absolute"}, t \in Times : Time(r, t) \in Contents
  BY DEF Time, Contents
<1>4. \A ct \in ContentTypes : Object(ct) \in Contents
  BY DEF Object, Contents
<1>5. \A v \in Texts, cs \in Charsets \cup {Plain} : TextOf(v, cs) \in Contents
  BY <1>1 DEF TextOf, Encoded, Contents
<1>6. OwnItems \subseteq [name : {"From", "To", "Subject", "X-Mms-Expiry"} \cup Reports,
                         content : Contents]
  <2> SUFFICES ASSUME NEW it \in OwnItems
               PROVE  it \in [name : {"From", "To", "Subject", "X-Mms-Expiry"} \cup Reports,
                              content : Contents]
    OBVIOUS
  <2>1. PICK n \in {"From", "To", "Subject", "X-Mms-Expiry"} \cup Reports, c \in Contents :
               it = Item(n, c)
    BY <1>2, <1>3, <1>5 DEF OwnItems
  <2> QED BY <2>1 DEF Item
<1> QED BY <1>1, <1>2, <1>3, <1>4, <1>6

(* The names of a sequence after an erase: those of the others, in order.   *)
LEMMA ErasedNames ==
  ASSUME NEW s \in Seq(Items), NEW n, Has(s, n)
  PROVE  LET k == First(s, n) t == Erased(s, n) IN
         /\ k \in 1 .. Len(s) /\ s[k].name = n /\ Len(s) \in Nat
         /\ t \in Seq(Items) /\ Len(t) = Len(s) - 1
         /\ \A i \in 1 .. Len(s) - 1 : t[i] = IF i < k THEN s[i] ELSE s[i + 1]
<1> DEFINE k == First(s, n)
<1>1. k \in 1 .. Len(s) /\ s[k].name = n /\ Erased(s, n) = RemoveAt(s, k)
  BY FirstIs DEF Erased
<1> HIDE DEF k
<1>2. /\ RemoveAt(s, k) \in Seq(Items) /\ Len(RemoveAt(s, k)) = Len(s) - 1
      /\ \A i \in 1 .. Len(s) - 1 : RemoveAt(s, k)[i] = IF i < k THEN s[i] ELSE s[i + 1]
  BY <1>1, RemoveAtIs
<1>3. Len(s) \in Nat
  OBVIOUS
<1> QED BY <1>1, <1>2, <1>3 DEF k

Once(s) == \A i, j \in 1 .. Len(s) :
             s[i].name = "Content-Type" /\ s[j].name = "Content-Type" => i = j

LEMMA ErasedOnce ==
  ASSUME NEW s \in Seq(Items), NEW n, Once(s)
  PROVE  /\ Once(Erased(s, n))
         /\ n = "Content-Type" => \A i \in 1 .. Len(Erased(s, n)) : Erased(s, n)[i].name # n
<1>1. CASE ~Has(s, n)
  BY <1>1 DEF Erased, Has
<1>2. CASE Has(s, n)
  <2> DEFINE k == First(s, n)
             t == Erased(s, n)
  <2>1. /\ k \in 1 .. Len(s) /\ s[k].name = n /\ Len(s) \in Nat
        /\ t \in Seq(Items) /\ Len(t) = Len(s) - 1
        /\ \A i \in 1 .. Len(s) - 1 : t[i] = IF i < k THEN s[i] ELSE s[i + 1]
    BY <1>2, ErasedNames
  <2> HIDE DEF k, t
  <2>2. \A i \in 1 .. Len(t) : \E m \in 1 .. Len(s) :
          m # k /\ t[i] = s[m] /\ m = IF i < k THEN i ELSE i + 1
    BY <2>1
  <2>3. Once(t)
    <3> SUFFICES ASSUME NEW i \in 1 .. Len(t), NEW j \in 1 .. Len(t),
                        t[i].name = "Content-Type", t[j].name = "Content-Type"
                 PROVE  i = j
      BY DEF Once
    <3>1. PICK m \in 1 .. Len(s) : t[i] = s[m] /\ m = IF i < k THEN i ELSE i + 1
      BY <2>2
    <3>2. PICK l \in 1 .. Len(s) : t[j] = s[l] /\ l = IF j < k THEN j ELSE j + 1
      BY <2>2
    <3>3. m = l
      BY <3>1, <3>2 DEF Once
    <3>4. i \in Nat /\ j \in Nat /\ k \in Nat
      BY <2>1
    <3> QED BY <3>1, <3>2, <3>3, <3>4
  <2>4. n = "Content-Type" => \A i \in 1 .. Len(t) : t[i].name # n
    BY <2>1, <2>2 DEF Once
  <2> QED BY <2>3, <2>4 DEF t
<1> QED BY <1>1, <1>2

LEMMA WithOnce ==
  ASSUME NEW s \in Seq(Items), NEW n \in Names, NEW c \in Contents, Once(s)
  PROVE  Once(With(s, n, c))
<1> DEFINE e == Item(n, c)
<1>1. e \in Items /\ e.name = n
  BY DEF Item, Items
<1> HIDE DEF e
<1>2. CASE InPlace(s, n, c)
  <2> DEFINE k == First(s, n)
  <2>1. k \in 1 .. Len(s) /\ s[k].name = n
    BY <1>2, FirstIs DEF InPlace
  <2>2. With(s, n, c) = [s EXCEPT ![k] = e]
    BY <1>2 DEF With, e
  <2> HIDE DEF k
  <2>3. /\ Len([s EXCEPT ![k] = e]) = Len(s)
        /\ \A i \in 1 .. Len(s) : [s EXCEPT ![k] = e][i] = IF i = k THEN e ELSE s[i]
    OBVIOUS
  <2> QED BY <1>1, <2>1, <2>2, <2>3 DEF Once
<1>3. CASE ~InPlace(s, n, c)
  <2> DEFINE t == Erased(s, n)
  <2>1. t \in Seq(Items) /\ Once(t) /\ Len(t) \in Nat
        /\ (n = "Content-Type" => \A i \in 1 .. Len(t) : t[i].name # n)
    BY ErasedIs, ErasedOnce
  <2>2. With(s, n, c) = Append(t, e)
    BY <1>3 DEF With, e
  <2> HIDE DEF t
  <2>3. /\ Len(Append(t, e)) = Len(t) + 1
        /\ \A i \in 1 .. Len(t) + 1 : Append(t, e)[i] = IF i = Len(t) + 1 THEN e ELSE t[i]
    BY <1>1, <2>1, AppendIs
  <2> QED BY <1>1, <2>1, <2>2, <2>3 DEF Once
<1> QED BY <1>2, <1>3

-----------------------------------------------------------------------------
(* The fields in front.                                                     *)

(* A field in front is there once.                                          *)
LEMMA FrontOnce ==
  ASSUME NEW s \in Seq(Items), NEW K \in SUBSET (1 .. 3), NEW ct \in BOOLEAN, InFront(s, K, ct),
         NEW k \in K, NEW i \in 1 .. Len(s), NEW j \in 1 .. Len(s),
         s[i].name = Protocol[k], s[j].name = Protocol[k]
  PROVE  i = j
<1>1. ASSUME NEW p \in 1 .. Len(s), NEW q \in 1 .. Len(s), p < q,
             s[p].name = Protocol[k], s[q].name = Protocol[k]
      PROVE  FALSE
  <2>1. p \in 1 .. q - 1
    BY <1>1
  <2>2. Before(s[p].name, K, k, ct)
    BY <1>1, <2>1 DEF InFront
  <2>3. s[p].name # "Content-Type"
    BY <1>1, ConstantNames
  <2>4. PICK l \in K : l < k /\ Protocol[k] = Protocol[l]
    BY <1>1, <2>2, <2>3 DEF Before
  <2>5. l = k
    BY <2>4, ConstantNames
  <2> QED BY <2>4, <2>5
<1>2. i < j \/ j < i \/ i = j
  OBVIOUS
<1> QED BY <1>1, <1>2

(* Only the names count, and a content type in front may come to be allowed.*)
LEMMA FrontNames ==
  ASSUME NEW s \in Seq(Items), NEW t \in Seq(Items), NEW K \in SUBSET (1 .. 3),
         NEW ct \in BOOLEAN, InFront(s, K, ct), Len(t) = Len(s),
         \A i \in 1 .. Len(s) : t[i].name = s[i].name
  PROVE  InFront(t, K, ct) /\ InFront(t, K, TRUE)
<1>1. ASSUME NEW k \in K
      PROVE  \E j \in 1 .. Len(t) : t[j].name = Protocol[k]
  <2>1. PICK j \in 1 .. Len(s) : s[j].name = Protocol[k]
    BY DEF InFront
  <2> QED BY <2>1
<1>2. ASSUME NEW k \in K, NEW j \in 1 .. Len(t), t[j].name = Protocol[k], NEW i \in 1 .. j - 1
      PROVE  Before(t[i].name, K, k, ct)
  <2>1. j \in 1 .. Len(s) /\ i \in 1 .. Len(s) /\ s[j].name = Protocol[k] /\ t[i].name = s[i].name
    BY <1>2
  <2> QED BY <2>1 DEF InFront
<1>3. InFront(t, K, ct)
  BY <1>1, <1>2 DEF InFront
<1>4. ASSUME NEW n, NEW k, Before(n, K, k, ct)
      PROVE  Before(n, K, k, TRUE)
  BY <1>4 DEF Before
<1> QED BY <1>1, <1>2, <1>3, <1>4 DEF InFront

(* An item put behind them changes nothing.                                 *)
LEMMA FrontAppend ==
  ASSUME NEW s \in Seq(Items), NEW e \in Items, NEW K \in SUBSET (1 .. 3), NEW ct \in BOOLEAN,
         InFront(s, K, ct), \A k \in K : e.name # Protocol[k]
  PROVE  InFront(Append(s, e), K, ct)
<1> DEFINE t == Append(s, e)
<1>1. /\ Len(t) = Len(s) + 1 /\ Len(s) \in Nat
      /\ \A i \in 1 .. Len(s) + 1 : t[i] = IF i = Len(s) + 1 THEN e ELSE s[i]
  BY AppendIs
<1> HIDE DEF t
<1>2. ASSUME NEW k \in K
      PROVE  \E j \in 1 .. Len(t) : t[j].name = Protocol[k]
  <2>1. PICK j \in 1 .. Len(s) : s[j].name = Protocol[k]
    BY DEF InFront
  <2>2. j \in 1 .. Len(t) /\ t[j] = s[j]
    BY <1>1
  <2> QED BY <2>1, <2>2
<1>3. ASSUME NEW k \in K, NEW j \in 1 .. Len(t), t[j].name = Protocol[k], NEW i \in 1 .. j - 1
      PROVE  Before(t[i].name, K, k, ct)
  <2>1. j # Len(s) + 1
    BY <1>1, <1>3
  <2>2. j \in 1 .. Len(s) /\ t[j] = s[j] /\ t[i] = s[i]
    BY <1>1, <2>1
  <2> QED BY <1>3, <2>2 DEF InFront
<1> QED BY <1>2, <1>3 DEF InFront, t

(* When an item is taken, the fields of another name stay in front.         *)
LEMMA FrontRemoved ==
  ASSUME NEW s \in Seq(Items), NEW m \in 1 .. Len(s), NEW K \in SUBSET (1 .. 3),
         NEW ct \in BOOLEAN, InFront(s, K, ct)
  PROVE  InFront(RemoveAt(s, m), {k \in K : Protocol[k] # s[m].name}, ct)
<1> DEFINE t == RemoveAt(s, m)
           L == {k \in K : Protocol[k] # s[m].name}
           h(i) == IF i < m THEN i ELSE i + 1
<1>1. /\ Len(t) = Len(s) - 1 /\ Len(s) \in Nat /\ m \in Nat
      /\ \A i \in 1 .. Len(s) - 1 : t[i] = IF i < m THEN s[i] ELSE s[i + 1]
  <2>1. /\ t \in Seq(Items) /\ Len(t) = Len(s) - 1
        /\ \A i \in 1 .. Len(s) - 1 : t[i] = IF i < m THEN s[i] ELSE s[i + 1]
    BY RemoveAtIs
  <2> QED BY <2>1
<1> HIDE DEF t
<1>2. ASSUME NEW k \in L
      PROVE  \E j \in 1 .. Len(t) : t[j].name = Protocol[k]
  <2>1. PICK j \in 1 .. Len(s) : s[j].name = Protocol[k]
    BY DEF InFront
  <2>2. j # m
    BY <2>1
  <2>3. CASE j < m
    <3>1. j \in 1 .. Len(t) /\ t[j] = s[j]
      BY <1>1, <2>3
    <3> QED BY <2>1, <3>1
  <2>4. CASE j > m
    <3>1. j - 1 \in 1 .. Len(t) /\ t[j - 1] = s[j]
      BY <1>1, <2>4
    <3> QED BY <2>1, <3>1
  <2> QED BY <1>1, <2>2, <2>3, <2>4
<1>3. ASSUME NEW k \in L, NEW j \in 1 .. Len(t), t[j].name = Protocol[k], NEW i \in 1 .. j - 1
      PROVE  Before(t[i].name, L, k, ct)
  <2>1. /\ h(i) \in 1 .. Len(s) /\ h(j) \in 1 .. Len(s) /\ h(i) \in 1 .. h(j) - 1 /\ h(i) # m
        /\ t[i] = s[h(i)] /\ t[j] = s[h(j)]
    BY <1>1
  <2> HIDE DEF h
  <2>2. Before(s[h(i)].name, K, k, ct)
    BY <1>3, <2>1 DEF InFront
  <2>3. ASSUME NEW l \in K, s[h(i)].name = Protocol[l]
        PROVE  l \in L
    <3>1. SUFFICES ASSUME Protocol[l] = s[m].name PROVE FALSE
      OBVIOUS
    <3>2. h(i) = m
      BY <2>1, <2>3, <3>1, FrontOnce
    <3> QED BY <2>1, <3>2
  <2> HIDE DEF L
  <2> QED BY <2>1, <2>2, <2>3 DEF Before
<1> QED BY <1>2, <1>3 DEF InFront, t

(* Without a content type, none is in front.                                *)
LEMMA FrontBare ==
  ASSUME NEW s \in Seq(Items), NEW K \in SUBSET (1 .. 3), NEW ct \in BOOLEAN, InFront(s, K, ct),
         \A i \in 1 .. Len(s) : s[i].name # "Content-Type"
  PROVE  InFront(s, K, FALSE)
<1>1. ASSUME NEW k \in K, NEW j \in 1 .. Len(s), s[j].name = Protocol[k], NEW i \in 1 .. j - 1
      PROVE  Before(s[i].name, K, k, FALSE)
  <2>1. Before(s[i].name, K, k, ct) /\ i \in 1 .. Len(s)
    BY <1>1 DEF InFront
  <2> QED BY <2>1 DEF Before
<1> QED BY <1>1 DEF InFront

(* What setting and erasing leave in front: the fields of other names, or   *)
(* all of them when the item keeps its place.                               *)
LEMMA ErasedFront ==
  ASSUME NEW s \in Seq(Items), NEW n, NEW K \in SUBSET (1 .. 3), NEW ct \in BOOLEAN,
         InFront(s, K, ct)
  PROVE  InFront(Erased(s, n), {k \in K : Protocol[k] # n}, TRUE)
<1> DEFINE L == {k \in K : Protocol[k] # n}
<1>1. CASE ~Has(s, n)
  <2>1. L = K
    <3> SUFFICES ASSUME NEW k \in K PROVE Protocol[k] # n
      OBVIOUS
    <3> QED BY <1>1 DEF InFront, Has
  <2>2. InFront(s, K, TRUE)
    BY FrontNames
  <2> QED BY <1>1, <2>1, <2>2 DEF Erased
<1>2. CASE Has(s, n)
  <2> DEFINE m == First(s, n)
  <2>1. m \in 1 .. Len(s) /\ s[m].name = n /\ Erased(s, n) = RemoveAt(s, m)
    BY <1>2, FirstIs DEF Erased
  <2> HIDE DEF m
  <2>2. InFront(RemoveAt(s, m), L, ct)
    BY <2>1, FrontRemoved
  <2>3. RemoveAt(s, m) \in Seq(Items)
    BY <2>1, RemoveAtIs
  <2>4. L \in SUBSET (1 .. 3)
    OBVIOUS
  <2> HIDE DEF L
  <2>5. InFront(RemoveAt(s, m), L, TRUE)
    BY <2>2, <2>3, <2>4, FrontNames
  <2> QED BY <2>1, <2>5 DEF L
<1> QED BY <1>1, <1>2

LEMMA WithFront ==
  ASSUME NEW s \in Seq(Items), NEW n \in Names, NEW c \in Contents,
         NEW K \in SUBSET (1 .. 3), NEW ct \in BOOLEAN, InFront(s, K, ct)
  PROVE  InFront(With(s, n, c), IF InPlace(s, n, c) THEN K ELSE {k \in K : Protocol[k] # n}, TRUE)
<1> DEFINE e == Item(n, c)
<1>1. e \in Items /\ e.name = n
  BY DEF Item, Items
<1> HIDE DEF e
<1>2. CASE InPlace(s, n, c)
  <2> DEFINE m == First(s, n)
  <2>1. m \in 1 .. Len(s) /\ s[m].name = n
    BY <1>2, FirstIs DEF InPlace
  <2>2. With(s, n, c) = [s EXCEPT ![m] = e]
    BY <1>2 DEF With, e
  <2> HIDE DEF m
  <2> DEFINE t == [s EXCEPT ![m] = e]
  <2>3. t \in Seq(Items) /\ Len(t) = Len(s) /\ \A i \in 1 .. Len(s) : t[i].name = s[i].name
    BY <1>1, <2>1
  <2> HIDE DEF t
  <2>4. InFront(t, K, TRUE)
    BY <2>3, FrontNames
  <2> QED BY <1>2, <2>2, <2>4 DEF t
<1>3. CASE ~InPlace(s, n, c)
  <2> DEFINE t == Erased(s, n)
             L == {k \in K : Protocol[k] # n}
  <2>1. t \in Seq(Items) /\ InFront(t, L, TRUE) /\ L \in SUBSET (1 .. 3)
        /\ \A k \in L : e.name # Protocol[k]
    BY <1>1, ErasedIs, ErasedFront
  <2>2. With(s, n, c) = Append(t, e)
    BY <1>3 DEF With, e
  <2> HIDE DEF t, L
  <2>3. InFront(Append(t, e), L, TRUE)
    BY <1>1, <2>1, FrontAppend
  <2> QED BY <1>3, <2>2, <2>3 DEF L
<1> QED BY <1>2, <1>3

(* Packing puts the content type behind all the others.                     *)
LEMMA ContentTypeLastIs ==
  ASSUME NEW s \in Seq(Items)
  PROVE  LET t == ContentTypeLast(s) IN
         /\ t \in Seq(Items) /\ Len(t) = Len(s)
         /\ \A n : n # "Content-Type" => Shown(t, n) = Shown(s, n)
         /\ \A n : Shown(s, n) # Unknown => Shown(t, n) = Shown(s, n)
         /\ Once(s) => \A i \in 1 .. Len(t) : t[i].name = "Content-Type" => i = Len(t)
         /\ \A K \in SUBSET (1 .. 3) : Once(s) /\ InFront(s, K, TRUE) => InFront(t, K, FALSE)
<1> DEFINE n == "Content-Type"
           k == First(s, n)
           r == RemoveAt(s, k)
           t == Append(r, s[k])
<1>1. CASE ~Has(s, n)
  <2>1. ContentTypeLast(s) = s
    BY <1>1 DEF ContentTypeLast
  <2>2. \A i \in 1 .. Len(s) : s[i].name # n
    BY <1>1 DEF Has
  <2>3. \A K \in SUBSET (1 .. 3) : InFront(s, K, TRUE) => InFront(s, K, FALSE)
    BY <2>2, FrontBare
  <2> QED BY <2>1, <2>2, <2>3
<1>2. CASE Has(s, n)
  <2>1. ContentTypeLast(s) = t
    BY <1>2 DEF ContentTypeLast
  <2>2. /\ k \in 1 .. Len(s) /\ s[k].name = n /\ r \in Seq(Items) /\ Len(r) = Len(s) - 1
        /\ Len(s) \in Nat
        /\ \A i \in 1 .. Len(s) - 1 : r[i] = IF i < k THEN s[i] ELSE s[i + 1]
    BY <1>2, ErasedNames DEF Erased
  <2> HIDE DEF k
  <2>3. \A m : m # n => Shown(r, m) = Shown(s, m)
    BY <2>2, RemoveShows
  <2>4. s[k] \in Items
    BY <2>2
  <2> HIDE DEF r
  <2>5. /\ t \in Seq(Items) /\ Len(t) = Len(s)
        /\ \A i \in 1 .. Len(s) : t[i] = IF i = Len(s) THEN s[k] ELSE r[i]
    BY <2>2, <2>4, AppendIs
  <2>6. \A m : m # n => Shown(t, m) = Shown(s, m)
    BY <2>2, <2>3, <2>4, AppendShows
  <2>7. Shown(s, n) # Unknown => \A i \in 1 .. Len(r) : r[i].name # n
    <3>1. Shown(s, n) # Unknown => \A i \in 1 .. Len(s) : s[i].name = n => i = k
      BY <2>2, ShownMany
    <3> QED BY <2>2, <3>1
  <2>8. Shown(s, n) # Unknown => Shown(t, n) = Shown(s, n)
    <3>1. Shown(s, n) # Unknown => Shown(s, n) = s[k].content
      BY <2>2, ShownMany, ShownOne
    <3>2. (\A i \in 1 .. Len(r) : r[i].name # n) => Shown(t, n) = s[k].content
      BY <2>2, <2>4, AppendShows
    <3> QED BY <2>7, <3>1, <3>2
  <2> HIDE DEF t
  <2>9. Once(s) => \A i \in 1 .. Len(t) : t[i].name = "Content-Type" => i = Len(t)
    <3>1. Once(s) => \A i \in 1 .. Len(s) : s[i].name = n => i = k
      BY <2>2 DEF Once
    <3> QED BY <2>2, <2>5, <3>1
  <2>10. ASSUME NEW K \in SUBSET (1 .. 3), Once(s), InFront(s, K, TRUE)
         PROVE  InFront(t, K, FALSE)
    <3>1. {i \in K : Protocol[i] # s[k].name} = K
      BY <2>2, ConstantNames
    <3>2. InFront(RemoveAt(s, k), {i \in K : Protocol[i] # s[k].name}, TRUE)
      BY <2>2, <2>10, FrontRemoved
    <3>3. InFront(r, K, TRUE)
      BY <3>1, <3>2 DEF r
    <3>4. \A i \in 1 .. Len(r) : r[i].name # n
      BY <2>2, <2>10 DEF Once
    <3>5. InFront(r, K, FALSE)
      BY <2>2, <3>3, <3>4, FrontBare
    <3>6. \A i \in K : s[k].name # Protocol[i]
      BY <2>2, ConstantNames
    <3>7. InFront(Append(r, s[k]), K, FALSE)
      BY <2>2, <2>4, <3>5, <3>6, FrontAppend
    <3> QED BY <3>7 DEF t
  <2> QED BY <2>1, <2>5, <2>6, <2>8, <2>9, <2>10
<1> QED BY <1>1, <1>2

(* The invariant in terms of Once.                                          *)
LEMMA OnceIs ==
  ASSUME items \in Seq(Items)
  PROVE  ContentTypeOnce <=> (unpack_end_at_content_type => Once(items))
BY DEF ContentTypeOnce, Once

LEMMA InitInv == Init => IInv
BY DEF Init, IInv, TypeOK, ContentTypeOnce, EndsWithContentType, Leads

LEMMA SetInv ==
  ASSUME IInv, NEW n \in Names, NEW c \in Contents, Set(n, c)
  PROVE  IInv'
<1>1. /\ items \in Seq(Items) /\ items' = With(items, n, c) /\ asked'.call = "set"
      /\ unpack_end_at_content_type' = unpack_end_at_content_type /\ origin' = origin
  BY DEF Set, Asks, IInv, TypeOK
<1>2. TypeOK'
  <2>1. items' \in Seq(Items)
    BY <1>1, WithShows
  <2>2. moved' \subseteq Leading
    BY DEF Set, IInv, TypeOK
  <2> QED BY <1>1, <2>1, <2>2 DEF IInv, TypeOK
<1>3. ContentTypeOnce'
  <2>1. unpack_end_at_content_type => Once(items')
    BY <1>1, OnceIs, WithOnce DEF IInv
  <2> QED BY <1>1, <1>2, <2>1 DEF ContentTypeOnce, Once, TypeOK
<1>4. EndsWithContentType'
  BY <1>1 DEF EndsWithContentType
<1>5. Leads'
  <2> SUFFICES ASSUME origin \in {"send_req", "ack"}
               PROVE  unpack_end_at_content_type' /\ InFront(items', Kept', TRUE)
    BY <1>1 DEF Leads
  <2>1. unpack_end_at_content_type /\ InFront(items, Kept, asked.call # "pack")
        /\ Kept \in SUBSET (1 .. 3)
    BY DEF IInv, Leads, Kept
  <2>2. Kept' = IF InPlace(items, n, c) THEN Kept ELSE {k \in Kept : Protocol[k] # n}
    <3>1. moved' = IF InPlace(items, n, c) THEN moved ELSE moved \cup ({n} \cap Leading)
      BY DEF Set
    <3>2. \A k \in 1 .. 3 : Protocol[k] \in Leading
      BY DEF Leading
    <3> QED BY <3>1, <3>2 DEF Kept
  <2> DEFINE K == Kept
             ct == asked.call # "pack"
  <2> HIDE DEF K, ct
  <2>3. InFront(items, K, ct) /\ K \in SUBSET (1 .. 3) /\ ct \in BOOLEAN
    BY <2>1 DEF K, ct
  <2>4. InFront(With(items, n, c),
              IF InPlace(items, n, c) THEN K ELSE {k \in K : Protocol[k] # n}, TRUE)
    BY <1>1, <2>3, WithFront
  <2> QED BY <1>1, <2>1, <2>2, <2>4 DEF K
<1> QED BY <1>2, <1>3, <1>4, <1>5 DEF IInv

(* Each call that sets gives a name a content.                              *)
LEMMA SetsAre ==
  ASSUME SetOwn \/ SetHeader \/ SetContentType
  PROVE  \E n \in Names, c \in Contents : Set(n, c)
<1>1. CASE SetOwn
  <2>1. PICK it \in OwnItems : Set(it.name, it.content)
    BY <1>1 DEF SetOwn
  <2>2. /\ it.name \in {"From", "To", "Subject", "X-Mms-Expiry"} \cup Reports
        /\ it.content \in Contents
    BY OwnItemsAre
  <2>3. it.name \in Names
    BY <2>2, ConstantNames DEF Reports
  <2> QED BY <2>1, <2>2, <2>3
<1>2. CASE SetHeader
  <2>1. PICK n \in Open, c \in Contents : Set(n, c)
    BY <1>2, OwnItemsAre DEF SetHeader
  <2> QED BY <2>1, HeaderAssumption
<1>3. CASE SetContentType
  BY <1>3, OwnItemsAre, ConstantNames DEF SetContentType
<1> QED BY <1>1, <1>2, <1>3

LEMMA EraseInv ==
  ASSUME IInv, NEW n \in Open, Erase(n)
  PROVE  IInv'
<1>1. /\ items \in Seq(Items) /\ items' = Erased(items, n) /\ asked'.call = "erase"
      /\ unpack_end_at_content_type' = unpack_end_at_content_type /\ origin' = origin
      /\ moved' = moved \cup ({n} \cap Leading)
  BY DEF Erase, Asks, IInv, TypeOK
<1>2. TypeOK'
  BY <1>1, ErasedIs DEF IInv, TypeOK
<1>3. ContentTypeOnce'
  <2>1. unpack_end_at_content_type => Once(items')
    BY <1>1, OnceIs, ErasedOnce DEF IInv
  <2> QED BY <1>1, <1>2, <2>1 DEF ContentTypeOnce, Once, TypeOK
<1>4. EndsWithContentType'
  BY <1>1 DEF EndsWithContentType
<1>5. Leads'
  <2> SUFFICES ASSUME origin \in {"send_req", "ack"}
               PROVE  unpack_end_at_content_type' /\ InFront(items', Kept', TRUE)
    BY <1>1 DEF Leads
  <2>1. unpack_end_at_content_type /\ InFront(items, Kept, asked.call # "pack")
        /\ Kept \in SUBSET (1 .. 3)
    BY DEF IInv, Leads, Kept
  <2>2. Kept' = {k \in Kept : Protocol[k] # n}
    <3>1. \A k \in 1 .. 3 : Protocol[k] \in Leading
      BY DEF Leading
    <3> QED BY <1>1, <3>1 DEF Kept
  <2> DEFINE K == Kept
             ct == asked.call # "pack"
  <2> HIDE DEF K, ct
  <2>3. InFront(items, K, ct) /\ K \in SUBSET (1 .. 3) /\ ct \in BOOLEAN
    BY <2>1 DEF K, ct
  <2>4. InFront(Erased(items, n), {k \in K : Protocol[k] # n}, TRUE)
    BY <1>1, <2>3, ErasedFront
  <2> QED BY <1>1, <2>1, <2>2, <2>4 DEF K
<1> QED BY <1>2, <1>3, <1>4, <1>5 DEF IInv

LEMMA ClearInv == IInv /\ Clear => IInv'
BY DEF IInv, Clear, Calls, Asks, TypeOK, ContentTypeOnce, EndsWithContentType, Leads

LEMMA PackInv ==
  ASSUME IInv, Pack
  PROVE  IInv'
<1>1. /\ items \in Seq(Items) /\ asked'.call = "pack" /\ unpack_end_at_content_type \in BOOLEAN
      /\ unpack_end_at_content_type' = unpack_end_at_content_type /\ origin' = origin
      /\ moved' = moved
      /\ items' = IF unpack_end_at_content_type THEN ContentTypeLast(items) ELSE items
  BY DEF Pack, Calls, Asks, IInv, TypeOK
<1>2. TypeOK'
  BY <1>1, ContentTypeLastIs DEF IInv, TypeOK
<1>3. unpack_end_at_content_type =>
        \A i \in 1 .. Len(items') : items'[i].name = "Content-Type" => i = Len(items')
  BY <1>1, OnceIs, ContentTypeLastIs DEF IInv
<1>4. DOMAIN items' = 1 .. Len(items')
  BY <1>2 DEF TypeOK
<1>5. ContentTypeOnce' /\ EndsWithContentType'
  BY <1>1, <1>3, <1>4 DEF ContentTypeOnce, EndsWithContentType
<1>6. Leads'
  <2> SUFFICES ASSUME origin \in {"send_req", "ack"}
               PROVE  unpack_end_at_content_type' /\ InFront(items', Kept', FALSE)
    BY <1>1 DEF Leads
  <2>1. unpack_end_at_content_type /\ InFront(items, Kept, asked.call # "pack")
        /\ Kept \in SUBSET (1 .. 3) /\ Kept' = Kept
    BY DEF IInv, Leads, Kept, Pack
  <2> DEFINE K == Kept
             ct == asked.call # "pack"
  <2> HIDE DEF K, ct
  <2>2. InFront(items, K, ct) /\ K \in SUBSET (1 .. 3) /\ ct \in BOOLEAN
    BY <2>1 DEF K, ct
  <2>3. InFront(items, K, TRUE)
    BY <1>1, <2>2, FrontNames
  <2>4. Once(items)
    BY <1>1, <2>1, OnceIs DEF IInv
  <2>5. InFront(ContentTypeLast(items), K, FALSE)
    BY <1>1, <2>2, <2>3, <2>4, ContentTypeLastIs
  <2> QED BY <1>1, <2>1, <2>5 DEF K
<1> QED BY <1>2, <1>5, <1>6 DEF IInv

LEMMA UnpackInv ==
  ASSUME IInv, Unpack
  PROVE  IInv'
<1>1. PICK s \in Readable :
        items' = IF unpack_end_at_content_type THEN UpToContentType(s) ELSE s
  BY DEF Unpack
<1>2. /\ moved' = {} /\ origin' = "received" /\ asked'.call = "unpack" /\ unpack_end_at_content_type \in BOOLEAN
      /\ unpack_end_at_content_type' = unpack_end_at_content_type
  BY DEF Unpack, Calls, Asks, IInv, TypeOK
<1>3. s \in Seq(Items)
  BY HeaderAssumption DEF Readable, IInv, TypeOK
<1> DEFINE t == UpToContentType(s)
<1>4. t \in Seq(Items) /\ Once(t)
  <2>1. CASE ~Has(s, "Content-Type")
    BY <1>3, <2>1 DEF UpToContentType, Once, Has
  <2>2. CASE Has(s, "Content-Type")
    <3> DEFINE k == First(s, "Content-Type")
    <3>1. k \in 1 .. Len(s) /\ \A j \in 1 .. Len(s) : s[j].name = "Content-Type" => k <= j
      BY <1>3, <2>2, FirstIs
    <3>2. t = SubSeq(s, 1, k)
      BY <2>2 DEF UpToContentType
    <3> HIDE DEF k
    <3>3. t \in Seq(Items) /\ Len(t) = k /\ \A i \in 1 .. k : t[i] = s[i]
      BY <1>3, <3>1, <3>2
    <3> HIDE DEF t
    <3>4. \A i \in 1 .. Len(t) : t[i].name = "Content-Type" => i = k
      BY <1>3, <3>1, <3>3
    <3> QED BY <3>3, <3>4 DEF Once
  <2> QED BY <2>1, <2>2
<1> HIDE DEF t
<1>5. TypeOK'
  BY <1>1, <1>2, <1>3, <1>4 DEF t, TypeOK
<1>6. ContentTypeOnce'
  <2>1. unpack_end_at_content_type => Once(items')
    BY <1>1, <1>4 DEF t
  <2> QED BY <1>2, <1>5, <2>1 DEF ContentTypeOnce, Once, TypeOK
<1>7. EndsWithContentType' /\ Leads'
  BY <1>2 DEF EndsWithContentType, Leads
<1> QED BY <1>5, <1>6, <1>7 DEF IInv

(* The three fields, alone or behind a content type, are in front.          *)
LEMMA FrontComposed ==
  ASSUME NEW s \in Seq(Items), NEW m \in {0, 1}, m + 3 <= Len(s),
         m = 1 => s[1].name = "Content-Type",
         \A i \in 1 .. 3 : s[m + i].name = Protocol[i],
         \A i \in m + 4 .. Len(s), k \in 1 .. 3 : s[i].name # Protocol[k]
  PROVE  InFront(s, 1 .. 3, TRUE)
<1>1. Len(s) \in Nat
  OBVIOUS
<1>2. ASSUME NEW k \in 1 .. 3
      PROVE  \E j \in 1 .. Len(s) : s[j].name = Protocol[k]
  <2>1. m + k \in 1 .. Len(s)
    BY <1>1
  <2> QED BY <2>1
<1>3. ASSUME NEW k \in 1 .. 3, NEW j \in 1 .. Len(s), s[j].name = Protocol[k], NEW i \in 1 .. j - 1
      PROVE  Before(s[i].name, 1 .. 3, k, TRUE)
  <2>1. ~(m = 1 /\ j = 1)
    BY <1>3, ConstantNames
  <2>2. j \notin m + 4 .. Len(s)
    BY <1>3
  <2>3. j - m \in 1 .. 3
    BY <1>1, <2>1, <2>2
  <2>4. m + (j - m) = j
    BY <1>1
  <2>5. s[j].name = Protocol[j - m]
    BY <2>3, <2>4
  <2>6. j - m = k
    BY <1>3, <2>3, <2>5, ConstantNames
  <2>7. CASE m = 1 /\ i = 1
    BY <2>7 DEF Before
  <2>8. CASE ~(m = 1 /\ i = 1)
    <3>1. i - m \in 1 .. 3 /\ i - m < k /\ m + (i - m) = i
      BY <1>1, <2>6, <2>8
    <3>2. s[i].name = Protocol[i - m]
      BY <3>1
    <3> QED BY <3>1, <3>2 DEF Before
  <2> QED BY <2>7, <2>8
<1> QED BY <1>2, <1>3 DEF InFront

(* What is composed: items, with the protocol fields behind the content     *)
(* type, which is there once.                                               *)
LEMMA SendReqIs ==
  ASSUME NEW ct \in ContentTypes, NEW id \in Texts, NEW date \in Times,
         NEW e \in {<<>>} \cup {<<Item("X-Mms-Expiry", Time("absolute", t))>> : t \in Times}
  PROVE  LET s == SendReq(Object(ct), String(id), Long(date), e) IN
         /\ s \in Seq(Items) /\ Once(s) /\ InFront(s, 1 .. 3, TRUE)
<1> DEFINE a == <<Item("Content-Type", Object(ct)), Item(Protocol[1], Long("send_req")),
                  Item(Protocol[2], String(id)), Item(Protocol[3], Long("yes")),
                  Item("From", Long(Token))>>
           b == <<Item("Date", Long(date)), Item("X-Mms-Delivery-Report", Long("no")),
                  Item("X-Mms-Read-Report", Long("no"))>>
<1>1. \A n \in Names, c \in Contents : Item(n, c) \in Items /\ Item(n, c).name = n
  BY DEF Item, Items
<1>2. /\ a \in Seq(Items) /\ Len(a) = 5
      /\ a[1].name = "Content-Type" /\ a[2].name = Protocol[1] /\ a[3].name = Protocol[2]
      /\ a[4].name = Protocol[3] /\ a[5].name = "From"
  <2>1. /\ Item("Content-Type", Object(ct)) \in Items /\ Item(Protocol[1], Long("send_req")) \in Items
        /\ Item(Protocol[2], String(id)) \in Items /\ Item(Protocol[3], Long("yes")) \in Items
        /\ Item("From", Long(Token)) \in Items
    BY <1>1, OwnItemsAre, ConstantNames
  <2>2. /\ Item("Content-Type", Object(ct)).name = "Content-Type"
        /\ Item(Protocol[1], Long("send_req")).name = Protocol[1]
        /\ Item(Protocol[2], String(id)).name = Protocol[2]
        /\ Item(Protocol[3], Long("yes")).name = Protocol[3]
        /\ Item("From", Long(Token)).name = "From"
    BY DEF Item
  <2> QED BY <2>1, <2>2
<1>3. b \in Seq(Items) /\ Len(b) = 3 /\ \A i \in 1 .. 3 : b[i].name # "Content-Type"
  <2>1. /\ Item("Date", Long(date)) \in Items /\ Item("X-Mms-Delivery-Report", Long("no")) \in Items
        /\ Item("X-Mms-Read-Report", Long("no")) \in Items
    BY <1>1, OwnItemsAre, ConstantNames
  <2>2. /\ Item("Date", Long(date)).name = "Date"
        /\ Item("X-Mms-Delivery-Report", Long("no")).name = "X-Mms-Delivery-Report"
        /\ Item("X-Mms-Read-Report", Long("no")).name = "X-Mms-Read-Report"
    BY DEF Item
  <2>3. b \in Seq(Items) /\ Len(b) = 3
    BY <2>1
  <2>4. b[1].name # "Content-Type" /\ b[2].name # "Content-Type" /\ b[3].name # "Content-Type"
    BY <2>2
  <2> QED BY <2>3, <2>4
<1>4. e \in Seq(Items) /\ Len(e) \in Nat /\ \A i \in 1 .. Len(e) : e[i].name # "Content-Type"
  <2>1. CASE e = <<>>
    BY <2>1
  <2>2. CASE \E t \in Times : e = <<Item("X-Mms-Expiry", Time("absolute", t))>>
    <3>1. PICK t \in Times : e = <<Item("X-Mms-Expiry", Time("absolute", t))>>
      BY <2>2
    <3>2. Item("X-Mms-Expiry", Time("absolute", t)) \in Items
          /\ Item("X-Mms-Expiry", Time("absolute", t)).name # "Content-Type"
      BY <1>1, OwnItemsAre, ConstantNames
    <3> QED BY <3>1, <3>2
  <2> QED BY <2>1, <2>2
<1>5. SendReq(Object(ct), String(id), Long(date), e) = (a \o e) \o b
  BY DEF SendReq
<1> HIDE DEF a, b
<1> DEFINE u == a \o e
           s == u \o b
<1>6. /\ u \in Seq(Items) /\ Len(u) = 5 + Len(e)
      /\ \A i \in 1 .. 5 + Len(e) : u[i] = IF i <= 5 THEN a[i] ELSE e[i - 5]
  <2>1. /\ u \in Seq(Items) /\ Len(u) = Len(a) + Len(e)
        /\ \A i \in 1 .. Len(a) + Len(e) : u[i] = IF i <= Len(a) THEN a[i] ELSE e[i - Len(a)]
    BY <1>2, <1>4, ConcatProperties
  <2> QED BY <1>2, <2>1
<1> HIDE DEF u
<1>7. /\ s \in Seq(Items) /\ Len(s) = Len(u) + 3
      /\ \A i \in 1 .. Len(u) + 3 : s[i] = IF i <= Len(u) THEN u[i] ELSE b[i - Len(u)]
  <2>1. /\ s \in Seq(Items) /\ Len(s) = Len(u) + Len(b)
        /\ \A i \in 1 .. Len(u) + Len(b) : s[i] = IF i <= Len(u) THEN u[i] ELSE b[i - Len(u)]
    BY <1>3, <1>6, ConcatProperties
  <2> QED BY <1>3, <2>1
<1> HIDE DEF s
<1>8. Len(s) = 8 + Len(e) /\ \A i \in 1 .. 5 : s[i] = a[i]
  BY <1>4, <1>6, <1>7
<1>9. \A i \in 2 .. 8 + Len(e) : s[i].name # "Content-Type"
  <2> SUFFICES ASSUME NEW i \in 2 .. 8 + Len(e) PROVE s[i].name # "Content-Type"
    OBVIOUS
  <2>1. CASE i <= 5
    <3>1. i \in {2, 3, 4, 5} /\ s[i] = a[i]
      BY <1>8, <2>1
    <3>2. /\ a[2].name # "Content-Type" /\ a[3].name # "Content-Type"
          /\ a[4].name # "Content-Type" /\ a[5].name # "Content-Type"
      BY <1>2, ConstantNames
    <3> QED BY <3>1, <3>2
  <2>2. CASE i > 5 /\ i <= 5 + Len(e)
    <3>1. s[i] = e[i - 5] /\ i - 5 \in 1 .. Len(e)
      BY <1>4, <1>6, <1>7, <2>2
    <3> QED BY <1>4, <3>1
  <2>3. CASE i > 5 + Len(e)
    <3>1. s[i] = b[i - Len(u)] /\ i - Len(u) \in 1 .. 3
      BY <1>4, <1>6, <1>7, <2>3
    <3> QED BY <1>3, <3>1
  <2> QED BY <1>4, <2>1, <2>2, <2>3
<1>10. Once(s)
  <2>1. \A i \in 1 .. Len(s) : s[i].name = "Content-Type" => i = 1
    BY <1>4, <1>8, <1>9
  <2> QED BY <2>1 DEF Once
<1>11. InFront(s, 1 .. 3, TRUE)
  <2>1. \A i \in 1 .. 3 : s[1 + i].name = Protocol[i]
    <3>1. 1 .. 3 = {1, 2, 3}
      OBVIOUS
    <3>2. s[2].name = Protocol[1] /\ s[3].name = Protocol[2] /\ s[4].name = Protocol[3]
      BY <1>2, <1>8
    <3> QED BY <3>1, <3>2
  <2>2. \A i \in 1 + 4 .. Len(s), k \in 1 .. 3 : s[i].name # Protocol[k]
    <3> SUFFICES ASSUME NEW i \in 5 .. 8 + Len(e) PROVE \A k \in 1 .. 3 : s[i].name # Protocol[k]
      BY <1>8
    <3>1. 1 .. 3 = {1, 2, 3}
      OBVIOUS
    <3>2. CASE i = 5
      BY <1>2, <1>8, <3>1, <3>2, ConstantNames
    <3>3. CASE i > 5 /\ i <= 5 + Len(e)
      <4>1. s[i] = e[i - 5] /\ i - 5 \in 1 .. Len(e)
        BY <1>4, <1>6, <1>7, <3>3
      <4>2. e[i - 5].name = "X-Mms-Expiry"
        <5>1. PICK t \in Times : e = <<Item("X-Mms-Expiry", Time("absolute", t))>>
          BY <4>1
        <5>2. Len(e) = 1 /\ e[1].name = "X-Mms-Expiry"
          BY <5>1 DEF Item
        <5> QED BY <4>1, <5>2
      <4> QED BY <3>1, <4>1, <4>2, ConstantNames
    <3>4. CASE i > 5 + Len(e)
      <4>1. s[i] = b[i - Len(u)] /\ i - Len(u) \in {1, 2, 3}
        BY <1>4, <1>6, <1>7, <3>4
      <4>2. b[1].name = "Date" /\ b[2].name = "X-Mms-Delivery-Report"
            /\ b[3].name = "X-Mms-Read-Report"
        BY DEF b, Item
      <4>3. b[i - Len(u)].name \in {"Date", "X-Mms-Delivery-Report", "X-Mms-Read-Report"}
        BY <4>1, <4>2
      <4> QED BY <3>1, <4>1, <4>3, ConstantNames
    <3> QED BY <1>4, <3>2, <3>3, <3>4
  <2>3. 1 + 3 <= Len(s) /\ s[1].name = "Content-Type"
    BY <1>2, <1>4, <1>8
  <2> QED BY <1>7, <2>1, <2>2, <2>3, FrontComposed
<1> QED BY <1>5, <1>7, <1>10, <1>11 DEF s, u

LEMMA ComposeInv ==
  ASSUME IInv, CreateSendReq \/ CreateDeliveryAck
  PROVE  IInv'
<1>1. /\ asked'.call = "compose" /\ unpack_end_at_content_type
      /\ unpack_end_at_content_type' = unpack_end_at_content_type
      /\ origin' \in {"send_req", "ack"} /\ moved' = {}
  BY DEF CreateSendReq, CreateDeliveryAck, Calls, Asks
<1>2. items' \in Seq(Items) /\ Once(items') /\ InFront(items', 1 .. 3, TRUE)
  <2>1. CASE CreateSendReq
    <3>1. PICK ct \in ContentTypes, id \in Texts, date \in Times,
               e \in {<<>>} \cup {<<Item("X-Mms-Expiry", Time("absolute", t))>> : t \in Times} :
                 items' = SendReq(Object(ct), String(id), Long(date), e)
      BY <2>1 DEF CreateSendReq
    <3> DEFINE s == SendReq(Object(ct), String(id), Long(date), e)
    <3>2. s \in Seq(Items) /\ Once(s) /\ InFront(s, 1 .. 3, TRUE)
      BY SendReqIs
    <3> HIDE DEF s
    <3>3. items' = s
      BY <3>1 DEF s
    <3> QED BY <3>2, <3>3
  <2>2. CASE CreateDeliveryAck
    <3>1. PICK id \in Texts :
            items' = <<Item(Protocol[1], Long("ack")), Item(Protocol[2], String(id)),
                       Item(Protocol[3], Long("yes"))>>
      BY <2>2 DEF CreateDeliveryAck
    <3>2. /\ Item(Protocol[1], Long("ack")) \in Items /\ Item(Protocol[2], String(id)) \in Items
          /\ Item(Protocol[3], Long("yes")) \in Items
      BY OwnItemsAre, ConstantNames DEF Item, Items
    <3>3. /\ Item(Protocol[1], Long("ack")).name = Protocol[1]
          /\ Item(Protocol[2], String(id)).name = Protocol[2]
          /\ Item(Protocol[3], Long("yes")).name = Protocol[3]
      BY DEF Item
    <3>4. items' \in Seq(Items) /\ Len(items') = 3
      BY <3>1, <3>2
    <3>5. items'[1].name = Protocol[1] /\ items'[2].name = Protocol[2] /\ items'[3].name = Protocol[3]
      BY <3>1, <3>3
    <3>6. 1 .. 3 = {1, 2, 3}
      OBVIOUS
    <3>7. \A i \in 1 .. 3 : items'[0 + i].name = Protocol[i]
      BY <3>5, <3>6
    <3>8. \A i \in 1 .. 3 : items'[i].name # "Content-Type"
      BY <3>5, <3>6, ConstantNames
    <3>9. Once(items')
      BY <3>4, <3>8 DEF Once
    <3> DEFINE s == items'
               m == 0
    <3>10. /\ s \in Seq(Items) /\ m \in {0, 1} /\ m + 3 <= Len(s)
           /\ (m = 1 => s[1].name = "Content-Type")
           /\ \A i \in 1 .. 3 : s[m + i].name = Protocol[i]
      BY <3>4, <3>7
    <3>11. \A i \in m + 4 .. Len(s), k \in 1 .. 3 : s[i].name # Protocol[k]
      BY <3>4
    <3> HIDE DEF s, m
    <3>12. InFront(s, 1 .. 3, TRUE)
      BY <3>10, <3>11, FrontComposed
    <3> QED BY <3>4, <3>9, <3>12 DEF s
  <2> QED BY <2>1, <2>2
<1>3. TypeOK'
  BY <1>1, <1>2 DEF IInv, TypeOK
<1>4. ContentTypeOnce' /\ EndsWithContentType'
  BY <1>1, <1>2, <1>3 DEF ContentTypeOnce, Once, EndsWithContentType, TypeOK
<1>5. Leads'
  <2>1. Kept' = 1 .. 3
    BY <1>1 DEF Kept
  <2> QED BY <1>1, <1>2, <2>1 DEF Leads
<1> QED BY <1>3, <1>4, <1>5 DEF IInv

LEMMA NextInv == IInv /\ [Next]_vars => IInv'
<1> SUFFICES ASSUME IInv, [Next]_vars PROVE IInv'
  OBVIOUS
<1>1. CASE SetOwn \/ SetHeader \/ SetContentType
  BY <1>1, SetsAre, SetInv
<1>2. CASE \E n \in Open : Erase(n)
  BY <1>2, EraseInv
<1>3. CASE Clear
  BY <1>3, ClearInv
<1>4. CASE CreateSendReq \/ CreateDeliveryAck
  BY <1>4, ComposeInv
<1>5. CASE Pack
  BY <1>5, PackInv
<1>6. CASE Unpack
  BY <1>6, UnpackInv
<1>7. CASE UNCHANGED vars
  BY <1>7 DEF vars, IInv, TypeOK, ContentTypeOnce, EndsWithContentType, Leads,
              Kept, InFront
<1> QED BY <1>1, <1>2, <1>3, <1>4, <1>5, <1>6, <1>7 DEF Next

(* The items of a header stay typed, a message's has one content type at    *)
(* most, last when packed, and the protocol's fields that no call moved     *)
(* stay in front: after any calls of mms_header.c and of the setters of     *)
(* mms.c, with any names.                                                   *)
THEOREM Invariance == Spec => []IInv
<1>1. Init => IInv
  BY InitInv
<1>2. IInv /\ [Next]_vars => IInv'
  BY NextInv
<1> QED BY <1>1, <1>2, PTL DEF Spec

(* The items are named and typed as the setters and the codecs make them.   *)
THEOREM TypesInvariant == Spec => []TypeOK
<1>1. IInv => TypeOK
  BY DEF IInv
<1> QED BY <1>1, Invariance, PTL

(* Nothing that is packed is lost behind the content type.                  *)
THEOREM AllRead == Spec => []WholeIsRead
<1>1. IInv => WholeIsRead
  <2> SUFFICES ASSUME IInv, asked.call = "pack", unpack_end_at_content_type
               PROVE  UpToContentType(items) = items
    BY DEF WholeIsRead
  <2>1. items \in Seq(Items)
    BY DEF IInv, TypeOK
  <2>2. CASE ~Has(items, "Content-Type")
    BY <2>2 DEF UpToContentType
  <2>3. CASE Has(items, "Content-Type")
    <3> DEFINE k == First(items, "Content-Type")
    <3>1. k \in 1 .. Len(items) /\ items[k].name = "Content-Type"
      BY <2>1, <2>3, FirstIs
    <3>2. UpToContentType(items) = SubSeq(items, 1, k)
      BY <2>3 DEF UpToContentType
    <3> HIDE DEF k
    <3>3. k = Len(items)
      BY <2>1, <3>1 DEF IInv, EndsWithContentType
    <3>4. SubSeq(items, 1, Len(items)) = items
      BY <2>1, SubSeqFull
    <3> QED BY <3>2, <3>3, <3>4
  <2> QED BY <2>2, <2>3
<1> QED BY <1>1, Invariance, PTL

(* The protocol's fields are first in what is packed of a composed message, *)
(* in their order, but for those that a caller erased or gave another type. *)
THEOREM ProtocolFirstInvariant == Spec => []ProtocolFirst
<1>1. IInv => ProtocolFirst
  <2> SUFFICES ASSUME IInv, origin \in {"send_req", "ack"}, asked.call = "pack", NEW k \in Kept
               PROVE  /\ Has(items, Protocol[k])
                      /\ \A j \in DOMAIN items : items[j].name = Protocol[k] =>
                           \A i \in 1 .. j - 1 :
                             \E l \in Kept : l < k /\ items[i].name = Protocol[l]
    BY DEF ProtocolFirst
  <2>1. InFront(items, Kept, FALSE) /\ DOMAIN items = 1 .. Len(items)
    <3>1. items \in Seq(Items)
      BY DEF IInv, TypeOK
    <3>2. InFront(items, Kept, asked.call # "pack")
      BY DEF IInv, Leads
    <3>3. InFront(items, Kept, FALSE)
      BY <3>2 DEF InFront, Before
    <3>4. DOMAIN items = 1 .. Len(items)
      BY <3>1
    <3> QED BY <3>3, <3>4, Zenon
  <2>2. Has(items, Protocol[k])
    BY <2>1 DEF InFront, Has
  <2>3. ASSUME NEW j \in DOMAIN items, items[j].name = Protocol[k], NEW i \in 1 .. j - 1
        PROVE  \E l \in Kept : l < k /\ items[i].name = Protocol[l]
    <3>1. Before(items[i].name, Kept, k, FALSE)
      BY <2>1, <2>3 DEF InFront
    <3> QED BY <3>1 DEF Before
  <2> QED BY <2>2, <2>3
<1> QED BY <1>1, Invariance, PTL

-----------------------------------------------------------------------------
(* The refinement.                                                          *)

Field == [n \in Names |-> Shown(items, n)]

LEMMA InitRefines == Init => Abstract!Init
<1> SUFFICES ASSUME Init PROVE Abstract!Init
  OBVIOUS
<1>1. \A n \in Names : Shown(items, n) = Absent
  BY DEF Init, Shown, Has
<1> QED BY <1>1 DEF Init, Abstract!Init

LEMMA BecomesIs ==
  ASSUME NEW n \in Names, NEW c,
         items \in Seq(Items), items' \in Seq(Items),
         \A m : m # n => Shown(items', m) = Shown(items, m),
         Shown(items, n) # Unknown => Shown(items', n) = c
  PROVE  Abstract!Becomes(n, c)
<1>1. \A m \in Names : Shown(items, m) = Field[m] /\ Shown(items', m) = Field'[m]
  BY DEF Field
<1>2. CASE Shown(items, n) # Unknown
  <2>1. Field' = [Field EXCEPT ![n] = c]
    BY <1>2 DEF Field
  <2> QED BY <1>1, <1>2, <2>1 DEF Abstract!Becomes, Field
<1>3. CASE Shown(items, n) = Unknown
  <2> DEFINE d == Shown(items', n)
  <2>1. d \in Contents \cup {Absent, Unknown}
    BY ShownIsField
  <2>2. Field' = [Field EXCEPT ![n] = d]
    BY DEF Field
  <2> QED BY <1>1, <1>3, <2>1, <2>2 DEF Abstract!Becomes, Field
<1> QED BY <1>2, <1>3

LEMMA NextRefines == IInv /\ IInv' /\ [Next]_vars => [Abstract!Next]_(Abstract!vars)
<1> SUFFICES ASSUME IInv, IInv', [Next]_vars
             PROVE  [Abstract!Next]_(Abstract!vars)
  OBVIOUS
<1>0. items \in Seq(Items) /\ items' \in Seq(Items)
  BY DEF IInv, TypeOK
<1>1. ASSUME NEW n \in Names, NEW c \in Contents, Set(n, c)
      PROVE  Abstract!Set
  <2>1. asked'.call = "set" /\ asked'.name = n /\ asked'.content = c /\ items' = With(items, n, c)
    BY <1>1 DEF Set, Asks
  <2>2. Abstract!Becomes(n, c)
    BY <1>0, <2>1, WithShows, BecomesIs
  <2> QED BY <2>1, <2>2 DEF Abstract!Set
<1>2. ASSUME NEW n \in Open, Erase(n)
      PROVE  Abstract!Erase
  <2>1. n \in Names /\ asked'.call = "erase" /\ asked'.name = n /\ items' = Erased(items, n)
    BY <1>2, HeaderAssumption DEF Erase, Asks
  <2>2. Shown(items, n) # Unknown => Shown(items', n) = Absent
    BY <1>0, <2>1, ErasedIs, ShownAbsent
  <2>3. Abstract!Becomes(n, Absent)
    BY <1>0, <2>1, <2>2, ErasedIs, BecomesIs
  <2> QED BY <2>1, <2>3 DEF Abstract!Erase
<1>3. CASE Clear
  <2>1. asked'.call = "clear" /\ items' = <<>>
    BY <1>3 DEF Clear, Calls, Asks
  <2>2. \A n \in Names : Shown(items', n) = Absent
    BY <2>1 DEF Shown, Has
  <2> QED BY <2>1, <2>2 DEF Abstract!Next, Abstract!Clear
<1>4. CASE CreateSendReq \/ CreateDeliveryAck \/ Unpack
  <2>1. asked'.call \in {"compose", "unpack"}
    BY <1>4 DEF CreateSendReq, CreateDeliveryAck, Unpack, Calls, Asks
  <2>2. \A n \in Names : Shown(items', n) \in Contents \cup {Absent, Unknown}
    BY <1>0, ShownIsField
  <2> QED BY <2>1, <2>2 DEF Abstract!Next, Abstract!Replace, Abstract!Fields
<1>5. CASE Pack
  <2>1. /\ asked'.call = "pack"
        /\ items' = IF unpack_end_at_content_type THEN ContentTypeLast(items) ELSE items
    BY <1>5 DEF Pack, Calls, Asks
  <2>2. \A n \in Names : Shown(items', n) = Shown(items, n)
    <3>1. CASE unpack_end_at_content_type
      <4> SUFFICES ASSUME NEW n \in Names PROVE Shown(items', n) = Shown(items, n)
        OBVIOUS
      <4>1. Shown(items, n) # Unknown => Shown(items', n) = Shown(items, n)
        BY <1>0, <2>1, <3>1, ContentTypeLastIs
      <4>2. \A m : m # "Content-Type" => Shown(items', m) = Shown(items, m)
        BY <1>0, <2>1, <3>1, ContentTypeLastIs
      <4>3. Shown(items, "Content-Type") # Unknown
        <5>1. Once(items)
          BY <1>0, <3>1, OnceIs DEF IInv
        <5>2. CASE \A i \in 1 .. Len(items) : items[i].name # "Content-Type"
          BY <1>0, <5>2, ShownAbsent, HeaderAssumption
        <5>3. CASE \E k \in 1 .. Len(items) : items[k].name = "Content-Type"
          <6>1. PICK k \in 1 .. Len(items) : items[k].name = "Content-Type"
            BY <5>3
          <6>2. \A i \in 1 .. Len(items) : items[i].name = "Content-Type" => i = k
            BY <5>1, <6>1 DEF Once
          <6>3. Shown(items, "Content-Type") = items[k].content
            BY <1>0, <6>1, <6>2, ShownOne
          <6>4. items[k] \in Items
            BY <1>0, <6>1
          <6>5. items[k].content \in Contents
            BY <6>4 DEF Items
          <6> QED BY <6>3, <6>5, HeaderAssumption
        <5> QED BY <5>2, <5>3
      <4> QED BY <4>1, <4>2, <4>3
    <3>2. CASE ~unpack_end_at_content_type
      BY <2>1, <3>2
    <3> QED BY <3>1, <3>2
  <2> QED BY <2>1, <2>2 DEF Abstract!Next, Abstract!Pack
<1>6. CASE UNCHANGED vars
  BY <1>6 DEF vars, Abstract!vars, Shown, Has, First
<1>7. CASE SetOwn \/ SetHeader \/ SetContentType
  BY <1>1, <1>7, SetsAre DEF Abstract!Next
<1>8. CASE \E n \in Open : Erase(n)
  BY <1>2, <1>8 DEF Abstract!Next
<1> QED BY <1>3, <1>4, <1>5, <1>6, <1>7, <1>8 DEF Next

(* The list of items is a map from names to what was set last.              *)
THEOREM Refinement == Spec => ImplementsFields
<1>1. Init => Abstract!Init
  BY InitRefines
<1>2. IInv /\ IInv' /\ [Next]_vars => [Abstract!Next]_(Abstract!vars)
  BY NextRefines
<1> QED BY <1>1, <1>2, Invariance, PTL DEF Spec, ImplementsFields, Abstract!Spec

=============================================================================
