---------------------------- MODULE MmsList_proofs ----------------------------
(***************************************************************************)
(* Theorems about MmsList, for any memory of nodes, any data and any       *)
(* compare functions: its invariants, and that it implements ListSequence. *)
(*                                                                         *)
(* The invariant is a conjunction of four, none of which is one alone.     *)
(* LinksAgree needs WalkInOrder where a node is removed in mid-walk, for   *)
(* the place of that node in the order; OwnedOnce keeps a removed datum    *)
(* from staying in the list.                                               *)
(***************************************************************************)
EXTENDS MmsList, SequenceFacts

IInv == TypeOK /\ LinksAgree /\ WalkInOrder /\ OwnedOnce

-----------------------------------------------------------------------------
(* No node in use: the list has neither head nor tail.                      *)
LEMMA EmptyOrNot ==
  ASSUME TypeOK, LinksAgree
  PROVE  /\ Len(order) \in Nat /\ DOMAIN order = 1 .. Len(order)
         /\ order = <<>> <=> Len(order) = 0
         /\ \A i \in 1 .. Len(order) : order[i] \in Nodes /\ order[i] # Null
         /\ head = Null <=> order = <<>>
         /\ list # "closing" => (tail = Null <=> order = <<>>)
BY ListAssumption DEF TypeOK, LinksAgree

LEMMA InitInv == Init => IInv
BY ListAssumption DEF Init, IInv, TypeOK, LinksAgree, WalkInOrder, OwnedOnce, Idle, Wanted, Nothing

LEMMA CreateInv == IInv /\ Create => IInv'
BY EmptyOrNot DEF IInv, Create, TypeOK, LinksAgree, WalkInOrder, OwnedOnce, links, call, Found

(* A node that is not in use, put at either end.                            *)
LEMMA PrependInv ==
  ASSUME IInv, NEW d \in Data, NEW n \in Nodes, Prepend(d, n)
  PROVE  IInv'
<1> USE DEF Prepend, Takes, Ready, call
<1>1. \A i \in 1 .. Len(order) : order[i] # n
  BY DEF Range, IInv, TypeOK
<1>2. /\ order' = <<n>> \o order /\ order' \in Seq(Nodes) /\ Len(order') = Len(order) + 1
      /\ \A i \in 1 .. Len(order) + 1 : order'[i] = IF i = 1 THEN n ELSE order[i - 1]
  BY PutInFront DEF IInv, TypeOK
<1>3. order'[1] = n /\ \A i \in 1 .. Len(order) : order'[i + 1] = order[i]
  BY <1>2 DEF IInv, TypeOK
<1>4. data' = [data EXCEPT ![n] = d] /\ list' = list /\ walk' = walk /\ iter' = iter
      /\ passed' = passed /\ head' = n /\ list = "live" /\ walk.op = "idle"
  BY DEF Allocated
<1>5. TypeOK'
  <2>1. next' \in [Nodes -> Nodes \cup {Null}] /\ prev' \in [Nodes -> Nodes \cup {Null}]
    BY DEF IInv, TypeOK, Allocated
  <2>2. \A i \in DOMAIN order' : data'[order'[i]] \in Data
    BY <1>1, <1>2, <1>4 DEF IInv, TypeOK
  <2>3. list' = "live" /\ head' \in Nodes \cup {Null} /\ tail' \in Nodes \cup {Null}
        /\ data' \in [Nodes -> Data \cup {NoData}]
        /\ owner' \in [Data -> {"caller", "list", "freed"}]
    BY <1>4 DEF IInv, TypeOK
  <2> QED BY <1>2, <1>4, <2>1, <2>2, <2>3 DEF IInv, TypeOK
<1>6. LinksAgree'
  <2>1. \A i, j \in DOMAIN order' : order'[i] = order'[j] => i = j
    <3> SUFFICES ASSUME NEW i \in 1 .. Len(order) + 1, NEW j \in 1 .. Len(order) + 1,
                        order'[i] = order'[j]
                 PROVE  i = j
      BY <1>2
    <3>1. i # 1 => i - 1 \in 1 .. Len(order) /\ order'[i] = order[i - 1]
      BY <1>2 DEF IInv, TypeOK
    <3>2. j # 1 => j - 1 \in 1 .. Len(order) /\ order'[j] = order[j - 1]
      BY <1>2 DEF IInv, TypeOK
    <3>3. \A x, y \in 1 .. Len(order) : order[x] = order[y] => x = y
      BY EmptyOrNot DEF IInv, LinksAgree
    <3> QED BY <1>1, <1>3, <3>1, <3>2, <3>3
  <2>2. CASE order = <<>>
    BY <1>2, <1>3, <1>4, <2>1, <2>2, ListAssumption, EmptyOrNot
       DEF IInv, TypeOK, LinksAgree, Allocated
  <2>3. CASE order # <<>>
    <3>1. head = order[1] /\ head # Null /\ head # n /\ tail' = tail /\ tail = order[Len(order)]
      BY <1>1, <1>4, <2>3, EmptyOrNot DEF IInv, LinksAgree
    <3>2. prev' = [prev EXCEPT ![n] = Null, ![head] = n] /\ next' = [next EXCEPT ![n] = head]
      BY <3>1 DEF Allocated
    <3>3. \A i \in 1 .. Len(order) : order[i] \in Nodes /\ (order[i] = head => i = 1)
      BY <3>1, EmptyOrNot DEF IInv, LinksAgree
    <3>4. \A i \in 1 .. Len(order) :
            /\ next'[order[i]] = IF i = Len(order) THEN Null ELSE order[i + 1]
            /\ prev'[order[i]] = IF i = 1 THEN n ELSE order[i - 1]
      BY <1>1, <1>4, <3>1, <3>2, <3>3, EmptyOrNot DEF IInv, TypeOK, LinksAgree
    <3>5. next'[n] = head /\ prev'[n] = Null
      BY <3>1, <3>2 DEF IInv, TypeOK
    <3>6. \A i \in 1 .. Len(order) + 1 :
            /\ next'[order'[i]] = IF i = Len(order) + 1 THEN Null ELSE order'[i + 1]
            /\ prev'[order'[i]] = IF i = 1 THEN Null ELSE order'[i - 1]
      <4> SUFFICES ASSUME NEW i \in 1 .. Len(order) + 1
                   PROVE  /\ next'[order'[i]] = IF i = Len(order) + 1 THEN Null ELSE order'[i + 1]
                          /\ prev'[order'[i]] = IF i = 1 THEN Null ELSE order'[i - 1]
        OBVIOUS
      <4>1. Len(order) \in Nat /\ Len(order) > 0
        BY <2>3, EmptyOrNot DEF IInv
      <4>2. CASE i = 1
        BY <1>3, <3>1, <3>5, <4>1, <4>2
      <4>3. CASE i # 1
        <5>1. i - 1 \in 1 .. Len(order)
          BY <4>1, <4>3
        <5>2. order'[i] = order[i - 1]
          BY <1>2, <4>3
        <5>3. i # Len(order) + 1 => order'[i + 1] = order[i] /\ i \in 1 .. Len(order)
          BY <1>3, <4>1
        <5>4. order'[i - 1] = IF i = 2 THEN n ELSE order[i - 2]
          BY <1>2, <4>1, <4>3
        <5> QED BY <3>4, <4>1, <4>3, <5>1, <5>2, <5>3, <5>4
      <4> QED BY <4>2, <4>3
    <3>7. order'[Len(order')] = tail
      BY <1>2, <2>3, <3>1, EmptyOrNot DEF IInv
    <3>8. DOMAIN order' = 1 .. Len(order) + 1 /\ order' # <<>> /\ Len(order') = Len(order) + 1
      BY <1>2
    <3>9. tail' = order'[Len(order')] /\ head' = order'[1]
      BY <1>3, <1>4, <3>1, <3>7
    <3>10. \A i \in DOMAIN order' :
            /\ next'[order'[i]] = IF i = Len(order') THEN Null ELSE order'[i + 1]
            /\ prev'[order'[i]] = IF i = 1 THEN Null ELSE order'[i - 1]
      BY <3>6, <3>8
    <3> QED BY <1>4, <2>1, <3>8, <3>9, <3>10 DEF LinksAgree
  <2> QED BY <2>2, <2>3
<1>7. WalkInOrder'
  <2> HIDE DEF Prepend, Takes, Ready, call
  <2>1. iter = Null /\ passed = <<>>
    BY <1>4 DEF IInv, WalkInOrder
  <2> QED BY <1>4, <2>1 DEF WalkInOrder
<1>8. OwnedOnce'
  <2>1. \A i \in 1 .. Len(order) : data'[order[i]] = data[order[i]] /\ data[order[i]] # d
    BY <1>1, <1>4 DEF IInv, TypeOK, OwnedOnce
  <2>2. data'[n] = d
    BY <1>4 DEF IInv, TypeOK
  <2>3. \A i \in 1 .. Len(order') : data'[order'[i]] = IF i = 1 THEN d ELSE data[order[i - 1]]
    <3> SUFFICES ASSUME NEW i \in 1 .. Len(order')
                 PROVE  data'[order'[i]] = IF i = 1 THEN d ELSE data[order[i - 1]]
      OBVIOUS
    <3>1. i # 1 => i - 1 \in 1 .. Len(order)
      BY <1>2 DEF IInv, TypeOK
    <3> QED BY <1>2, <2>1, <2>2, <3>1
  <2>4. \A i, j \in 1 .. Len(order') : data'[order'[i]] = data'[order'[j]] => i = j
    BY <1>2, <2>1, <2>3 DEF IInv, TypeOK, OwnedOnce
  <2>5. owner' = [owner EXCEPT ![d] = "list"]
    OBVIOUS
  <2>6. \A i \in 1 .. Len(order') : owner'[data'[order'[i]]] = "list"
    BY <1>2, <2>1, <2>3, <2>5 DEF IInv, TypeOK, OwnedOnce
  <2>7. \A e \in Data : owner'[e] = "list" => \E i \in 1 .. Len(order') : data'[order'[i]] = e
    <3> SUFFICES ASSUME NEW e \in Data, owner'[e] = "list"
                 PROVE  \E i \in 1 .. Len(order') : data'[order'[i]] = e
      OBVIOUS
    <3>1. CASE e = d
      <4>1. 1 \in 1 .. Len(order')
        BY <1>2 DEF IInv, TypeOK
      <4> QED BY <2>3, <3>1, <4>1
    <3>2. CASE e # d
      <4>1. PICK i \in 1 .. Len(order) : data[order[i]] = e
        <5>1. owner \in [Data -> {"caller", "list", "freed"}] /\ DOMAIN order = 1 .. Len(order)
          BY DEF IInv, TypeOK
        <5>2. owner[e] = "list"
          BY <2>5, <3>2, <5>1
        <5>3. \A f \in Data : owner[f] = "list" => \E i \in DOMAIN order : data[order[i]] = f
          BY DEF IInv, OwnedOnce
        <5> QED BY <5>1, <5>2, <5>3
      <4>2. i + 1 \in 1 .. Len(order') /\ order'[i + 1] = order[i]
        BY <1>2, <1>3 DEF IInv, TypeOK
      <4> QED BY <2>1, <4>1, <4>2
    <3> QED BY <3>1, <3>2
  <2>8. DOMAIN order' = 1 .. Len(order')
    BY <1>2
  <2> QED BY <2>4, <2>6, <2>7, <2>8 DEF OwnedOnce
<1> QED BY <1>5, <1>6, <1>7, <1>8 DEF IInv

LEMMA AppendInv ==
  ASSUME IInv, NEW d \in Data, NEW n \in Nodes, AppendTo(d, n)
  PROVE  IInv'
<1> USE DEF AppendTo, Takes, Ready, call
<1>1. \A i \in 1 .. Len(order) : order[i] # n
  BY DEF Range, IInv, TypeOK
<1>2. /\ order' = Append(order, n) /\ order' \in Seq(Nodes) /\ Len(order') = Len(order) + 1
      /\ \A i \in 1 .. Len(order) : order'[i] = order[i]
      /\ order'[Len(order) + 1] = n
      /\ Len(order) \in Nat /\ DOMAIN order = 1 .. Len(order) /\ DOMAIN order' = 1 .. Len(order')
  BY DEF IInv, TypeOK
<1>4. data' = [data EXCEPT ![n] = d] /\ list' = list /\ walk' = walk /\ iter' = iter
      /\ passed' = passed /\ tail' = n /\ list = "live" /\ walk.op = "idle"
  BY DEF Allocated
<1>5. TypeOK'
  <2>1. next' \in [Nodes -> Nodes \cup {Null}] /\ prev' \in [Nodes -> Nodes \cup {Null}]
    BY DEF IInv, TypeOK, Allocated
  <2>2. \A i \in DOMAIN order' : data'[order'[i]] \in Data
    BY <1>1, <1>2, <1>4 DEF IInv, TypeOK
  <2>3. list' = "live" /\ head' \in Nodes \cup {Null} /\ tail' \in Nodes \cup {Null}
        /\ data' \in [Nodes -> Data \cup {NoData}]
        /\ owner' \in [Data -> {"caller", "list", "freed"}]
    BY <1>4 DEF IInv, TypeOK
  <2> QED BY <1>2, <1>4, <2>1, <2>2, <2>3 DEF IInv, TypeOK
<1>6. LinksAgree'
  <2>1. \A i, j \in DOMAIN order' : order'[i] = order'[j] => i = j
    BY <1>1, <1>2 DEF IInv, LinksAgree
  <2>2. CASE order = <<>>
    BY <1>2, <1>4, <2>1, <2>2, ListAssumption, EmptyOrNot
       DEF IInv, TypeOK, LinksAgree, Allocated
  <2>3. CASE order # <<>>
    <3>1. tail = order[Len(order)] /\ tail # Null /\ tail # n /\ head' = head
          /\ head = order[1] /\ Len(order) > 0 /\ tail \in Nodes
      BY <1>1, <1>4, <2>3, EmptyOrNot DEF IInv, LinksAgree
    <3>2. next' = [next EXCEPT ![n] = Null, ![tail] = n] /\ prev' = [prev EXCEPT ![n] = tail]
      BY <3>1 DEF Allocated
    <3>3. \A i \in 1 .. Len(order) : order[i] \in Nodes /\ (order[i] = tail => i = Len(order))
      <4>1. Len(order) \in DOMAIN order
        BY <1>2, <3>1
      <4>2. \A i, j \in DOMAIN order : order[i] = order[j] => i = j
        BY DEF IInv, LinksAgree
      <4> QED BY <1>2, <3>1, <4>1, <4>2, EmptyOrNot DEF IInv
    <3>4. \A i \in 1 .. Len(order) :
            /\ next'[order[i]] = IF i = Len(order) THEN n ELSE order[i + 1]
            /\ prev'[order[i]] = IF i = 1 THEN Null ELSE order[i - 1]
      BY <1>1, <1>2, <1>4, <3>1, <3>2, <3>3 DEF IInv, TypeOK, LinksAgree
    <3>5. next'[n] = Null /\ prev'[n] = tail
      BY <3>1, <3>2 DEF IInv, TypeOK
    <3>6. \A i \in 1 .. Len(order) + 1 :
            /\ next'[order'[i]] = IF i = Len(order) + 1 THEN Null ELSE order'[i + 1]
            /\ prev'[order'[i]] = IF i = 1 THEN Null ELSE order'[i - 1]
      <4> SUFFICES ASSUME NEW i \in 1 .. Len(order) + 1
                   PROVE  /\ next'[order'[i]] = IF i = Len(order) + 1 THEN Null ELSE order'[i + 1]
                          /\ prev'[order'[i]] = IF i = 1 THEN Null ELSE order'[i - 1]
        OBVIOUS
      <4>1. CASE i = Len(order) + 1
        <5>1. i - 1 = Len(order) /\ Len(order) \in 1 .. Len(order)
          BY <1>2, <3>1, <4>1
        <5>2. order'[i] = n /\ i # 1 /\ order'[i - 1] = order[Len(order)]
          BY <1>2, <3>1, <4>1, <5>1
        <5> QED BY <3>1, <3>5, <4>1, <5>2
      <4>2. CASE i # Len(order) + 1
        <5>1. i \in 1 .. Len(order) /\ order'[i] = order[i]
          BY <1>2, <4>2
        <5>2. order'[i + 1] = IF i = Len(order) THEN n ELSE order[i + 1]
          BY <1>2, <4>2
        <5>3. i # 1 => order'[i - 1] = order[i - 1]
          BY <1>2, <4>2
        <5> QED BY <3>4, <4>2, <5>1, <5>2, <5>3
      <4> QED BY <4>1, <4>2
    <3>7. order'[1] = head /\ order' # <<>>
      BY <1>2, <3>1
    <3> QED BY <1>2, <1>4, <2>1, <3>1, <3>6, <3>7 DEF LinksAgree
  <2> QED BY <2>2, <2>3
<1>7. WalkInOrder'
  <2> HIDE DEF Prepend, Takes, Ready, call
  <2>1. iter = Null /\ passed = <<>>
    BY <1>4 DEF IInv, WalkInOrder
  <2> QED BY <1>4, <2>1 DEF WalkInOrder
<1>8. OwnedOnce'
  <2>1. \A i \in 1 .. Len(order) : data'[order[i]] = data[order[i]] /\ data[order[i]] # d
    BY <1>1, <1>4 DEF IInv, TypeOK, OwnedOnce
  <2>2. data'[n] = d
    BY <1>4 DEF IInv, TypeOK
  <2>3. \A i \in 1 .. Len(order') :
          data'[order'[i]] = IF i = Len(order) + 1 THEN d ELSE data[order[i]]
    BY <1>2, <2>1, <2>2
  <2>4. \A i, j \in 1 .. Len(order') : data'[order'[i]] = data'[order'[j]] => i = j
    BY <1>2, <2>1, <2>3 DEF IInv, OwnedOnce
  <2>5. owner' = [owner EXCEPT ![d] = "list"]
    OBVIOUS
  <2>6. \A i \in 1 .. Len(order') : owner'[data'[order'[i]]] = "list"
    BY <1>2, <2>1, <2>3, <2>5 DEF IInv, TypeOK, OwnedOnce
  <2>7. \A e \in Data : owner'[e] = "list" => \E i \in 1 .. Len(order') : data'[order'[i]] = e
    <3> SUFFICES ASSUME NEW e \in Data, owner'[e] = "list"
                 PROVE  \E i \in 1 .. Len(order') : data'[order'[i]] = e
      OBVIOUS
    <3>1. CASE e = d
      BY <1>2, <2>3, <3>1
    <3>2. CASE e # d
      <4>1. PICK i \in 1 .. Len(order) : data[order[i]] = e
        <5>1. owner \in [Data -> {"caller", "list", "freed"}] /\ DOMAIN order = 1 .. Len(order)
          BY DEF IInv, TypeOK
        <5>2. owner[e] = "list"
          BY <2>5, <3>2, <5>1
        <5>3. \A f \in Data : owner[f] = "list" => \E i \in DOMAIN order : data[order[i]] = f
          BY DEF IInv, OwnedOnce
        <5> QED BY <5>1, <5>2, <5>3
      <4> QED BY <1>2, <2>1, <4>1
    <3> QED BY <3>1, <3>2
  <2> QED BY <1>2, <2>4, <2>6, <2>7 DEF OwnedOnce
<1> QED BY <1>5, <1>6, <1>7, <1>8 DEF IInv

-----------------------------------------------------------------------------
(* The walk.                                                                *)

LEMMA StartInv ==
  ASSUME IInv, NEW op \in {"remove", "erase", "find", "nth", "length", "foreach"},
         NEW w \in Wanted \cup {NoData}, NEW index \in Indices \cup {0},
         op \in {"remove", "erase", "find"} => w \in Wanted,
         Start(op, w, index)
  PROVE  IInv'
<1> USE DEF Start, Ready
<1>1. UNCHANGED <<list, links, owner, result>> /\ list = "live" /\ iter' = head /\ passed' = <<>>
      /\ walk' = [op |-> op, wanted |-> w, index |-> index]
  OBVIOUS
<1>2. TypeOK'
  BY <1>1 DEF IInv, TypeOK, links
<1>3. WalkInOrder'
  <2>1. walk'.op # "idle" /\ Len(passed') = 0 /\ passed' = <<>> /\ order' = order /\ DOMAIN passed' = {}
    BY <1>1 DEF links
  <2>2. iter' = IF Len(order) = 0 THEN Null ELSE order[1]
    BY <1>1, EmptyOrNot DEF IInv, LinksAgree
  <2> QED BY <2>1, <2>2, EmptyOrNot DEF IInv, WalkInOrder
<1> QED BY <1>1, <1>2, <1>3 DEF IInv, LinksAgree, OwnedOnce, links

(* Where a walk is that stands on a node.                                   *)
LEMMA StandsOn ==
  ASSUME IInv, walk.op # "idle", iter # Null
  PROVE  /\ Len(passed) + 1 \in 1 .. Len(order)
         /\ iter = order[Len(passed) + 1] /\ iter \in Nodes
         /\ data[iter] \in Data
         /\ iter = tail <=> Len(passed) + 1 = Len(order)
         /\ list = "live"
<1>1. Len(passed) \in Nat /\ list = "live"
  BY DEF IInv, TypeOK
<1>2. Len(passed) # Len(order) /\ Len(passed) <= Len(order) /\ iter = order[Len(passed) + 1]
  BY DEF IInv, WalkInOrder
<1>3. Len(passed) + 1 \in 1 .. Len(order)
  BY <1>1, <1>2, EmptyOrNot DEF IInv
<1>4. tail = order[Len(order)] /\ Len(order) \in 1 .. Len(order)
  BY <1>1, <1>3, EmptyOrNot DEF IInv, LinksAgree
<1>5. \A i, j \in 1 .. Len(order) : order[i] = order[j] => i = j
  BY EmptyOrNot DEF IInv, LinksAgree
<1>6. data[iter] \in Data
  BY <1>2, <1>3, EmptyOrNot DEF IInv, TypeOK
<1> QED BY <1>1, <1>2, <1>3, <1>4, <1>5, <1>6, EmptyOrNot DEF IInv

LEMMA AdvanceInv ==
  ASSUME IInv, walk.op # "idle", Advance
  PROVE  IInv'
<1> USE DEF Advance
<1> DEFINE k == Len(passed)
<1>1. UNCHANGED <<list, links, walk, owner, result>> /\ iter # Null /\ ~Reached
      /\ passed' = Append(passed, data[iter])
      /\ iter' = IF iter = tail THEN Null ELSE next[iter]
  OBVIOUS
<1>2. /\ k \in Nat /\ k + 1 \in 1 .. Len(order) /\ iter = order[k + 1] /\ iter \in Nodes
      /\ data[iter] \in Data /\ (iter = tail <=> k + 1 = Len(order))
      /\ passed \in Seq(Data)
  BY <1>1, StandsOn DEF IInv, TypeOK
<1>3. /\ passed' \in Seq(Data) /\ Len(passed') = k + 1 /\ DOMAIN passed' = 1 .. k + 1
      /\ \A i \in 1 .. k : passed'[i] = passed[i]
      /\ passed'[k + 1] = data[order[k + 1]]
  BY <1>1, <1>2
<1>4. iter' = IF k + 1 = Len(order) THEN Null ELSE order[k + 2]
  <2>1. k + 1 # Len(order) => next[iter] = order[k + 1 + 1]
    BY <1>2, EmptyOrNot DEF IInv, LinksAgree
  <2>2. k + 1 + 1 = k + 2
    BY <1>2
  <2> QED BY <1>1, <1>2, <2>1, <2>2
<1>5. TypeOK'
  <2>1. iter' \in Nodes \cup {Null}
    BY <1>1, <1>2 DEF IInv, TypeOK
  <2> QED BY <1>1, <1>3, <2>1 DEF IInv, TypeOK, links
<1>6. WalkInOrder'
  <2>1. order' = order /\ data' = data /\ walk' = walk
    BY <1>1 DEF links
  <2>2. Len(passed') <= Len(order) /\ k + 1 + 1 = k + 2 /\ DOMAIN passed = 1 .. k
    BY <1>2, <1>3
  <2>3. \A i \in 1 .. k + 1 :
          /\ passed'[i] = data[order[i]]
          /\ walk.op \in {"remove", "erase", "find"} => ~Found(walk.wanted, passed'[i])
          /\ walk.op = "nth" => walk.index # i - 1
    <3> SUFFICES ASSUME NEW i \in 1 .. k + 1
                 PROVE  /\ passed'[i] = data[order[i]]
                        /\ walk.op \in {"remove", "erase", "find"} => ~Found(walk.wanted, passed'[i])
                        /\ walk.op = "nth" => walk.index # i - 1
      OBVIOUS
    <3>1. CASE i = k + 1
      <4>1. i - 1 = Len(passed) /\ passed'[i] = data[iter] /\ passed'[i] = data[order[i]]
        BY <1>2, <1>3, <3>1
      <4> QED BY <1>1, <4>1 DEF Reached
    <3>2. CASE i # k + 1
      <4>1. i \in 1 .. k
        BY <1>2, <3>2
      <4> QED BY <1>3, <2>2, <4>1 DEF IInv, WalkInOrder
    <3> QED BY <3>1, <3>2
  <2> HIDE DEF k
  <2> QED BY <1>3, <1>4, <2>1, <2>2, <2>3 DEF WalkInOrder, Found
<1> QED BY <1>1, <1>5, <1>6 DEF IInv, LinksAgree, OwnedOnce, links

(* A call that returns and leaves the list alone.                           *)
LEMMA ReturnInv ==
  ASSUME IInv, NEW r, r.count \in Nat, r.data \in Seq(Data), Return(r),
         UNCHANGED <<list, links, owner>>
  PROVE  IInv'
BY DEF IInv, Return, Idle, links, TypeOK, LinksAgree, WalkInOrder, OwnedOnce

LEMMA RefuseInv == IInv /\ Refuse => IInv'
<1> SUFFICES ASSUME IInv, Refuse PROVE IInv'
  OBVIOUS
<1>1. walk.op # "idle" /\ iter # Null
  BY DEF Refuse
<1>2. Append(passed, data[iter]) \in Seq(Data)
  BY <1>1, StandsOn DEF IInv, TypeOK
<1> QED BY <1>2, ReturnInv DEF Refuse

LEMMA FindOrNthInv == IInv /\ FindOrNth => IInv'
<1> SUFFICES ASSUME IInv, FindOrNth PROVE IInv'
  OBVIOUS
<1>1. walk.op # "idle" /\ iter # Null
  BY DEF FindOrNth
<1>2. <<data[iter]>> \in Seq(Data)
  BY <1>1, StandsOn
<1> QED BY <1>2, ReturnInv DEF FindOrNth, Gives

LEMMA WalkedOffInv == IInv /\ WalkedOff => IInv'
<1> SUFFICES ASSUME IInv, WalkedOff PROVE IInv'
  OBVIOUS
<1>1. passed \in Seq(Data) /\ Len(passed) \in Nat /\ <<>> \in Seq(Data)
  BY DEF IInv, TypeOK
<1>2. PICK r : /\ r.count \in Nat /\ r.data \in Seq(Data) /\ Return(r)
  BY <1>1 DEF WalkedOff, Nothing
<1> QED BY <1>2, ReturnInv DEF WalkedOff

-----------------------------------------------------------------------------
(* Removing.                                                                *)

(* The node a removal unlinks is joined out of the order: the nodes before  *)
(* and behind it keep their places, and it is nobody's neighbour.           *)
LEMMA RemoveLinks ==
  ASSUME IInv, RemoveNode
  PROVE  LinksAgree'
<1> DEFINE k == Len(passed) + 1
           n == Len(order)
           o == order'
<1>1. /\ walk.op # "idle" /\ iter # Null /\ Unlink(iter) /\ o = RemoveAt(order, k)
      /\ list' = list /\ list = "live"
  BY StandsOn DEF RemoveNode, IInv
<1>2. /\ n \in Nat /\ k \in 1 .. n /\ iter = order[k] /\ iter \in Nodes
      /\ \A i \in 1 .. n : order[i] \in Nodes /\ order[i] # Null
  BY <1>1, StandsOn, EmptyOrNot DEF IInv
<1>3. /\ o \in Seq(Nodes) /\ Len(o) = n - 1 /\ DOMAIN o = 1 .. n - 1
      /\ \A i \in 1 .. n - 1 : o[i] = IF i < k THEN order[i] ELSE order[i + 1]
  BY <1>1, <1>2, RemoveAtIs DEF IInv, TypeOK
<1>4. \A i, j \in 1 .. n : order[i] = order[j] => i = j
  BY EmptyOrNot DEF IInv, LinksAgree
<1>5. /\ head = order[1] /\ tail = order[n]
      /\ \A i \in 1 .. n :
           /\ next[order[i]] = IF i = n THEN Null ELSE order[i + 1]
           /\ prev[order[i]] = IF i = 1 THEN Null ELSE order[i - 1]
  BY <1>1, <1>2, EmptyOrNot DEF IInv, LinksAgree
<1> HIDE DEF k, n, o
<1>6. /\ next[iter] = IF k = n THEN Null ELSE order[k + 1]
      /\ prev[iter] = IF k = 1 THEN Null ELSE order[k - 1]
  BY <1>2, <1>5
<1>7. \A i \in 1 .. n : i # k =>
        /\ next'[order[i]] = IF i + 1 = k THEN next[iter] ELSE next[order[i]]
        /\ prev'[order[i]] = IF i = k + 1 THEN prev[iter] ELSE prev[order[i]]
  <2> SUFFICES ASSUME NEW i \in 1 .. n, i # k
               PROVE  /\ next'[order[i]] = IF i + 1 = k THEN next[iter] ELSE next[order[i]]
                      /\ prev'[order[i]] = IF i = k + 1 THEN prev[iter] ELSE prev[order[i]]
    OBVIOUS
  <2>1. order[i] \in Nodes /\ order[i] # iter /\ order[i] # Null
    BY <1>2, <1>4
  <2>2. order[i] = prev[iter] <=> i + 1 = k
    <3>1. k # 1 => k - 1 \in 1 .. n
      BY <1>2
    <3> QED BY <1>2, <1>4, <1>6, <2>1, <3>1
  <2>3. order[i] = next[iter] <=> i = k + 1
    <3>1. k # n => k + 1 \in 1 .. n
      BY <1>2
    <3> QED BY <1>2, <1>4, <1>6, <2>1, <3>1
  <2> QED BY <1>1, <2>1, <2>2, <2>3 DEF Unlink
<1>8. \A i, j \in DOMAIN o : o[i] = o[j] => i = j
  BY <1>2, <1>3, <1>4
<1>9. \A i \in DOMAIN o :
        /\ next'[o[i]] = IF i = Len(o) THEN Null ELSE o[i + 1]
        /\ prev'[o[i]] = IF i = 1 THEN Null ELSE o[i - 1]
  <2> SUFFICES ASSUME NEW i \in 1 .. n - 1
               PROVE  /\ next'[o[i]] = IF i = n - 1 THEN Null ELSE o[i + 1]
                      /\ prev'[o[i]] = IF i = 1 THEN Null ELSE o[i - 1]
    BY <1>3
  <2>1. i \in 1 .. n /\ i + 1 \in 1 .. n
    BY <1>2
  <2>2. i # n - 1 => i + 1 \in 1 .. n - 1
    BY <1>2
  <2>3. i # 1 => i - 1 \in 1 .. n - 1 /\ (i - 1) + 1 = i
    BY <1>2
  <2>4. CASE i < k
    <3>1. o[i] = order[i] /\ (i # 1 => o[i - 1] = order[i - 1])
      BY <1>2, <1>3, <2>3, <2>4
    <3>2. i # n - 1 => o[i + 1] = IF i + 1 = k THEN order[i + 2] ELSE order[i + 1]
      <4>1. i # n - 1 => o[i + 1] = IF i + 1 < k THEN order[i + 1] ELSE order[i + 1 + 1]
        BY <1>3, <2>2
      <4>2. i + 1 < k <=> i + 1 # k
        BY <1>2, <2>4
      <4>3. i + 1 + 1 = i + 2
        OBVIOUS
      <4> QED BY <4>1, <4>2, <4>3
    <3>3. prev'[order[i]] = prev[order[i]] /\ next'[order[i]] = IF i + 1 = k THEN next[iter] ELSE next[order[i]]
      BY <1>2, <1>7, <2>1, <2>4
    <3>4. i + 1 = k => k + 1 = i + 2 /\ (k = n <=> i = n - 1)
      BY <1>2
    <3>5. i + 1 # k => i # n - 1 /\ i # n
      BY <1>2, <2>4
    <3> QED BY <1>5, <1>6, <2>1, <3>1, <3>2, <3>3, <3>4, <3>5
  <2>5. CASE ~(i < k)
    <3>1. o[i] = order[i + 1]
      BY <1>3, <2>5
    <3>2. i # n - 1 => o[i + 1] = order[i + 2]
      <4>1. ~(i + 1 < k) /\ i + 1 + 1 = i + 2
        BY <1>2, <2>5
      <4> QED BY <1>3, <2>2, <4>1
    <3>3. i # 1 => o[i - 1] = IF i = k THEN order[i - 1] ELSE order[i]
      <4>1. i # 1 => o[i - 1] = IF i - 1 < k THEN order[i - 1] ELSE order[i - 1 + 1]
        BY <1>3, <2>3
      <4>2. i - 1 < k <=> i = k
        BY <1>2, <2>5
      <4> QED BY <2>3, <4>1, <4>2
    <3>4. i + 1 # k /\ i + 1 + 1 # k /\ (i + 1 = k + 1 <=> i = k)
      BY <1>2, <2>5
    <3>5. next'[order[i + 1]] = next[order[i + 1]]
          /\ prev'[order[i + 1]] = IF i = k THEN prev[iter] ELSE prev[order[i + 1]]
      BY <1>7, <2>1, <3>4
    <3>6. next[order[i + 1]] = IF i = n - 1 THEN Null ELSE order[i + 2]
      <4>1. (i + 1 = n <=> i = n - 1) /\ i + 1 + 1 = i + 2
        BY <1>2
      <4> QED BY <1>5, <2>1, <4>1
    <3>7. prev[order[i + 1]] = order[i]
      <4>1. i + 1 # 1 /\ i + 1 - 1 = i
        OBVIOUS
      <4> QED BY <1>5, <2>1, <4>1
    <3>8. i = 1 => i = k
      BY <1>2, <2>5
    <3> QED BY <1>6, <3>1, <3>2, <3>3, <3>5, <3>6, <3>7, <3>8
  <2> QED BY <2>4, <2>5
<1>10. n = 1 <=> o = <<>>
  BY <1>2, <1>3
<1>11. head' = IF o = <<>> THEN Null ELSE o[1]
  <2>1. head' = IF prev[iter] = Null THEN next[iter] ELSE head
    BY <1>1 DEF Unlink
  <2>2. k # 1 => k - 1 \in 1 .. n
    BY <1>2
  <2>3. prev[iter] = Null <=> k = 1
    BY <1>2, <1>6, <2>2
  <2>4. n # 1 => o[1] = IF k = 1 THEN order[2] ELSE order[1]
    BY <1>2, <1>3
  <2>5. k = 1 => (k = n <=> n = 1) /\ k + 1 = 2
    BY <1>2
  <2>6. k # 1 => n # 1
    BY <1>2
  <2> QED BY <1>5, <1>6, <1>10, <2>1, <2>3, <2>4, <2>5, <2>6
<1>12. tail' = IF o = <<>> THEN Null ELSE o[Len(o)]
  <2>1. tail' = IF next[iter] = Null THEN prev[iter] ELSE tail
    BY <1>1 DEF Unlink
  <2>2. k # n => k + 1 \in 1 .. n
    BY <1>2
  <2>3. next[iter] = Null <=> k = n
    BY <1>2, <1>6, <2>2
  <2>4. n # 1 => o[Len(o)] = IF k = n THEN order[n - 1] ELSE order[n]
    <3>1. n # 1 => n - 1 \in 1 .. n - 1 /\ n - 1 + 1 = n
      BY <1>2
    <3>2. n - 1 < k <=> k = n
      BY <1>2
    <3> QED BY <1>3, <3>1, <3>2
  <2>5. (k = n /\ k = 1 <=> n = 1 /\ k = n) /\ (k # n => n # 1)
    BY <1>2
  <2> QED BY <1>5, <1>6, <1>10, <2>1, <2>3, <2>4, <2>5
<1> QED BY <1>1, <1>8, <1>9, <1>11, <1>12 DEF LinksAgree, o

LEMMA RemoveInv ==
  ASSUME IInv, RemoveNode
  PROVE  IInv'
<1> DEFINE k == Len(passed) + 1
           n == Len(order)
<1>1. /\ walk.op \in {"remove", "erase"} /\ iter # Null /\ Unlink(iter)
      /\ order' = RemoveAt(order, k) /\ UNCHANGED <<list, data>> /\ list = "live"
      /\ walk' = Idle /\ iter' = Null /\ passed' = <<>>
      /\ result' = Gives(data[iter]) \/ result' = Nothing
      /\ owner' = [owner EXCEPT ![data[iter]] = "caller"]
         \/ owner' = [owner EXCEPT ![data[iter]] = "freed"]
  BY StandsOn DEF RemoveNode, IInv, Return
<1>2. /\ n \in Nat /\ k \in 1 .. n /\ iter = order[k] /\ iter \in Nodes /\ data[iter] \in Data
      /\ DOMAIN order = 1 .. n
  BY <1>1, StandsOn, EmptyOrNot DEF IInv
<1>3. /\ order' \in Seq(Nodes) /\ Len(order') = n - 1 /\ DOMAIN order' = 1 .. n - 1
      /\ \A i \in 1 .. n - 1 : order'[i] = IF i < k THEN order[i] ELSE order[i + 1]
  <2>1. order \in Seq(Nodes) /\ order' = RemoveAt(order, k) /\ k \in 1 .. Len(order)
    BY <1>1, <1>2 DEF IInv, TypeOK
  <2> QED BY <2>1, RemoveAtIs
<1>4. \A i \in 1 .. n - 1 : i \in 1 .. n /\ i + 1 \in 1 .. n
  BY <1>2
<1> HIDE DEF k, n
<1>5. TypeOK'
  <2>1. next' \in [Nodes -> Nodes \cup {Null}] /\ prev' \in [Nodes -> Nodes \cup {Null}]
        /\ head' \in Nodes \cup {Null} /\ tail' \in Nodes \cup {Null}
    BY <1>1, <1>2 DEF IInv, TypeOK, Unlink
  <2>2. \A i \in DOMAIN order' : data'[order'[i]] \in Data
    BY <1>1, <1>2, <1>3, <1>4 DEF IInv, TypeOK
  <2>3. owner' \in [Data -> {"caller", "list", "freed"}]
    BY <1>1, <1>2 DEF IInv, TypeOK
  <2>4. result'.count \in Nat /\ result'.data \in Seq(Data)
    <3>1. result' \in {[count |-> 0, data |-> <<data[iter]>>], [count |-> 0, data |-> <<>>]}
      BY <1>1 DEF Gives, Nothing
    <3>2. <<data[iter]>> \in Seq(Data) /\ <<>> \in Seq(Data) /\ 0 \in Nat
      BY <1>2
    <3>3. CASE result' = [count |-> 0, data |-> <<data[iter]>>]
      BY <3>2, <3>3
    <3>4. CASE result' = [count |-> 0, data |-> <<>>]
      BY <3>2, <3>4
    <3> QED BY <3>1, <3>3, <3>4
  <2>5. list' = "live" /\ data' \in [Nodes -> Data \cup {NoData}] /\ iter' = Null
        /\ passed' \in Seq(Data) /\ walk' = Idle
    BY <1>1 DEF IInv, TypeOK
  <2> QED BY <1>3, <2>1, <2>2, <2>3, <2>4, <2>5 DEF TypeOK, Idle
<1>6. WalkInOrder'
  BY <1>1 DEF WalkInOrder, Idle
<1>7. OwnedOnce'
  <2> DEFINE at(i) == data[order[i]]
  <2>1. \A i \in 1 .. n - 1 : data'[order'[i]] = at(IF i < k THEN i ELSE i + 1)
    BY <1>1, <1>3
  <2>2. /\ \A i \in 1 .. n : at(i) \in Data /\ owner[at(i)] = "list"
        /\ \A i, j \in 1 .. n : at(i) = at(j) => i = j
        /\ \A d \in Data : owner[d] = "list" => \E i \in 1 .. n : at(i) = d
        /\ at(k) = data[iter]
    BY <1>2 DEF IInv, OwnedOnce, TypeOK
  <2> HIDE DEF at
  <2>3. \A d \in Data : owner'[d] = "list" <=> owner[d] = "list" /\ d # at(k)
    BY <1>1, <1>2, <2>2 DEF IInv, TypeOK
  <2>4. \A i \in 1 .. n - 1 : (IF i < k THEN i ELSE i + 1) \in (1 .. n) \ {k}
    BY <1>2
  <2>5. \A i \in 1 .. n - 1 : owner'[data'[order'[i]]] = "list"
    BY <1>2, <2>1, <2>2, <2>3, <2>4
  <2>6. \A i, j \in 1 .. n - 1 : data'[order'[i]] = data'[order'[j]] => i = j
    <3> SUFFICES ASSUME NEW i \in 1 .. n - 1, NEW j \in 1 .. n - 1,
                        at(IF i < k THEN i ELSE i + 1) = at(IF j < k THEN j ELSE j + 1)
                 PROVE  i = j
      BY <2>1
    <3>1. (IF i < k THEN i ELSE i + 1) = (IF j < k THEN j ELSE j + 1)
      BY <2>2, <2>4
    <3> QED BY <1>2, <3>1
  <2>7. \A d \in Data : owner'[d] = "list" => \E i \in 1 .. n - 1 : data'[order'[i]] = d
    <3> SUFFICES ASSUME NEW d \in Data, owner'[d] = "list"
                 PROVE  \E i \in 1 .. n - 1 : data'[order'[i]] = d
      OBVIOUS
    <3>1. PICK j \in 1 .. n : at(j) = d /\ j # k
      BY <2>2, <2>3
    <3>2. CASE j < k
      <4>1. j \in 1 .. n - 1
        BY <1>2, <3>2
      <4> QED BY <2>1, <3>1, <3>2, <4>1
    <3>3. CASE ~(j < k)
      <4>1. j - 1 \in 1 .. n - 1 /\ ~(j - 1 < k) /\ j - 1 + 1 = j
        BY <1>2, <3>1, <3>3
      <4> QED BY <2>1, <3>1, <4>1
    <3> QED BY <3>2, <3>3
  <2> QED BY <1>3, <2>5, <2>6, <2>7 DEF OwnedOnce
<1> QED BY <1>5, <1>6, <1>7, RemoveLinks DEF IInv

-----------------------------------------------------------------------------
(* Destroying, front to back.                                               *)

LEMMA DestroyInv == IInv /\ Destroy => IInv'
<1> SUFFICES ASSUME IInv, Destroy PROVE IInv'
  OBVIOUS
<1> USE DEF Destroy, Ready
<1>1. UNCHANGED <<links, call, owner, result>> /\ list' = "closing" /\ walk.op = "idle"
  OBVIOUS
<1>2. TypeOK'
  BY <1>1 DEF IInv, TypeOK, links, call
<1>3. LinksAgree'
  BY <1>1 DEF IInv, LinksAgree, links
<1> QED BY <1>1, <1>2, <1>3 DEF IInv, WalkInOrder, OwnedOnce, links, call

LEMMA DestroyNodeInv == IInv /\ DestroyNode => IInv'
<1> SUFFICES ASSUME IInv, DestroyNode PROVE IInv'
  OBVIOUS
<1> DEFINE n == Len(order)
<1>1. /\ list = "closing" /\ head # Null /\ head' = next[head] /\ order' = Tail(order)
      /\ owner' = [owner EXCEPT ![data[head]] = "freed"]
      /\ UNCHANGED <<list, tail, next, prev, data, walk, iter, passed, result>>
  BY DEF DestroyNode, call
<1>2. /\ n \in Nat \ {0} /\ head = order[1] /\ head \in Nodes /\ data[head] \in Data
      /\ DOMAIN order = 1 .. n /\ walk.op = "idle"
  BY <1>1, EmptyOrNot DEF IInv, TypeOK, LinksAgree
<1>3. /\ order' \in Seq(Nodes) /\ Len(order') = n - 1 /\ DOMAIN order' = 1 .. n - 1
      /\ \A i \in 1 .. n - 1 : order'[i] = order[i + 1] /\ i + 1 \in 1 .. n
  BY <1>1, <1>2 DEF IInv, TypeOK
<1> HIDE DEF n
<1>4. TypeOK'
  <2>1. head' \in Nodes \cup {Null} /\ owner' \in [Data -> {"caller", "list", "freed"}]
    BY <1>1, <1>2 DEF IInv, TypeOK
  <2>2. \A i \in DOMAIN order' : data'[order'[i]] \in Data
    BY <1>1, <1>2, <1>3 DEF IInv, TypeOK
  <2> QED BY <1>1, <1>2, <1>3, <2>1, <2>2 DEF IInv, TypeOK
<1>5. LinksAgree'
  <2>1. \A i \in 1 .. n :
          /\ next[order[i]] = IF i = n THEN Null ELSE order[i + 1]
          /\ i = 1 \/ prev[order[i]] = order[i - 1]
    BY <1>1, <1>2 DEF IInv, LinksAgree, n
  <2>2. head' = IF order' = <<>> THEN Null ELSE order'[1]
    <3>1. order' = <<>> <=> n = 1
      BY <1>2, <1>3
    <3>2. n # 1 => order'[1] = order[1 + 1]
      BY <1>2, <1>3
    <3> QED BY <1>1, <1>2, <2>1, <3>1, <3>2
  <2>3. \A i \in 1 .. n - 1 :
          /\ next[order'[i]] = IF i = n - 1 THEN Null ELSE order'[i + 1]
          /\ i = 1 \/ prev[order'[i]] = order'[i - 1]
    <3> SUFFICES ASSUME NEW i \in 1 .. n - 1
                 PROVE  /\ next[order'[i]] = IF i = n - 1 THEN Null ELSE order'[i + 1]
                        /\ i = 1 \/ prev[order'[i]] = order'[i - 1]
      OBVIOUS
    <3>1. order'[i] = order[i + 1] /\ i + 1 \in 1 .. n /\ i + 1 # 1 /\ i + 1 - 1 = i
      BY <1>3
    <3>2. i # n - 1 => i + 1 \in 1 .. n - 1 /\ order'[i + 1] = order[i + 1 + 1]
      BY <1>2, <1>3
    <3>3. i # 1 => i - 1 \in 1 .. n - 1 /\ order'[i - 1] = order[i]
      <4>1. i # 1 => i - 1 \in 1 .. n - 1 /\ i - 1 + 1 = i
        BY <1>2
      <4> QED BY <1>3, <4>1
    <3>4. i + 1 = n <=> i = n - 1
      BY <1>2
    <3> QED BY <2>1, <3>1, <3>2, <3>3, <3>4
  <2>4. \A i, j \in 1 .. n - 1 : order'[i] = order'[j] => i = j
    <3>1. \A i, j \in 1 .. n : order[i] = order[j] => i = j
      BY <1>2 DEF IInv, LinksAgree
    <3>2. \A i, j \in 1 .. n - 1 : i + 1 = j + 1 => i = j
      OBVIOUS
    <3> QED BY <1>3, <3>1, <3>2
  <2> QED BY <1>1, <1>3, <2>2, <2>3, <2>4 DEF LinksAgree
<1>6. WalkInOrder'
  BY <1>1, <1>2 DEF IInv, WalkInOrder
<1>7. OwnedOnce'
  <2>1. /\ \A i \in 1 .. n : data[order[i]] \in Data /\ owner[data[order[i]]] = "list"
        /\ \A i, j \in 1 .. n : data[order[i]] = data[order[j]] => i = j
        /\ \A d \in Data : owner[d] = "list" => \E i \in 1 .. n : data[order[i]] = d
    BY <1>2 DEF IInv, OwnedOnce, TypeOK
  <2>2. \A d \in Data : owner'[d] = "list" <=> owner[d] = "list" /\ d # data[head]
    BY <1>1, <1>2 DEF IInv, TypeOK
  <2>3. 1 \in 1 .. n /\ \A i \in 1 .. n - 1 : i + 1 # 1
    BY <1>2
  <2>4. \A i \in 1 .. n - 1 : data'[order'[i]] = data[order[i + 1]] /\ i + 1 \in 1 .. n
    BY <1>1, <1>3
  <2>5. \A i \in 1 .. n - 1 : owner'[data'[order'[i]]] = "list"
    BY <1>2, <2>1, <2>2, <2>3, <2>4
  <2>6. \A i, j \in 1 .. n - 1 : data'[order'[i]] = data'[order'[j]] => i = j
    <3>1. \A i, j \in 1 .. n - 1 : i + 1 = j + 1 => i = j
      OBVIOUS
    <3> QED BY <2>1, <2>4, <3>1
  <2>7. \A d \in Data : owner'[d] = "list" => \E i \in 1 .. n - 1 : data'[order'[i]] = d
    <3> SUFFICES ASSUME NEW d \in Data, owner'[d] = "list"
                 PROVE  \E i \in 1 .. n - 1 : data'[order'[i]] = d
      OBVIOUS
    <3>1. PICK j \in 1 .. n : data[order[j]] = d /\ j # 1
      BY <1>2, <2>1, <2>2
    <3>2. j - 1 \in 1 .. n - 1 /\ j - 1 + 1 = j
      BY <1>2, <3>1
    <3> QED BY <2>4, <3>1, <3>2
  <2> QED BY <1>3, <2>5, <2>6, <2>7 DEF OwnedOnce
<1> QED BY <1>4, <1>5, <1>6, <1>7 DEF IInv

LEMMA DestroyedInv == IInv /\ Destroyed => IInv'
<1> SUFFICES ASSUME IInv, Destroyed PROVE IInv'
  OBVIOUS
<1> USE DEF Destroyed
<1>1. order = <<>> /\ walk.op = "idle"
  BY EmptyOrNot DEF IInv, TypeOK
<1> QED BY <1>1 DEF IInv, TypeOK, LinksAgree, WalkInOrder, OwnedOnce, call

-----------------------------------------------------------------------------
LEMMA NextInv == IInv /\ [Next]_vars => IInv'
<1> SUFFICES ASSUME IInv, [Next]_vars PROVE IInv'
  OBVIOUS
<1>1. CASE Create
  BY <1>1, CreateInv
<1>2. CASE Destroy
  BY <1>2, DestroyInv
<1>3. CASE Starts
  <2>1. CASE \E op \in {"remove", "erase", "find"}, w \in Wanted : Start(op, w, 0)
    BY <2>1, StartInv
  <2>2. CASE \E i \in Indices : Start("nth", NoData, i)
    BY <2>2, StartInv
  <2>3. CASE \E op \in {"length", "foreach"} : Start(op, NoData, 0)
    BY <2>3, StartInv
  <2> QED BY <1>3, <2>1, <2>2, <2>3 DEF Starts
<1>4. CASE FirstOrLast
  <2> USE DEF FirstOrLast, Ready
  <2>1. UNCHANGED <<list, links, call, owner>> /\ list = "live"
    BY <1>4
  <2>2. result'.count \in Nat /\ result'.data \in Seq(Data)
    <3>1. PICK end \in {head, tail} : result' = IF end = Null THEN Nothing ELSE Gives(data[end])
      BY <1>4
    <3>2. CASE end = Null
      BY <3>1, <3>2 DEF Nothing
    <3>3. CASE end # Null
      <4>1. data[end] \in Data
        <5>1. order # <<>>
          BY <2>1, <3>3, EmptyOrNot DEF IInv
        <5>2. 1 \in DOMAIN order /\ Len(order) \in DOMAIN order
          BY <5>1, EmptyOrNot DEF IInv
        <5> QED BY <2>1, <5>1, <5>2 DEF IInv, TypeOK, LinksAgree
      <4>2. result' = [count |-> 0, data |-> <<data[end]>>] /\ <<data[end]>> \in Seq(Data)
        BY <3>1, <3>3, <4>1 DEF Gives
      <4> QED BY <4>2
    <3> QED BY <3>2, <3>3
  <2> QED BY <2>1, <2>2 DEF IInv, TypeOK, LinksAgree, WalkInOrder, OwnedOnce, links, call
<1>5. CASE Library
  <2>1. Advance => walk.op # "idle"
    BY DEF Advance, IInv, WalkInOrder
  <2>2. CASE Advance
    BY <2>1, <2>2, AdvanceInv
  <2> QED BY <1>5, <2>2, RefuseInv, FindOrNthInv, RemoveInv, WalkedOffInv, DestroyNodeInv,
             DestroyedInv DEF Library
<1>6. CASE \E d \in Data, n \in Nodes : Prepend(d, n) \/ AppendTo(d, n)
  BY <1>6, PrependInv, AppendInv
<1>7. CASE UNCHANGED vars
  BY <1>7 DEF vars, IInv, TypeOK, LinksAgree, WalkInOrder, OwnedOnce
<1> QED BY <1>1, <1>2, <1>3, <1>4, <1>5, <1>6, <1>7 DEF Next

(* Whatever is called, in any order: types, links, walks and owners.        *)
THEOREM Invariance == Spec => []IInv
<1> QED BY InitInv, NextInv, PTL DEF Spec

-----------------------------------------------------------------------------
(* The refinement.                                                          *)

LEMMA ItemsAre ==
  ASSUME TypeOK
  PROVE  /\ Items \in Seq(Data) /\ Len(Items) = Len(order)
         /\ DOMAIN Items = 1 .. Len(order) /\ Len(order) \in Nat
         /\ \A i \in 1 .. Len(order) : Items[i] = data[order[i]] /\ Items[i] \in Data
         /\ Items = <<>> <=> order = <<>>
BY DEF Items, TypeOK

(* What a walk has passed is the front of the sequence.                     *)
LEMMA PassedAre ==
  ASSUME IInv, walk.op # "idle"
  PROVE  /\ Len(passed) \in 0 .. Len(Items)
         /\ passed = SubSeq(Items, 1, Len(passed))
<1>1. /\ passed \in Seq(Data) /\ Len(passed) \in 0 .. Len(order) /\ DOMAIN passed = 1 .. Len(passed)
      /\ \A i \in DOMAIN passed : passed[i] = data[order[i]]
  BY DEF IInv, TypeOK, WalkInOrder
<1>2. Len(passed) \in 0 .. Len(Items) /\ Items \in Seq(Data)
      /\ \A i \in 1 .. Len(passed) : Items[i] = passed[i]
  BY <1>1, ItemsAre DEF IInv
<1>3. /\ SubSeq(Items, 1, Len(passed)) \in Seq(Data)
      /\ Len(SubSeq(Items, 1, Len(passed))) = Len(passed)
      /\ \A i \in 1 .. Len(passed) : SubSeq(Items, 1, Len(passed))[i] = Items[i]
  BY <1>2
<1> QED BY <1>1, <1>2, <1>3, SeqEqual

(* Where it has ended at what it looked for, that is the first.             *)
LEMMA ReachedFirst ==
  ASSUME IInv, walk.op # "idle", iter # Null, Reached
  PROVE  LET k == Len(passed) + 1
         IN  /\ k \in DOMAIN Items /\ Items[k] = data[iter] /\ data[iter] \in Data
             /\ walk.op = "nth" => walk.index = k - 1
             /\ walk.op \in {"remove", "erase", "find"} =>
                  walk.wanted \in Wanted /\ Sequence!IsFirst(k, walk.wanted)
<1> DEFINE k == Len(passed) + 1
<1>1. k \in DOMAIN Items /\ Items[k] = data[iter] /\ data[iter] \in Data /\ Len(passed) \in Nat
  <2>1. k \in 1 .. Len(order) /\ iter = order[k] /\ data[iter] \in Data
    BY StandsOn
  <2>2. Len(passed) \in Nat /\ DOMAIN Items = 1 .. Len(order)
        /\ \A i \in 1 .. Len(order) : Items[i] = data[order[i]]
    BY ItemsAre DEF IInv, TypeOK
  <2> QED BY <2>1, <2>2
<1>2. walk.op = "nth" => walk.index = k - 1
  BY <1>1 DEF Reached
<1>3. ASSUME walk.op \in {"remove", "erase", "find"}
      PROVE  walk.wanted \in Wanted /\ Sequence!IsFirst(k, walk.wanted)
  <2>1. Found(walk.wanted, Items[k]) /\ walk.wanted \in Wanted
    BY <1>1, <1>3 DEF Reached, IInv, TypeOK
  <2>2. \A j \in 1 .. k - 1 : ~Found(walk.wanted, Items[j])
    <3>1. \A j \in 1 .. Len(passed) : Items[j] = passed[j] /\ ~Found(walk.wanted, passed[j])
      <4>1. DOMAIN passed = 1 .. Len(passed) /\ Len(passed) <= Len(order)
        BY DEF IInv, TypeOK, WalkInOrder
      <4>2. \A j \in 1 .. Len(passed) :
              passed[j] = data[order[j]] /\ ~Found(walk.wanted, passed[j])
        BY <1>3, <4>1 DEF IInv, WalkInOrder
      <4>3. \A j \in 1 .. Len(passed) : j \in 1 .. Len(order)
        BY <1>1, <4>1, EmptyOrNot DEF IInv
      <4>4. \A j \in 1 .. Len(order) : Items[j] = data[order[j]]
        BY ItemsAre DEF IInv
      <4> QED BY <4>2, <4>3, <4>4
    <3>2. k - 1 = Len(passed)
      BY <1>1
    <3> QED BY <3>1, <3>2
  <2> QED BY <1>1, <2>1, <2>2 DEF Sequence!IsFirst
<1> QED BY <1>1, <1>2, <1>3

LEMMA InitRefines == Init => Sequence!Init
<1> SUFFICES ASSUME Init PROVE Sequence!Init
  OBVIOUS
<1>1. TypeOK
  BY InitInv DEF IInv
<1>2. Items = <<>>
  BY <1>1, ItemsAre DEF Init
<1> QED BY <1>2 DEF Init, Sequence!Init, Nothing

LEMMA AddRefines ==
  ASSUME IInv, IInv', NEW d \in Data, NEW n \in Nodes, Prepend(d, n) \/ AppendTo(d, n)
  PROVE  Sequence!Add
<1>1. /\ list = "live" /\ owner[d] = "caller" /\ owner' = [owner EXCEPT ![d] = "list"]
      /\ list' = list /\ result' = result /\ data' = [data EXCEPT ![n] = d]
      /\ n \notin Range(order)
  BY DEF Prepend, AppendTo, Takes, Ready, Allocated
<1>2. \A i \in 1 .. Len(order) : order[i] # n /\ order[i] \in Nodes
  BY <1>1 DEF Range, IInv, TypeOK
<1>3. /\ Items' \in Seq(Data) /\ Len(Items') = Len(order')
      /\ \A i \in 1 .. Len(order') : Items'[i] = data'[order'[i]]
  <2>1. order' \in Seq(Nodes) /\ \A i \in DOMAIN order' : data'[order'[i]] \in Data
    BY DEF IInv, TypeOK
  <2> QED BY <2>1 DEF Items
<1>4. /\ Items \in Seq(Data) /\ Len(Items) = Len(order) /\ Len(order) \in Nat
      /\ \A i \in 1 .. Len(order) : Items[i] = data[order[i]]
  BY ItemsAre DEF IInv
<1>5. /\ data'[n] = d
      /\ \A i \in 1 .. Len(order) : data'[order[i]] = Items[i]
  BY <1>1, <1>2, <1>4 DEF IInv, TypeOK
<1>6. CASE Prepend(d, n)
  <2>1. /\ Len(order') = Len(order) + 1
        /\ \A i \in 1 .. Len(order) + 1 : order'[i] = IF i = 1 THEN n ELSE order[i - 1]
    BY <1>6, PutInFront DEF Prepend, IInv, TypeOK
  <2>2. /\ <<d>> \o Items \in Seq(Data) /\ Len(<<d>> \o Items) = Len(order) + 1
        /\ \A i \in 1 .. Len(order) + 1 : (<<d>> \o Items)[i] = IF i = 1 THEN d ELSE Items[i - 1]
    BY <1>4, PutInFront
  <2>3. \A i \in 1 .. Len(order) + 1 : Items'[i] = (<<d>> \o Items)[i]
    <3> SUFFICES ASSUME NEW i \in 1 .. Len(order) + 1
                 PROVE  Items'[i] = (<<d>> \o Items)[i]
      OBVIOUS
    <3>1. i # 1 => i - 1 \in 1 .. Len(order)
      BY <1>4
    <3> QED BY <1>3, <1>5, <2>1, <2>2, <3>1
  <2>4. Items' = <<d>> \o Items
    BY <1>3, <2>1, <2>2, <2>3, SeqEqual
  <2> QED BY <1>1, <2>4 DEF Sequence!Add, Sequence!Gives
<1>7. CASE AppendTo(d, n)
  <2>1. /\ Len(order') = Len(order) + 1 /\ order'[Len(order) + 1] = n
        /\ \A i \in 1 .. Len(order) : order'[i] = order[i]
    BY <1>7 DEF AppendTo, IInv, TypeOK
  <2>2. /\ Append(Items, d) \in Seq(Data) /\ Len(Append(Items, d)) = Len(order) + 1
        /\ \A i \in 1 .. Len(order) : Append(Items, d)[i] = Items[i]
        /\ Append(Items, d)[Len(order) + 1] = d
    BY <1>4
  <2>3. \A i \in 1 .. Len(order) + 1 : Items'[i] = Append(Items, d)[i]
    <3> SUFFICES ASSUME NEW i \in 1 .. Len(order) + 1
                 PROVE  Items'[i] = Append(Items, d)[i]
      OBVIOUS
    <3>1. i # Len(order) + 1 => i \in 1 .. Len(order)
      BY <1>4
    <3> QED BY <1>3, <1>5, <2>1, <2>2, <3>1
  <2>4. Items' = Append(Items, d)
    BY <1>3, <2>1, <2>2, <2>3, SeqEqual
  <2> QED BY <1>1, <2>4 DEF Sequence!Add, Sequence!Gives
<1> QED BY <1>6, <1>7

LEMMA RemoveRefines ==
  ASSUME IInv, IInv', RemoveNode
  PROVE  Sequence!Next
<1> DEFINE k == Len(passed) + 1
           to == IF walk.op = "remove" THEN "caller" ELSE "freed"
<1>1. /\ walk.op \in {"remove", "erase"} /\ iter # Null /\ Reached /\ list' = list
      /\ order' = RemoveAt(order, k) /\ data' = data /\ list = "live"
      /\ owner' = [owner EXCEPT ![data[iter]] = to]
      /\ result' = [count |-> 0, data |-> IF to = "caller" THEN <<data[iter]>> ELSE <<>>]
  BY StandsOn DEF RemoveNode, IInv, Return, Gives, Nothing
<1>2. /\ k \in 1 .. Len(order) /\ Items[k] = data[iter] /\ k \in DOMAIN Items
      /\ walk.wanted \in Wanted /\ Sequence!IsFirst(k, walk.wanted)
  BY <1>1, ReachedFirst, ItemsAre DEF IInv
<1>3. /\ Items' \in Seq(Data) /\ Len(Items') = Len(order')
      /\ \A i \in 1 .. Len(order') : Items'[i] = data'[order'[i]]
  <2>1. order' \in Seq(Nodes) /\ \A i \in DOMAIN order' : data'[order'[i]] \in Data
    BY DEF IInv, TypeOK
  <2> QED BY <2>1 DEF Items
<1>4. /\ Items \in Seq(Data) /\ Len(Items) = Len(order) /\ Len(order) \in Nat
      /\ \A i \in 1 .. Len(order) : Items[i] = data[order[i]]
  BY ItemsAre DEF IInv
<1> HIDE DEF k, to
<1>5. /\ Len(order') = Len(order) - 1
      /\ \A i \in 1 .. Len(order) - 1 : order'[i] = IF i < k THEN order[i] ELSE order[i + 1]
  <2>1. order \in Seq(Nodes)
    BY DEF IInv, TypeOK
  <2> QED BY <1>1, <1>2, <2>1, RemoveAtIs
<1>6. /\ RemoveAt(Items, k) \in Seq(Data) /\ Len(RemoveAt(Items, k)) = Len(order) - 1
      /\ \A i \in 1 .. Len(order) - 1 :
           RemoveAt(Items, k)[i] = IF i < k THEN Items[i] ELSE Items[i + 1]
  <2>1. Items \in Seq(Data) /\ k \in 1 .. Len(Items) /\ Len(Items) = Len(order)
    BY <1>2, <1>4
  <2>2. /\ RemoveAt(Items, k) \in Seq(Data) /\ Len(RemoveAt(Items, k)) = Len(Items) - 1
        /\ \A i \in 1 .. Len(Items) - 1 :
             RemoveAt(Items, k)[i] = IF i < k THEN Items[i] ELSE Items[i + 1]
    BY <2>1, RemoveAtIs
  <2> QED BY <2>1, <2>2
<1>7. \A i \in 1 .. Len(order) - 1 : Items'[i] = RemoveAt(Items, k)[i]
  <2> SUFFICES ASSUME NEW i \in 1 .. Len(order) - 1
               PROVE  Items'[i] = RemoveAt(Items, k)[i]
    OBVIOUS
  <2>1. i \in 1 .. Len(order) /\ i + 1 \in 1 .. Len(order)
    BY <1>4
  <2>2. Items'[i] = data[order'[i]]
    BY <1>1, <1>3, <1>5
  <2>3. Items[i] = data[order[i]] /\ Items[i + 1] = data[order[i + 1]]
    BY <1>4, <2>1
  <2> QED BY <1>5, <1>6, <2>2, <2>3
<1>8. Items' = RemoveAt(Items, k)
  BY <1>3, <1>5, <1>6, <1>7, SeqEqual
<1>9. Sequence!Take(walk.wanted, to)
  <2>1. /\ owner' = [owner EXCEPT ![Items[k]] = to] /\ list' = list
        /\ result' = [count |-> 0, data |-> IF to = "caller" THEN <<Items[k]>> ELSE <<>>]
    BY <1>1, <1>2
  <2>2. Sequence!Gives(Items[k], to) /\ Items' = Sequence!RemoveAt(Items, k)
    BY <1>8, <2>1 DEF Sequence!Gives, Sequence!RemoveAt, RemoveAt
  <2>3. \E i \in DOMAIN Items :
          /\ Sequence!IsFirst(i, walk.wanted)
          /\ Items' = Sequence!RemoveAt(Items, i) /\ Sequence!Gives(Items[i], to)
          /\ result' = [count |-> 0, data |-> IF to = "caller" THEN <<Items[i]>> ELSE <<>>]
    BY <1>2, <2>1, <2>2, Zenon
  <2> QED BY <2>1, <2>3, Zenon DEF Sequence!Take
<1>10. to \in {"caller", "freed"}
  BY DEF to
<1> QED BY <1>1, <1>2, <1>9, <1>10 DEF Sequence!Next

LEMMA RefuseRefines == IInv /\ Refuse => Sequence!Read
<1> SUFFICES ASSUME IInv, Refuse PROVE Sequence!Read
  OBVIOUS
<1> DEFINE k == Len(passed) + 1
<1>1. /\ walk.op # "idle" /\ iter # Null /\ UNCHANGED <<list, links, owner>>
      /\ result' = [count |-> 0, data |-> Append(passed, data[iter])]
  BY DEF Refuse, Return
<1>2. /\ k \in 1 .. Len(order) /\ iter = order[k] /\ data[iter] \in Data /\ list = "live"
      /\ passed \in Seq(Data) /\ Len(passed) \in Nat
  BY <1>1, StandsOn DEF IInv, TypeOK
<1>3. /\ Items \in Seq(Data) /\ Len(Items) = Len(order) /\ Len(order) \in Nat
      /\ Items[k] = data[iter] /\ k <= Len(Items)
  BY <1>2, ItemsAre DEF IInv
<1>4. \A i \in 1 .. Len(passed) : passed[i] = Items[i]
  <2>1. DOMAIN passed = 1 .. Len(passed) /\ \A i \in 1 .. Len(passed) : i \in 1 .. Len(order)
    BY <1>2
  <2> QED BY <1>1, <2>1, ItemsAre DEF IInv, WalkInOrder
<1>5. Append(passed, data[iter]) = SubSeq(Items, 1, k)
  <2>1. /\ SubSeq(Items, 1, k) \in Seq(Data) /\ Len(SubSeq(Items, 1, k)) = k
        /\ \A i \in 1 .. k : SubSeq(Items, 1, k)[i] = Items[i]
    BY <1>2, <1>3
  <2>2. /\ Append(passed, data[iter]) \in Seq(Data) /\ Len(Append(passed, data[iter])) = k
        /\ \A i \in 1 .. k : Append(passed, data[iter])[i] = Items[i]
    BY <1>2, <1>3, <1>4
  <2> QED BY <2>1, <2>2, SeqEqual
<1>6. Items' = Items
  BY <1>1 DEF links, Items
<1>7. k \in 0 .. Len(Items) /\ k # 0
  BY <1>2, <1>3
<1> HIDE DEF k
<1> QED BY <1>1, <1>2, <1>5, <1>6, <1>7 DEF Sequence!Read

LEMMA FindOrNthRefines == IInv /\ FindOrNth => Sequence!Read
<1> SUFFICES ASSUME IInv, FindOrNth PROVE Sequence!Read
  OBVIOUS
<1> DEFINE k == Len(passed) + 1
<1>1. /\ walk.op \in {"find", "nth"} /\ iter # Null /\ Reached /\ UNCHANGED <<list, links, owner>>
      /\ result' = [count |-> 0, data |-> <<data[iter]>>]
  BY DEF FindOrNth, Return, Gives
<1>2. /\ k \in DOMAIN Items /\ Items[k] = data[iter]
      /\ walk.op = "nth" => walk.index = k - 1
      /\ walk.op = "find" => walk.wanted \in Wanted /\ Sequence!IsFirst(k, walk.wanted)
  BY <1>1, ReachedFirst
<1>3. Items' = Items /\ list = "live" /\ Len(Items) \in Nat /\ DOMAIN Items = 1 .. Len(Items)
  BY <1>1, ItemsAre, StandsOn DEF links, Items, IInv
<1>4. CASE walk.op = "find"
  BY <1>1, <1>2, <1>3, <1>4 DEF Sequence!Read
<1>5. CASE walk.op = "nth"
  <2>1. walk.index \in Nat /\ walk.index + 1 = k /\ walk.index < Len(Items)
    BY <1>2, <1>3, <1>5
  <2>2. walk.index \in Indices \cup {0}
    BY DEF IInv, TypeOK
  <2>3. CASE walk.index \in Indices
    BY <1>1, <1>2, <1>3, <2>1, <2>3 DEF Sequence!Read
  <2>4. CASE walk.index = 0
    <3>1. Items # <<>> /\ result' = [count |-> 0, data |-> <<Items[1]>>]
      BY <1>1, <1>2, <1>3, <2>1, <2>4
    <3> QED BY <1>1, <1>3, <3>1 DEF Sequence!Read
  <2> QED BY <2>2, <2>3, <2>4
<1> QED BY <1>1, <1>4, <1>5

LEMMA WalkedOffRefines == IInv /\ WalkedOff => Sequence!Read
<1> SUFFICES ASSUME IInv, WalkedOff PROVE Sequence!Read
  OBVIOUS
<1>1. walk.op # "idle" /\ iter = Null /\ UNCHANGED <<list, links, owner>> /\ list = "live"
  BY DEF WalkedOff, IInv, TypeOK
<1>2. /\ Len(passed) = Len(order) /\ Items' = Items
      /\ Len(Items) = Len(order) /\ Len(order) \in Nat /\ DOMAIN Items = 1 .. Len(order)
  <2>1. Len(passed) # Len(order) => Len(passed) + 1 \in 1 .. Len(order)
    BY <1>1 DEF IInv, TypeOK, WalkInOrder
  <2>2. Len(passed) = Len(order)
    BY <1>1, <2>1, EmptyOrNot DEF IInv, WalkInOrder
  <2> QED BY <1>1, <2>2, ItemsAre DEF IInv, links, Items
<1>3. passed = SubSeq(Items, 1, Len(Items))
  BY <1>1, <1>2, PassedAre
<1>4. \A i \in DOMAIN Items : Items[i] = passed[i]
  <2>1. DOMAIN passed = DOMAIN Items
    BY <1>2 DEF IInv, TypeOK
  <2> QED BY <1>1, <1>2, <2>1, ItemsAre DEF IInv, WalkInOrder
<1>5. CASE walk.op = "length"
  <2>1. result' = [count |-> Len(Items), data |-> <<>>]
    BY <1>2, <1>5 DEF WalkedOff, Return
  <2> QED BY <1>1, <1>2, <2>1 DEF Sequence!Read
<1>6. CASE walk.op = "foreach"
  <2>1. result' = [count |-> 0, data |-> SubSeq(Items, 1, Len(Items))]
    BY <1>3, <1>6 DEF WalkedOff, Return
  <2>2. Len(Items) \in 0 .. Len(Items) /\ (Len(Items) = 0 => Items = <<>>)
    BY <1>2, ItemsAre DEF IInv
  <2> QED BY <1>1, <1>2, <2>1, <2>2 DEF Sequence!Read
<1>7. CASE walk.op \in {"remove", "erase", "find"}
  <2>1. result' = Nothing
    BY <1>7 DEF WalkedOff, Return
  <2>2. walk.wanted \in Wanted
    BY <1>7 DEF IInv, TypeOK
  <2>3. Sequence!Nowhere(walk.wanted)
    <3>1. DOMAIN passed = DOMAIN Items
      BY <1>2 DEF IInv, TypeOK
    <3> QED BY <1>1, <1>4, <1>7, <3>1 DEF IInv, WalkInOrder, Sequence!Nowhere
  <2> QED BY <1>1, <1>2, <2>1, <2>2, <2>3 DEF Sequence!Read
<1>8. CASE walk.op = "nth"
  <2>1. result' = Nothing
    BY <1>8 DEF WalkedOff, Return
  <2>2. walk.index \in Indices \cup {0} /\ walk.index \in Nat
    BY ListAssumption DEF IInv, TypeOK
  <2>3. ~(walk.index < Len(Items))
    <3>1. \A i \in 1 .. Len(Items) : walk.index # i - 1
      <4>1. DOMAIN passed = 1 .. Len(Items)
        BY <1>2 DEF IInv, TypeOK
      <4> QED BY <1>1, <1>8, <4>1 DEF IInv, WalkInOrder
    <3> SUFFICES ASSUME walk.index < Len(Items) PROVE FALSE
      OBVIOUS
    <3> DEFINE i == walk.index + 1
    <3>2. i \in 1 .. Len(Items) /\ i - 1 = walk.index
      BY <1>2, <2>2
    <3> HIDE DEF i
    <3> QED BY <3>1, <3>2
  <2>4. CASE walk.index \in Indices
    BY <1>1, <1>2, <2>1, <2>3, <2>4 DEF Sequence!Read
  <2>5. CASE walk.index = 0
    <3>1. Items = <<>>
      BY <1>2, <2>3, <2>5, ItemsAre DEF IInv
    <3> QED BY <1>1, <1>2, <2>1, <3>1 DEF Sequence!Read
  <2> QED BY <2>2, <2>4, <2>5
<1> QED BY <1>1, <1>5, <1>6, <1>7, <1>8 DEF IInv, TypeOK

LEMMA NextRefines == IInv /\ IInv' /\ [Next]_vars => [Sequence!Next]_(Sequence!vars)
<1> SUFFICES ASSUME IInv, IInv', [Next]_vars PROVE [Sequence!Next]_(Sequence!vars)
  OBVIOUS
<1> USE DEF Sequence!vars
<1>1. CASE Create
  BY <1>1 DEF Create, links, Items, Sequence!Next, Sequence!Create
<1>2. CASE Destroy
  BY <1>2 DEF Destroy, Ready, links, Items, Sequence!Next, Sequence!Close
<1>3. CASE Starts
  BY <1>3 DEF Starts, Start, links, Items
<1>4. CASE FirstOrLast
  <2>1. /\ list = "live" /\ UNCHANGED <<list, links, owner>> /\ Items' = Items
    BY <1>4 DEF FirstOrLast, Ready, links, Items
  <2>2. PICK end \in {head, tail} : result' = IF end = Null THEN Nothing ELSE Gives(data[end])
    BY <1>4 DEF FirstOrLast
  <2>3. CASE end = Null
    <3>1. Items = <<>>
      BY <2>1, <2>2, <2>3, EmptyOrNot, ItemsAre DEF IInv
    <3> QED BY <2>1, <2>2, <2>3, <3>1 DEF Sequence!Next, Sequence!Read
  <2>4. CASE end # Null
    <3>1. order # <<>> /\ Items # <<>>
      BY <2>1, <2>2, <2>4, EmptyOrNot, ItemsAre DEF IInv
    <3>2. data[head] = Items[1] /\ data[tail] = Items[Len(Items)]
      <4>1. 1 \in 1 .. Len(order) /\ Len(order) \in 1 .. Len(order)
        BY <3>1, EmptyOrNot DEF IInv
      <4> QED BY <2>1, <3>1, <4>1, ItemsAre DEF IInv, LinksAgree
    <3>3. \/ result' = [count |-> 0, data |-> <<Items[1]>>]
          \/ result' = [count |-> 0, data |-> <<Items[Len(Items)]>>]
      BY <2>2, <2>4, <3>2 DEF Gives
    <3> QED BY <2>1, <3>1, <3>3 DEF Sequence!Next, Sequence!Read
  <2> QED BY <2>3, <2>4
<1>5. CASE Library
  <2>1. CASE Advance
    BY <2>1 DEF Advance, links, Items
  <2>2. CASE DestroyNode
    <3>1. /\ list = "closing" /\ head # Null /\ order' = Tail(order) /\ data' = data
          /\ list' = list /\ result' = result /\ owner' = [owner EXCEPT ![data[head]] = "freed"]
      BY <2>2 DEF DestroyNode
    <3>2. /\ order # <<>> /\ head = order[1] /\ Len(order) \in Nat \ {0}
      BY <3>1, EmptyOrNot DEF IInv, LinksAgree
    <3>3. /\ Items # <<>> /\ Items[1] = data[head] /\ Items \in Seq(Data) /\ Len(Items) = Len(order)
          /\ \A i \in 1 .. Len(order) : Items[i] = data[order[i]]
      BY <3>2, ItemsAre DEF IInv
    <3>4. /\ Items' \in Seq(Data) /\ Len(Items') = Len(order')
          /\ \A i \in 1 .. Len(order') : Items'[i] = data'[order'[i]]
      <4>1. order' \in Seq(Nodes) /\ \A i \in DOMAIN order' : data'[order'[i]] \in Data
        BY DEF IInv, TypeOK
      <4> QED BY <4>1 DEF Items
    <3>5. /\ Len(order') = Len(order) - 1
          /\ \A i \in 1 .. Len(order) - 1 : order'[i] = order[i + 1]
      BY <3>1, <3>2 DEF IInv, TypeOK
    <3>6. /\ Tail(Items) \in Seq(Data) /\ Len(Tail(Items)) = Len(order) - 1
          /\ \A i \in 1 .. Len(order) - 1 : Tail(Items)[i] = Items[i + 1]
      BY <3>2, <3>3
    <3>7. \A i \in 1 .. Len(order) - 1 : Items'[i] = Tail(Items)[i]
      <4>1. \A i \in 1 .. Len(order) - 1 : i + 1 \in 1 .. Len(order)
        BY <3>2
      <4> QED BY <3>1, <3>3, <3>4, <3>5, <3>6, <4>1
    <3>8. Items' = Tail(Items)
      BY <3>4, <3>5, <3>6, <3>7, SeqEqual
    <3> QED BY <3>1, <3>3, <3>8 DEF Sequence!Next, Sequence!FreeFront, Sequence!Gives
  <2>3. CASE Destroyed
    <3>1. Items = <<>>
      BY <2>3, EmptyOrNot, ItemsAre DEF IInv, Destroyed
    <3> QED BY <2>3, <3>1 DEF Destroyed, Items, Sequence!Next, Sequence!Closed
  <2> QED BY <1>5, <2>1, <2>2, <2>3, RefuseRefines, FindOrNthRefines, RemoveRefines, WalkedOffRefines
          DEF Library, Sequence!Next
<1>6. CASE \E d \in Data, n \in Nodes : Prepend(d, n) \/ AppendTo(d, n)
  BY <1>6, AddRefines DEF Sequence!Next
<1>7. CASE UNCHANGED vars
  BY <1>7 DEF vars, Items
<1> QED BY <1>1, <1>2, <1>3, <1>4, <1>5, <1>6, <1>7 DEF Next

(* The list is a sequence: each call has the effect and the result it would *)
(* have on one, a walk being the single step in which it returns.           *)
THEOREM Refinement == Spec => ImplementsSequence
<1>1. Spec => []IInv
  BY Invariance
<1>2. Init => Sequence!Init
  BY InitRefines
<1>3. IInv /\ IInv' /\ [Next]_vars => [Sequence!Next]_(Sequence!vars)
  BY NextRefines
<1> QED BY <1>1, <1>2, <1>3, PTL DEF Spec, ImplementsSequence, Sequence!Spec

(* Head, tail and the links both ways agree at all times (mms_list.c), so   *)
(* that no walk enters a node that was freed.                               *)
THEOREM LinksInvariant == Spec => []LinksAgree
<1>1. IInv => LinksAgree
  BY DEF IInv
<1> QED BY <1>1, Invariance, PTL

(* No datum is freed while it can be found, or twice.                       *)
THEOREM OwnersInvariant == Spec => []OwnedOnce
<1>1. IInv => OwnedOnce
  BY DEF IInv
<1> QED BY <1>1, Invariance, PTL

(* The walk stands where the data it has gone over end.                     *)
THEOREM WalkInvariant == Spec => []WalkInOrder
<1>1. IInv => WalkInOrder
  BY DEF IInv
<1> QED BY <1>1, Invariance, PTL

(* The fields of the list and of its nodes are of their types.              *)
THEOREM TypesInvariant == Spec => []TypeOK
<1>1. IInv => TypeOK
  BY DEF IInv
<1> QED BY <1>1, Invariance, PTL

=============================================================================
