---------------------------- MODULE ListSequence -----------------------------
(***************************************************************************)
(* What MmsList promises its callers: a sequence of data that the list     *)
(* owns.  Looking for something takes the first datum that compares equal; *)
(* a removed datum is freed or handed back, never both; visiting goes      *)
(* through the data in order until a visitor refuses.                      *)
(***************************************************************************)
EXTENDS Naturals, Sequences, SequencesExt

CONSTANTS Data, Wanted, Found(_, _), Indices, Nothing

VARIABLES list, items, owner, result

vars == <<list, items, owner, result>>

Init ==
  /\ list = "none" /\ items = <<>> /\ result = Nothing
  /\ owner = [d \in Data |-> "caller"]

Create  == list = "none" /\ list' = "live" /\ UNCHANGED <<items, owner, result>>

Gives(d, to) == owner' = [owner EXCEPT ![d] = to]

Add ==
  /\ list = "live"
  /\ \E d \in Data :
       /\ owner[d] = "caller" /\ Gives(d, "list")
       /\ items' \in {<<d>> \o items, Append(items, d)}
  /\ UNCHANGED <<list, result>>

IsFirst(i, w) ==
  /\ i \in DOMAIN items /\ Found(w, items[i])
  /\ \A j \in 1 .. i - 1 : ~Found(w, items[j])

Nowhere(w) == \A j \in DOMAIN items : ~Found(w, items[j])

Take(w, to) ==
  /\ \E i \in DOMAIN items :
       /\ IsFirst(i, w)
       /\ items' = RemoveAt(items, i) /\ Gives(items[i], to)
       /\ result' = [count |-> 0, data |-> IF to = "caller" THEN <<items[i]>> ELSE <<>>]
  /\ UNCHANGED list

(* What is read of the list, and what a search in vain returns.            *)
Read ==
  /\ list = "live"
  /\ \/ \E w \in Wanted : Nowhere(w) /\ result' = Nothing
     \/ \E w \in Wanted, i \in DOMAIN items :
          IsFirst(i, w) /\ result' = [count |-> 0, data |-> <<items[i]>>]
     \/ result' = [count |-> Len(items), data |-> <<>>]
     \/ \E n \in Indices :
          result' = IF n < Len(items) THEN [count |-> 0, data |-> <<items[n + 1]>>]
                    ELSE Nothing
     \/ items = <<>> /\ result' = Nothing
     \/ items # <<>> /\ result' = [count |-> 0, data |-> <<items[1]>>]
     \/ items # <<>> /\ result' = [count |-> 0, data |-> <<items[Len(items)]>>]
     \/ \E n \in 0 .. Len(items) :
          /\ n = 0 => items = <<>>
          /\ result' = [count |-> 0, data |-> SubSeq(items, 1, n)]
  /\ UNCHANGED <<list, items, owner>>

(* Destroying the list frees what it owns, front to back.                  *)
Close ==
  /\ list = "live" /\ list' = "closing"
  /\ UNCHANGED <<items, owner, result>>

FreeFront ==
  /\ list = "closing" /\ items # <<>>
  /\ items' = Tail(items) /\ Gives(items[1], "freed")
  /\ UNCHANGED <<list, result>>

Closed ==
  /\ list = "closing" /\ items = <<>> /\ list' = "none"
  /\ UNCHANGED <<items, owner, result>>

Next ==
  \/ Create \/ Add \/ Read \/ Close \/ FreeFront \/ Closed
  \/ list = "live" /\ \E w \in Wanted, to \in {"caller", "freed"} : Take(w, to)

Spec == Init /\ [][Next]_vars

=============================================================================
