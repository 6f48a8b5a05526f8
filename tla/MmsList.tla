------------------------------- MODULE MmsList -------------------------------
(***************************************************************************)
(* The doubly linked list under every other component (mms_list.c).  The   *)
(* nodes are memory: a node that was freed keeps its links and may be      *)
(* allocated again.  remove, erase, find, nth, length and foreach are the  *)
(* same walk from head to tail, one step for each turn of its loop.        *)
(*                                                                         *)
(* A datum is a pointer.  The callers' compare functions look for a name   *)
(* and NULL stands for the default one, which looks for a pointer by       *)
(* subtracting ints: by the low half of it, where pointers have 64 bits.   *)
(***************************************************************************)
EXTENDS Naturals, Sequences, FiniteSets, SequencesExt

CONSTANTS
  Nodes,        (* Memory for nodes; the bound on the length of a list.      *)
  Null,         (* The NULL pointer to a node.                               *)
  Data,         (* What a list may hold.                                     *)
  NoData,       (* What calloc leaves in the data of a node.                 *)
  Low,          (* The low half of each datum.                               *)
  Names,        (* What a caller's compare function looks for.               *)
  Named,        (* The data of each name.                                    *)
  Indices       (* What mms_list_nth may be asked for.                       *)

ASSUME ListAssumption ==
  /\ Null \notin Nodes /\ NoData \notin Data
  /\ Names \cap Data = {}
  /\ DOMAIN Low = Data /\ Named \in [Names -> SUBSET Data]
  /\ Indices \subseteq Nat

VARIABLES
  list,         (* "none", "live" or, in mms_list_destroy, "closing".        *)
  head, tail,   (* Nodes or Null.                                            *)
  next, prev, data,    (* The fields of each node.                           *)
  walk,         (* [op, wanted, index]; op is "idle" between calls.   *)
  iter,         (* iter of the walk.                                         *)
  passed,       (* Data it has gone over: count and i are its length.        *)
  owner,        (* Whose each datum is: "caller", "list" or "freed".         *)
  result,       (* What the last call returned: [count, data].               *)
  (* History, read by the properties only, and for the node that is new.     *)
  order         (* The nodes in use, in order.                               *)

vars == <<list, head, tail, next, prev, data, walk, iter, passed, owner, result, order>>

links == <<head, tail, next, prev, data, order>>
call  == <<walk, iter, passed>>

Nothing  == [count |-> 0, data |-> <<>>]
Gives(d) == [count |-> 0, data |-> <<d>>]
Idle     == [op |-> "idle", wanted |-> NoData, index |-> 0]
Wanted   == Data \cup Names

Init ==
  /\ list = "none" /\ head = Null /\ tail = Null
  /\ next = [n \in Nodes |-> Null] /\ prev = [n \in Nodes |-> Null]
  /\ data = [n \in Nodes |-> NoData]
  /\ walk = Idle /\ iter = Null /\ passed = <<>>
  /\ owner = [d \in Data |-> "caller"] /\ result = Nothing
  /\ order = <<>>

Ready == list = "live" /\ walk.op = "idle"

Create ==
  /\ list = "none" /\ list' = "live"
  /\ UNCHANGED <<links, call, owner, result>>

-----------------------------------------------------------------------------
(* Adding.                                                                  *)

(* altered: the data is not set.                                            *)
AllocatedBlank(n, d, before, after) ==
  /\ list' = list
  /\ prev' = [prev EXCEPT ![n] = before] /\ next' = [next EXCEPT ![n] = after]
  /\ data' = [data EXCEPT ![n] = NoData]

(* A node from mms_calloc that holds d, between its neighbours before and   *)
(* after; the one that exists is told.                                      *)
Allocated(n, d, before, after) ==
  /\ list' = list
  /\ prev' = IF after = Null THEN [prev EXCEPT ![n] = before]
             ELSE [prev EXCEPT ![n] = before, ![after] = n]
  /\ next' = IF before = Null THEN [next EXCEPT ![n] = after]
             ELSE [next EXCEPT ![n] = after, ![before] = n]
  /\ data' = [data EXCEPT ![n] = d]

Takes(d) ==
  /\ Ready /\ owner[d] = "caller"
  /\ owner' = [owner EXCEPT ![d] = "list"]
  /\ UNCHANGED <<call, result>>

(* altered: a list that is not empty keeps its head.                        *)
PrependBehind(d, n) ==
  /\ n \notin Range(order) /\ Takes(d)
  /\ Allocated(n, d, Null, head)
  /\ head' = (IF head = Null THEN n ELSE head)
  /\ tail' = (IF head = Null THEN n ELSE tail)
  /\ order' = <<n>> \o order

Prepend(d, n) ==
  /\ n \notin Range(order) /\ Takes(d)
  /\ Allocated(n, d, Null, head)
  /\ head' = n /\ tail' = (IF head = Null THEN n ELSE tail)
  /\ order' = <<n>> \o order

AppendTo(d, n) ==
  /\ n \notin Range(order) /\ Takes(d)
  /\ Allocated(n, d, tail, Null)
  /\ tail' = n /\ head' = (IF tail = Null THEN n ELSE head)
  /\ order' = Append(order, n)

-----------------------------------------------------------------------------
(* The walk.                                                                *)

(* The compare function: default, or a caller's.                            *)
Found(w, d) == IF w \in Data THEN Low[d] = Low[w] ELSE d \in Named[w]

Start(op, w, index) ==
  /\ Ready
  /\ walk' = [op |-> op, wanted |-> w, index |-> index]
  /\ iter' = head /\ passed' = <<>>
  /\ UNCHANGED <<list, links, owner, result>>

Starts ==
  \/ \E op \in {"remove", "erase", "find"}, w \in Wanted : Start(op, w, 0)
  \/ \E i \in Indices : Start("nth", NoData, i)
  \/ \E op \in {"length", "foreach"} : Start(op, NoData, 0)

(* The call returns r.                                                      *)
Return(r) ==
  /\ walk' = Idle /\ iter' = Null /\ passed' = <<>> /\ result' = r

(* Does the walk end at iter because this is what it looked for?            *)
Reached ==
  \/ walk.op \in {"remove", "erase", "find"} /\ Found(walk.wanted, data[iter])
  \/ walk.op = "nth" /\ Len(passed) = walk.index

(* altered: at the tail there is no break.                                  *)
AdvanceForever ==
  /\ iter # Null /\ ~Reached
  /\ passed' = (IF iter = tail THEN passed ELSE Append(passed, data[iter]))
  /\ iter' = IF iter = tail THEN iter ELSE next[iter]
  /\ UNCHANGED <<list, links, walk, owner, result>>

(* Not here: on to the next node; after the tail the loop is left.          *)
Advance ==
  /\ iter # Null /\ ~Reached
  /\ passed' = Append(passed, data[iter])
  /\ iter' = IF iter = tail THEN Null ELSE next[iter]
  /\ UNCHANGED <<list, links, walk, owner, result>>

(* A visitor that has seen iter and does not return MMS_RESULT_OK; foreach  *)
(* returns OK all the same.                                                 *)
Refuse ==
  /\ walk.op = "foreach" /\ iter # Null
  /\ Return([count |-> 0, data |-> Append(passed, data[iter])])
  /\ UNCHANGED <<list, links, owner>>

FindOrNth ==
  /\ walk.op \in {"find", "nth"} /\ iter # Null /\ Reached
  /\ Return(Gives(data[iter]))
  /\ UNCHANGED <<list, links, owner>>

(* altered: the tail stays where it was.                                    *)
UnlinkKeepsTail(n) ==
  /\ next' = [m \in Nodes |-> IF m = n THEN Null
                              ELSE IF m = prev[n] THEN next[n] ELSE next[m]]
  /\ prev' = [m \in Nodes |-> IF m = n THEN Null
                              ELSE IF m = next[n] THEN prev[n] ELSE prev[m]]
  /\ head' = (IF prev[n] = Null THEN next[n] ELSE head)
  /\ tail' = tail

(* The neighbours of n, or the list's ends, are joined.                     *)
Unlink(n) ==
  /\ next' = [m \in Nodes |-> IF m = n THEN Null
                              ELSE IF m = prev[n] THEN next[n] ELSE next[m]]
  /\ prev' = [m \in Nodes |-> IF m = n THEN Null
                              ELSE IF m = next[n] THEN prev[n] ELSE prev[m]]
  /\ head' = (IF prev[n] = Null THEN next[n] ELSE head)
  /\ tail' = (IF next[n] = Null THEN prev[n] ELSE tail)

(* mms_list_remove where it finds what it looked for; mms_list_erase has no *)
(* ret_data.                                                                *)
RemoveNode ==
  /\ walk.op \in {"remove", "erase"} /\ iter # Null /\ Reached
  /\ Unlink(iter)
  /\ IF walk.op = "remove"
       THEN Return(Gives(data[iter])) /\ owner' = [owner EXCEPT ![data[iter]] = "caller"]
       ELSE Return(Nothing) /\ owner' = [owner EXCEPT ![data[iter]] = "freed"]
  /\ order' = RemoveAt(order, Len(passed) + 1)
  /\ UNCHANGED <<list, data>>

(* The loop is left: nothing was found, or all was counted or visited.      *)
WalkedOff ==
  /\ walk.op # "idle" /\ iter = Null
  /\ Return(CASE walk.op = "length"  -> [count |-> Len(passed), data |-> <<>>]
              [] walk.op = "foreach" -> [count |-> 0, data |-> passed]
              [] OTHER               -> Nothing)
  /\ UNCHANGED <<list, links, owner>>

(* mms_list_first and mms_list_last.                                        *)
FirstOrLast ==
  /\ Ready
  /\ \E end \in {head, tail} : result' = IF end = Null THEN Nothing ELSE Gives(data[end])
  /\ UNCHANGED <<list, links, call, owner>>

-----------------------------------------------------------------------------
(* mms_list_destroy, one turn of its loop at a time.  The head's prev is    *)
(* not cleared.                                                             *)

Destroy ==
  /\ Ready /\ list' = "closing"
  /\ UNCHANGED <<links, call, owner, result>>

DestroyNode ==
  /\ list = "closing" /\ head # Null
  /\ head' = next[head] /\ order' = Tail(order)
  /\ owner' = [owner EXCEPT ![data[head]] = "freed"]
  /\ UNCHANGED <<list, tail, next, prev, data, call, result>>

Destroyed ==
  /\ list = "closing" /\ head = Null
  /\ list' = "none" /\ tail' = Null
  /\ UNCHANGED <<head, next, prev, data, order, call, owner, result>>

-----------------------------------------------------------------------------
(* The steps of the library, between the calls of the application.         *)
Library ==
  \/ Advance \/ Refuse \/ FindOrNth \/ RemoveNode \/ WalkedOff
  \/ DestroyNode \/ Destroyed

Next ==
  \/ Create \/ Destroy \/ Starts \/ FirstOrLast \/ Library
  \/ \E d \in Data, n \in Nodes : Prepend(d, n) \/ AppendTo(d, n)

Spec == Init /\ [][Next]_vars

FairSpec == Spec /\ WF_vars(Library)

-----------------------------------------------------------------------------
(* Properties.                                                             *)

(* Every variable has its type; a node in use holds a datum.               *)
TypeOK ==
  /\ list \in {"none", "live", "closing"}
  /\ head \in Nodes \cup {Null} /\ tail \in Nodes \cup {Null}
  /\ next \in [Nodes -> Nodes \cup {Null}] /\ prev \in [Nodes -> Nodes \cup {Null}]
  /\ data \in [Nodes -> Data \cup {NoData}]
  /\ walk.op \in {"idle", "remove", "erase", "find", "nth", "length", "foreach"}
  /\ walk \in [op : {walk.op}, wanted : Wanted \cup {NoData}, index : Indices \cup {0}]
  /\ walk.op \in {"remove", "erase", "find"} => walk.wanted \in Wanted
  /\ iter \in Nodes \cup {Null} /\ passed \in Seq(Data)
  /\ owner \in [Data -> {"caller", "list", "freed"}]
  /\ result.count \in Nat /\ result.data \in Seq(Data)
  /\ order \in Seq(Nodes)
  /\ \A i \in DOMAIN order : data[order[i]] \in Data
  /\ walk.op # "idle" => list = "live"
  /\ list = "none" => order = <<>>

(* The links both ways, head and tail agree with one order of the nodes in  *)
(* use, in which none is met twice, so that no walk follows a link into a   *)
(* node that was freed: after any prepends, appends and removals, at either *)
(* end, of the only node and while the list is destroyed.                   *)
LinksAgree ==
  /\ \A i, j \in DOMAIN order : order[i] = order[j] => i = j
  /\ head = IF order = <<>> THEN Null ELSE order[1]
  /\ \A i \in DOMAIN order :
       /\ next[order[i]] = IF i = Len(order) THEN Null ELSE order[i + 1]
       /\ \/ list = "closing" /\ i = 1
          \/ prev[order[i]] = IF i = 1 THEN Null ELSE order[i - 1]
  /\ list # "closing" => tail = IF order = <<>> THEN Null ELSE order[Len(order)]

(* A walk stands on the node after those it has passed, in order, and has   *)
(* passed nothing it looked for; between calls there is none.               *)
WalkInOrder ==
  IF walk.op = "idle" THEN iter = Null /\ passed = <<>>
  ELSE /\ Len(passed) <= Len(order)
       /\ iter = IF Len(passed) = Len(order) THEN Null ELSE order[Len(passed) + 1]
       /\ \A i \in DOMAIN passed :
            /\ passed[i] = data[order[i]]
            /\ walk.op \in {"remove", "erase", "find"} => ~Found(walk.wanted, passed[i])
            /\ walk.op = "nth" => walk.index # i - 1

(* What the list holds is the list's, once, and all that is the list's is   *)
(* in it: no datum is freed while it can still be found, none is freed      *)
(* twice, and none that was handed back is freed.                           *)
OwnedOnce ==
  /\ \A i \in DOMAIN order : owner[data[order[i]]] = "list"
  /\ \A i, j \in DOMAIN order : data[order[i]] = data[order[j]] => i = j
  /\ \A d \in Data : owner[d] = "list" => \E i \in DOMAIN order : data[order[i]] = d

(* The list is a sequence that owns its data (ListSequence): whatever the   *)
(* links are, each call does to it, and returns, what it should.            *)
Items == [i \in DOMAIN order |-> data[order[i]]]

Sequence == INSTANCE ListSequence WITH items <- Items

ImplementsSequence == Sequence!Spec

(* Every walk, and every destruction, comes to its end.                     *)
CallReturns == walk.op # "idle" \/ list = "closing" ~> walk.op = "idle" /\ list # "closing"

=============================================================================
