---------------------------- MODULE SavepointText ----------------------------
(***************************************************************************)
(* What MmsOutputBuffer promises the packers: a text that only grows at    *)
(* its end, with up to MAX_TRANSACTIONS nested savepoints.  Rolling back   *)
(* returns to the text of the last savepoint, bytes and all; committing    *)
(* forgets that savepoint and keeps the text.                              *)
(***************************************************************************)
EXTENDS Naturals, Sequences

CONSTANTS Byte, MAX_TRANSACTIONS

VARIABLES text, saved

vars == <<text, saved>>

Init == text = <<>> /\ saved = <<>>

(* Bytes are added at the end.                                             *)
Grow ==
  /\ text' \in Seq(Byte)
  /\ Len(text) <= Len(text') /\ SubSeq(text', 1, Len(text)) = text
  /\ UNCHANGED saved

Begin ==
  /\ Len(saved) < MAX_TRANSACTIONS
  /\ saved' = Append(saved, text)
  /\ UNCHANGED text

(* Forget the last savepoint.                                              *)
Pop == saved # <<>> /\ saved' = SubSeq(saved, 1, Len(saved) - 1)

Rollback == Pop /\ text' = saved[Len(saved)]
Commit   == Pop /\ UNCHANGED text

(* A new text, without savepoints: none is left that could bring the old    *)
(* one back.                                                                *)
Renew == text' = <<>> /\ saved' = <<>>

Next == Grow \/ Begin \/ Rollback \/ Commit \/ Renew

Spec == Init /\ [][Next]_vars

=============================================================================
