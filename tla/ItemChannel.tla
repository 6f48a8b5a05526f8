----------------------------- MODULE ItemChannel -----------------------------
(***************************************************************************)
(* What the codecs promise each other: the items one of them packs, the    *)
(* other gets, as they were and in their order.                            *)
(***************************************************************************)
EXTENDS Naturals, Sequences

VARIABLES sent, received

vars == <<sent, received>>

Init == sent = <<>> /\ received = <<>>

Send ==
  /\ Len(sent') >= Len(sent) /\ SubSeq(sent', 1, Len(sent)) = sent
  /\ UNCHANGED received

Receive ==
  /\ Len(received) < Len(sent)
  /\ received' = Append(received, sent[Len(received) + 1])
  /\ UNCHANGED sent

Spec == Init /\ [][Send \/ Receive]_vars

=============================================================================
