--------------------------- MODULE MCMmsTransaction ---------------------------
(***************************************************************************)
(* Instances of MmsTransaction for TLC.                                    *)
(***************************************************************************)
EXTENDS MmsTransaction

Usual == [version |-> "1.1", eol |-> "crlf", fields |-> TRUE, length |-> "exact", type |-> TRUE]

MCHeads == {Usual,
            [Usual EXCEPT !.length = "othercase"],
            [Usual EXCEPT !.eol = "lf"]}

=============================================================================
