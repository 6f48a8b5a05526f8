-------------------------- MODULE MCHttpTransaction --------------------------
(***************************************************************************)
(* Instances of HttpTransaction for TLC; their sizes are in the .cfg files. *)
(***************************************************************************)
EXTENDS HttpTransaction

Usual == [version |-> "1.1", eol |-> "crlf", fields |-> TRUE, length |-> "exact", type |-> TRUE]
Bare  == [Usual EXCEPT !.fields = FALSE, !.length = "absent", !.type = FALSE]

MCHeads == {Usual, Bare,
            [Usual EXCEPT !.eol = "lf"],
            [Usual EXCEPT !.version = "other", !.length = "othercase"]}

=============================================================================
