---------------------------- MODULE MCMmsHeader -----------------------------
(***************************************************************************)
(* MmsHeader for TLC: received headers that repeat a name, with items of   *)
(* the same and of other types, end before their content type or go on     *)
(* behind it.                                                              *)
(***************************************************************************)
EXTENDS MmsHeader

MCReceived ==
  { <<>>,
    <<Item(Protocol[2], String("a")), Item("From", String("a")), Item(Protocol[2], Long("7"))>>,
    <<Item("Date", Long("7")), Item("Content-Type", Object("ct")), Item("To", String("a"))>>,
    <<Item("Content-Type", Object("ct")), Item("Content-Type", Object("ct"))>> }

=============================================================================
