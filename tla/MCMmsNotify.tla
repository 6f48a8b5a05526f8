----------------------------- MODULE MCMmsNotify -----------------------------
(***************************************************************************)
(* Instances of MmsNotify for TLC.                                         *)
(***************************************************************************)
EXTENDS MmsNotify

=============================================================================
