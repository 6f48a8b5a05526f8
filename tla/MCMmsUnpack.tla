----------------------------- MODULE MCMmsUnpack -----------------------------
(***************************************************************************)
(* MmsUnpack for TLC; a size_t has Word values, so that lengths that wrap  *)
(* are among those a message may claim.                                    *)
(***************************************************************************)
EXTENDS MmsUnpack

=============================================================================
