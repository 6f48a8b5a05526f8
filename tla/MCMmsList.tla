------------------------------ MODULE MCMmsList ------------------------------
(***************************************************************************)
(* MmsList for TLC: three data, of which two share a name.                 *)
(***************************************************************************)
EXTENDS MmsList, TLC

MCLow       == "d1" :> 1 @@ "d2" :> 2 @@ "d3" :> 3
MCNamed     == "To" :> {"d1", "d2"} @@ "From" :> {}

=============================================================================
