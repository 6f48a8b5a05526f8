-------------------------- MODULE MCMmsOutputBuffer --------------------------
(***************************************************************************)
(* MmsOutputBuffer for TLC: three byte values, the strings put at once are  *)
(* one and two bytes long.                                                  *)
(***************************************************************************)
EXTENDS MmsOutputBuffer

MCData == {<<"a">>, <<"b", "a">>}

=============================================================================
