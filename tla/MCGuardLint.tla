---------------------------- MODULE MCGuardLint ----------------------------
(***************************************************************************)
(* Two guards in a row, one of each verdict.                               *)
(***************************************************************************)
EXTENDS GuardLint

SatThenUnsat == <<"sat", "unsat">>
=============================================================================
