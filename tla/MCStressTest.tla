---------------------------- MODULE MCStressTest ----------------------------
(***************************************************************************)
(* StressTest with a few tasks.                                            *)
(***************************************************************************)
EXTENDS StressTest

=============================================================================
