------------------------------ MODULE MCExecutor ------------------------------
(***************************************************************************)
(* Executor with one directory in PATH and one file of each sort.          *)
(***************************************************************************)
EXTENDS Executor

CONSTANTS bin, cwd

OneDir == <<bin>>

SomeFiles ==
  {[kind |-> k, exec |-> TRUE] : k \in {"native", "wasm"}}
    \cup {[kind |-> k, exec |-> FALSE] : k \in {"wat", "other"}}

=============================================================================
