--------------------------- MODULE MCWaitableCell ---------------------------
(* The instance of WaitableCell for TLC: one setter and two readers. *)
EXTENDS WaitableCell

=============================================================================
