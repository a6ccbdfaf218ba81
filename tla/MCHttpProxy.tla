----------------------------- MODULE MCHttpProxy -----------------------------
(***************************************************************************)
(* HttpProxy with a few connections and requests.                          *)
(***************************************************************************)
EXTENDS HttpProxy

=============================================================================
