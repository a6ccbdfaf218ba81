-------------------------- MODULE MCPrecompileCache --------------------------
(* Instances of PrecompileCache for TLC. *)
EXTENDS PrecompileCache

CONSTANTS s1, s2, e1, e2, app, l1, l2

\* An image with one layer, or with two.
OneLayer == [i \in {app} |-> <<l2>>]
TwoLayers == [i \in {app} |-> <<l1, l2>>]

\* Two loads of one engine, or of two versions of it.
OneEngine == [s \in Loads |-> e1]
TwoEngines == [s \in Loads |-> IF s = s1 THEN e1 ELSE e2]

=============================================================================
