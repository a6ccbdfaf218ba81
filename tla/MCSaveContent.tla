---------------------------- MODULE MCSaveContent ----------------------------
(***************************************************************************)
(* Instances of SaveContent with a chunk size of 3: nothing, less than a   *)
(* chunk, a chunk, one byte more, and several chunks.                      *)
(***************************************************************************)
EXTENDS SaveContent

CONSTANTS empty, short, full, over, long, same

Sizes == [d \in Data |-> CASE d = empty -> 0 [] d = short -> 2 [] d = full -> 3
                           [] d = over -> 4 [] d = long -> 11 [] d = same -> 11]

=============================================================================
