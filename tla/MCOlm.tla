------------------------------- MODULE MCOlm --------------------------------
(* Instances of Olm for TLC. *)
EXTENDS Olm

CONSTANTS o1, o2, o3

\* Two lists that overlap in another order, a single offload, and none.
SomeLists == {<<o1, o2, o3>>, <<o3, o1>>, <<o2>>, <<>>}
=============================================================================
