---------------------------- MODULE MCEterojQuery ----------------------------
(***************************************************************************)
(* A peer for TLC: a root, a directory and two methods.                    *)
(***************************************************************************)
EXTENDS EterojQuery

CONSTANTS root, dir, m1, m2

MCNodes == {root, dir, m1, m2}
MCItems == [n \in MCNodes |-> CASE n = root -> <<dir, m1>>
                                [] n = dir  -> <<m2>>
                                [] OTHER    -> <<>>]
MCMethods == {m1, m2}
=============================================================================
