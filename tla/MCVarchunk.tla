----------------------------- MODULE MCVarchunk -----------------------------
(***************************************************************************)
(* Small rings for TLC.  The code rounds every ring up to a power of two   *)
(* (varchunk_body_size), which makes & mask the remainder by the size.     *)
(***************************************************************************)
EXTENDS Varchunk, TLC

ASSUME PowerOfTwo == Size \in {2^k : k \in 4..8}

\* The two payloads can be told apart, and that is all the ring does with them.
Payloads == Permutations(Values)
=============================================================================
