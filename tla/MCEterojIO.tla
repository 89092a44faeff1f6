----------------------------- MODULE MCEterojIO -----------------------------
(***************************************************************************)
(* Two URLs that fit and one that does not for TLC.                        *)
(***************************************************************************)
EXTENDS EterojIO
=============================================================================
