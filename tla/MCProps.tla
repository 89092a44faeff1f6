------------------------------ MODULE MCProps -------------------------------
(***************************************************************************)
(* Props with one or two properties and two values for TLC; the values are *)
(* model values of the configurations.  No symmetry: the run props checks  *)
(* what must eventually happen.                                            *)
(***************************************************************************)
EXTENDS Props
=============================================================================
