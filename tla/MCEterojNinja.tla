---------------------------- MODULE MCEterojNinja ----------------------------
(***************************************************************************)
(* Inputs for TLC: periods without events, with one or with two of them,   *)
(* every kind among them.                                                  *)
(***************************************************************************)
EXTENDS EterojNinja

MCInputs == { <<>>, <<"atom">>, <<"ninja">>, <<"setTrue">>, <<"setFalse", "long">>,
              <<"osc", "atom">> }
=============================================================================
