-------------------------- MODULE MCBundleSchedule --------------------------
(***************************************************************************)
(* Packets for TLC: a message, bundles for several periods, one too long.  *)
(***************************************************************************)
EXTENDS BundleSchedule

CONSTANTS Now     \* a value for Immediate

MCPackets == [time : {Now, 1, 4, 5}, long : {FALSE}] \cup {[time |-> 4, long |-> TRUE]}
MCDrifts == {0, 1}
=============================================================================
