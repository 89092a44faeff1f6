---------------------------- MODULE MCOscStream -----------------------------
(***************************************************************************)
(* Networks for TLC.                                                       *)
(***************************************************************************)
EXTENDS OscStream

Tcp == [dgram |-> FALSE, clients |-> {"c1"}, asks |-> 2, sizes |-> {"small"},
        splits |-> FALSE, accidents |-> 2]

MCNets ==
  [udp   |-> [Tcp EXCEPT !.dgram = TRUE, !.clients = {"c1", "c2"}, !.asks = 1,
                         !.sizes = Sizes, !.accidents = 1],
   tcp   |-> [Tcp EXCEPT !.sizes = {"small", "huge"}],
   pair  |-> [Tcp EXCEPT !.clients = {"c1", "c2"}, !.accidents = 1],
   split |-> [Tcp EXCEPT !.splits = TRUE, !.accidents = 0],
   ends  |-> [Tcp EXCEPT !.splits = TRUE, !.asks = 1, !.accidents = 1],
   over  |-> [Tcp EXCEPT !.sizes = {"small", "big"}, !.accidents = 1]]
=============================================================================
