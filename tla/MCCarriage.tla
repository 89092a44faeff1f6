----------------------------- MODULE MCCarriage -----------------------------
(***************************************************************************)
(* Packets, events and atoms for TLC; and the bytes of packets.            *)
(***************************************************************************)
EXTENDS Carriage

Arg_(type, len) == [type |-> type, len |-> len, val |-> "v"]
BadArg(type, len) == [type |-> type, len |-> len, val |-> "bad"]

\* Of each kind, and of the sized ones at and around a multiple of four bytes.
MCArgs == {Arg_(t, 0) : t \in {"i", "h", "T", "N", "r", "t", "?"}}
          \cup {Arg_("s", n) : n \in {0, 3, 4}} \cup {Arg_("b", n) : n \in {0, 3, 4}}
          \cup {Arg_("S", n) : n \in {7, 40}} \cup {Arg_("m", n) : n \in 1..4}
          \cup {BadArg("S", 7), BadArg("r", 0)}

Message(len, args) == [kind |-> "message", path |-> [path |-> "/p", len |-> len], args |-> args]
Bundle(items) == [kind |-> "bundle", time |-> "now", items |-> items]
Bare == [kind |-> "bare", path |-> [path |-> "/p", len |-> 3], args |-> <<>>]
Bads == {Bare} \cup {[kind |-> k] : k \in {"badMessage", "badBundle", "other"}}

Args2 == {<<>>} \cup {<<a>> : a \in MCArgs} \cup {<<a, b>> : a, b \in MCArgs}
Few == {Message(3, <<>>), Message(4, <<Arg_("i", 0)>>), Message(3, <<Arg_("m", 3), Arg_("b", 5)>>),
        Message(4, <<Arg_("i", 0), Arg_("m", 4)>>), Message(4, <<Arg_("S", 40), Arg_("S", 40)>>),
        Message(3, <<BadArg("S", 7)>>),
        Message(3, <<Arg_("i", 0), Arg_("T", 0), Arg_("h", 0), BadArg("r", 0)>>),
        Bundle(<<>>)} \cup Bads

MCPackets ==
  {Message(len, args) : len \in {1, 3}, args \in Args2}
  \cup {Message(4, [i \in 1..n |-> Arg_("h", 0)]) : n \in 3..9} \cup Bads
  \cup {Bundle(<<p>>) : p \in Few} \cup {Bundle(<<p, q>>) : p, q \in Few}
  \cup {Bundle(<<p, Bundle(<<q>>)>>) : p, q \in Few}

MCMidis == {[len |-> n, val |-> "v"] : n \in 1..6}

MCUriLen == [Object |-> 38, Tuple |-> 37, Sequence |-> 40, URID |-> 36, Literal |-> 39,
             Vector |-> 38, Int |-> 35, x |-> 7, y |-> 15]
MCNames == <<"Object", "Tuple", "Sequence", "URID", "Literal", "Vector", "Int", "x", "y">>
MCMap(host, uri) == LET k == CHOOSE i \in 1..9 : MCNames[i] = uri
                    IN  IF host = 1 THEN k ELSE 10 - k

Atom(type, urids, kids) == [type |-> MCMap(1, type), urids |-> urids, kids |-> kids]
X == MCMap(1, "x")
Y == MCMap(1, "y")
Leaves == {Atom("Int", <<>>, <<>>), Atom("URID", <<X>>, <<>>), Atom("URID", <<99>>, <<>>),
           Atom("Literal", <<Y, 0>>, <<>>), Atom("Vector", <<MCMap(1, "Int")>>, <<>>)}
Inner == Leaves \cup {Atom("Object", <<0, X, Y, 0>>, <<a>>) : a \in Leaves}
                \cup {Atom("Tuple", <<>>, <<a, b>>) : a, b \in Leaves}
MCAtoms == Inner \cup {Atom("Tuple", <<>>, <<a, b>>) : a, b \in Inner}
                 \cup {Atom("Object", <<99, Y, X, 0, Y, X>>, <<a, b>>) : a, b \in Inner}
                 \cup {Atom("Sequence", <<0>>, <<a>>) : a \in Inner}

\* Packets of whole words; their bytes are such that neighbours differ, in the
\* high bit above all, and so do those of one tint from those of the other.
Tinted(n, tint) == [i \in 1..n |-> IF i % tint = 0 THEN {High, i % 7} ELSE {i % 5, i % 7}]

MCPayloads == {Tinted(n, 2) : n \in {4, 12, 28, 32}} \cup {Tinted(n, 3) : n \in {8, 16, 20, 24}}

\* A note, one byte, messages of others: the shortest, and two that look like it.
MCOthers == {<<{4, 7}, {0, 1}, {2}>>, <<{3, 4, 5, 6, 7}>>, <<START, END>>,
             <<START, {0, 1}, {2}, {1}, END>>, [k \in 1..38 |-> START]}
=============================================================================
