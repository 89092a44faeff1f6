----------------------------- MODULE OscStream ------------------------------
(***************************************************************************)
(* A server and its clients, each with an osc.lv2/osc.lv2/stream.h: URLs   *)
(* osc.udp:// and osc.prefix.tcp://, the second with the connections'      *)
(* whole life.  The clients ask, the plugin on the server answers, into    *)
(* the one stream it has: the stream knows one peer, who it last heard     *)
(* from (UDP) or whom it has accepted (TCP).  Each iteration of a loop in  *)
(* _lv2_osc_stream_run_udp and _lv2_osc_stream_run_tcp is a step.          *)
(*                                                                         *)
(* The network is external: datagrams get lost, doubled and overtake each  *)
(* other; connections deliver in order, in any portions, and break.  A     *)
(* prefix is two units long and so is what follows it, which is enough to  *)
(* read either in part.                                                    *)
(***************************************************************************)
EXTENDS Integers, Sequences, FiniteSets

CONSTANT Nets    \* the networks there are, by name

\* How long a packet is: not longer than what is asked of the ring to receive
\* it into (LV2_OSC_STREAM_REQBUF); longer; too long to be sent (for tx_buf or
\* for a datagram).
Sizes == {"small", "big", "huge"}

Net == [dgram     : BOOLEAN,          \* osc.udp://, not osc.prefix.tcp://
        clients   : SUBSET STRING,
        asks      : Nat,              \* bound: how often each client asks
        sizes     : SUBSET Sizes,     \* how long packets may be
        splits    : BOOLEAN,          \* may send() and recv() do a part?
        accidents : Nat]              \* bound: broken connections, servers
                                      \* closed and opened, doubled datagrams

AllClients == UNION {Nets[x].clients : x \in DOMAIN Nets}

ASSUME NetsAssumption == Nets \in [DOMAIN Nets -> Net]
ASSUME ClientsAssumption == {"server", "none"} \cap AllClients = {}

VARIABLES net,        \* the name of the network this is; never changes
          asked,      \* how often each client has asked
          answered,   \* how much of its inbox the plugin on the server has seen
          outbox,     \* what driv->read_req is to return
          inbox,      \* what driv->write_adv has been given
          peer,       \* UDP: stream->peer
          flying,     \* UDP: the datagrams under way
          conns,      \* TCP: the connections there have been
          link,       \* TCP: the connection of the client's sock, of the
                      \* server's fd; 0 for none
          connected,  \* stream->connected
          dead,       \* stations that have written beyond the part of the
                      \* ring they had: an assertion ended them, or there is
                      \* no saying what the ring holds
          accidents,  \* how many there have been
          spoiled,    \* history: connections that something was sent or
                      \* received over in part
          turnedFrom  \* history: the answers that were pending when the
                      \* server turned to another client

tcpVars == <<conns, link, connected, dead, spoiled>>
udpVars == <<peer, flying>>
vars == <<net, asked, answered, outbox, inbox, udpVars, tcpVars, accidents, turnedFrom>>

its == Nets[net]
Clients == its.clients
Stations == Clients \cup {"server"}

Init ==
  /\ net \in DOMAIN Nets
  /\ asked = [c \in Clients |-> 0] /\ answered = 0
  /\ outbox = [s \in Stations |-> <<>>] /\ inbox = [s \in Stations |-> <<>>]
  /\ peer = [s \in Stations |-> IF s = "server" THEN "none" ELSE "server"]
  /\ flying = {}
  /\ conns = <<>> /\ link = [s \in Stations |-> 0]
  /\ connected = [s \in Stations |-> FALSE]
  /\ dead = {} /\ accidents = 0 /\ spoiled = {} /\ turnedFrom = {}

-----------------------------------------------------------------------------
(* The plugins.                                                            *)

Question(c, n, size) == [kind |-> "ask", client |-> c, n |-> n, size |-> size]

Ask(c, size) ==
  /\ c \notin dead /\ asked[c] < its.asks
  /\ asked' = [asked EXCEPT ![c] = @ + 1]
  /\ outbox' = [outbox EXCEPT ![c] = Append(@, Question(c, asked[c] + 1, size))]
  /\ UNCHANGED <<net, answered, inbox, udpVars, tcpVars, accidents, turnedFrom>>

\* The units of a packet, and what is read of a whole one.
Body(p) == <<[of |-> p, part |-> 3], [of |-> p, part |-> 4]>>
Frame(p) == <<[of |-> p, part |-> 1], [of |-> p, part |-> 2]>> \o Body(p)

\* Is what has been handed on a packet?  (It then is inbox[..].content[1].of.)
Right(e) == e.content # <<>> /\ e.content = Body(e.content[1].of)

\* The server's plugin looks at what has come, one after the other, and
\* answers questions.
Answer ==
  /\ "server" \notin dead
  /\ answered < Len(inbox["server"]) /\ answered' = answered + 1
  /\ LET e == inbox["server"][answered + 1]
     IN  IF Right(e)
         THEN outbox' = [outbox EXCEPT !["server"] =
                           Append(@, [e.content[1].of EXCEPT !.kind = "answer"])]
         ELSE UNCHANGED outbox
  /\ UNCHANGED <<net, asked, inbox, udpVars, tcpVars, accidents, turnedFrom>>

\* The answers not yet sent, be they handed over or not.
Pending ==
  {[inbox["server"][i].content[1].of EXCEPT !.kind = "answer"] :
     i \in {j \in (answered + 1)..Len(inbox["server"]) : Right(inbox["server"][j])}}
  \cup {outbox["server"][i] : i \in 1..Len(outbox["server"])}

TurnTo(c) == turnedFrom' = turnedFrom \cup {p \in Pending : p.client # c}

Popped(s) == outbox' = [outbox EXCEPT ![s] = Tail(@)]

HandOn(s, content, k) ==
  inbox' = [inbox EXCEPT ![s] = Append(@, [content |-> content, conn |-> k])]

-----------------------------------------------------------------------------
(* _lv2_osc_stream_run_udp.  Here and over TCP, nothing is received while   *)
(* the ring has no room for a request: a period of the plugin empties it.  *)

\* sendto(): a stream without a peer keeps its packets, and one that is too
\* long for a datagram stays where it is, before all others.
SendDatagram(s) ==
  /\ its.dgram /\ peer[s] # "none" /\ s \notin dead
  /\ outbox[s] # <<>> /\ Head(outbox[s]).size # "huge"
  /\ flying' = flying \cup {[from |-> s, to |-> peer[s], packet |-> Head(outbox[s])]}
  /\ Popped(s)
  /\ UNCHANGED <<net, asked, answered, inbox, peer, tcpVars, accidents, turnedFrom>>

\* Mutant: the first that was heard from remains the peer.
HeardFirst(d) ==
  /\ d \in flying /\ d.to \notin dead
  /\ peer' = [peer EXCEPT ![d.to] = IF @ = "none" THEN d.from ELSE @]
  /\ IF d.to = "server" /\ peer["server"] # d.from
     THEN TurnTo(d.from) ELSE UNCHANGED turnedFrom
  /\ flying' = flying \ {d} /\ UNCHANGED accidents

\* recvfrom(): who sent this is the peer from now on.
HeardFrom(d) ==
  /\ d \in flying /\ d.to \notin dead
  /\ peer' = [peer EXCEPT ![d.to] = d.from]
  /\ IF d.to = "server" /\ peer["server"] # d.from
     THEN TurnTo(d.from) ELSE UNCHANGED turnedFrom
  /\ \/ flying' = flying \ {d} /\ UNCHANGED accidents
     \/ /\ accidents < its.accidents /\ accidents' = accidents + 1
        /\ UNCHANGED flying

\* There is room for the datagram, which may be longer than was asked for.
ReceiveDatagram(d) ==
  /\ HeardFrom(d)
  /\ HandOn(d.to, Body(d.packet), 0)
  /\ UNCHANGED <<net, asked, answered, outbox, tcpVars>>

\* There is not: it is cut to what the ring has said there is (k = 1), or it
\* just goes into that, which is the ring's room with the header's.  Either
\* way the end is written behind the room.
ReceiveCut(d, k) ==
  /\ HeardFrom(d) /\ d.packet.size = "big"
  /\ HandOn(d.to, SubSeq(Body(d.packet), 1, k), 0)
  /\ dead' = dead \cup {d.to}
  /\ UNCHANGED <<net, asked, answered, outbox, conns, link, connected, spoiled>>

LoseDatagram(d) ==
  /\ d \in flying /\ flying' = flying \ {d}
  /\ UNCHANGED <<net, asked, answered, outbox, inbox, peer, tcpVars, accidents, turnedFrom>>

-----------------------------------------------------------------------------
(* _lv2_osc_stream_run_tcp: connections.                                   *)

NewConn(c) == [client   |-> c,
               accepted |-> FALSE,
               broken   |-> FALSE,                            \* by the network
               open     |-> {c, "server"},                    \* who has not closed it
               to       |-> [s \in Stations |-> <<>>]]        \* what is under way

Other(s, k) == IF s = "server" THEN conns[k].client ELSE "server"

\* A socket that does not hold connection k any more.
Let(s, k) == [conns EXCEPT ![k].open = @ \ {s}, ![k].to[s] = <<>>]

\* Mutant: a closed socket is not opened again.
ConnectOnce(c) ==
  /\ ~its.dgram /\ c \notin dead /\ ~connected[c] /\ link[c] = 0
  /\ \A k \in 1..Len(conns) : conns[k].client # c
  /\ conns' = Append(conns, NewConn(c))
  /\ link' = [link EXCEPT ![c] = Len(conns) + 1]
  /\ connected' = [connected EXCEPT ![c] = TRUE]
  /\ UNCHANGED <<net, asked, answered, outbox, inbox, udpVars, dead, accidents,
                 spoiled, turnedFrom>>

\* connect(): it is done at once or in the background.  A closed socket is
\* opened again first (reinit, which connects, too).
Connect(c) ==
  /\ ~its.dgram /\ c \notin dead /\ ~connected[c] /\ link[c] = 0
  /\ conns' = Append(conns, NewConn(c))
  /\ link' = [link EXCEPT ![c] = Len(conns) + 1]
  /\ \E now \in BOOLEAN : connected' = [connected EXCEPT ![c] = now]
  /\ UNCHANGED <<net, asked, answered, outbox, inbox, udpVars, dead, accidents,
                 spoiled, turnedFrom>>

\* Calling connect() again tells how it went.  It has failed if the connection
\* broke or the server closed its queue; then the next call tries anew.
ConnectAgain(c) ==
  /\ ~its.dgram /\ c \notin dead /\ ~connected[c] /\ link[c] # 0
  /\ LET conn == conns[link[c]]
     IN  IF conn.broken \/ (~conn.accepted /\ "server" \notin conn.open)
         THEN /\ conns' = Let(c, link[c])
              /\ link' = [link EXCEPT ![c] = 0] /\ UNCHANGED connected
         ELSE /\ connected' = [connected EXCEPT ![c] = TRUE]
              /\ UNCHANGED <<conns, link>>
  /\ UNCHANGED <<net, asked, answered, outbox, inbox, udpVars, dead, accidents,
                 spoiled, turnedFrom>>

Queue == {k \in 1..Len(conns) : ~conns[k].accepted /\ "server" \in conns[k].open}

\* accept(): the oldest connection of the queue.
Accept ==
  /\ ~its.dgram /\ "server" \notin dead /\ ~connected["server"]
  /\ \E k \in Queue : /\ \A j \in Queue : k <= j
                      /\ conns' = [conns EXCEPT ![k].accepted = TRUE]
                      /\ link' = [link EXCEPT !["server"] = k]
                      /\ TurnTo(conns[k].client)
  /\ connected' = [connected EXCEPT !["server"] = TRUE]
  /\ UNCHANGED <<net, asked, answered, outbox, inbox, udpVars, dead, accidents, spoiled>>

\* _close_socket; stream->connected = false
Close(s) ==
  /\ conns' = Let(s, link[s])
  /\ link' = [link EXCEPT ![s] = 0]
  /\ connected' = [connected EXCEPT ![s] = FALSE]

\* The network breaks a connection.
Break(k) ==
  /\ accidents < its.accidents /\ k \in 1..Len(conns)
  /\ ~conns[k].broken /\ conns[k].open # {}
  /\ conns' = [conns EXCEPT ![k].broken = TRUE]
  /\ accidents' = accidents + 1
  /\ UNCHANGED <<net, asked, answered, outbox, inbox, udpVars, link, connected,
                 dead, spoiled, turnedFrom>>

\* The server's stream is closed and opened again: deinit and init.
Reopen ==
  /\ ~its.dgram /\ "server" \notin dead /\ accidents < its.accidents
  /\ conns' = [k \in 1..Len(conns) |->
                 [conns[k] EXCEPT !.open = @ \ {"server"}, !.to["server"] = <<>>]]
  /\ link' = [link EXCEPT !["server"] = 0]
  /\ connected' = [connected EXCEPT !["server"] = FALSE]
  /\ accidents' = accidents + 1
  /\ UNCHANGED <<net, asked, answered, outbox, inbox, udpVars, dead, spoiled, turnedFrom>>

-----------------------------------------------------------------------------
(* _lv2_osc_stream_run_tcp: the loop that sends.                           *)

Alive(s) == connected[s] /\ link[s] # 0 /\ s \notin dead
Reaches(s) == ~conns[link[s]].broken /\ Other(s, link[s]) \in conns[link[s]].open

UnderWay(s) == conns[link[s]].to[s]

\* The units go on their way.
Flow(s, units) == conns' = [conns EXCEPT ![link[s]].to[Other(s, link[s])] = @ \o units]

\* What is too long for tx_buf is skipped.
SendNothing(s) ==
  /\ Alive(s) /\ outbox[s] # <<>> /\ Head(outbox[s]).size = "huge"
  /\ Popped(s)
  /\ UNCHANGED <<net, asked, answered, inbox, udpVars, tcpVars, accidents, turnedFrom>>

\* Mutant: what has been sent is sent again.
SendWholeAgain(s) ==
  /\ Alive(s) /\ outbox[s] # <<>> /\ Head(outbox[s]).size # "huge"
  /\ Reaches(s) /\ conns[link[s]].to[Other(s, link[s])] = <<>>
  /\ Flow(s, Frame(Head(outbox[s])))
  /\ UNCHANGED <<net, asked, answered, outbox, inbox, udpVars, link, connected, dead,
                 accidents, spoiled, turnedFrom>>

\* send() takes all of it, though nobody may be left to read it.
SendWhole(s) ==
  /\ Alive(s) /\ outbox[s] # <<>> /\ Head(outbox[s]).size # "huge"
  /\ ~conns[link[s]].broken
  /\ IF Reaches(s) THEN Flow(s, Frame(Head(outbox[s]))) ELSE UNCHANGED conns
  /\ Popped(s)
  /\ UNCHANGED <<net, asked, answered, inbox, udpVars, link, connected, dead,
                 accidents, spoiled, turnedFrom>>

\* send() takes a part of it, of the prefix or of the packet: it is an error,
\* and all of it is sent again.
SendPart(s, k) ==
  /\ its.splits /\ Alive(s) /\ outbox[s] # <<>> /\ Head(outbox[s]).size # "huge"
  /\ Reaches(s)
  /\ link[s] \notin spoiled    \* bound: once for each connection
  /\ Flow(s, SubSeq(Frame(Head(outbox[s])), 1, k))
  /\ spoiled' = spoiled \cup {link[s]}
  /\ UNCHANGED <<net, asked, answered, outbox, inbox, udpVars, link, connected,
                 dead, accidents, turnedFrom>>

\* send() fails: the packet waits for the next connection.
SendFail(s) ==
  /\ Alive(s) /\ outbox[s] # <<>> /\ ~Reaches(s)
  /\ Close(s)
  /\ UNCHANGED <<net, asked, answered, outbox, inbox, udpVars, dead, accidents,
                 spoiled, turnedFrom>>

-----------------------------------------------------------------------------
(* _lv2_osc_stream_run_tcp: the loop that receives.                        *)

\* recv() is at a prefix: how long it says the packet is.  Two units that are
\* not a prefix may say anything.
AtFrame(units) == units[1].part = 1 /\ units[2].part = 2 /\ units[1].of = units[2].of
Lengths(units) == IF AtFrame(units) THEN {2} ELSE 1..(Len(units) + 1)

\* A prefix and a packet of the length it says, or as much of it as there is:
\* none, if the peer has closed after the prefix.  There is room for it in the
\* ring, though that may not be what was asked for.
ReceiveFrame(s, k) ==
  /\ Alive(s) /\ ~conns[link[s]].broken /\ Len(UnderWay(s)) >= 2
  /\ \E length \in Lengths(UnderWay(s)) :
       /\ k <= length /\ 2 + k <= Len(UnderWay(s))
       /\ \/ k = length
          \/ its.splits /\ k > 0
          \/ k = 0 /\ Len(UnderWay(s)) = 2 /\ ~Reaches(s)
       /\ HandOn(s, SubSeq(UnderWay(s), 3, 2 + k), link[s])
       /\ spoiled' = IF k < length THEN spoiled \cup {link[s]} ELSE spoiled
  /\ conns' = [conns EXCEPT ![link[s]].to[s] = SubSeq(@, 3 + k, Len(@))]
  /\ UNCHANGED <<net, asked, answered, outbox, udpVars, link, connected, dead,
                 accidents, turnedFrom>>

\* What the prefix says is not compared with what was asked of the ring.  With
\* more to read than the ring has room for, recv() writes behind the room; the
\* station is not followed any further.
Overlong(units) == AtFrame(units) => units[1].of.size = "big"

ReceiveOverlong(s) ==
  /\ Alive(s) /\ ~conns[link[s]].broken /\ Len(UnderWay(s)) >= 3
  /\ Overlong(UnderWay(s))
  /\ dead' = dead \cup {s}
  /\ conns' = [conns EXCEPT ![link[s]].to[s] = <<>>]
  /\ UNCHANGED <<net, asked, answered, outbox, inbox, udpVars, link, connected,
                 accidents, spoiled, turnedFrom>>

\* A prefix, and nothing yet of the packet: recv() returns -1, which is
\* handed on as the packet's length, and the ring's assertion does not hold.
ReceivePrefix(s) ==
  /\ its.splits
  /\ Alive(s) /\ ~conns[link[s]].broken /\ Len(UnderWay(s)) >= 2
  /\ spoiled' = spoiled \cup {link[s]}
  /\ dead' = dead \cup {s}
  /\ conns' = [conns EXCEPT ![link[s]].to[s] = SubSeq(@, 3, Len(@))]
  /\ UNCHANGED <<net, asked, answered, outbox, inbox, udpVars, link, connected,
                 accidents, turnedFrom>>

\* A part of a prefix: its length counts as that of a packet.
ReceivePart(s) ==
  /\ its.splits
  /\ Alive(s) /\ ~conns[link[s]].broken /\ UnderWay(s) # <<>>
  /\ HandOn(s, <<>>, link[s])
  /\ spoiled' = spoiled \cup {link[s]}
  /\ conns' = [conns EXCEPT ![link[s]].to[s] = Tail(@)]
  /\ UNCHANGED <<net, asked, answered, outbox, udpVars, link, connected, dead,
                 accidents, turnedFrom>>

\* Mutant: recv() returns 0 for a closed connection even before everything
\* is read, and an empty packet is handed on.
ReceiveEndEmpty(s) ==
  /\ Alive(s)
  /\ \/ conns[link[s]].broken
     \/ ~Reaches(s) /\ UnderWay(s) = <<>>
  /\ Close(s)
  /\ HandOn(s, <<>>, link[s])
  /\ UNCHANGED <<net, asked, answered, outbox, udpVars, dead, accidents, spoiled,
                 turnedFrom>>

\* recv() fails, or returns 0 because the peer has closed.
ReceiveEnd(s) ==
  /\ Alive(s)
  /\ \/ conns[link[s]].broken
     \/ ~Reaches(s) /\ UnderWay(s) = <<>>
  /\ Close(s)
  /\ UNCHANGED <<net, asked, answered, outbox, inbox, udpVars, dead, accidents,
                 spoiled, turnedFrom>>

-----------------------------------------------------------------------------
Sends(s) == SendDatagram(s) \/ SendNothing(s) \/ SendWhole(s) \/ SendFail(s)
Receives(s) == \/ \E d \in flying : /\ d.to = s
                                  /\ \/ ReceiveDatagram(d)
                                     \/ \E k \in 1..2 : ReceiveCut(d, k)
               \/ \E k \in 0..2 : ReceiveFrame(s, k)
               \/ ReceiveOverlong(s) \/ ReceiveEnd(s)
Connects(c) == Connect(c) \/ ConnectAgain(c)

Next ==
  \/ \E c \in Clients, size \in its.sizes : Ask(c, size)
  \/ Answer
  \/ \E d \in flying : LoseDatagram(d)
  \/ Accept \/ \E c \in Clients : Connects(c)
  \/ Reopen \/ \E k \in 1..Len(conns) : Break(k)
  \/ \E s \in Stations : \/ Sends(s) \/ Receives(s) \/ ReceivePart(s) \/ ReceivePrefix(s)
                         \/ \E k \in {1, 3} : SendPart(s, k)

Spec == Init /\ [][Next]_vars

\* Each station's worker goes on running its stream: it tries to connect, and
\* what can be sent and received is, the ring being emptied once a period.  (Asked of networks without splits only,
\* which is where it is used.)
Fairness ==
  /\ WF_vars(~its.splits /\ Accept)
  /\ \A c \in AllClients : WF_vars(~its.splits /\ c \in Clients /\ Connects(c))
  /\ \A s \in AllClients \cup {"server"} :
       /\ SF_vars(~its.splits /\ s \in Stations /\ Sends(s))
       /\ WF_vars(~its.splits /\ s \in Stations /\ Receives(s))

FairSpec == Spec /\ Fairness

-----------------------------------------------------------------------------
(* What makes it correct.                                                  *)

Packet == [kind : {"ask", "answer"}, client : Clients, n : 1..its.asks, size : its.sizes]
Unit == [of : Packet, part : 1..4]
Conn == [client : Clients, accepted : BOOLEAN, broken : BOOLEAN,
         open : SUBSET Stations, to : [Stations -> Seq(Unit)]]

\* The state has its types, and a stream that says it is connected has a
\* socket that is: otherwise it would neither send, nor receive, nor connect
\* again (stream.h:911, 928, 949, 998-999, 1039-1047).
TypeOK ==
  /\ net \in DOMAIN Nets
  /\ asked \in [Clients -> 0..its.asks] /\ answered \in 0..Len(inbox["server"])
  /\ outbox \in [Stations -> Seq(Packet)]
  /\ inbox \in [Stations -> Seq([content : Seq(Unit), conn : Nat])]
  /\ peer \in [Stations -> Stations \cup {"none"}]
  /\ flying \subseteq [from : Stations, to : Stations, packet : Packet]
  /\ conns \in Seq(Conn) /\ link \in [Stations -> 0..Len(conns)]
  /\ connected \in [Stations -> BOOLEAN]
  /\ dead \subseteq Stations /\ spoiled \subseteq 1..Len(conns)
  /\ turnedFrom \subseteq Packet /\ accidents \in 0..its.accidents
  /\ \A s \in Stations : connected[s] => link[s] # 0
  /\ \A s \in Stations : link[s] # 0 => s \in conns[link[s]].open
  /\ \A s \in Stations, k \in 1..Len(conns) :
       s \in conns[k].open /\ (s = "server" => conns[k].accepted) => link[s] = k

\* A datagram longer than what was asked of the ring may have been cut.
Cut(e) == its.dgram /\ Len(e.content) = 1 /\ e.content[1].of.size = "big"

\* A part read or sent spoils what comes after it, but nothing beyond its
\* connection: what is handed on of any other is a packet as it was sent (or a
\* datagram that was cut), and nothing is written beyond the ring's room before
\* a part was, so long as all packets are as short as what is asked of the ring
\* (stream.h:1103-1138: no byte of a connection is kept for the next; a whole
\* frame that is longer is written beyond, 1112: "FIXME check prefix <= max_len").
Confined ==
  /\ \A s \in Stations : \A i \in 1..Len(inbox[s]) :
       Right(inbox[s][i]) \/ inbox[s][i].conn \in spoiled \/ Cut(inbox[s][i])
  /\ spoiled = {} /\ "big" \notin its.sizes => dead = {}

\* Over TCP, the packets of each client come in the order they were handed
\* over, none twice, over however many connections (stream.h:986-1009).
OnceInOrder ==
  ~its.dgram /\ spoiled = {} =>
    \A s \in Stations : \A i, j \in 1..Len(inbox[s]) :
      LET p == inbox[s][i].content[1].of
          q == inbox[s][j].content[1].of
      IN  i < j /\ p.client = q.client => p.n < q.n

\* An answer goes to the client that asked, unless the server has turned to
\* another before it was sent: by a datagram of the other's, or by losing the
\* connection and accepting the other's (stream.h:851-852, 872-874).
AnswersAsker ==
  \A c \in Clients : \A i \in 1..Len(inbox[c]) :
    Right(inbox[c][i]) =>
      LET p == inbox[c][i].content[1].of
      IN  p.kind = "answer" /\ (p.client = c \/ p \in turnedFrom)

\* The end of the connection the server and a client share.
Linked(c) == /\ connected[c] /\ connected["server"]
             /\ link[c] = link["server"]

\* Whatever breaks, the server and a client find together again, unless one has
\* written beyond its ring (stream.h:868-939; src/ChangeLog:37, automatic
\* reconnections).
Settles == ~its.dgram /\ ~its.splits => <>[](dead # {} \/ \E c \in Clients : Linked(c))

\* A packet too long for a datagram is the next to be sent.
Stuck(s) == its.dgram /\ outbox[s] # <<>> /\ Head(outbox[s]).size = "huge"

\* What is handed over leaves, sooner or later, unless it waits behind a
\* packet that is too long for a datagram, for ever: the send loop breaks at
\* the error and does not skip it (stream.h:797-806; over TCP it does, 965), or
\* somebody has written beyond the ring.
Flows ==
  ~its.splits =>
    \A s \in AllClients \cup {"server"} :
      <>[](s \in Stations => outbox[s] = <<>> \/ Stuck(s) \/ dead # {})

\* Neither connections nor packets stay away for ever.
Recovers == Settles /\ Flows
=============================================================================
