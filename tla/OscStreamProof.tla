--------------------------- MODULE OscStreamProof ---------------------------
(***************************************************************************)
(* What the streams of a server and its clients keep, for any networks of  *)
(* either kind, any number of clients and questions, any portions and any  *)
(* accidents: sockets and connections agree, answers reach who asked,      *)
(* unless the server has turned to another, a part sent or read spoils     *)
(* nothing beyond its connection, nothing is written beyond the ring's     *)
(* room before that where packets are as short as what the ring is asked   *)
(* for, and over TCP packets come in order.                                *)
(***************************************************************************)
EXTENDS OscStream, SequenceTheorems, TLAPS

\* The two halves of the types: what is sent and read, and the connections.
Mail ==
  /\ net \in DOMAIN Nets
  /\ asked \in [Clients -> 0..its.asks] /\ answered \in 0..Len(inbox["server"])
  /\ outbox \in [Stations -> Seq(Packet)]
  /\ inbox \in [Stations -> Seq([content : Seq(Unit), conn : Nat])]
  /\ peer \in [Stations -> Stations \cup {"none"}]
  /\ flying \subseteq [from : Stations, to : Stations, packet : Packet]
  /\ turnedFrom \subseteq Packet /\ accidents \in 0..its.accidents

Sockets ==
  /\ conns \in Seq(Conn) /\ link \in [Stations -> 0..Len(conns)]
  /\ connected \in [Stations -> BOOLEAN]
  /\ dead \subseteq Stations /\ spoiled \subseteq 1..Len(conns)
  /\ \A s \in Stations : connected[s] => link[s] # 0
  /\ \A s \in Stations : link[s] # 0 => s \in conns[link[s]].open
  /\ \A s \in Stations, k \in 1..Len(conns) :
       s \in conns[k].open /\ (s = "server" => conns[k].accepted) => link[s] = k

\* The server's socket is that of an accepted connection, a client's that of
\* one of its own; there are none over UDP.
Places ==
  /\ link["server"] # 0 => connected["server"]
  /\ \A c \in Clients : link[c] # 0 => conns[link[c]].client = c
  /\ its.dgram => conns = <<>>

\* What a client asks, and what may go to it.
AsksOf(c) == [kind : {"ask"}, client : {c}, n : Nat, size : Sizes]
Answers == [kind : {"answer"}, client : AllClients, n : Nat, size : Sizes]
AnswersTo(c, turned) == {p \in Answers : p.client = c \/ p \in turned}

\* The client the server sends to.
Faces == IF its.dgram THEN peer["server"]
         ELSE IF link["server"] = 0 THEN "none" ELSE conns[link["server"]].client

\* What may be pending at a server that faces a client.
Dues(face, turned) == IF face = "none" THEN Answers ELSE AnswersTo(face, turned)

\* Clients have questions to send, and the server answers for the client it
\* faces.
Due ==
  /\ \A c \in Clients : outbox[c] \in Seq(AsksOf(c))
  /\ Pending \subseteq Dues(Faces, turnedFrom)

\* Datagrams are under way between a client and the server only.
Aimed(d, turned) ==
  \/ d.from \in Clients /\ d.to = "server" /\ d.packet \in AsksOf(d.from)
  \/ d.from = "server" /\ d.to \in Clients /\ d.packet \in AnswersTo(d.to, turned)
Aired ==
  /\ its.dgram => peer["server"] # "server" /\ \A c \in Clients : peer[c] = "server"
  /\ \A d \in flying : its.dgram /\ Aimed(d, turnedFrom)

UnitsOf(P) == [of : P, part : 1..4]

\* Each end of a connection gets what is for it.
ToEnds(conn, turned) ==
  /\ conn.to["server"] \in Seq(UnitsOf(AsksOf(conn.client)))
  /\ conn.to[conn.client] \in Seq(UnitsOf(AnswersTo(conn.client, turned)))
Wired == \A k \in 1..Len(conns) : ToEnds(conns[k], turnedFrom)

\* The inductive invariant.
IInv == Mail /\ Sockets /\ Places /\ Due /\ Aired /\ Wired /\ AnswersAsker

-----------------------------------------------------------------------------
(* Networks and sequences.                                                 *)

LEMMA NetFacts ==
  ASSUME net \in DOMAIN Nets
  PROVE  /\ its \in Net /\ "server" \notin Clients /\ "none" \notin Stations
         /\ its.asks \in Nat /\ its.accidents \in Nat
         /\ its.dgram \in BOOLEAN /\ its.splits \in BOOLEAN
         /\ its.sizes \subseteq Sizes
<1>1. its \in Net
  BY NetsAssumption DEF its
<1>2. Clients \subseteq AllClients
  BY DEF Clients, AllClients, its
<1>3. "server" \notin Clients /\ "none" \notin Clients
  BY <1>2, ClientsAssumption
<1>4. "none" \notin Stations
  BY <1>3 DEF Stations
<1> QED
  BY <1>1, <1>3, <1>4 DEF Net

LEMMA Fixed ==
  ASSUME UNCHANGED net
  PROVE  /\ its' = its /\ Clients' = Clients /\ Stations' = Stations
         /\ Packet' = Packet /\ Unit' = Unit /\ Conn' = Conn
<1>1. its' = its
  BY DEF its
<1>2. Clients' = Clients
  BY <1>1 DEF Clients
<1>3. Stations' = Stations
  BY <1>2 DEF Stations
<1>4. Packet' = Packet
  BY <1>1, <1>2 DEF Packet
<1>5. Unit' = Unit
  BY <1>4 DEF Unit
<1> QED
  BY <1>1, <1>2, <1>3, <1>4, <1>5 DEF Conn

LEMMA HeadTail ==
  ASSUME NEW S, NEW s \in Seq(S), s # <<>>
  PROVE  /\ Head(s) \in S /\ Tail(s) \in Seq(S) /\ Len(Tail(s)) = Len(s) - 1
         /\ Len(s) \in Nat /\ Len(s) > 0
         /\ Head(s) = s[1] /\ \A i \in 1..Len(Tail(s)) : Tail(s)[i] = s[i + 1]
BY HeadTailProperties, EmptySeq, LenProperties

LEMMA Element ==
  ASSUME NEW S, NEW s \in Seq(S), NEW n \in 1..Len(s)
  PROVE  s[n] \in S /\ Len(s) \in Nat
BY ElementOfSeq, LenProperties

\* A part of a sequence.
LEMMA Portion ==
  ASSUME NEW S, NEW s \in Seq(S), NEW m \in Nat \ {0}, NEW n \in Nat, n <= Len(s)
  PROVE  SubSeq(s, m, n) \in Seq(S)
<1>1. \A i \in m..n : s[i] \in S
  BY ElementOfSeq, LenProperties
<1> QED
  BY <1>1, SubSeqProperties

\* One sequence behind the other.
LEMMA ConcatFacts ==
  ASSUME NEW S, NEW f \in Seq(S), NEW g \in Seq(S)
  PROVE  /\ f \o g \in Seq(S) /\ Len(f) \in Nat /\ Len(g) \in Nat
         /\ Len(f \o g) = Len(f) + Len(g)
         /\ \A i \in 1..(Len(f) + Len(g)) :
              (f \o g)[i] = IF i <= Len(f) THEN f[i] ELSE g[i - Len(f)]
<1>1. Len(f) \in Nat /\ Len(g) \in Nat
  BY LenProperties
<1> QED
  BY <1>1, ConcatProperties

LEMMA Joined ==
  ASSUME NEW S, NEW f \in Seq(S), NEW g \in Seq(S)
  PROVE  f \o g \in Seq(S) /\ Len(f \o g) = Len(f) + Len(g)
BY ConcatFacts

\* The units of a packet.
LEMMA Units ==
  ASSUME NEW P, NEW p \in P, NEW k \in {1, 3}
  PROVE  /\ Body(p) \in Seq(UnitsOf(P)) /\ Frame(p) \in Seq(UnitsOf(P))
         /\ SubSeq(Frame(p), 1, k) \in Seq(UnitsOf(P))
<1>1. \A j \in 1..4 : [of |-> p, part |-> j] \in UnitsOf(P)
  BY DEF UnitsOf
<1>2. Body(p) \in Seq(UnitsOf(P)) /\ Len(Body(p)) = 2
  BY <1>1 DEF Body
<1>3. /\ <<[of |-> p, part |-> 1], [of |-> p, part |-> 2]>> \in Seq(UnitsOf(P))
      /\ Len(<<[of |-> p, part |-> 1], [of |-> p, part |-> 2]>>) = 2
  BY <1>1
<1>4. Frame(p) \in Seq(UnitsOf(P)) /\ Len(Frame(p)) = 4
  <2> DEFINE prefix == <<[of |-> p, part |-> 1], [of |-> p, part |-> 2]>>
  <2>1. Frame(p) = prefix \o Body(p)
    BY DEF Frame
  <2> HIDE DEF prefix
  <2>2. prefix \in Seq(UnitsOf(P)) /\ Len(prefix) = 2
    BY <1>3 DEF prefix
  <2>3. /\ prefix \o Body(p) \in Seq(UnitsOf(P))
        /\ Len(prefix \o Body(p)) = Len(prefix) + Len(Body(p))
    BY <1>2, <2>2, Joined
  <2> QED
    BY <1>2, <2>1, <2>2, <2>3
<1>5. SubSeq(Frame(p), 1, k) \in Seq(UnitsOf(P))
  <2>1. PICK w : w = Frame(p)
    OBVIOUS
  <2>2. w \in Seq(UnitsOf(P)) /\ 1 \in Nat \ {0} /\ k \in Nat /\ k <= Len(w)
    <3>1. w \in Seq(UnitsOf(P)) /\ Len(w) = 4
      BY <1>4, <2>1
    <3>2. k \in Nat /\ k <= 4 /\ 1 \in Nat \ {0}
      OBVIOUS
    <3> QED
      BY ONLY <3>1, <3>2
  <2>3. SubSeq(w, 1, k) \in Seq(UnitsOf(P))
    BY ONLY <2>2, Portion
  <2> QED
    BY <2>1, <2>3
<1> QED
  BY <1>2, <1>4, <1>5

\* The more the server has turned from, the more may go to a client.
LEMMA MayGo ==
  ASSUME NEW turned, NEW more, turned \subseteq more
  PROVE  /\ \A c : AnswersTo(c, turned) \subseteq AnswersTo(c, more)
         /\ \A c : Dues(c, turned) \subseteq Dues(c, more)
         /\ \A conn : ToEnds(conn, turned) => ToEnds(conn, more)
<1>1. \A c : AnswersTo(c, turned) \subseteq AnswersTo(c, more)
  BY DEF AnswersTo
<1>2. ASSUME NEW conn, ToEnds(conn, turned) PROVE ToEnds(conn, more)
  <2>1. UnitsOf(AnswersTo(conn.client, turned)) \subseteq UnitsOf(AnswersTo(conn.client, more))
    BY <1>1 DEF UnitsOf
  <2>2. conn.to[conn.client] \in Seq(UnitsOf(AnswersTo(conn.client, more)))
    BY <1>2, <2>1, SeqMonotonic DEF ToEnds
  <2> QED
    BY <1>2, <2>2 DEF ToEnds
<1> QED
  BY <1>1, <1>2 DEF Dues

-----------------------------------------------------------------------------
(* What stays as it is.                                                    *)

LEMMA StillFaces ==
  ASSUME UNCHANGED net, peer'["server"] = peer["server"], link'["server"] = link["server"],
         link["server"] # 0 => conns'[link["server"]].client = conns[link["server"]].client
  PROVE  Faces' = Faces
BY Fixed DEF Faces

LEMMA StillAnswers ==
  ASSUME AnswersAsker, UNCHANGED <<net, inbox>>, turnedFrom \subseteq turnedFrom'
  PROVE  AnswersAsker'
BY Fixed DEF AnswersAsker, Right, Body

LEMMA StillAired ==
  ASSUME Aired, UNCHANGED <<net, peer>>, flying' \subseteq flying,
         turnedFrom \subseteq turnedFrom'
  PROVE  Aired'
<1>1. \A c : AnswersTo(c, turnedFrom) \subseteq AnswersTo(c, turnedFrom')
  BY MayGo
<1> QED
  BY <1>1, Fixed DEF Aired, Aimed

LEMMA StillWired ==
  ASSUME Wired, UNCHANGED conns, turnedFrom \subseteq turnedFrom'
  PROVE  Wired'
BY MayGo DEF Wired

\* What is not sent has been answered to, or will be, for the client faced.
LEMMA StillDue ==
  ASSUME Due, \A c \in Clients : outbox'[c] \in Seq(AsksOf(c)), UNCHANGED net,
         Pending' \subseteq Pending, turnedFrom \subseteq turnedFrom',
         Faces' \in {Faces, "none"}
  PROVE  Due'
<1>1. Dues(Faces, turnedFrom) \subseteq Dues(Faces', turnedFrom')
  <2>1. Dues(Faces, turnedFrom) \subseteq Dues(Faces, turnedFrom')
    BY MayGo
  <2>2. Dues(Faces, turnedFrom) \subseteq Dues("none", turnedFrom')
    BY DEF Dues, AnswersTo
  <2> QED
    BY <2>1, <2>2
<1> QED
  BY <1>1, Fixed DEF Due

\* The questions that wait to be answered, as answers.
AsAnswer(p) == [p EXCEPT !.kind = "answer"]
Heard ==
  {AsAnswer(inbox["server"][i].content[1].of) :
     i \in {j \in (answered + 1)..Len(inbox["server"]) : Right(inbox["server"][j])}}

LEMMA PendingParts == Pending = Heard \cup {outbox["server"][i] : i \in 1..Len(outbox["server"])}
BY DEF Pending, Heard, AsAnswer

\* A packet is taken off a queue.
LEMMA PoppedKeeps ==
  ASSUME IInv, NEW s \in Stations, outbox[s] # <<>>, Popped(s),
         UNCHANGED <<net, answered, inbox>>
  PROVE  /\ outbox' \in [Stations -> Seq(Packet)]
         /\ \A c \in Clients : outbox'[c] \in Seq(AsksOf(c))
         /\ Pending' \subseteq Pending
<1>1. /\ outbox \in [Stations -> Seq(Packet)] /\ "server" \in Stations
      /\ outbox' = [outbox EXCEPT ![s] = Tail(outbox[s])]
  BY DEF IInv, Mail, Popped, Stations
<1>2. Tail(outbox[s]) \in Seq(Packet)
  BY <1>1, HeadTail
<1>3. \A c \in Clients : outbox'[c] \in Seq(AsksOf(c))
  <2>1. ASSUME NEW c \in Clients PROVE outbox'[c] \in Seq(AsksOf(c))
    <3>1. outbox[c] \in Seq(AsksOf(c)) /\ c \in Stations
      BY DEF IInv, Due, Stations
    <3>2. CASE s = c
      BY <1>1, <3>1, <3>2, HeadTail
    <3>3. CASE s # c
      BY <1>1, <3>1, <3>3
    <3> QED
      BY <3>2, <3>3
  <2> QED
    BY <2>1
<1>4. Heard' = Heard
  BY DEF Heard
<1>5. ASSUME NEW i \in 1..Len(outbox'["server"])
      PROVE  \E j \in 1..Len(outbox["server"]) : outbox'["server"][i] = outbox["server"][j]
  <2>1. CASE s = "server"
    <3>1. outbox'["server"] = Tail(outbox["server"]) /\ outbox["server"] \in Seq(Packet)
      BY <1>1, <2>1
    <3>2. i + 1 \in 1..Len(outbox["server"])
          /\ outbox'["server"][i] = outbox["server"][i + 1]
      BY <2>1, <3>1, HeadTail
    <3> QED
      BY <3>2
  <2>2. CASE s # "server"
    BY <1>1, <2>2
  <2> QED
    BY <2>1, <2>2
<1>6. Pending' \subseteq Pending
  <2>1. Pending' = Heard' \cup {outbox'["server"][i] : i \in 1..Len(outbox'["server"])}
    BY DEF Pending, Heard, AsAnswer
  <2> QED
    BY <1>4, <1>5, <2>1, PendingParts
<1> QED
  BY <1>1, <1>2, <1>3, <1>6

\* The packet that comes next.
LEMMA NextPacket ==
  ASSUME IInv, NEW s \in Stations, outbox[s] # <<>>
  PROVE  /\ Head(outbox[s]) \in Packet
         /\ s \in Clients => Head(outbox[s]) \in AsksOf(s)
         /\ s = "server" => Head(outbox[s]) \in Dues(Faces, turnedFrom)
<1>1. outbox[s] \in Seq(Packet)
  BY DEF IInv, Mail
<1>2. s \in Clients => Head(outbox[s]) \in AsksOf(s)
  BY HeadTail DEF IInv, Due
<1>3. ASSUME s = "server" PROVE Head(outbox[s]) \in Pending
  <2>1. Head(outbox[s]) = outbox[s][1] /\ 1 \in 1..Len(outbox[s])
    BY <1>1, HeadTail
  <2> QED
    BY <1>3, <2>1, PendingParts
<1> QED
  BY <1>1, <1>2, <1>3, HeadTail DEF IInv, Due

\* What is handed on to a client has to be for it.
LEMMA HandedKeeps ==
  ASSUME IInv, NEW s \in Stations, NEW content \in Seq(Unit), NEW k \in Nat,
         HandOn(s, content, k), UNCHANGED <<net, answered>>,
         turnedFrom \subseteq turnedFrom',
         s \in Clients /\ content # <<>> => content[1].of \in AnswersTo(s, turnedFrom')
  PROVE  /\ inbox' \in [Stations -> Seq([content : Seq(Unit), conn : Nat])]
         /\ answered' \in 0..Len(inbox'["server"])
         /\ AnswersAsker'
<1> DEFINE E == [content : Seq(Unit), conn : Nat]
           e == [content |-> content, conn |-> k]
<1>1. /\ inbox \in [Stations -> Seq(E)] /\ e \in E /\ answered \in 0..Len(inbox["server"])
      /\ inbox' = [inbox EXCEPT ![s] = Append(inbox[s], e)] /\ "server" \in Stations
  BY DEF IInv, Mail, HandOn, Stations
<1>2. /\ Append(inbox[s], e) \in Seq(E) /\ Len(Append(inbox[s], e)) = Len(inbox[s]) + 1
      /\ Len(inbox[s]) \in Nat
      /\ \A i \in 1..Len(inbox[s]) : Append(inbox[s], e)[i] = inbox[s][i]
      /\ Append(inbox[s], e)[Len(inbox[s]) + 1] = e
  <2>1. inbox[s] \in Seq(E)
    BY <1>1
  <2> QED
    BY <1>1, <2>1, AppendProperties, LenProperties
<1>3. inbox' \in [Stations -> Seq(E)]
  BY <1>1, <1>2
<1>4. answered' \in 0..Len(inbox'["server"])
  <2>1. CASE s = "server"
    BY <1>1, <1>2, <2>1
  <2>2. CASE s # "server"
    BY <1>1, <2>2
  <2> QED
    BY <2>1, <2>2
<1>5. AnswersAsker'
  <2>1. ASSUME NEW c \in Clients, NEW i \in 1..Len(inbox'[c]), Right(inbox'[c][i])
        PROVE  LET p == inbox'[c][i].content[1].of
               IN  p.kind = "answer" /\ (p.client = c \/ p \in turnedFrom')
    <3>0. c \in Stations
      BY DEF Stations
    <3>1. CASE s = c /\ i = Len(inbox[s]) + 1
      <4>1. inbox'[c][i] = e /\ content # <<>>
        BY <1>1, <1>2, <2>1, <3>0, <3>1 DEF Right
      <4>2. content[1].of \in AnswersTo(c, turnedFrom')
        BY <3>1, <4>1
      <4> QED
        BY <4>1, <4>2 DEF AnswersTo, Answers
    <3>2. CASE ~(s = c /\ i = Len(inbox[s]) + 1)
      <4>1. i \in 1..Len(inbox[c]) /\ inbox'[c][i] = inbox[c][i]
        <5>1. CASE s = c
          <6>1. inbox'[c] = Append(inbox[s], e)
            BY <1>1, <3>0, <5>1
          <6> QED
            BY <1>2, <2>1, <3>2, <5>1, <6>1
        <5>2. CASE s # c
          <6>1. inbox'[c] = inbox[c]
            BY <1>1, <3>0, <5>2
          <6> QED
            BY <2>1, <6>1
        <5> QED
          BY <5>1, <5>2
      <4> QED
        BY <2>1, <4>1 DEF IInv, AnswersAsker
    <3> QED
      BY <3>1, <3>2
  <2> QED
    BY <2>1, Fixed DEF AnswersAsker, Right, Body
<1> QED
  BY <1>3, <1>4, <1>5

\* What is handed on to the server may be a question to be answered.
LEMMA HandedPending ==
  ASSUME IInv, NEW s \in Stations, NEW content \in Seq(Unit), NEW k \in Nat,
         HandOn(s, content, k), UNCHANGED <<net, answered, outbox>>
  PROVE  \A p \in Pending' : \/ p \in Pending
                             \/ /\ s = "server" /\ content # <<>>
                                /\ p = AsAnswer(content[1].of)
<1> DEFINE E == [content : Seq(Unit), conn : Nat]
           e == [content |-> content, conn |-> k]
<1>0. /\ inbox["server"] \in Seq(E) /\ e \in E /\ answered \in 0..Len(inbox["server"])
      /\ inbox' = [inbox EXCEPT ![s] = Append(inbox[s], e)]
      /\ inbox \in [Stations -> Seq(E)] /\ "server" \in Stations
  BY DEF IInv, Mail, HandOn, Stations
<1>1. /\ inbox["server"] \in Seq(E) /\ e \in E /\ answered \in Nat
      /\ inbox' = [inbox EXCEPT ![s] = Append(inbox[s], e)]
      /\ inbox \in [Stations -> Seq(E)] /\ "server" \in Stations
  <2>1. Len(inbox["server"]) \in Nat
    BY <1>0, LenProperties
  <2> HIDE DEF E, e
  <2> QED
    BY <1>0, <2>1
<1>2. CASE s # "server"
  <2>1. inbox'["server"] = inbox["server"]
    BY <1>1, <1>2
  <2>2. Heard' = Heard
    BY <2>1 DEF Heard
  <2> QED
    BY <2>1, <2>2 DEF Pending, Heard, AsAnswer
<1>3. CASE s = "server"
  <2>1. /\ inbox'["server"] = Append(inbox["server"], e)
        /\ Len(inbox'["server"]) = Len(inbox["server"]) + 1
        /\ Len(inbox["server"]) \in Nat
        /\ \A i \in 1..Len(inbox["server"]) : inbox'["server"][i] = inbox["server"][i]
        /\ inbox'["server"][Len(inbox["server"]) + 1] = e
    BY <1>1, <1>3, AppendProperties, LenProperties
  <2>2. ASSUME NEW i \in (answered + 1)..Len(inbox'["server"]), Right(inbox'["server"][i])
        PROVE  \/ /\ i \in (answered + 1)..Len(inbox["server"]) /\ Right(inbox["server"][i])
                  /\ inbox'["server"][i] = inbox["server"][i]
               \/ inbox'["server"][i] = e /\ content # <<>>
    <3>1. CASE i = Len(inbox["server"]) + 1
      BY <2>1, <2>2, <3>1 DEF Right
    <3>2. CASE i # Len(inbox["server"]) + 1
      <4>1. i \in (answered + 1)..Len(inbox["server"]) /\ i \in 1..Len(inbox["server"])
        BY <1>1, <2>1, <3>2
      <4> QED
        BY <2>1, <2>2, <4>1
    <3> QED
      BY <3>1, <3>2
  <2>3. \A p \in Heard' : p \in Heard \/ (content # <<>> /\ p = AsAnswer(content[1].of))
    <3>1. Heard' = {AsAnswer(inbox'["server"][i].content[1].of) :
             i \in {j \in (answered + 1)..Len(inbox'["server"]) : Right(inbox'["server"][j])}}
      BY DEF Heard, AsAnswer, Right, Body
    <3> QED
      BY <2>2, <3>1 DEF Heard
  <2>4. Pending' = Heard' \cup {outbox["server"][i] : i \in 1..Len(outbox["server"])}
    BY DEF Pending, Heard, AsAnswer
  <2> QED
    BY <1>3, <2>3, <2>4, PendingParts
<1> QED
  BY <1>2, <1>3

\* A question that has come to the server is a packet.
LEMMA HeardIsPacket ==
  ASSUME IInv, NEW e \in [content : Seq(Unit), conn : Nat], Right(e)
  PROVE  e.content[1].of \in Packet /\ AsAnswer(e.content[1].of) \in Packet
<1>1. e.content \in Seq(Unit) /\ e.content # <<>>
  BY DEF Right
<1>2. e.content[1] \in Unit
  BY <1>1, HeadTail, Element
<1>3. e.content[1].of \in Packet
  BY <1>2 DEF Unit
<1> QED
  BY <1>3 DEF Packet, AsAnswer

-----------------------------------------------------------------------------
(* The plugins.                                                            *)

LEMMA StillSockets ==
  ASSUME IInv, UNCHANGED <<net, tcpVars>>
  PROVE  Sockets' /\ Places'
BY Fixed DEF IInv, Sockets, Places, tcpVars

LEMMA AskKeeps ==
  ASSUME IInv, NEW c \in Clients, NEW size \in its.sizes, Ask(c, size)
  PROVE  IInv'
<1> DEFINE q == Question(c, asked[c] + 1, size)
<1>1. /\ UNCHANGED <<net, answered, inbox, peer, flying, conns, link, accidents, turnedFrom>>
      /\ UNCHANGED <<net, tcpVars>>
      /\ asked' = [asked EXCEPT ![c] = asked[c] + 1] /\ asked[c] < its.asks
      /\ outbox' = [outbox EXCEPT ![c] = Append(outbox[c], q)]
  BY DEF Ask, tcpVars, udpVars
<1>2. /\ net \in DOMAIN Nets /\ asked \in [Clients -> 0..its.asks]
      /\ outbox \in [Stations -> Seq(Packet)] /\ c \in Stations
  BY DEF IInv, Mail, Stations
<1>3. its.asks \in Nat /\ "server" \notin Clients /\ size \in Sizes
  BY <1>2, NetFacts
<1>4. q \in Packet /\ q \in AsksOf(c) /\ asked' \in [Clients -> 0..its.asks]
  BY <1>1, <1>2, <1>3 DEF Question, Packet, AsksOf
<1>5. Append(outbox[c], q) \in Seq(Packet) /\ Append(outbox[c], q) \in Seq(AsksOf(c))
  <2>1. outbox[c] \in Seq(Packet) /\ outbox[c] \in Seq(AsksOf(c))
    BY <1>2 DEF IInv, Due
  <2> HIDE DEF q
  <2> QED
    BY <1>4, <2>1, AppendProperties
<1>6. /\ outbox' \in [Stations -> Seq(Packet)]
      /\ \A d \in Clients : outbox'[d] \in Seq(AsksOf(d))
      /\ outbox'["server"] = outbox["server"]
  <2> HIDE DEF q
  <2>1. \A d \in Clients : d \in Stations /\ outbox[d] \in Seq(AsksOf(d))
    BY DEF IInv, Due, Stations
  <2> QED
    BY <1>1, <1>2, <1>3, <1>5, <2>1 DEF Stations
<1>7. Mail'
  BY <1>1, <1>4, <1>6, Fixed DEF IInv, Mail
<1>8. Pending' = Pending
  <2>1. Heard' = Heard
    BY <1>1 DEF Heard
  <2> QED
    BY <1>6, <2>1 DEF Pending, Heard, AsAnswer
<1>9. Due'
  BY <1>1, <1>6, <1>8, StillFaces, StillDue DEF IInv
<1>10. Aired' /\ Wired' /\ AnswersAsker'
  BY <1>1, StillAired, StillWired, StillAnswers DEF IInv
<1> QED
  BY <1>1, <1>7, <1>9, <1>10, StillSockets DEF IInv

LEMMA PendingPackets == ASSUME IInv PROVE Pending \subseteq Packet
<1>1. outbox["server"] \in Seq(Packet)
      /\ inbox["server"] \in Seq([content : Seq(Unit), conn : Nat])
      /\ answered \in 0..Len(inbox["server"])
  BY DEF IInv, Mail, Stations
<1>2. \A i \in 1..Len(outbox["server"]) : outbox["server"][i] \in Packet
  BY <1>1, Element
<1>3. ASSUME NEW i \in (answered + 1)..Len(inbox["server"]), Right(inbox["server"][i])
      PROVE  AsAnswer(inbox["server"][i].content[1].of) \in Packet
  <2>1. i \in 1..Len(inbox["server"])
    <3>1. Len(inbox["server"]) \in Nat
      BY <1>1, LenProperties
    <3> QED
      BY <1>1, <3>1
  <2>2. inbox["server"][i] \in [content : Seq(Unit), conn : Nat]
    BY <1>1, <2>1, Element
  <2> QED
    BY <1>3, <2>2, HeardIsPacket
<1>4. Heard \subseteq Packet
  BY <1>3 DEF Heard
<1> QED
  BY <1>2, <1>4, PendingParts

\* An answer is pending before it is in the outbox, and afterwards.
LEMMA AnswerKeeps == ASSUME IInv, Answer PROVE IInv'
<1> DEFINE e == inbox["server"][answered + 1]
           a == AsAnswer(e.content[1].of)
<1>1. /\ UNCHANGED <<net, inbox, peer, flying, conns, link, turnedFrom>>
      /\ UNCHANGED <<asked, accidents>> /\ UNCHANGED <<net, tcpVars>>
      /\ answered < Len(inbox["server"]) /\ answered' = answered + 1
      /\ Right(e)  => outbox' = [outbox EXCEPT !["server"] = Append(outbox["server"], a)]
      /\ ~Right(e) => outbox' = outbox
  BY DEF Answer, tcpVars, udpVars, AsAnswer
<1>2. /\ net \in DOMAIN Nets /\ answered \in 0..Len(inbox["server"])
      /\ inbox["server"] \in Seq([content : Seq(Unit), conn : Nat])
      /\ outbox \in [Stations -> Seq(Packet)] /\ outbox["server"] \in Seq(Packet)
      /\ "server" \in Stations
  BY DEF IInv, Mail, Stations
<1>3. Len(inbox["server"]) \in Nat /\ "server" \notin Clients
  BY <1>2, LenProperties, NetFacts
<1>4. answered \in Nat /\ answered + 1 \in 1..Len(inbox["server"])
      /\ answered' \in 0..Len(inbox'["server"])
  BY <1>1, <1>2, <1>3
<1>5. Right(e) => a \in Packet /\ a \in Heard
  <2>1. e \in [content : Seq(Unit), conn : Nat]
    BY <1>2, <1>4, Element
  <2>2. Right(e) => a \in Packet
    BY <2>1, HeardIsPacket
  <2>3. Right(e) => a \in Heard
    BY <1>4 DEF Heard
  <2> QED
    BY <2>2, <2>3
<1>6. Heard' \subseteq Heard
  <2>1. Heard' = {AsAnswer(inbox["server"][i].content[1].of) :
           i \in {j \in (answered' + 1)..Len(inbox["server"]) : Right(inbox["server"][j])}}
    BY <1>1 DEF Heard, AsAnswer, Right, Body
  <2>2. (answered' + 1)..Len(inbox["server"]) \subseteq (answered + 1)..Len(inbox["server"])
    BY <1>1, <1>3, <1>4
  <2> QED
    BY <2>1, <2>2 DEF Heard
<1>7. ASSUME Right(e)
      PROVE  /\ outbox' \in [Stations -> Seq(Packet)] /\ Pending' \subseteq Pending
             /\ \A c \in Clients : outbox'[c] = outbox[c]
  <2> HIDE DEF a, e
  <2>1. /\ Append(outbox["server"], a) \in Seq(Packet)
        /\ \A i \in 1..Len(Append(outbox["server"], a)) :
             \/ i \in 1..Len(outbox["server"])
                /\ Append(outbox["server"], a)[i] = outbox["server"][i]
             \/ Append(outbox["server"], a)[i] = a
    <3>1. /\ Append(outbox["server"], a) \in Seq(Packet)
          /\ Len(Append(outbox["server"], a)) = Len(outbox["server"]) + 1
          /\ \A i \in 1..Len(outbox["server"]) :
               Append(outbox["server"], a)[i] = outbox["server"][i]
          /\ Append(outbox["server"], a)[Len(outbox["server"]) + 1] = a
          /\ Len(outbox["server"]) \in Nat
      BY <1>2, <1>5, <1>7, AppendProperties, LenProperties
    <3> QED
      BY <3>1
  <2>2. outbox'["server"] = Append(outbox["server"], a)
        /\ outbox' \in [Stations -> Seq(Packet)]
        /\ \A c \in Clients : outbox'[c] = outbox[c]
    BY <1>1, <1>2, <1>3, <1>7, <2>1 DEF Stations
  <2>3. Pending' = Heard' \cup {outbox'["server"][i] : i \in 1..Len(outbox'["server"])}
    BY DEF Pending, Heard, AsAnswer
  <2>4. Pending' \subseteq Pending
    BY <1>5, <1>6, <1>7, <2>1, <2>2, <2>3, PendingParts
  <2> QED
    BY <2>2, <2>4
<1>8. ASSUME ~Right(e)
      PROVE  /\ outbox' \in [Stations -> Seq(Packet)] /\ Pending' \subseteq Pending
             /\ \A c \in Clients : outbox'[c] = outbox[c]
  <2>1. Pending' = Heard' \cup {outbox'["server"][i] : i \in 1..Len(outbox'["server"])}
    BY DEF Pending, Heard, AsAnswer
  <2> QED
    BY <1>1, <1>2, <1>6, <1>8, <2>1, PendingParts
<1> HIDE DEF e, a
<1>9. /\ outbox' \in [Stations -> Seq(Packet)] /\ Pending' \subseteq Pending
      /\ \A c \in Clients : outbox'[c] = outbox[c]
  BY <1>1, <1>2, <1>7, <1>8
<1>10. Mail'
  BY <1>1, <1>4, <1>9, Fixed DEF IInv, Mail
<1>11. Due'
  <2>1. \A c \in Clients : outbox'[c] \in Seq(AsksOf(c))
    BY <1>9 DEF IInv, Due
  <2> QED
    BY <1>1, <1>9, <2>1, StillFaces, StillDue DEF IInv
<1>12. Aired' /\ Wired' /\ AnswersAsker'
  BY <1>1, StillAired, StillWired, StillAnswers DEF IInv
<1> QED
  BY <1>1, <1>10, <1>11, <1>12, StillSockets DEF IInv

-----------------------------------------------------------------------------
(* UDP.                                                                    *)

\* A datagram goes where the packet may.
LEMMA SendDatagramKeeps ==
  ASSUME IInv, NEW s \in Stations, SendDatagram(s)
  PROVE  IInv'
<1> DEFINE d == [from |-> s, to |-> peer[s], packet |-> Head(outbox[s])]
<1>1. /\ UNCHANGED <<net, asked, answered, inbox, peer, conns, link, accidents, turnedFrom>>
      /\ UNCHANGED <<net, tcpVars>>
      /\ its.dgram /\ peer[s] # "none" /\ outbox[s] # <<>> /\ Popped(s)
      /\ flying' = flying \cup {d}
  BY DEF SendDatagram, tcpVars
<1>2. net \in DOMAIN Nets /\ peer \in [Stations -> Stations \cup {"none"}]
  BY DEF IInv, Mail
<1>3. /\ outbox' \in [Stations -> Seq(Packet)] /\ Pending' \subseteq Pending
      /\ \A c \in Clients : outbox'[c] \in Seq(AsksOf(c))
  BY <1>1, PoppedKeeps
<1>4. d \in [from : Stations, to : Stations, packet : Packet]
  BY <1>1, <1>2, NextPacket
<1>5. Aimed(d, turnedFrom)
  <2>1. CASE s \in Clients
    <3>1. peer[s] = "server" /\ Head(outbox[s]) \in AsksOf(s)
      BY <1>1, <2>1, NextPacket DEF IInv, Aired
    <3> QED
      BY <2>1, <3>1 DEF Aimed
  <2>2. CASE s = "server"
    <3>1. peer[s] \in Clients /\ Faces = peer[s]
      BY <1>1, <1>2, <2>2 DEF IInv, Aired, Faces, Stations
    <3>2. Head(outbox[s]) \in AnswersTo(peer[s], turnedFrom)
      BY <1>1, <2>2, <3>1, NextPacket DEF Dues
    <3> QED
      BY <2>2, <3>1, <3>2 DEF Aimed
  <2> QED
    BY <2>1, <2>2 DEF Stations
<1> HIDE DEF d
<1>6. Mail'
  BY <1>1, <1>3, <1>4, Fixed DEF IInv, Mail
<1>7. Due'
  BY <1>1, <1>3, StillFaces, StillDue DEF IInv
<1>8. Aired'
  BY <1>1, <1>5, Fixed DEF IInv, Aired, Aimed
<1>9. Wired' /\ AnswersAsker'
  BY <1>1, StillWired, StillAnswers DEF IInv
<1> QED
  BY <1>1, <1>6, <1>7, <1>8, <1>9, StillSockets DEF IInv

LEMMA LoseDatagramKeeps ==
  ASSUME IInv, NEW d \in flying, LoseDatagram(d)
  PROVE  IInv'
<1>1. /\ UNCHANGED <<net, asked, answered, outbox, inbox, peer, conns, link, accidents,
                     turnedFrom>>
      /\ UNCHANGED <<net, tcpVars>> /\ flying' \subseteq flying
  BY DEF LoseDatagram, tcpVars
<1>2. Mail'
  BY <1>1, Fixed DEF IInv, Mail
<1>3. Pending' = Pending /\ \A c \in Clients : outbox'[c] \in Seq(AsksOf(c))
  BY <1>1 DEF Pending, IInv, Due
<1>4. Due'
  BY <1>1, <1>3, StillFaces, StillDue DEF IInv
<1>5. Aired' /\ Wired' /\ AnswersAsker'
  BY <1>1, StillAired, StillWired, StillAnswers DEF IInv
<1> QED
  BY <1>1, <1>2, <1>4, <1>5, StillSockets DEF IInv

\* Whoever the server turns to, what is pending is for it or turned from.
LEMMA Turned ==
  ASSUME IInv, NEW c \in Clients, TurnTo(c)
  PROVE  /\ turnedFrom \subseteq turnedFrom' /\ turnedFrom' \subseteq Packet
         /\ Pending \subseteq AnswersTo(c, turnedFrom')
<1>1. Pending \subseteq Answers
  BY DEF IInv, Due, Dues, AnswersTo
<1>2. turnedFrom' = turnedFrom \cup {p \in Pending : p.client # c}
  BY DEF TurnTo
<1> QED
  BY <1>1, <1>2, PendingPackets DEF AnswersTo, IInv, Mail

\* A datagram is handed on, whole or in part.
LEMMA DatagramHanded ==
  ASSUME IInv, NEW d \in flying, NEW content \in Seq(Unit), HeardFrom(d),
         HandOn(d.to, content, 0), content # <<>>, content[1].of = d.packet,
         UNCHANGED <<net, asked, answered, outbox, conns, link, connected, spoiled>>,
         dead' \subseteq Stations
  PROVE  IInv'
<1>1. /\ flying' \subseteq flying
      /\ peer' = [peer EXCEPT ![d.to] = d.from]
      /\ IF d.to = "server" /\ peer["server"] # d.from
         THEN TurnTo(d.from) ELSE UNCHANGED turnedFrom
  BY DEF HeardFrom
<1>2. /\ net \in DOMAIN Nets /\ d \in [from : Stations, to : Stations, packet : Packet]
      /\ peer \in [Stations -> Stations \cup {"none"}] /\ turnedFrom \subseteq Packet
      /\ its.dgram /\ Aimed(d, turnedFrom)
  BY DEF IInv, Mail, Aired
<1>3. /\ d.from \in Stations /\ d.to \in Stations /\ d.packet \in Packet
      /\ "server" \notin Clients /\ "none" \notin Stations
      /\ its.accidents \in Nat
  BY <1>2, NetFacts
<1>5. /\ turnedFrom \subseteq turnedFrom' /\ turnedFrom' \subseteq Packet
  <2>1. CASE d.to = "server" /\ peer["server"] # d.from
    BY <1>1, <1>2, <1>3, <2>1, Turned DEF Aimed
  <2>2. CASE ~(d.to = "server" /\ peer["server"] # d.from)
    BY <1>1, <1>2, <2>2
  <2> QED
    BY <2>1, <2>2
<1>6. \A p \in Pending' : p \in Pending \/ (d.to = "server" /\ p = AsAnswer(d.packet))
  BY <1>3, HandedPending
<1>7. /\ inbox' \in [Stations -> Seq([content : Seq(Unit), conn : Nat])]
      /\ answered' \in 0..Len(inbox'["server"])
      /\ AnswersAsker'
  <2>1. d.to \in Clients => d.packet \in AnswersTo(d.to, turnedFrom')
    BY <1>2, <1>3, <1>5, MayGo DEF Aimed
  <2> QED
    BY <1>3, <1>5, <2>1, HandedKeeps
<1>8. Mail'
  <2>1. accidents' \in 0..its.accidents
    BY <1>3 DEF HeardFrom, IInv, Mail
  <2>2. peer' \in [Stations -> Stations \cup {"none"}]
    BY <1>1, <1>2, <1>3
  <2> QED
    BY <1>1, <1>5, <1>7, <2>1, <2>2, Fixed DEF IInv, Mail
<1>9. Due'
  <2>1. Pending' \subseteq Dues(Faces', turnedFrom')
    <3>1. CASE d.to = "server"
      <4>1. /\ d.from \in Clients /\ d.packet \in AsksOf(d.from) /\ d.from # "none"
            /\ Faces' = d.from /\ "server" \in Stations
        BY <1>1, <1>2, <1>3, <3>1, Fixed DEF Aimed, Faces, Stations
      <4>2. AsAnswer(d.packet) \in AnswersTo(d.from, turnedFrom')
        <5>1. d.from \in AllClients
          BY <1>2, <4>1 DEF Clients, its, AllClients
        <5> QED
          BY <4>1, <5>1 DEF AsksOf, AsAnswer, AnswersTo, Answers
      <4>3. Pending \subseteq AnswersTo(d.from, turnedFrom')
        <5>1. CASE peer["server"] # d.from
          BY <1>1, <3>1, <4>1, <5>1, Turned
        <5>2. CASE peer["server"] = d.from
          BY <1>2, <1>5, <4>1, <5>2, MayGo DEF IInv, Due, Dues, Faces
        <5> QED
          BY <5>1, <5>2
      <4> QED
        BY <1>6, <4>1, <4>2, <4>3 DEF Dues
    <3>2. CASE d.to # "server"
      <4>1. Faces' = Faces
        BY <1>1, <1>2, <3>2, StillFaces
      <4>2. Dues(Faces, turnedFrom) \subseteq Dues(Faces, turnedFrom')
        BY <1>5, MayGo
      <4> QED
        BY <1>6, <3>2, <4>1, <4>2 DEF IInv, Due
    <3> QED
      BY <3>1, <3>2
  <2> QED
    BY <1>1, <2>1, Fixed DEF IInv, Due
<1>10. Aired'
  <2>1. \A x : AnswersTo(x, turnedFrom) \subseteq AnswersTo(x, turnedFrom')
    BY <1>5, MayGo
  <2>2. /\ peer'["server"] # "server"
        /\ \A c \in Clients : peer'[c] = "server"
    BY <1>1, <1>2, <1>3 DEF IInv, Aired, Aimed, Stations
  <2> QED
    BY <1>1, <2>1, <2>2, Fixed DEF IInv, Aired, Aimed
<1>11. Wired'
  BY <1>1, <1>5, StillWired DEF IInv
<1>12. Sockets' /\ Places'
  <2>1. peer' \in [Stations -> Stations \cup {"none"}]
    BY <1>8, Fixed DEF Mail
  <2> QED
    BY Fixed DEF IInv, Sockets, Places
<1> QED
  BY <1>7, <1>8, <1>9, <1>10, <1>11, <1>12 DEF IInv

\* The units of a datagram, all of them or the first.
LEMMA DatagramUnits ==
  ASSUME IInv, NEW d \in flying, NEW k \in 1..2
  PROVE  /\ d.to \in Stations /\ d.packet \in Packet
         /\ Body(d.packet) \in Seq(Unit) /\ SubSeq(Body(d.packet), 1, k) \in Seq(Unit)
         /\ Len(Body(d.packet)) = 2 /\ Body(d.packet)[1].of = d.packet
         /\ Len(SubSeq(Body(d.packet), 1, k)) = k /\ SubSeq(Body(d.packet), 1, k) # <<>>
         /\ SubSeq(Body(d.packet), 1, k)[1].of = d.packet
         /\ k = 2 => SubSeq(Body(d.packet), 1, k) = Body(d.packet)
<1>1. d \in [from : Stations, to : Stations, packet : Packet]
  BY DEF IInv, Mail
<1>2. d.to \in Stations /\ d.packet \in Packet
  BY <1>1
<1>3. Body(d.packet) \in Seq(Unit)
  <2>1. Unit = UnitsOf(Packet)
    BY DEF Unit, UnitsOf
  <2> QED
    BY <1>2, <2>1, Units
<1>4. PICK b \in Seq(Unit) : b = Body(d.packet) /\ Len(b) = 2 /\ b[1].of = d.packet
  <2>1. Len(Body(d.packet)) = 2 /\ Body(d.packet)[1].of = d.packet
    BY DEF Body
  <2> QED
    BY <1>3, <2>1
<1>5. SubSeq(b, 1, k) \in Seq(Unit)
  BY <1>4, Portion
<1>6. /\ Len(SubSeq(b, 1, k)) = k
      /\ \A i \in 1..k : SubSeq(b, 1, k)[i] = b[i]
  BY <1>4, SubSeqProperties
<1>7. SubSeq(b, 1, k)[1] = b[1] /\ SubSeq(b, 1, k) # <<>>
  <2>1. SubSeq(b, 1, k)[1] = b[1]
    BY <1>6
  <2>2. Len(<<>>) = 0 /\ Len(SubSeq(b, 1, k)) # 0
    BY <1>6, EmptySeq
  <2> QED
    BY ONLY <2>1, <2>2
<1>8. k = 2 => SubSeq(b, 1, k) = b
  BY <1>4, SubSeqFull
<1> QED
  BY <1>2, <1>4, <1>5, <1>6, <1>7, <1>8

LEMMA ReceiveDatagramKeeps ==
  ASSUME IInv, NEW d \in flying, ReceiveDatagram(d)
  PROVE  IInv'
<1>1. /\ HeardFrom(d) /\ HandOn(d.to, Body(d.packet), 0)
      /\ UNCHANGED <<net, asked, answered, outbox, conns, link, connected, spoiled, dead>>
  BY DEF ReceiveDatagram, tcpVars
<1>2. dead' \subseteq Stations
  BY <1>1 DEF IInv, Sockets
<1>3. PICK content \in Seq(Unit) :
        content = Body(d.packet) /\ content # <<>> /\ content[1].of = d.packet
  <2>1. 1 \in 1..2
    OBVIOUS
  <2> QED
    BY <2>1, DatagramUnits, EmptySeq
<1> QED
  BY <1>1, <1>2, <1>3, DatagramHanded

LEMMA ReceiveCutKeeps ==
  ASSUME IInv, NEW d \in flying, NEW k \in 1..2, ReceiveCut(d, k)
  PROVE  IInv'
<1>1. /\ HeardFrom(d) /\ HandOn(d.to, SubSeq(Body(d.packet), 1, k), 0)
      /\ dead' = dead \cup {d.to}
      /\ UNCHANGED <<net, asked, answered, outbox, conns, link, connected, spoiled>>
  BY DEF ReceiveCut
<1>2. dead' \subseteq Stations
  BY <1>1, DatagramUnits DEF IInv, Sockets
<1>3. PICK content \in Seq(Unit) : /\ content = SubSeq(Body(d.packet), 1, k)
                                  /\ content # <<>> /\ content[1].of = d.packet
  BY DatagramUnits
<1> QED
  BY <1>1, <1>2, <1>3, DatagramHanded

-----------------------------------------------------------------------------
(* Connections.                                                            *)

\* A station's socket, and who is at its other end.
LEMMA SocketFacts ==
  ASSUME IInv, NEW s \in Stations, link[s] # 0
  PROVE  /\ link[s] \in 1..Len(conns) /\ conns[link[s]] \in Conn /\ ~its.dgram
         /\ conns[link[s]].client \in Clients /\ Other(s, link[s]) \in Stations
         /\ s \in Clients => conns[link[s]].client = s
         /\ s = "server" => Faces = conns[link[s]].client
<1>1. /\ link[s] \in 0..Len(conns) /\ conns \in Seq(Conn)
  BY DEF IInv, Sockets
<1>2. Len(conns) \in Nat
  BY <1>1, LenProperties
<1>3. link[s] \in 1..Len(conns)
  BY <1>1, <1>2
<1>4. conns[link[s]] \in Conn
  BY <1>1, <1>3, Element
<1>5. ~its.dgram
  <2>1. conns # <<>>
    BY <1>3, EmptySeq
  <2> QED
    BY <2>1 DEF IInv, Places
<1>6. conns[link[s]].client \in Clients
  BY <1>4 DEF Conn
<1> QED
  BY <1>3, <1>4, <1>5, <1>6 DEF IInv, Places, Faces, Other, Stations

\* Connections that keep their sockets.
LEMMA SameSockets ==
  ASSUME IInv, UNCHANGED <<net, link, connected, peer>>,
         conns' \in Seq(Conn), Len(conns') = Len(conns),
         \A k \in 1..Len(conns) : /\ conns'[k].client = conns[k].client
                                  /\ conns'[k].open = conns[k].open
                                  /\ conns'[k].accepted = conns[k].accepted,
         dead' \subseteq Stations, spoiled' \subseteq 1..Len(conns)
  PROVE  Sockets' /\ Places' /\ Faces' = Faces
<1>1. \A s \in Stations : link[s] # 0 => link[s] \in 1..Len(conns)
  BY SocketFacts
<1>2. Sockets'
  <2>1. conns' \in Seq(Conn') /\ link' \in [Stations' -> 0..Len(conns')]
        /\ connected' \in [Stations' -> BOOLEAN]
    BY Fixed DEF IInv, Sockets
  <2>2. \A s \in Stations' : connected'[s] => link'[s] # 0
    BY Fixed DEF IInv, Sockets
  <2>3. \A s \in Stations' : link'[s] # 0 => s \in conns'[link'[s]].open
    BY <1>1, Fixed DEF IInv, Sockets
  <2>4. \A s \in Stations', k \in 1..Len(conns') :
          s \in conns'[k].open /\ (s = "server" => conns'[k].accepted) => link'[s] = k
    BY Fixed DEF IInv, Sockets
  <2> QED
    BY <2>1, <2>2, <2>3, <2>4, Fixed DEF Sockets
<1>3. Places'
  <2>1. \A c \in Clients : c \in Stations
    BY DEF Stations
  <2>2. its.dgram => conns' = <<>>
    <3>1. conns = <<>> => Len(conns') = 0
      BY EmptySeq
    <3>2. Len(conns') = 0 => conns' = <<>>
      BY EmptySeq
    <3> QED
      BY <3>1, <3>2 DEF IInv, Places
  <2> QED
    BY <1>1, <2>1, <2>2, Fixed DEF IInv, Places
<1>4. Faces' = Faces
  BY <1>1, StillFaces DEF Stations
<1> QED
  BY <1>2, <1>3, <1>4

\* One connection becomes another.
LEMMA OneConn ==
  ASSUME conns \in Seq(Conn), NEW k \in 1..Len(conns), NEW conn \in Conn,
         conns' = [conns EXCEPT ![k] = conn]
  PROVE  /\ conns' \in Seq(Conn) /\ Len(conns') = Len(conns)
         /\ \A j \in 1..Len(conns) : conns'[j] = IF j = k THEN conn ELSE conns[j]
BY ExceptSeq

\* What is under way to one end of a connection becomes r.
LEMMA ToOneEnd ==
  ASSUME IInv, NEW k \in 1..Len(conns), NEW t \in Stations, NEW r \in Seq(Unit),
         t = "server" => r \in Seq(UnitsOf(AsksOf(conns[k].client))),
         t = conns[k].client =>
           r \in Seq(UnitsOf(AnswersTo(conns[k].client, turnedFrom))),
         conns' = [conns EXCEPT ![k].to[t] = r],
         UNCHANGED <<net, link, connected, turnedFrom, peer>>,
         dead' \subseteq Stations, spoiled' \subseteq 1..Len(conns)
  PROVE  Sockets' /\ Places' /\ Wired' /\ Faces' = Faces
<1> DEFINE conn == [conns[k] EXCEPT !.to[t] = r]
<1>1. conns \in Seq(Conn) /\ conns[k] \in Conn
  BY Element DEF IInv, Sockets
<1>2. /\ conn \in Conn
      /\ conn.client = conns[k].client /\ conn.open = conns[k].open
      /\ conn.accepted = conns[k].accepted
      /\ \A u \in Stations : conn.to[u] = IF u = t THEN r ELSE conns[k].to[u]
  BY <1>1 DEF Conn
<1>3. conns' = [conns EXCEPT ![k] = conn]
  OBVIOUS
<1>4. ToEnds(conn, turnedFrom)
  <2>1. ToEnds(conns[k], turnedFrom)
    BY DEF IInv, Wired
  <2>2. conns[k].client \in Stations /\ "server" \in Stations
    BY <1>1 DEF Conn, Stations
  <2> HIDE DEF conn
  <2> QED
    BY <1>2, <2>1, <2>2 DEF ToEnds
<1> HIDE DEF conn
<1>5. /\ conns' \in Seq(Conn) /\ Len(conns') = Len(conns)
      /\ \A j \in 1..Len(conns) : conns'[j] = IF j = k THEN conn ELSE conns[j]
  BY <1>1, <1>2, <1>3, OneConn
<1>6. Sockets' /\ Places' /\ Faces' = Faces
  BY <1>2, <1>5, SameSockets
<1>7. Wired'
  BY <1>4, <1>5 DEF IInv, Wired
<1> QED
  BY <1>6, <1>7

\* The mail is not concerned.
LEMMA OnlyConns ==
  ASSUME IInv, UNCHANGED <<net, asked, answered, outbox, inbox, peer, flying>>,
         accidents' \in 0..its.accidents,
         UNCHANGED turnedFrom,
         Sockets', Places', Wired', Faces' \in {Faces, "none"}
  PROVE  IInv'
<1>1. Mail'
  BY Fixed DEF IInv, Mail
<1>2. Pending' = Pending /\ \A c \in Clients : outbox'[c] \in Seq(AsksOf(c))
  BY DEF Pending, IInv, Due
<1>3. Due'
  BY <1>2, StillDue DEF IInv
<1>4. Aired' /\ AnswersAsker'
  BY StillAired, StillAnswers DEF IInv
<1> QED
  BY <1>1, <1>3, <1>4 DEF IInv

-----------------------------------------------------------------------------
(* The life of connections.                                                *)

\* A station lets its connection go.
LEMMA LetGo ==
  ASSUME IInv, NEW s \in Stations, link[s] # 0, conns' = Let(s, link[s]),
         link' = [link EXCEPT ![s] = 0], connected' = [connected EXCEPT ![s] = FALSE],
         UNCHANGED <<net, peer, turnedFrom, dead, spoiled>>
  PROVE  Sockets' /\ Places' /\ Wired' /\ Faces' \in {Faces, "none"}
<1> DEFINE k == link[s]
           conn == [conns[k] EXCEPT !.open = @ \ {s}, !.to[s] = <<>>]
<1>1. /\ k \in 1..Len(conns) /\ conns[k] \in Conn /\ ~its.dgram
      /\ conns \in Seq(Conn) /\ link \in [Stations -> 0..Len(conns)]
      /\ connected \in [Stations -> BOOLEAN] /\ "server" \in Stations
  BY SocketFacts DEF IInv, Sockets, Stations
<1>2. <<>> \in Seq(Unit)
  BY EmptySeq
<1>3. /\ conn \in Conn
      /\ conn.client = conns[k].client /\ conn.open = conns[k].open \ {s}
      /\ conn.accepted = conns[k].accepted
      /\ \A u \in Stations : conn.to[u] = IF u = s THEN <<>> ELSE conns[k].to[u]
  BY <1>1, <1>2 DEF Conn
<1>4. conns' = [conns EXCEPT ![k] = conn]
  BY DEF Let
<1>5. ToEnds(conn, turnedFrom)
  <2>1. ToEnds(conns[k], turnedFrom)
    BY <1>1 DEF IInv, Wired
  <2>2. conns[k].client \in Stations
    BY <1>1 DEF Conn, Stations
  <2>3. /\ <<>> \in Seq(UnitsOf(AsksOf(conns[k].client)))
        /\ <<>> \in Seq(UnitsOf(AnswersTo(conns[k].client, turnedFrom)))
    BY EmptySeq
  <2>4. /\ conn.to["server"] = IF "server" = s THEN <<>> ELSE conns[k].to["server"]
        /\ conn.to[conns[k].client] =
             IF conns[k].client = s THEN <<>> ELSE conns[k].to[conns[k].client]
    BY <1>1, <1>3, <2>2
  <2>5. conn.client = conns[k].client
    BY <1>3
  <2> HIDE DEF conn, k
  <2>6. /\ conn.to["server"] \in Seq(UnitsOf(AsksOf(conns[k].client)))
        /\ conn.to[conns[k].client] \in Seq(UnitsOf(AnswersTo(conns[k].client, turnedFrom)))
    BY <2>1, <2>3, <2>4 DEF ToEnds
  <2> QED
    BY <2>5, <2>6 DEF ToEnds
<1> HIDE DEF conn
<1>6. /\ conns' \in Seq(Conn) /\ Len(conns') = Len(conns)
      /\ \A j \in 1..Len(conns) : conns'[j] = IF j = k THEN conn ELSE conns[j]
  BY <1>1, <1>3, <1>4, OneConn
<1>7. /\ link' \in [Stations -> 0..Len(conns)] /\ connected' \in [Stations -> BOOLEAN]
      /\ \A u \in Stations : /\ link'[u] = IF u = s THEN 0 ELSE link[u]
                             /\ connected'[u] = IF u = s THEN FALSE ELSE connected[u]
  <2>1. Len(conns) \in Nat
    BY <1>1, LenProperties
  <2>2. connected' \in [Stations -> BOOLEAN]
        /\ \A u \in Stations : connected'[u] = IF u = s THEN FALSE ELSE connected[u]
    BY <1>1
  <2>3. link' \in [Stations -> 0..Len(conns)]
        /\ \A u \in Stations : link'[u] = IF u = s THEN 0 ELSE link[u]
    BY <1>1, <2>1
  <2> QED
    BY <2>2, <2>3
<1>8. \A u \in Stations : link[u] # 0 => link[u] \in 1..Len(conns)
  BY SocketFacts
<1>9. Sockets'
  <2>1. \A u \in Stations : connected'[u] => link'[u] # 0
    BY <1>7 DEF IInv, Sockets
  <2>2. \A u \in Stations : link'[u] # 0 => u \in conns'[link'[u]].open
    BY <1>3, <1>6, <1>7, <1>8 DEF IInv, Sockets
  <2>3. ASSUME NEW u \in Stations, NEW j \in 1..Len(conns), u \in conns'[j].open,
               u = "server" => conns'[j].accepted
        PROVE  link'[u] = j
    <3>1. u \in conns[j].open /\ (u = "server" => conns[j].accepted)
      BY <1>3, <1>6, <2>3
    <3>2. link[u] = j
      BY <3>1 DEF IInv, Sockets
    <3>3. u # s
      BY <1>3, <1>6, <2>3, <3>2
    <3> QED
      BY <1>7, <3>2, <3>3
  <2> QED
    BY <1>6, <1>7, <2>1, <2>2, <2>3, Fixed DEF IInv, Sockets
<1>10. Places'
  <2>1. \A c \in Clients : c \in Stations
    BY DEF Stations
  <2> QED
    BY <1>1, <1>3, <1>6, <1>7, <1>8, <2>1, Fixed DEF IInv, Places
<1>11. Wired'
  BY <1>5, <1>6 DEF IInv, Wired
<1>12. Faces' \in {Faces, "none"}
  <2>1. CASE s = "server"
    BY <1>1, <1>7, <2>1, Fixed DEF Faces
  <2>2. CASE s # "server"
    <3>1. /\ link'["server"] = link["server"]
          /\ link["server"] # 0 => conns'[link["server"]].client = conns[link["server"]].client
      BY <1>1, <1>3, <1>6, <1>7, <1>8, <2>2
    <3> QED
      BY <3>1, StillFaces
  <2> QED
    BY <2>1, <2>2
<1> QED
  BY <1>9, <1>10, <1>11, <1>12

LEMMA ConnectKeeps ==
  ASSUME IInv, NEW c \in Clients, Connect(c)
  PROVE  IInv'
<1> DEFINE new == NewConn(c)
<1>1. /\ UNCHANGED <<net, asked, answered, outbox, inbox, peer, flying, dead, accidents,
                     spoiled, turnedFrom>>
      /\ ~its.dgram /\ ~connected[c] /\ link[c] = 0
      /\ conns' = Append(conns, new)
      /\ link' = [link EXCEPT ![c] = Len(conns) + 1]
      /\ \E now \in BOOLEAN : connected' = [connected EXCEPT ![c] = now]
  BY DEF Connect, udpVars
<1>2. /\ net \in DOMAIN Nets /\ conns \in Seq(Conn) /\ link \in [Stations -> 0..Len(conns)]
      /\ connected \in [Stations -> BOOLEAN] /\ c \in Stations /\ "server" \in Stations
      /\ accidents \in 0..its.accidents
  BY DEF IInv, Mail, Sockets, Stations
<1>3. /\ new \in Conn /\ new.client = c /\ new.open = {c, "server"} /\ new.accepted = FALSE
      /\ ToEnds(new, turnedFrom)
  <2>1. \A S : <<>> \in Seq(S)
    BY EmptySeq
  <2> QED
    BY <1>2, <2>1 DEF NewConn, Conn, ToEnds
<1> HIDE DEF new
<1>4. /\ conns' \in Seq(Conn) /\ Len(conns') = Len(conns) + 1 /\ Len(conns) \in Nat
      /\ conns'[Len(conns) + 1] = new
      /\ \A k \in 1..Len(conns) : conns'[k] = conns[k]
  BY <1>1, <1>2, <1>3, AppendProperties, LenProperties
<1>5. "server" # c
  BY <1>2, NetFacts
<1>6. /\ link' \in [Stations -> 0..Len(conns')] /\ connected' \in [Stations -> BOOLEAN]
      /\ \A u \in Stations : /\ link'[u] = IF u = c THEN Len(conns) + 1 ELSE link[u]
                             /\ u # c => connected'[u] = connected[u]
  BY <1>1, <1>2, <1>4
<1>7. \A u \in Stations : link[u] # 0 => link[u] \in 1..Len(conns)
  BY SocketFacts
<1>8. Sockets'
  <2>1. \A u \in Stations : connected'[u] => link'[u] # 0
    BY <1>4, <1>6 DEF IInv, Sockets
  <2>2. \A u \in Stations : link'[u] # 0 => u \in conns'[link'[u]].open
    BY <1>3, <1>4, <1>6, <1>7 DEF IInv, Sockets
  <2>3. ASSUME NEW u \in Stations, NEW j \in 1..Len(conns'), u \in conns'[j].open,
               u = "server" => conns'[j].accepted
        PROVE  link'[u] = j
    <3>1. CASE j = Len(conns) + 1
      BY <1>3, <1>4, <1>6, <2>3, <3>1
    <3>2. CASE j # Len(conns) + 1
      <4>1. j \in 1..Len(conns) /\ conns'[j] = conns[j]
        BY <1>4, <3>2
      <4>2. link[u] = j
        BY <2>3, <4>1 DEF IInv, Sockets
      <4> QED
        BY <1>1, <1>6, <4>1, <4>2
    <3> QED
      BY <3>1, <3>2
  <2>4. spoiled' \subseteq 1..Len(conns')
    BY <1>1, <1>4 DEF IInv, Sockets
  <2> QED
    BY <1>1, <1>4, <1>6, <2>1, <2>2, <2>3, <2>4, Fixed DEF IInv, Sockets
<1>9. Places'
  <2>1. \A d \in Clients : d \in Stations
    BY DEF Stations
  <2> QED
    BY <1>1, <1>2, <1>3, <1>4, <1>5, <1>6, <1>7, <2>1, Fixed DEF IInv, Places
<1>10. Wired'
  <2>1. ASSUME NEW k \in 1..Len(conns') PROVE ToEnds(conns'[k], turnedFrom)
    <3>1. CASE k = Len(conns) + 1
      BY <1>3, <1>4, <3>1
    <3>2. CASE k # Len(conns) + 1
      <4>1. k \in 1..Len(conns) /\ conns'[k] = conns[k]
        BY <1>4, <3>2
      <4> QED
        BY <4>1 DEF IInv, Wired
    <3> QED
      BY <3>1, <3>2
  <2> QED
    BY <1>1, <2>1 DEF Wired
<1>11. Faces' = Faces
  <2>1. /\ link'["server"] = link["server"]
        /\ link["server"] # 0 => conns'[link["server"]].client = conns[link["server"]].client
    BY <1>2, <1>4, <1>5, <1>6, <1>7
  <2> QED
    BY <1>1, <2>1, StillFaces
<1> QED
  BY <1>1, <1>2, <1>8, <1>9, <1>10, <1>11, OnlyConns

LEMMA ConnectAgainKeeps ==
  ASSUME IInv, NEW c \in Clients, ConnectAgain(c)
  PROVE  IInv'
<1>1. /\ UNCHANGED <<net, asked, answered, outbox, inbox, peer, flying, dead, accidents,
                     spoiled, turnedFrom>>
      /\ ~its.dgram /\ ~connected[c] /\ link[c] # 0
      /\ \/ /\ conns' = Let(c, link[c])
            /\ link' = [link EXCEPT ![c] = 0] /\ UNCHANGED connected
         \/ /\ connected' = [connected EXCEPT ![c] = TRUE]
            /\ UNCHANGED <<conns, link>>
  BY DEF ConnectAgain, udpVars
<1>2. /\ net \in DOMAIN Nets /\ connected \in [Stations -> BOOLEAN] /\ c \in Stations
      /\ accidents \in 0..its.accidents /\ "server" \in Stations
  BY DEF IInv, Mail, Sockets, Stations
<1>3. CASE connected' = [connected EXCEPT ![c] = TRUE] /\ UNCHANGED <<conns, link>>
  <2>1. /\ connected' \in [Stations -> BOOLEAN]
        /\ \A u \in Stations : connected'[u] = (connected[u] \/ u = c)
    BY <1>2, <1>3
  <2>2. Sockets' /\ Places'
    BY <1>1, <1>2, <1>3, <2>1, Fixed DEF IInv, Sockets, Places
  <2>3. Wired' /\ Faces' = Faces
    BY <1>1, <1>3, StillWired, StillFaces DEF IInv
  <2> QED
    BY <1>1, <1>2, <2>2, <2>3, OnlyConns
<1>4. CASE conns' = Let(c, link[c]) /\ link' = [link EXCEPT ![c] = 0] /\ UNCHANGED connected
  <2>1. connected' = [connected EXCEPT ![c] = FALSE]
    BY <1>1, <1>2, <1>4
  <2>2. Sockets' /\ Places' /\ Wired' /\ Faces' \in {Faces, "none"}
    BY <1>1, <1>2, <1>4, <2>1, LetGo
  <2> QED
    BY <1>1, <1>2, <2>2, OnlyConns
<1> QED
  BY <1>1, <1>3, <1>4

LEMMA AcceptKeeps == ASSUME IInv, Accept PROVE IInv'
<1>1. PICK k \in Queue : /\ conns' = [conns EXCEPT ![k].accepted = TRUE]
                         /\ link' = [link EXCEPT !["server"] = k]
                         /\ TurnTo(conns[k].client)
  BY DEF Accept
<1> DEFINE conn == [conns[k] EXCEPT !.accepted = TRUE]
           c == conns[k].client
<1>2. /\ UNCHANGED <<net, asked, answered, outbox, inbox, peer, flying, dead, accidents,
                     spoiled>>
      /\ ~its.dgram /\ ~connected["server"]
      /\ connected' = [connected EXCEPT !["server"] = TRUE]
  BY DEF Accept, udpVars
<1>3. /\ net \in DOMAIN Nets /\ conns \in Seq(Conn) /\ link \in [Stations -> 0..Len(conns)]
      /\ connected \in [Stations -> BOOLEAN] /\ "server" \in Stations
      /\ k \in 1..Len(conns) /\ "server" \in conns[k].open
  BY DEF IInv, Mail, Sockets, Stations, Queue
<1>4. conns[k] \in Conn /\ c \in Clients /\ Len(conns) \in Nat
  <2>1. conns[k] \in Conn /\ Len(conns) \in Nat
    BY <1>3, Element
  <2> QED
    BY <2>1 DEF Conn
<1>5. /\ turnedFrom \subseteq turnedFrom' /\ turnedFrom' \subseteq Packet
      /\ Pending \subseteq AnswersTo(c, turnedFrom')
  BY <1>1, <1>4, Turned
<1>6. /\ conn \in Conn /\ conn.client = c /\ conn.open = conns[k].open
      /\ conn.accepted = TRUE /\ conn.to = conns[k].to
  BY <1>4 DEF Conn
<1>7. conns' = [conns EXCEPT ![k] = conn]
  BY <1>1
<1> HIDE DEF conn
<1>8. /\ conns' \in Seq(Conn) /\ Len(conns') = Len(conns)
      /\ \A j \in 1..Len(conns) : conns'[j] = IF j = k THEN conn ELSE conns[j]
  BY <1>3, <1>6, <1>7, OneConn
<1>9. link["server"] = 0
  BY <1>2 DEF IInv, Places
<1>10. /\ link' \in [Stations -> 0..Len(conns)]
       /\ \A u \in Stations : link'[u] = IF u = "server" THEN k ELSE link[u]
  BY <1>1, <1>3, <1>4
<1>11. /\ connected' \in [Stations -> BOOLEAN]
       /\ \A u \in Stations : connected'[u] = IF u = "server" THEN TRUE ELSE connected[u]
  BY <1>2, <1>3
<1>12. \A u \in Stations : link[u] # 0 => link[u] \in 1..Len(conns)
  BY SocketFacts
<1>13. Sockets'
  <2>1. \A u \in Stations : connected'[u] => link'[u] # 0
    <3>1. k # 0 /\ \A u \in Stations : connected[u] => link[u] # 0
      BY <1>3, <1>4 DEF IInv, Sockets
    <3> QED
      BY <1>10, <1>11, <3>1
  <2>2. \A u \in Stations : link'[u] # 0 => u \in conns'[link'[u]].open
    BY <1>3, <1>6, <1>8, <1>10, <1>12 DEF IInv, Sockets
  <2>3. ASSUME NEW u \in Stations, NEW j \in 1..Len(conns), u \in conns'[j].open,
               u = "server" => conns'[j].accepted
        PROVE  link'[u] = j
    <3>1. CASE u = "server"
      <4>1. j # k => link[u] = j
        BY <1>8, <2>3, <3>1 DEF IInv, Sockets
      <4> QED
        BY <1>9, <1>10, <3>1, <4>1
    <3>2. CASE u # "server"
      <4>1. u \in conns[j].open
        BY <1>6, <1>8, <2>3
      <4> QED
        BY <1>10, <3>2, <4>1 DEF IInv, Sockets
    <3> QED
      BY <3>1, <3>2
  <2> QED
    BY <1>2, <1>8, <1>10, <1>11, <2>1, <2>2, <2>3, Fixed DEF IInv, Sockets
<1>14. Places'
  <2>1. \A d \in Clients : d \in Stations /\ d # "server"
    BY <1>3, NetFacts DEF Stations
  <2> QED
    BY <1>2, <1>3, <1>6, <1>8, <1>10, <1>11, <1>12, <2>1, Fixed DEF IInv, Places
<1>15. Wired'
  <2>1. \A x : ToEnds(x, turnedFrom) => ToEnds(x, turnedFrom')
    BY <1>5, MayGo
  <2>2. ToEnds(conn, turnedFrom)
    BY <1>3, <1>6 DEF IInv, Wired, ToEnds
  <2> QED
    BY <1>8, <2>1, <2>2 DEF IInv, Wired
<1>16. Mail'
  BY <1>2, <1>5, Fixed DEF IInv, Mail
<1>17. Due'
  <2>1. Faces' = c /\ c # "none"
    <3>1. link'["server"] # 0 /\ conns'[link'["server"]].client = c
      BY <1>3, <1>6, <1>8, <1>10
    <3>2. c # "none"
      BY <1>3, <1>4, NetFacts DEF Stations
    <3> QED
      BY <1>2, <3>1, <3>2, Fixed DEF Faces
  <2>2. Pending' = Pending
    BY <1>2 DEF Pending
  <2> HIDE DEF c
  <2> QED
    BY <1>2, <1>5, <2>1, <2>2, Fixed DEF IInv, Due, Dues
<1>18. Aired' /\ AnswersAsker'
  BY <1>2, <1>5, StillAired, StillAnswers DEF IInv
<1> QED
  BY <1>13, <1>14, <1>15, <1>16, <1>17, <1>18 DEF IInv

LEMMA BreakKeeps ==
  ASSUME IInv, NEW k \in 1..Len(conns), Break(k)
  PROVE  IInv'
<1> DEFINE conn == [conns[k] EXCEPT !.broken = TRUE]
<1>1. /\ UNCHANGED <<net, asked, answered, outbox, inbox, peer, flying, link, connected,
                     dead, spoiled, turnedFrom>>
      /\ conns' = [conns EXCEPT ![k] = conn]
      /\ accidents < its.accidents /\ accidents' = accidents + 1
  BY DEF Break, udpVars
<1>2. /\ net \in DOMAIN Nets /\ accidents \in 0..its.accidents
      /\ conns \in Seq(Conn) /\ spoiled \subseteq 1..Len(conns) /\ dead \subseteq Stations
  BY DEF IInv, Mail, Sockets
<1>3. accidents' \in 0..its.accidents
  BY <1>1, <1>2, NetFacts
<1>4. conns[k] \in Conn
  BY <1>2, Element
<1>5. /\ conn \in Conn /\ conn.client = conns[k].client /\ conn.open = conns[k].open
      /\ conn.accepted = conns[k].accepted /\ conn.to = conns[k].to
  BY <1>4 DEF Conn
<1> HIDE DEF conn
<1>6. /\ conns' \in Seq(Conn) /\ Len(conns') = Len(conns)
      /\ \A j \in 1..Len(conns) : conns'[j] = IF j = k THEN conn ELSE conns[j]
  BY <1>1, <1>2, <1>5, OneConn
<1>7. Sockets' /\ Places' /\ Faces' = Faces
  BY <1>1, <1>2, <1>5, <1>6, SameSockets
<1>8. Wired'
  <2>1. ToEnds(conn, turnedFrom)
    BY <1>5 DEF IInv, Wired, ToEnds
  <2> QED
    BY <1>1, <1>6, <2>1 DEF IInv, Wired
<1> QED
  BY <1>1, <1>3, <1>7, <1>8, OnlyConns

\* The server's stream lets all its connections go.
LEMMA ReopenKeeps == ASSUME IInv, Reopen PROVE IInv'
<1> DEFINE let(k) == [conns[k] EXCEPT !.open = @ \ {"server"}, !.to["server"] = <<>>]
<1>1. /\ UNCHANGED <<net, asked, answered, outbox, inbox, peer, flying, dead, spoiled,
                     turnedFrom>>
      /\ conns' = [k \in 1..Len(conns) |-> let(k)] /\ ~its.dgram
      /\ link' = [link EXCEPT !["server"] = 0]
      /\ connected' = [connected EXCEPT !["server"] = FALSE]
      /\ accidents < its.accidents /\ accidents' = accidents + 1
  BY DEF Reopen, udpVars
<1>2. /\ net \in DOMAIN Nets /\ accidents \in 0..its.accidents
      /\ conns \in Seq(Conn) /\ link \in [Stations -> 0..Len(conns)]
      /\ connected \in [Stations -> BOOLEAN] /\ "server" \in Stations
  BY DEF IInv, Mail, Sockets, Stations
<1>3. accidents' \in 0..its.accidents
  <2>1. its.accidents \in Nat
    BY <1>2, NetFacts
  <2>2. accidents < its.accidents /\ accidents' = accidents + 1
    BY DEF Reopen
  <2> QED
    BY <1>2, <2>1, <2>2
<1>4. Len(conns) \in Nat /\ <<>> \in Seq(Unit)
  BY <1>2, LenProperties, EmptySeq
<1>5. ASSUME NEW k \in 1..Len(conns)
      PROVE  /\ let(k) \in Conn /\ let(k).client = conns[k].client
             /\ let(k).accepted = conns[k].accepted
             /\ let(k).open = conns[k].open \ {"server"}
             /\ ToEnds(let(k), turnedFrom)
  <2>1. conns[k] \in Conn /\ ToEnds(conns[k], turnedFrom)
    BY <1>2, Element DEF IInv, Wired
  <2>2. /\ let(k) \in Conn /\ let(k).client = conns[k].client
        /\ let(k).accepted = conns[k].accepted
        /\ let(k).open = conns[k].open \ {"server"}
        /\ \A u \in Stations : let(k).to[u] = IF u = "server" THEN <<>> ELSE conns[k].to[u]
    BY <1>2, <1>4, <2>1 DEF Conn
  <2>3. conns[k].client \in Stations
    BY <2>1 DEF Conn, Stations
  <2>4. /\ <<>> \in Seq(UnitsOf(AsksOf(conns[k].client)))
        /\ <<>> \in Seq(UnitsOf(AnswersTo(conns[k].client, turnedFrom)))
    BY EmptySeq
  <2> HIDE DEF let
  <2>5. /\ let(k).to["server"] \in Seq(UnitsOf(AsksOf(conns[k].client)))
        /\ let(k).to[conns[k].client] \in Seq(UnitsOf(AnswersTo(conns[k].client, turnedFrom)))
    BY <1>2, <2>1, <2>2, <2>3, <2>4 DEF ToEnds
  <2> QED
    BY <2>2, <2>5 DEF ToEnds
<1> HIDE DEF let
<1>6. /\ conns' \in Seq(Conn) /\ Len(conns') = Len(conns)
      /\ \A k \in 1..Len(conns) : conns'[k] = let(k)
  <2>1. conns' \in [1..Len(conns) -> Conn]
    BY <1>1, <1>5
  <2>2. conns' \in Seq(Conn)
    BY <1>4, <2>1, SeqDef
  <2>3. DOMAIN conns' = 1..Len(conns') /\ Len(conns') \in Nat
    BY <2>2, LenProperties
  <2> QED
    BY <1>1, <1>4, <2>1, <2>2, <2>3
<1>7. /\ link' \in [Stations -> 0..Len(conns)]
      /\ \A u \in Stations : link'[u] = IF u = "server" THEN 0 ELSE link[u]
  BY <1>1, <1>2, <1>4
<1>8. /\ connected' \in [Stations -> BOOLEAN]
      /\ \A u \in Stations : connected'[u] = IF u = "server" THEN FALSE ELSE connected[u]
  BY <1>1, <1>2
<1>9. \A u \in Stations : link[u] # 0 => link[u] \in 1..Len(conns)
  BY SocketFacts
<1>10. Sockets'
  <2>1. \A u \in Stations : connected'[u] => link'[u] # 0
    BY <1>7, <1>8 DEF IInv, Sockets
  <2>2. \A u \in Stations : link'[u] # 0 => u \in conns'[link'[u]].open
    BY <1>5, <1>6, <1>7, <1>9 DEF IInv, Sockets
  <2>3. ASSUME NEW u \in Stations, NEW j \in 1..Len(conns), u \in conns'[j].open,
               u = "server" => conns'[j].accepted
        PROVE  link'[u] = j
    BY <1>5, <1>6, <1>7, <2>3 DEF IInv, Sockets
  <2> QED
    BY <1>1, <1>6, <1>7, <1>8, <2>1, <2>2, <2>3, Fixed DEF IInv, Sockets
<1>11. Places'
  <2>1. \A d \in Clients : d \in Stations /\ d # "server"
    BY <1>2, NetFacts DEF Stations
  <2> QED
    BY <1>1, <1>2, <1>5, <1>6, <1>7, <1>9, <2>1, Fixed DEF IInv, Places
<1>12. Wired'
  BY <1>1, <1>5, <1>6 DEF Wired
<1>13. Faces' = "none"
  BY <1>1, <1>2, <1>7, Fixed DEF Faces
<1> QED
  BY <1>1, <1>3, <1>10, <1>11, <1>12, <1>13, OnlyConns

-----------------------------------------------------------------------------
(* TCP: sending.                                                           *)

\* The units of the next packet may go where its station's connection leads.
LEMMA FlowKeeps ==
  ASSUME IInv, NEW s \in Stations, link[s] # 0, NEW units \in Seq(Unit),
         s \in Clients => units \in Seq(UnitsOf(AsksOf(s))),
         s = "server" => units \in Seq(UnitsOf(Dues(Faces, turnedFrom))),
         Flow(s, units), UNCHANGED <<net, link, connected, turnedFrom, peer>>,
         dead' \subseteq Stations, spoiled' \subseteq 1..Len(conns)
  PROVE  Sockets' /\ Places' /\ Wired' /\ Faces' = Faces
<1> DEFINE k == link[s]
           t == Other(s, k)
           r == conns[k].to[t] \o units
<1>1. /\ k \in 1..Len(conns) /\ conns[k] \in Conn /\ t \in Stations
      /\ conns[k].client \in Clients /\ conns[k].client # "none"
      /\ s \in Clients => conns[k].client = s
      /\ s = "server" => Faces = conns[k].client
  <2>1. "none" \notin Stations
    BY NetFacts DEF IInv, Mail
  <2> QED
    BY <2>1, SocketFacts DEF Stations
<1>2. "server" \notin Clients
  BY NetFacts DEF IInv, Mail
<1>3. ToEnds(conns[k], turnedFrom)
  BY <1>1 DEF IInv, Wired
<1>4. r \in Seq(Unit)
  <2>1. conns[k].to[t] \in Seq(Unit)
    BY <1>1 DEF Conn
  <2> QED
    BY <2>1, Joined
<1>5. ASSUME t = "server" PROVE r \in Seq(UnitsOf(AsksOf(conns[k].client)))
  <2>1. s \in Clients /\ conns[k].client = s
    BY <1>1, <1>2, <1>5 DEF Other, Stations
  <2>2. conns[k].to[t] \in Seq(UnitsOf(AsksOf(s)))
    BY <1>3, <1>5, <2>1 DEF ToEnds
  <2> QED
    BY <2>1, <2>2, Joined
<1>6. ASSUME t = conns[k].client
      PROVE  r \in Seq(UnitsOf(AnswersTo(conns[k].client, turnedFrom)))
  <2>1. s = "server"
    BY <1>1, <1>2, <1>6 DEF Other
  <2>2. units \in Seq(UnitsOf(AnswersTo(conns[k].client, turnedFrom)))
    BY <1>1, <2>1 DEF Dues
  <2>3. conns[k].to[t] \in Seq(UnitsOf(AnswersTo(conns[k].client, turnedFrom)))
    BY <1>3, <1>6 DEF ToEnds
  <2> QED
    BY <2>2, <2>3, Joined
<1>7. conns' = [conns EXCEPT ![k].to[t] = r]
  BY DEF Flow
<1> HIDE DEF k, t, r
<1> QED
  BY <1>1, <1>4, <1>5, <1>6, <1>7, ToOneEnd

\* The units of the next packet.
LEMMA NextUnits ==
  ASSUME IInv, NEW s \in Stations, outbox[s] # <<>>, NEW k \in {1, 3},
         NEW units \in {Frame(Head(outbox[s])), SubSeq(Frame(Head(outbox[s])), 1, k)}
  PROVE  /\ units \in Seq(Unit)
         /\ s \in Clients => units \in Seq(UnitsOf(AsksOf(s)))
         /\ s = "server" => units \in Seq(UnitsOf(Dues(Faces, turnedFrom)))
<1>1. Unit = UnitsOf(Packet)
  BY DEF Unit, UnitsOf
<1> QED
  BY <1>1, NextPacket, Units

\* Everything but the outbox is as it was, or on its way.
LEMMA SentKeeps ==
  ASSUME IInv, NEW s \in Stations, outbox[s] # <<>>, Popped(s),
         UNCHANGED <<net, asked, answered, inbox, peer, flying, accidents, turnedFrom>>,
         Sockets', Places', Wired', Faces' = Faces
  PROVE  IInv'
<1>1. /\ outbox' \in [Stations -> Seq(Packet)] /\ Pending' \subseteq Pending
      /\ \A c \in Clients : outbox'[c] \in Seq(AsksOf(c))
  BY PoppedKeeps
<1>2. Mail'
  BY <1>1, Fixed DEF IInv, Mail
<1>3. Due'
  BY <1>1, StillDue DEF IInv
<1>4. Aired' /\ AnswersAsker'
  BY StillAired, StillAnswers DEF IInv
<1> QED
  BY <1>2, <1>3, <1>4 DEF IInv

LEMMA SendNothingKeeps ==
  ASSUME IInv, NEW s \in Stations, SendNothing(s)
  PROVE  IInv'
<1>1. /\ UNCHANGED <<net, asked, answered, inbox, peer, flying, accidents, turnedFrom>>
      /\ UNCHANGED <<net, tcpVars>> /\ UNCHANGED <<conns, link>>
      /\ outbox[s] # <<>> /\ Popped(s)
  BY DEF SendNothing, udpVars, tcpVars
<1>2. Sockets' /\ Places' /\ Wired' /\ Faces' = Faces
  BY <1>1, StillSockets, StillWired, StillFaces DEF IInv
<1> QED
  BY <1>1, <1>2, SentKeeps

LEMMA SendWholeKeeps ==
  ASSUME IInv, NEW s \in Stations, SendWhole(s)
  PROVE  IInv'
<1>1. /\ UNCHANGED <<net, asked, answered, inbox, peer, flying, accidents, turnedFrom>>
      /\ UNCHANGED <<link, connected, dead, spoiled>>
      /\ outbox[s] # <<>> /\ Popped(s) /\ link[s] # 0
      /\ Flow(s, Frame(Head(outbox[s]))) \/ UNCHANGED conns
  BY DEF SendWhole, Alive, udpVars
<1>2. CASE UNCHANGED conns
  <2>1. Sockets' /\ Places'
    BY <1>1, <1>2, StillSockets DEF tcpVars
  <2>2. Wired' /\ Faces' = Faces
    BY <1>1, <1>2, StillWired, StillFaces DEF IInv
  <2> QED
    BY <1>1, <2>1, <2>2, SentKeeps
<1>3. CASE Flow(s, Frame(Head(outbox[s])))
  <2>1. dead' \subseteq Stations /\ spoiled' \subseteq 1..Len(conns)
    BY <1>1 DEF IInv, Sockets
  <2>2. Sockets' /\ Places' /\ Wired' /\ Faces' = Faces
    BY <1>1, <1>3, <2>1, NextUnits, FlowKeeps
  <2> QED
    BY <1>1, <2>2, SentKeeps
<1> QED
  BY <1>1, <1>2, <1>3

\* A bad connection stays in the bounds.
LEMMA Spoils ==
  ASSUME IInv, NEW s \in Stations, link[s] # 0, spoiled' \subseteq spoiled \cup {link[s]}
  PROVE  spoiled' \subseteq 1..Len(conns)
<1>1. spoiled \subseteq 1..Len(conns)
  BY DEF IInv, Sockets
<1>2. link[s] \in 1..Len(conns)
  BY SocketFacts
<1> QED
  BY <1>1, <1>2

LEMMA SendPartKeeps ==
  ASSUME IInv, NEW s \in Stations, NEW k \in {1, 3}, SendPart(s, k)
  PROVE  IInv'
<1>1. /\ UNCHANGED <<net, asked, answered, outbox, inbox, peer, flying, accidents, turnedFrom>>
      /\ UNCHANGED <<link, connected, dead>> /\ spoiled' = spoiled \cup {link[s]}
      /\ outbox[s] # <<>> /\ link[s] # 0
      /\ Flow(s, SubSeq(Frame(Head(outbox[s])), 1, k))
  BY DEF SendPart, Alive, udpVars
<1>2. dead' \subseteq Stations /\ spoiled' \subseteq 1..Len(conns)
      /\ accidents' \in 0..its.accidents
  BY <1>1, Spoils DEF IInv, Sockets, Mail
<1>3. Sockets' /\ Places' /\ Wired' /\ Faces' = Faces
  BY <1>1, <1>2, NextUnits, FlowKeeps
<1> QED
  BY <1>1, <1>2, <1>3, OnlyConns

\* A station closes its socket.
LEMMA CloseKeeps ==
  ASSUME IInv, NEW s \in Stations, link[s] # 0, Close(s),
         UNCHANGED <<net, asked, answered, outbox, inbox, peer, flying, dead, accidents,
                     spoiled, turnedFrom>>
  PROVE  IInv'
<1>1. Sockets' /\ Places' /\ Wired' /\ Faces' \in {Faces, "none"}
  BY LetGo DEF Close
<1>2. accidents' \in 0..its.accidents
  BY DEF IInv, Mail
<1> QED
  BY <1>1, <1>2, OnlyConns

LEMMA SendFailKeeps ==
  ASSUME IInv, NEW s \in Stations, SendFail(s)
  PROVE  IInv'
BY CloseKeeps DEF SendFail, Alive, udpVars

-----------------------------------------------------------------------------
(* TCP: receiving.                                                         *)

\* What is under way to a station is for it.
LEMMA UnderWayTypes ==
  ASSUME IInv, NEW s \in Stations, link[s] # 0
  PROVE  /\ UnderWay(s) \in Seq(Unit)
         /\ s = "server" => UnderWay(s) \in Seq(UnitsOf(AsksOf(conns[link[s]].client)))
         /\ s \in Clients => UnderWay(s) \in Seq(UnitsOf(AnswersTo(s, turnedFrom)))
<1>1. /\ link[s] \in 1..Len(conns) /\ conns[link[s]] \in Conn
      /\ s \in Clients => conns[link[s]].client = s
  BY SocketFacts
<1>2. ToEnds(conns[link[s]], turnedFrom)
  BY <1>1 DEF IInv, Wired
<1> QED
  BY <1>1, <1>2 DEF UnderWay, ToEnds, Conn

\* The first units of it are taken.
LEMMA TakenKeeps ==
  ASSUME IInv, NEW s \in Stations, link[s] # 0, NEW n \in Nat \ {0},
         conns' = [conns EXCEPT ![link[s]].to[s] = SubSeq(UnderWay(s), n, Len(UnderWay(s)))],
         UNCHANGED <<net, link, connected, turnedFrom, peer>>,
         dead' \subseteq Stations, spoiled' \subseteq 1..Len(conns)
  PROVE  Sockets' /\ Places' /\ Wired' /\ Faces' = Faces
<1> DEFINE k == link[s]
           r == SubSeq(UnderWay(s), n, Len(UnderWay(s)))
<1>1. /\ k \in 1..Len(conns) /\ s \in Clients => conns[k].client = s
      /\ conns[k].client \in Clients /\ "server" \notin Clients
  BY SocketFacts, NetFacts DEF IInv, Mail
<1>2. \A S : UnderWay(s) \in Seq(S) => r \in Seq(S)
  <2>1. ASSUME NEW S, UnderWay(s) \in Seq(S) PROVE r \in Seq(S)
    <3>1. Len(UnderWay(s)) \in Nat
      BY <2>1, LenProperties
    <3> QED
      BY <2>1, <3>1, Portion
  <2> QED
    BY <2>1
<1>3. conns' = [conns EXCEPT ![k].to[s] = r]
  OBVIOUS
<1>4. /\ r \in Seq(Unit)
      /\ s = "server" => r \in Seq(UnitsOf(AsksOf(conns[k].client)))
      /\ s = conns[k].client => r \in Seq(UnitsOf(AnswersTo(conns[k].client, turnedFrom)))
  <2> HIDE DEF r
  <2> QED
    BY <1>1, <1>2, UnderWayTypes
<1> HIDE DEF r
<1>5. k \in 1..Len(conns)
  BY SocketFacts
<1>6. r \in Seq(Unit)
  BY <1>4, Zenon
<1> QED
  BY <1>3, <1>4, <1>5, <1>6, ToOneEnd

\* What is for a station may be handed on to it.
LEMMA HandOver ==
  ASSUME IInv, NEW s \in Stations, link[s] # 0, NEW content \in Seq(Unit),
         s = "server" => content \in Seq(UnitsOf(AsksOf(conns[link[s]].client))),
         s \in Clients => content \in Seq(UnitsOf(AnswersTo(s, turnedFrom))),
         HandOn(s, content, link[s]),
         UNCHANGED <<net, asked, answered, outbox, peer, flying, accidents, turnedFrom>>,
         Sockets', Places', Wired', Faces' = Faces
  PROVE  IInv'
<1>1. /\ link[s] \in Nat /\ conns[link[s]].client \in Clients
      /\ s = "server" => Faces = conns[link[s]].client
  <2>1. Len(conns) \in Nat
    BY LenProperties DEF IInv, Sockets
  <2> QED
    BY <2>1, SocketFacts
<1>2. \A P : content \in Seq(UnitsOf(P)) /\ content # <<>> => content[1].of \in P
  <2>1. ASSUME NEW P, content \in Seq(UnitsOf(P)), content # <<>> PROVE content[1].of \in P
    <3>1. content[1] \in UnitsOf(P)
      BY <2>1, HeadTail
    <3> QED
      BY <3>1 DEF UnitsOf
  <2> QED
    BY <2>1
<1>3. /\ inbox' \in [Stations -> Seq([content : Seq(Unit), conn : Nat])]
      /\ answered' \in 0..Len(inbox'["server"])
      /\ AnswersAsker'
  BY <1>1, <1>2, HandedKeeps
<1>4. \A p \in Pending' : \/ p \in Pending
                          \/ s = "server" /\ content # <<>> /\ p = AsAnswer(content[1].of)
  BY <1>1, HandedPending
<1>5. ASSUME s = "server", content # <<>>
      PROVE  AsAnswer(content[1].of) \in Dues(Faces, turnedFrom)
  <2>1. content[1].of \in AsksOf(conns[link[s]].client)
    BY <1>2, <1>5
  <2>2. conns[link[s]].client \in AllClients
    BY <1>1 DEF Clients, its, AllClients, IInv, Mail
  <2>3. AsAnswer(content[1].of) \in AnswersTo(Faces, turnedFrom)
    BY <1>1, <1>5, <2>1, <2>2 DEF AsksOf, AsAnswer, AnswersTo, Answers
  <2> QED
    BY <2>3 DEF Dues, AnswersTo
<1>6. Mail'
  BY <1>3, Fixed DEF IInv, Mail
<1>7. Due'
  BY <1>4, <1>5, Fixed DEF IInv, Due
<1>8. Aired'
  BY StillAired DEF IInv
<1> QED
  BY <1>3, <1>6, <1>7, <1>8 DEF IInv

LEMMA ReceiveFrameKeeps ==
  ASSUME IInv, NEW s \in Stations, NEW k \in 0..2, ReceiveFrame(s, k)
  PROVE  IInv'
<1> DEFINE content == SubSeq(UnderWay(s), 3, 2 + k)
<1>1. /\ UNCHANGED <<net, asked, answered, outbox, peer, flying, link, connected, dead,
                     accidents, turnedFrom>>
      /\ link[s] # 0 /\ 2 + k <= Len(UnderWay(s)) /\ HandOn(s, content, link[s])
      /\ conns' = [conns EXCEPT ![link[s]].to[s] = SubSeq(@, 3 + k, Len(@))]
      /\ spoiled' \subseteq spoiled \cup {link[s]}
  BY DEF ReceiveFrame, Alive, udpVars
<1>2. dead' \subseteq Stations /\ spoiled' \subseteq 1..Len(conns)
  BY <1>1, Spoils DEF IInv, Sockets
<1>3. Sockets' /\ Places' /\ Wired' /\ Faces' = Faces
  <2>1. 3 + k \in Nat \ {0}
    OBVIOUS
  <2>2. conns' = [conns EXCEPT ![link[s]].to[s] =
                    SubSeq(UnderWay(s), 3 + k, Len(UnderWay(s)))]
    BY <1>1 DEF UnderWay
  <2> QED
    BY <1>1, <1>2, <2>1, <2>2, TakenKeeps
<1>4. \A S : UnderWay(s) \in Seq(S) => content \in Seq(S)
  BY <1>1, Portion
<1> HIDE DEF content
<1>5. /\ content \in Seq(Unit)
      /\ s = "server" => content \in Seq(UnitsOf(AsksOf(conns[link[s]].client)))
      /\ s \in Clients => content \in Seq(UnitsOf(AnswersTo(s, turnedFrom)))
  BY <1>1, <1>4, UnderWayTypes
<1> QED
  BY <1>1, <1>3, <1>5, HandOver

LEMMA ReceivePrefixKeeps ==
  ASSUME IInv, NEW s \in Stations, ReceivePrefix(s)
  PROVE  IInv'
<1>1. /\ UNCHANGED <<net, asked, answered, outbox, inbox, peer, flying, link, connected,
                     accidents, turnedFrom>>
      /\ link[s] # 0 /\ spoiled' = spoiled \cup {link[s]} /\ dead' = dead \cup {s}
      /\ conns' = [conns EXCEPT ![link[s]].to[s] = SubSeq(@, 3, Len(@))]
  BY DEF ReceivePrefix, Alive, udpVars
<1>2. dead' \subseteq Stations /\ spoiled' \subseteq 1..Len(conns)
      /\ accidents' \in 0..its.accidents
  BY <1>1, Spoils DEF IInv, Sockets, Mail
<1>3. Sockets' /\ Places' /\ Wired' /\ Faces' = Faces
  <2>1. 3 \in Nat \ {0}
    OBVIOUS
  <2>2. conns' = [conns EXCEPT ![link[s]].to[s] =
                    SubSeq(UnderWay(s), 3, Len(UnderWay(s)))]
    BY <1>1 DEF UnderWay
  <2> QED
    BY <1>1, <1>2, <2>1, <2>2, TakenKeeps
<1> QED
  BY <1>1, <1>2, <1>3, OnlyConns

LEMMA ReceiveOverlongKeeps ==
  ASSUME IInv, NEW s \in Stations, ReceiveOverlong(s)
  PROVE  IInv'
<1>1. /\ UNCHANGED <<net, asked, answered, outbox, inbox, peer, flying, link, connected,
                     accidents, spoiled, turnedFrom>>
      /\ link[s] # 0 /\ dead' = dead \cup {s}
      /\ conns' = [conns EXCEPT ![link[s]].to[s] = <<>>]
  BY DEF ReceiveOverlong, Alive, udpVars
<1>2. dead' \subseteq Stations /\ spoiled' \subseteq 1..Len(conns)
      /\ accidents' \in 0..its.accidents
  BY <1>1 DEF IInv, Sockets, Mail
<1>3. /\ \A S : <<>> \in Seq(S)
      /\ link[s] \in 1..Len(conns)
  BY <1>1, SocketFacts, EmptySeq
<1>4. Sockets' /\ Places' /\ Wired' /\ Faces' = Faces
  BY <1>1, <1>2, <1>3, ToOneEnd
<1> QED
  BY <1>1, <1>2, <1>4, OnlyConns

LEMMA ReceivePartKeeps ==
  ASSUME IInv, NEW s \in Stations, ReceivePart(s)
  PROVE  IInv'
<1>1. /\ UNCHANGED <<net, asked, answered, outbox, peer, flying, link, connected, dead,
                     accidents, turnedFrom>>
      /\ link[s] # 0 /\ UnderWay(s) # <<>> /\ HandOn(s, <<>>, link[s])
      /\ conns' = [conns EXCEPT ![link[s]].to[s] = Tail(@)]
      /\ spoiled' \subseteq spoiled \cup {link[s]}
  BY DEF ReceivePart, Alive, udpVars
<1>2. dead' \subseteq Stations /\ spoiled' \subseteq 1..Len(conns)
  BY <1>1, Spoils DEF IInv, Sockets
<1>3. conns' = [conns EXCEPT ![link[s]].to[s] =
                  SubSeq(UnderWay(s), 2, Len(UnderWay(s)))]
  <2>1. Tail(UnderWay(s)) = SubSeq(UnderWay(s), 2, Len(UnderWay(s)))
    BY <1>1, UnderWayTypes, TailIsSubSeq
  <2> QED
    BY <1>1, <2>1 DEF UnderWay
<1>4. Sockets' /\ Places' /\ Wired' /\ Faces' = Faces
  <2>1. 2 \in Nat \ {0}
    OBVIOUS
  <2> QED
    BY <1>1, <1>2, <1>3, <2>1, TakenKeeps
<1>5. /\ <<>> \in Seq(Unit) /\ <<>> \in Seq(UnitsOf(AsksOf(conns[link[s]].client)))
      /\ <<>> \in Seq(UnitsOf(AnswersTo(s, turnedFrom)))
  BY EmptySeq
<1> QED
  BY <1>1, <1>4, <1>5, HandOver

LEMMA ReceiveEndKeeps ==
  ASSUME IInv, NEW s \in Stations, ReceiveEnd(s)
  PROVE  IInv'
BY CloseKeeps DEF ReceiveEnd, Alive, udpVars

-----------------------------------------------------------------------------
(* All of it.                                                              *)

LEMMA InitIInv == Init => IInv
<1> SUFFICES ASSUME Init PROVE IInv
  OBVIOUS
<1>1. /\ net \in DOMAIN Nets /\ its.asks \in Nat /\ its.accidents \in Nat
      /\ "server" \in Stations /\ "server" \notin Clients /\ Clients \subseteq Stations
  BY NetFacts DEF Init, Stations
<1>2. /\ conns = <<>> /\ Len(conns) = 0 /\ \A s \in Stations : link[s] = 0
      /\ link \in [Stations -> {0}]
  BY EmptySeq DEF Init
<1>3. \A S : <<>> \in Seq(S)
  BY EmptySeq
<1>4. /\ \A s \in Stations : outbox[s] = <<>> /\ inbox[s] = <<>>
      /\ Len(outbox["server"]) = 0 /\ Len(inbox["server"]) = 0 /\ answered = 0
  BY <1>1, EmptySeq DEF Init
<1>5. Mail
  <2>1. outbox \in [Stations -> Seq(Packet)]
    BY <1>3 DEF Init
  <2>2. inbox \in [Stations -> Seq([content : Seq(Unit), conn : Nat])]
    BY <1>3 DEF Init
  <2>3. asked \in [Clients -> 0..its.asks] /\ answered \in 0..Len(inbox["server"])
    BY <1>1, <1>4 DEF Init
  <2>4. peer \in [Stations -> Stations \cup {"none"}]
    BY <1>1 DEF Init
  <2> QED
    BY <1>1, <2>1, <2>2, <2>3, <2>4 DEF Init, Mail
<1>6. Sockets
  <2>1. conns \in Seq(Conn) /\ link \in [Stations -> 0..Len(conns)]
    BY <1>2, <1>3
  <2>2. connected \in [Stations -> BOOLEAN] /\ \A s \in Stations : ~connected[s]
    BY DEF Init
  <2>3. dead \subseteq Stations /\ spoiled \subseteq 1..Len(conns)
    BY DEF Init
  <2> QED
    BY <1>2, <2>1, <2>2, <2>3 DEF Sockets
<1>7. Places
  BY <1>1, <1>2 DEF Places
<1>8. Due
  <2>1. Pending = {}
    BY <1>4, PendingParts DEF Heard
  <2>2. \A c \in Clients : outbox[c] \in Seq(AsksOf(c))
    BY <1>1, <1>3, <1>4
  <2> QED
    BY <2>1, <2>2 DEF Due
<1>9. Aired
  <2>1. /\ peer["server"] # "server" /\ flying = {}
        /\ \A c \in Clients : peer[c] = "server"
    BY <1>1 DEF Init
  <2> QED
    BY <2>1 DEF Aired
<1>10. Wired
  BY <1>2 DEF Wired
<1>11. AnswersAsker
  <2>1. \A c \in Clients : inbox[c] = <<>> /\ Len(inbox[c]) = 0
    BY <1>1, <1>4, EmptySeq
  <2> QED
    BY <2>1 DEF AnswersAsker
<1> QED
  BY <1>5, <1>6, <1>7, <1>8, <1>9, <1>10, <1>11 DEF IInv

LEMMA Inductive == IInv /\ [Next]_vars => IInv'
<1> SUFFICES ASSUME IInv, [Next]_vars PROVE IInv'
  OBVIOUS
<1>1. CASE \E c \in Clients, size \in its.sizes : Ask(c, size)
  BY <1>1, AskKeeps
<1>2. CASE Answer
  BY <1>2, AnswerKeeps
<1>3. CASE \E d \in flying : LoseDatagram(d)
  BY <1>3, LoseDatagramKeeps
<1>4. CASE Accept
  BY <1>4, AcceptKeeps
<1>5. CASE \E c \in Clients : Connects(c)
  BY <1>5, ConnectKeeps, ConnectAgainKeeps DEF Connects
<1>6. CASE Reopen
  BY <1>6, ReopenKeeps
<1>7. CASE \E k \in 1..Len(conns) : Break(k)
  BY <1>7, BreakKeeps
<1>8. ASSUME NEW s \in Stations, Sends(s) PROVE IInv'
  BY <1>8, SendDatagramKeeps, SendNothingKeeps, SendWholeKeeps, SendFailKeeps DEF Sends
<1>9. ASSUME NEW s \in Stations, Receives(s) PROVE IInv'
  BY <1>9, ReceiveDatagramKeeps, ReceiveCutKeeps, ReceiveFrameKeeps, ReceiveOverlongKeeps,
     ReceiveEndKeeps DEF Receives
<1>10. ASSUME NEW s \in Stations, ReceivePart(s) \/ ReceivePrefix(s) PROVE IInv'
  BY <1>10, ReceivePartKeeps, ReceivePrefixKeeps
<1>11. ASSUME NEW s \in Stations, NEW k \in {1, 3}, SendPart(s, k) PROVE IInv'
  BY <1>11, SendPartKeeps
<1>12. CASE UNCHANGED vars
  <2>1. /\ UNCHANGED <<net, asked, answered, outbox, inbox, peer, flying, accidents,
                       conns, link, turnedFrom>>
        /\ UNCHANGED <<net, tcpVars>>
    BY <1>12 DEF vars, udpVars, tcpVars
  <2>2. Sockets' /\ Places'
    BY <2>1, StillSockets
  <2>3. Wired' /\ Faces' = Faces
    BY <2>1, StillWired, StillFaces DEF IInv
  <2>4. accidents' \in 0..its.accidents
    BY <2>1 DEF IInv, Mail
  <2> QED
    BY <2>1, <2>2, <2>3, <2>4, OnlyConns
<1> QED
  BY <1>1, <1>2, <1>3, <1>4, <1>5, <1>6, <1>7, <1>8, <1>9, <1>10, <1>11, <1>12 DEF Next

LEMMA Invariant == Spec => []IInv
<1>1. Init => IInv
  BY InitIInv
<1>2. IInv /\ [Next]_vars => IInv'
  BY Inductive
<1> QED
  BY <1>1, <1>2, PTL DEF Spec

\* The state keeps its types, and a stream that says it is connected has the
\* socket of an open connection, which is the only one its end of is open:
\* with any parts sent and read, breaks and reopened servers
\* (stream.h:911, 928, 949, 998-999, 1039-1047).
THEOREM TypeCorrect == Spec => []TypeOK
<1>1. IInv => TypeOK
  BY DEF IInv, Mail, Sockets, TypeOK
<1> QED
  BY <1>1, Invariant, PTL

\* An answer goes to the client that asked, unless it was pending when the
\* server turned to another: by a datagram of the other's or by accepting the
\* other's connection (stream.h:851-852, 872-874).
THEOREM AnswersAskerSafe == Spec => []AnswersAsker
<1>1. IInv => AnswersAsker
  BY DEF IInv
<1> QED
  BY <1>1, Invariant, PTL

-----------------------------------------------------------------------------
(* What is handed on: whole packets, in the order they were sent.          *)

\* What a connection has under way to a station, and the packets of it.
To(k, s) == conns[k].to[s]
On(k, s) == {To(k, s)[u].of : u \in 1..Len(To(k, s))}

\* The packets a station has been handed, those it is yet to send, and, as
\* answers, those the plugin on the server has seen.
Got(s, i) == inbox[s][i].content[1].of
In(s) == {Got(s, i) : i \in 1..Len(inbox[s])}
Waiting(s) == {outbox[s][i] : i \in 1..Len(outbox[s])}
Seen == {AsAnswer(Got("server", i)) : i \in 1..answered}

\* Who sends to a station.
Senders(s) == IF s = "server" THEN Clients ELSE {"server"}

\* Whole frames, one behind the other.
Chain(w) ==
  /\ w # <<>> => w[1].part = 1
  /\ \A i \in 1..Len(w) :
       /\ w[i].part < 4 => /\ i < Len(w) /\ w[i + 1].of = w[i].of
                           /\ w[i + 1].part = w[i].part + 1
       /\ w[i].part = 4 /\ i < Len(w) => w[i + 1].part = 1

\* Where nothing was sent or received in part, there are whole frames.
Framed == \A k \in 1..Len(conns), s \in Stations : k \notin spoiled => Chain(To(k, s))

\* What goes to a station goes where it has not closed; the server's connection
\* is older than those of its queue, a client's is its last.
Turns ==
  /\ \A k \in 1..Len(conns), s \in Stations : To(k, s) # <<>> => s \in conns[k].open
  /\ \A k \in Queue : link["server"] < k
  /\ \A c \in Clients, k \in 1..Len(conns) : link[c] # 0 /\ link[c] < k => conns[k].client # c

\* Packets of the same client keep their order.
Before(x, y) == x.client = y.client => x.n < y.n
Ahead(A, B) == \A x \in A, y \in B : Before(x, y)

\* In each place they are in order: a frame has four units.
InOrder ==
  /\ \A s \in Stations : \A i, j \in 1..Len(inbox[s]) : i < j => Before(Got(s, i), Got(s, j))
  /\ \A s \in Stations : \A i, j \in 1..Len(outbox[s]) :
       i < j => Before(outbox[s][i], outbox[s][j])
  /\ \A k \in 1..Len(conns), s \in Stations : \A u, v \in 1..Len(To(k, s)) :
       u + 4 <= v => Before(To(k, s)[u].of, To(k, s)[v].of)

\* So they are from place to place: outbox, connections, inbox.
InTurn ==
  /\ \A k \in 1..Len(conns), s \in Stations : Ahead(In(s), On(k, s))
  /\ \A s \in Stations : \A r \in Senders(s) : Ahead(In(s), Waiting(r))
  /\ \A k \in 1..Len(conns), s \in Stations : \A r \in Senders(s) : Ahead(On(k, s), Waiting(r))
  /\ \A k, m \in 1..Len(conns) : k < m => Ahead(On(k, "server"), On(m, "server"))

\* No question is beyond those its client has asked.
UpTo(A) == \A x \in A, c \in Clients : x.client = c => x.n <= asked[c]
Counts ==
  /\ UpTo(In("server"))
  /\ \A c \in Clients : UpTo(Waiting(c))
  /\ \A k \in 1..Len(conns) : UpTo(On(k, "server"))

\* All answers are to questions the plugin on the server has seen.
Origins ==
  /\ Waiting("server") \subseteq Seen
  /\ \A c \in Clients : In(c) \subseteq Seen
  /\ \A k \in 1..Len(conns), c \in Clients : On(k, c) \subseteq Seen

Intact == ~its.dgram /\ spoiled = {}
Ordered == Intact => InOrder /\ InTurn /\ Counts /\ Origins

\* The inductive invariant, added to IInv.
OInv == Framed /\ Confined /\ Turns /\ Ordered

-----------------------------------------------------------------------------
(* What steps do to connections.                                           *)

\* Nothing new is under way; some of it may be lost.
Emptied ==
  /\ Len(conns) <= Len(conns')
  /\ \A k \in 1..Len(conns), s \in Stations : To(k, s)' \in {To(k, s), <<>>}
  /\ \A k \in 1..Len(conns'), s \in Stations : k > Len(conns) => To(k, s)' = <<>>

\* What is under way to a station on a connection becomes w.
Rewired(k, t, w) ==
  /\ Len(conns') = Len(conns)
  /\ \A j \in 1..Len(conns) :
       /\ conns'[j].client = conns[j].client /\ conns'[j].open = conns[j].open
       /\ conns'[j].accepted = conns[j].accepted
       /\ \A s \in Stations : To(j, s)' = IF j = k /\ s = t THEN w ELSE To(j, s)

LEMMA WireFacts ==
  ASSUME IInv
  PROVE  /\ conns \in Seq(Conn) /\ Len(conns) \in Nat
         /\ \A k \in 1..Len(conns) :
              /\ conns[k] \in Conn
              /\ \A s \in Stations : /\ To(k, s) \in Seq(Unit) /\ Len(To(k, s)) \in Nat
                                     /\ To(k, s) = <<>> <=> Len(To(k, s)) = 0
<1>1. conns \in Seq(Conn) /\ Len(conns) \in Nat
  BY LenProperties DEF IInv, Sockets
<1>2. ASSUME NEW k \in 1..Len(conns) PROVE conns[k] \in Conn
  BY <1>1, Element
<1>3. ASSUME NEW k \in 1..Len(conns), NEW s \in Stations
      PROVE  /\ To(k, s) \in Seq(Unit) /\ Len(To(k, s)) \in Nat
             /\ To(k, s) = <<>> <=> Len(To(k, s)) = 0
  <2>1. To(k, s) \in Seq(Unit)
    BY <1>2, <1>3 DEF To, Conn
  <2> QED
    BY <2>1, LenProperties, EmptySeq
<1> QED
  BY <1>1, <1>2, <1>3

LEMMA StillEmptied ==
  ASSUME IInv, UNCHANGED conns
  PROVE  Emptied
BY WireFacts DEF Emptied, To

LEMMA StillTurns ==
  ASSUME IInv, Turns, UNCHANGED <<net, conns, link>>
  PROVE  Turns'
BY Fixed DEF Turns, To, Queue

LEMMA RewiredFacts ==
  ASSUME IInv, NEW k \in 1..Len(conns), NEW t \in Stations, NEW w \in Seq(Unit),
         conns' = [conns EXCEPT ![k].to[t] = w]
  PROVE  Rewired(k, t, w)
<1> DEFINE conn == [conns[k] EXCEPT !.to[t] = w]
<1>1. conns \in Seq(Conn) /\ conns[k] \in Conn
  BY WireFacts
<1>2. /\ conn \in Conn
      /\ conn.client = conns[k].client /\ conn.open = conns[k].open
      /\ conn.accepted = conns[k].accepted
      /\ \A u \in Stations : conn.to[u] = IF u = t THEN w ELSE conns[k].to[u]
  BY <1>1 DEF Conn
<1>3. conns' = [conns EXCEPT ![k] = conn]
  OBVIOUS
<1> HIDE DEF conn
<1>4. /\ Len(conns') = Len(conns)
      /\ \A j \in 1..Len(conns) : conns'[j] = IF j = k THEN conn ELSE conns[j]
  BY <1>1, <1>2, <1>3, OneConn
<1>5. ASSUME NEW j \in 1..Len(conns), NEW s \in Stations
      PROVE  To(j, s)' = IF j = k /\ s = t THEN w ELSE To(j, s)
  <2>1. To(j, s)' = conns'[j].to[s] /\ To(j, s) = conns[j].to[s]
    BY DEF To
  <2> QED
    BY <1>2, <1>4, <2>1
<1> QED
  BY <1>2, <1>4, <1>5 DEF Rewired

\* A rewired connection stays in turn.
LEMMA RewiredTurns ==
  ASSUME IInv, Turns, NEW k \in 1..Len(conns), NEW t \in Stations, NEW w,
         Rewired(k, t, w), UNCHANGED <<net, link>>, w # <<>> => t \in conns[k].open
  PROVE  Turns'
<1>1. Stations' = Stations /\ Clients' = Clients
  BY Fixed
<1>2. Queue' = Queue
  BY DEF Rewired, Queue
<1>3. ASSUME NEW j \in 1..Len(conns), NEW s \in Stations, To(j, s)' # <<>>
      PROVE  s \in conns'[j].open
  BY <1>3 DEF Rewired, Turns
<1>4. Len(conns') = Len(conns)
      /\ \A j \in 1..Len(conns) : conns'[j].client = conns[j].client
  BY DEF Rewired
<1> QED
  BY <1>1, <1>2, <1>3, <1>4 DEF Turns

\* A station lets its connection go.
LEMMA LetQuiet ==
  ASSUME IInv, Turns, NEW s \in Stations, link[s] # 0, conns' = Let(s, link[s]),
         link' = [link EXCEPT ![s] = 0], UNCHANGED net
  PROVE  Emptied /\ Turns'
<1> DEFINE k == link[s]
           conn == [conns[k] EXCEPT !.open = @ \ {s}, !.to[s] = <<>>]
<1>1. /\ k \in 1..Len(conns) /\ conns[k] \in Conn /\ conns \in Seq(Conn)
      /\ link \in [Stations -> 0..Len(conns)] /\ Len(conns) \in Nat
      /\ "server" \in Stations /\ Clients \subseteq Stations
  BY SocketFacts, WireFacts DEF IInv, Sockets, Stations
<1>2. <<>> \in Seq(Unit)
  BY EmptySeq
<1>3. /\ conn \in Conn
      /\ conn.client = conns[k].client /\ conn.open = conns[k].open \ {s}
      /\ conn.accepted = conns[k].accepted
      /\ \A u \in Stations : conn.to[u] = IF u = s THEN <<>> ELSE conns[k].to[u]
  BY <1>1, <1>2 DEF Conn
<1>4. conns' = [conns EXCEPT ![k] = conn]
  BY DEF Let
<1> HIDE DEF conn
<1>5. /\ Len(conns') = Len(conns)
      /\ \A j \in 1..Len(conns) : conns'[j] = IF j = k THEN conn ELSE conns[j]
  BY <1>1, <1>3, <1>4, OneConn
<1>6. ASSUME NEW j \in 1..Len(conns), NEW u \in Stations
      PROVE  To(j, u)' = IF j = k /\ u = s THEN <<>> ELSE To(j, u)
  <2>1. To(j, u)' = conns'[j].to[u] /\ To(j, u) = conns[j].to[u]
    BY DEF To
  <2> QED
    BY <1>3, <1>5, <2>1
<1>7. Emptied
  BY <1>1, <1>5, <1>6 DEF Emptied
<1>8. ASSUME NEW j \in 1..Len(conns), NEW u \in Stations, To(j, u)' # <<>>
      PROVE  u \in conns'[j].open
  BY <1>3, <1>5, <1>6, <1>8 DEF Turns
<1>9. Queue' \subseteq Queue
  BY <1>3, <1>5 DEF Queue
<1>10. \A u \in Stations : link'[u] = IF u = s THEN 0 ELSE link[u]
  BY <1>1
<1>11. \A j \in Queue' : link'["server"] < j
  BY <1>1, <1>9, <1>10 DEF Turns, Queue
<1>12. \A j \in 1..Len(conns) : conns'[j].client = conns[j].client
  BY <1>3, <1>5
<1> QED
  BY <1>1, <1>5, <1>7, <1>8, <1>10, <1>11, <1>12, Fixed DEF Turns

LEMMA ConnectQuiet ==
  ASSUME IInv, Turns, NEW c \in Clients, Connect(c)
  PROVE  Emptied /\ Turns'
<1> DEFINE new == NewConn(c)
<1>1. /\ conns \in Seq(Conn) /\ Len(conns) \in Nat /\ UNCHANGED net
      /\ conns' = Append(conns, new) /\ link' = [link EXCEPT ![c] = Len(conns) + 1]
      /\ link \in [Stations -> 0..Len(conns)] /\ c \in Stations /\ "server" \in Stations
      /\ c # "server" /\ Clients \subseteq Stations
  BY WireFacts, NetFacts DEF Connect, IInv, Mail, Sockets, Stations
<1>2. /\ new \in Conn /\ new.client = c /\ \A s \in Stations : new.to[s] = <<>>
  <2>1. <<>> \in Seq(Unit)
    BY EmptySeq
  <2> QED
    BY <1>1, <2>1 DEF NewConn, Conn
<1> HIDE DEF new
<1>3. /\ Len(conns') = Len(conns) + 1
      /\ \A j \in 1..Len(conns) : conns'[j] = conns[j]
      /\ conns'[Len(conns) + 1] = new
  BY <1>1, <1>2, AppendProperties
<1>4. ASSUME NEW j \in 1..Len(conns'), NEW s \in Stations
      PROVE  To(j, s)' = IF j = Len(conns) + 1 THEN <<>> ELSE To(j, s)
  <2>1. To(j, s)' = conns'[j].to[s] /\ To(j, s) = conns[j].to[s]
    BY DEF To
  <2> QED
    BY <1>1, <1>2, <1>3, <2>1
<1>5. Emptied
  <2>1. Len(conns) \in Nat /\ Len(conns') = Len(conns) + 1
    BY <1>1, <1>3
  <2>2. \A j \in 1..Len(conns), s \in Stations : j \in 1..Len(conns') /\ To(j, s)' = To(j, s)
    BY <1>4, <2>1
  <2> QED
    BY <1>4, <2>1, <2>2 DEF Emptied
<1>6. ASSUME NEW j \in 1..Len(conns'), NEW s \in Stations, To(j, s)' # <<>>
      PROVE  s \in conns'[j].open
  <2>1. j \in 1..Len(conns) /\ To(j, s) # <<>>
    BY <1>1, <1>3, <1>4, <1>6
  <2> QED
    BY <1>3, <2>1 DEF Turns
<1>7. link["server"] \in 0..Len(conns) /\ link'["server"] = link["server"]
  BY <1>1
<1>8. \A j \in Queue' : link'["server"] < j
  <2>1. \A j \in Queue' : j \in Queue \/ j = Len(conns) + 1
    BY <1>1, <1>3 DEF Queue
  <2> QED
    BY <1>1, <1>7, <2>1 DEF Turns
<1>9. ASSUME NEW d \in Clients, NEW j \in 1..Len(conns'), link'[d] # 0, link'[d] < j
      PROVE  conns'[j].client # d
  <2>1. CASE d = c
    BY <1>1, <1>3, <1>9, <2>1
  <2>2. CASE d # c
    <3>1. link'[d] = link[d]
      BY <1>1, <2>2
    <3>2. CASE j = Len(conns) + 1
      BY <1>2, <1>3, <2>2, <3>2
    <3>3. CASE j # Len(conns) + 1
      <4>1. j \in 1..Len(conns)
        BY <1>1, <1>3, <3>3
      <4> QED
        BY <1>3, <1>9, <3>1, <4>1 DEF Turns
    <3> QED
      BY <3>2, <3>3
  <2> QED
    BY <2>1, <2>2
<1> QED
  BY <1>1, <1>5, <1>6, <1>8, <1>9, Fixed DEF Turns

LEMMA ConnectAgainQuiet ==
  ASSUME IInv, Turns, NEW c \in Clients, ConnectAgain(c)
  PROVE  Emptied /\ Turns'
<1>1. UNCHANGED net /\ link[c] # 0 /\ c \in Stations
  BY DEF ConnectAgain, Stations
<1>2. CASE conns' = Let(c, link[c]) /\ link' = [link EXCEPT ![c] = 0]
  BY <1>1, <1>2, LetQuiet
<1>3. CASE UNCHANGED <<conns, link>>
  BY <1>1, <1>3, StillEmptied, StillTurns
<1> QED
  BY <1>2, <1>3 DEF ConnectAgain

LEMMA AcceptQuiet ==
  ASSUME IInv, Turns, Accept
  PROVE  Emptied /\ Turns'
<1>1. PICK k \in Queue : /\ \A j \in Queue : k <= j
                         /\ conns' = [conns EXCEPT ![k].accepted = TRUE]
                         /\ link' = [link EXCEPT !["server"] = k]
  BY DEF Accept
<1> DEFINE conn == [conns[k] EXCEPT !.accepted = TRUE]
<1>2. /\ k \in 1..Len(conns) /\ conns[k] \in Conn /\ conns \in Seq(Conn)
      /\ Len(conns) \in Nat /\ link \in [Stations -> 0..Len(conns)] /\ UNCHANGED net
      /\ "server" \in Stations /\ "server" \notin Clients /\ Clients \subseteq Stations
  BY WireFacts, NetFacts DEF Accept, Queue, IInv, Mail, Sockets, Stations
<1>3. /\ conn \in Conn /\ conn.accepted = TRUE /\ conn.client = conns[k].client
      /\ conn.open = conns[k].open /\ conn.to = conns[k].to
  BY <1>2 DEF Conn
<1>4. conns' = [conns EXCEPT ![k] = conn]
  BY <1>1
<1> HIDE DEF conn
<1>5. /\ Len(conns') = Len(conns)
      /\ \A j \in 1..Len(conns) : conns'[j] = IF j = k THEN conn ELSE conns[j]
  BY <1>2, <1>3, <1>4, OneConn
<1>6. \A j \in 1..Len(conns) : /\ conns'[j].to = conns[j].to
                               /\ conns'[j].open = conns[j].open
                               /\ conns'[j].client = conns[j].client
  BY <1>3, <1>5
<1>7. Emptied
  BY <1>2, <1>5, <1>6 DEF Emptied, To
<1>8. \A j \in 1..Len(conns), s \in Stations : To(j, s)' # <<>> => s \in conns'[j].open
  BY <1>6 DEF Turns, To
<1>9. link'["server"] = k /\ \A c \in Clients : link'[c] = link[c]
  BY <1>1, <1>2
<1>10. \A j \in Queue' : link'["server"] < j
  <2>1. \A j \in Queue' : j \in Queue /\ j # k
    BY <1>3, <1>5 DEF Queue
  <2>2. ASSUME NEW j \in Queue, j # k PROVE k < j
    <3>1. j \in 1..Len(conns) /\ k <= j
      BY <1>1 DEF Queue
    <3> QED
      BY <1>2, <2>2, <3>1
  <2> QED
    BY <1>9, <2>1, <2>2
<1> QED
  BY <1>2, <1>5, <1>6, <1>7, <1>8, <1>9, <1>10, Fixed DEF Turns

LEMMA BreakQuiet ==
  ASSUME IInv, Turns, NEW k \in 1..Len(conns), Break(k)
  PROVE  Emptied /\ Turns'
<1> DEFINE conn == [conns[k] EXCEPT !.broken = TRUE]
<1>1. /\ conns[k] \in Conn /\ conns \in Seq(Conn) /\ Len(conns) \in Nat
      /\ UNCHANGED <<net, link>> /\ conns' = [conns EXCEPT ![k] = conn]
  BY WireFacts DEF Break
<1>2. /\ conn \in Conn /\ conn.accepted = conns[k].accepted /\ conn.client = conns[k].client
      /\ conn.open = conns[k].open /\ conn.to = conns[k].to
  BY <1>1 DEF Conn
<1> HIDE DEF conn
<1>3. /\ Len(conns') = Len(conns)
      /\ \A j \in 1..Len(conns) : conns'[j] = IF j = k THEN conn ELSE conns[j]
  BY <1>1, <1>2, OneConn
<1>4. \A j \in 1..Len(conns) : /\ conns'[j].to = conns[j].to
                               /\ conns'[j].open = conns[j].open
                               /\ conns'[j].client = conns[j].client
                               /\ conns'[j].accepted = conns[j].accepted
  BY <1>2, <1>3
<1>5. Emptied
  BY <1>1, <1>3, <1>4 DEF Emptied, To
<1>6. Queue' = Queue
  BY <1>3, <1>4 DEF Queue
<1>7. \A j \in 1..Len(conns), s \in Stations : To(j, s)' # <<>> => s \in conns'[j].open
  BY <1>4 DEF Turns, To
<1> QED
  BY <1>1, <1>3, <1>4, <1>5, <1>6, <1>7, Fixed DEF Turns

LEMMA ReopenQuiet ==
  ASSUME IInv, Turns, Reopen
  PROVE  Emptied /\ Turns'
<1>1. /\ Len(conns) \in Nat /\ UNCHANGED net /\ link' = [link EXCEPT !["server"] = 0]
      /\ link \in [Stations -> 0..Len(conns)] /\ "server" \notin Clients
      /\ "server" \in Stations /\ Clients \subseteq Stations
  BY WireFacts, NetFacts DEF Reopen, IInv, Mail, Sockets, Stations
<1>0. conns' = [k \in 1..Len(conns) |->
                 [conns[k] EXCEPT !.open = @ \ {"server"}, !.to["server"] = <<>>]]
  BY DEF Reopen
<1>2. ASSUME NEW k \in 1..Len(conns)
      PROVE  /\ conns'[k].open = conns[k].open \ {"server"}
             /\ conns'[k].client = conns[k].client
             /\ \A s \in Stations : To(k, s)' = IF s = "server" THEN <<>> ELSE To(k, s)
  <2>1. conns[k] \in Conn
    BY WireFacts
  <2>2. conns'[k] = [conns[k] EXCEPT !.open = @ \ {"server"}, !.to["server"] = <<>>]
    BY <1>0
  <2> QED
    BY <2>1, <2>2 DEF Conn, To
<1>3. Len(conns') = Len(conns)
  <2>1. conns' \in Seq(Conn')
    BY ReopenKeeps DEF IInv, Sockets
  <2>2. DOMAIN conns' = 1..Len(conns') /\ Len(conns') \in Nat
    BY <2>1, LenProperties
  <2>3. DOMAIN conns' = 1..Len(conns)
    BY <1>0
  <2>4. ASSUME NEW m \in Nat, NEW n \in Nat, 1..m = 1..n PROVE m = n
    <3>1. m > 0 => m \in 1..n
      BY <2>4
    <3>2. n > 0 => n \in 1..m
      BY <2>4
    <3> QED
      BY <3>1, <3>2
  <2> QED
    BY <1>1, <2>2, <2>3, <2>4
<1>4. Emptied
  BY <1>1, <1>2, <1>3 DEF Emptied
<1>5. \A j \in 1..Len(conns), s \in Stations : To(j, s)' # <<>> => s \in conns'[j].open
  BY <1>2 DEF Turns
<1>6. Queue' = {}
  BY <1>2, <1>3 DEF Queue
<1>7. \A c \in Clients : link'[c] = link[c]
  BY <1>1
<1> QED
  BY <1>1, <1>2, <1>3, <1>4, <1>5, <1>6, <1>7, Fixed DEF Turns

-----------------------------------------------------------------------------
(* What is lost disturbs nothing.                                          *)

LEMMA EmptyChain == Chain(<<>>)
<1>1. Len(<<>>) = 0
  BY EmptySeq
<1> QED
  BY <1>1 DEF Chain

LEMMA EmptiedFramed ==
  ASSUME IInv, IInv', Framed, Emptied, UNCHANGED net, spoiled \subseteq spoiled'
  PROVE  Framed'
<1>1. ASSUME NEW k \in 1..Len(conns'), NEW s \in Stations, k \notin spoiled'
      PROVE  Chain(To(k, s)')
  <2>1. CASE k \in 1..Len(conns)
    <3>1. Chain(To(k, s)) /\ To(k, s)' \in {To(k, s), <<>>}
      BY <1>1, <2>1 DEF Framed, Emptied
    <3> QED
      BY <3>1, EmptyChain
  <2>2. CASE k \notin 1..Len(conns)
    <3>1. Len(conns) \in Nat /\ Len(conns') \in Nat
      BY WireFacts, LenProperties DEF IInv, Sockets
    <3>2. To(k, s)' = <<>>
      BY <2>2, <3>1 DEF Emptied
    <3> QED
      BY <3>2, EmptyChain
  <2> QED
    BY <2>1, <2>2
<1> QED
  BY <1>1, Fixed DEF Framed, Chain

LEMMA StillConfined ==
  ASSUME Confined, UNCHANGED <<net, inbox>>, spoiled \subseteq spoiled',
         spoiled' = {} /\ "big" \notin its.sizes => dead' = dead
  PROVE  Confined'
BY Fixed DEF Confined, Right, Cut, Body

\* What a station has under way to it, as packets.
LEMMA OnFacts ==
  ASSUME IInv, IInv', Emptied, UNCHANGED net
  PROVE  \A k \in 1..Len(conns'), s \in Stations :
           \/ On(k, s)' = {}
           \/ k \in 1..Len(conns) /\ On(k, s)' = On(k, s) /\ To(k, s)' = To(k, s)
<1> SUFFICES ASSUME NEW k \in 1..Len(conns'), NEW s \in Stations
             PROVE  \/ On(k, s)' = {}
                    \/ k \in 1..Len(conns) /\ On(k, s)' = On(k, s) /\ To(k, s)' = To(k, s)
  OBVIOUS
<1>1. Len(conns) \in Nat /\ Len(conns') \in Nat
  BY WireFacts, LenProperties DEF IInv, Sockets
<1>2. CASE To(k, s)' = <<>>
  <2>1. Len(<<>>) = 0
    BY EmptySeq
  <2> QED
    BY <1>2, <2>1 DEF On
<1>3. CASE k \in 1..Len(conns) /\ To(k, s)' = To(k, s)
  BY <1>3 DEF On
<1> QED
  BY <1>1, <1>2, <1>3 DEF Emptied

\* Fewer packets, in fewer places, are as much in turn.
LEMMA FewerInTurn ==
  ASSUME InTurn, UNCHANGED <<net, inbox>>, Stations' = Stations, Clients' = Clients,
         \A s \in Stations : Waiting(s)' \subseteq Waiting(s),
         \A k \in 1..Len(conns'), s \in Stations :
           On(k, s)' = {} \/ (k \in 1..Len(conns) /\ On(k, s)' \subseteq On(k, s))
  PROVE  InTurn'
<1>1. \A s \in Stations : In(s)' = In(s)
  BY DEF In, Got
<1>2. \A s \in Stations : Senders(s)' = Senders(s) /\ Senders(s) \subseteq Stations
  BY DEF Senders, Stations
<1>3. /\ \A k \in 1..Len(conns'), s \in Stations : Ahead(In(s)', On(k, s)')
      /\ \A s \in Stations : \A r \in Senders(s) : Ahead(In(s)', Waiting(r)')
  BY <1>1, <1>2 DEF InTurn, Ahead
<1>4. \A k \in 1..Len(conns'), s \in Stations : \A r \in Senders(s) :
        Ahead(On(k, s)', Waiting(r)')
  BY <1>2 DEF InTurn, Ahead
<1>5. "server" \in Stations
  BY DEF Stations
<1>6. \A k, m \in 1..Len(conns') : k < m => Ahead(On(k, "server")', On(m, "server")')
  BY <1>5 DEF InTurn, Ahead
<1> QED
  BY <1>2, <1>3, <1>4, <1>6 DEF InTurn, Ahead, Before

LEMMA FewerCounted ==
  ASSUME Counts, Origins, UNCHANGED <<net, asked, answered, inbox>>, Clients' = Clients,
         \A s \in Stations : Waiting(s)' \subseteq Waiting(s),
         \A k \in 1..Len(conns'), s \in Stations :
           On(k, s)' = {} \/ (k \in 1..Len(conns) /\ On(k, s)' \subseteq On(k, s))
  PROVE  Counts' /\ Origins'
<1>1. /\ \A s : In(s)' = In(s) /\ Seen' = Seen
      /\ "server" \in Stations /\ Clients \subseteq Stations
  BY DEF In, Got, Seen, AsAnswer, Stations
<1>2. Counts'
  BY <1>1 DEF Counts, UpTo
<1>3. Origins'
  BY <1>1 DEF Origins
<1> QED
  BY <1>2, <1>3

\* Packets taken off an outbox leave the others in order.
LEMMA PoppedInOrder ==
  ASSUME IInv, NEW s \in Stations, outbox[s] # <<>>, Popped(s),
         \A r \in Stations : \A i, j \in 1..Len(outbox[r]) :
           i < j => Before(outbox[r][i], outbox[r][j])
  PROVE  /\ \A r \in Stations : Waiting(r)' \subseteq Waiting(r)
         /\ \A r \in Stations : \A i, j \in 1..Len(outbox'[r]) :
              i < j => Before(outbox'[r][i], outbox'[r][j])
         /\ \A y \in Waiting(s)' : Before(Head(outbox[s]), y)
         /\ Head(outbox[s]) \in Waiting(s)
<1>1. /\ outbox \in [Stations -> Seq(Packet)]
      /\ outbox' = [outbox EXCEPT ![s] = Tail(outbox[s])]
  BY DEF IInv, Mail, Popped
<1>2. /\ outbox'[s] = Tail(outbox[s]) /\ Len(outbox[s]) \in Nat /\ Len(outbox[s]) > 0
      /\ Len(outbox'[s]) = Len(outbox[s]) - 1 /\ Head(outbox[s]) = outbox[s][1]
      /\ \A i \in 1..Len(outbox'[s]) : outbox'[s][i] = outbox[s][i + 1]
  BY <1>1, HeadTail
<1>3. \A r \in Stations : r # s => outbox'[r] = outbox[r]
  BY <1>1
<1>4. \A i \in 1..Len(outbox'[s]) : i + 1 \in 1..Len(outbox[s]) /\ 1 < i + 1
  BY <1>2
<1>5. 1 \in 1..Len(outbox[s])
  BY <1>2
<1>6. Waiting(s)' \subseteq Waiting(s) /\ Head(outbox[s]) \in Waiting(s)
  BY <1>2, <1>4, <1>5 DEF Waiting
<1>7. \A r \in Stations : Waiting(r)' \subseteq Waiting(r)
  BY <1>3, <1>6 DEF Waiting
<1>8. \A y \in Waiting(s)' : Before(Head(outbox[s]), y)
  BY <1>2, <1>4, <1>5 DEF Waiting
<1>9. ASSUME NEW r \in Stations, NEW i \in 1..Len(outbox'[r]), NEW j \in 1..Len(outbox'[r]), i < j
      PROVE  Before(outbox'[r][i], outbox'[r][j])
  <2>1. CASE r = s
    <3>1. i + 1 < j + 1
      BY <1>9
    <3> QED
      BY <1>2, <1>4, <1>9, <2>1, <3>1
  <2>2. CASE r # s
    BY <1>3, <1>9, <2>2
  <2> QED
    BY <2>1, <2>2
<1> QED
  BY <1>6, <1>7, <1>8, <1>9

LEMMA EmptiedOrdered ==
  ASSUME IInv, IInv', Ordered, Emptied, UNCHANGED <<net, asked, answered, inbox>>,
         spoiled \subseteq spoiled',
         UNCHANGED outbox \/ \E s \in Stations : outbox[s] # <<>> /\ Popped(s)
  PROVE  Ordered'
<1> SUFFICES ASSUME Intact' PROVE (InOrder /\ InTurn /\ Counts /\ Origins)'
  BY DEF Ordered
<1>1. Intact
  BY Fixed DEF Intact
<1>2. InOrder /\ InTurn /\ Counts /\ Origins
  BY <1>1 DEF Ordered
<1>3. Stations' = Stations /\ Clients' = Clients
  BY Fixed
<1>4. /\ \A r \in Stations : Waiting(r)' \subseteq Waiting(r)
      /\ \A r \in Stations : \A i, j \in 1..Len(outbox'[r]) :
           i < j => Before(outbox'[r][i], outbox'[r][j])
  <2>1. \A r \in Stations : \A i, j \in 1..Len(outbox[r]) :
          i < j => Before(outbox[r][i], outbox[r][j])
    BY <1>2 DEF InOrder
  <2>2. CASE UNCHANGED outbox
    BY <2>1, <2>2 DEF Waiting
  <2>3. CASE \E s \in Stations : outbox[s] # <<>> /\ Popped(s)
    BY <2>1, <2>3, PoppedInOrder
  <2> QED
    BY <2>2, <2>3
<1>5. \A k \in 1..Len(conns'), s \in Stations :
        \/ On(k, s)' = {}
        \/ k \in 1..Len(conns) /\ On(k, s)' = On(k, s) /\ To(k, s)' = To(k, s)
  BY OnFacts
<1>6. ASSUME NEW k \in 1..Len(conns'), NEW s \in Stations,
             NEW u \in 1..Len(To(k, s)'), NEW v \in 1..Len(To(k, s)'), u + 4 <= v
      PROVE  Before(To(k, s)'[u].of, To(k, s)'[v].of)
  <2>1. To(k, s)'[u].of \in On(k, s)'
    BY DEF On
  <2>2. k \in 1..Len(conns) /\ To(k, s)' = To(k, s)
    BY <1>5, <2>1
  <2> QED
    BY <1>2, <1>6, <2>2 DEF InOrder
<1>7. InOrder'
  BY <1>2, <1>3, <1>4, <1>6 DEF InOrder, Before, Got
<1>8. InTurn' /\ Counts' /\ Origins'
  BY <1>2, <1>3, <1>4, <1>5, FewerInTurn, FewerCounted
<1> QED
  BY <1>7, <1>8

-----------------------------------------------------------------------------
(* Frames.                                                                 *)

LEMMA FrameFacts ==
  ASSUME NEW p \in Packet
  PROVE  /\ Frame(p) \in Seq(Unit) /\ Len(Frame(p)) = 4
         /\ \A i \in 1..4 : Frame(p)[i].of = p /\ Frame(p)[i].part = i
<1> DEFINE e(i) == [of |-> p, part |-> i]
<1>1. \A i \in 1..4 : e(i) \in Unit
  BY DEF Unit
<1>2. Frame(p) = <<e(1), e(2)>> \o <<e(3), e(4)>>
  BY DEF Frame, Body
<1>3. /\ e(1).of = p /\ e(2).of = p /\ e(3).of = p /\ e(4).of = p
      /\ e(1).part = 1 /\ e(2).part = 2 /\ e(3).part = 3 /\ e(4).part = 4
  OBVIOUS
<1> HIDE DEF e
<1>4. /\ <<e(1), e(2)>> \in Seq(Unit) /\ Len(<<e(1), e(2)>>) = 2
      /\ <<e(3), e(4)>> \in Seq(Unit) /\ Len(<<e(3), e(4)>>) = 2
      /\ <<e(1), e(2)>>[1] = e(1) /\ <<e(1), e(2)>>[2] = e(2)
      /\ <<e(3), e(4)>>[1] = e(3) /\ <<e(3), e(4)>>[2] = e(4)
  BY <1>1
<1> DEFINE f == <<e(1), e(2)>>
           b == <<e(3), e(4)>>
<1>5. /\ f \in Seq(Unit) /\ b \in Seq(Unit) /\ Len(f) = 2 /\ Len(b) = 2
      /\ f[1] = e(1) /\ f[2] = e(2) /\ b[1] = e(3) /\ b[2] = e(4) /\ Frame(p) = f \o b
  BY <1>2, <1>4
<1> HIDE DEF f, b
<1>6. /\ Frame(p) \in Seq(Unit) /\ Len(Frame(p)) = 4
      /\ \A i \in 1..4 : Frame(p)[i] = IF i <= 2 THEN f[i] ELSE b[i - 2]
  <2>1. /\ f \o b \in Seq(Unit) /\ Len(f \o b) = Len(f) + Len(b)
        /\ \A i \in 1..(Len(f) + Len(b)) :
             (f \o b)[i] = IF i <= Len(f) THEN f[i] ELSE b[i - Len(f)]
    BY <1>5, ConcatFacts
  <2> QED
    BY <1>5, <2>1
<1>7. /\ Frame(p)[1] = e(1) /\ Frame(p)[2] = e(2)
      /\ Frame(p)[3] = e(3) /\ Frame(p)[4] = e(4)
  BY <1>5, <1>6
<1> QED
  BY <1>3, <1>6, <1>7

\* A frame more.
LEMMA ChainAppended ==
  ASSUME NEW w \in Seq(Unit), NEW p \in Packet
  PROVE  /\ w \o Frame(p) \in Seq(Unit) /\ Len(w) \in Nat
         /\ Len(w \o Frame(p)) = Len(w) + 4
         /\ \A i \in 1..(Len(w) + 4) :
              (w \o Frame(p))[i] = IF i <= Len(w) THEN w[i] ELSE Frame(p)[i - Len(w)]
         /\ Chain(w) => Chain(w \o Frame(p))
<1> DEFINE f == Frame(p)
           x == w \o f
<1>1. /\ f \in Seq(Unit) /\ Len(f) = 4 /\ Len(w) \in Nat
      /\ \A i \in 1..4 : f[i].of = p /\ f[i].part = i
  BY FrameFacts, LenProperties
<1> HIDE DEF f
<1>2. /\ x \in Seq(Unit) /\ Len(x) = Len(w) + 4
      /\ \A i \in 1..(Len(w) + 4) : x[i] = IF i <= Len(w) THEN w[i] ELSE f[i - Len(w)]
  <2>1. /\ w \o f \in Seq(Unit) /\ Len(w \o f) = Len(w) + Len(f)
        /\ \A i \in 1..(Len(w) + Len(f)) :
             (w \o f)[i] = IF i <= Len(w) THEN w[i] ELSE f[i - Len(w)]
    BY <1>1, ConcatFacts
  <2> QED
    BY <1>1, <2>1
<1> HIDE DEF x
<1>3. ASSUME Chain(w) PROVE Chain(x)
  <2>1. ASSUME NEW i \in 1..Len(x), i > Len(w)
        PROVE  /\ x[i] = f[i - Len(w)] /\ i - Len(w) \in 1..4
               /\ x[i].of = p /\ x[i].part = i - Len(w)
    <3>1. i \in 1..(Len(w) + 4) /\ i - Len(w) \in 1..4 /\ ~(i <= Len(w))
      BY <1>1, <1>2, <2>1
    <3>2. x[i] = f[i - Len(w)]
      BY <1>2, <3>1
    <3> QED
      BY <1>1, <3>1, <3>2
  <2>2. \A i \in 1..Len(w) : x[i] = w[i] /\ i \in 1..Len(x)
    BY <1>1, <1>2
  <2>3. x[1].part = 1
    <3>1. CASE Len(w) = 0
      BY <1>1, <1>2, <2>1, <3>1
    <3>2. CASE Len(w) > 0
      BY <1>1, <1>3, <2>2, <3>2, EmptySeq DEF Chain
    <3> QED
      BY <1>1, <3>1, <3>2
  <2>4. ASSUME NEW i \in 1..Len(x), x[i].part < 4
        PROVE  i < Len(x) /\ x[i + 1].of = x[i].of /\ x[i + 1].part = x[i].part + 1
    <3>1. CASE i <= Len(w)
      <4>1. i \in 1..Len(w) /\ w[i].part < 4
        BY <1>1, <2>2, <2>4, <3>1
      <4>2. i + 1 \in 1..Len(w) /\ w[i + 1].of = w[i].of /\ w[i + 1].part = w[i].part + 1
        BY <1>1, <1>3, <4>1 DEF Chain
      <4> QED
        BY <1>1, <1>2, <2>2, <4>1, <4>2
    <3>2. CASE i > Len(w)
      <4>1. i + 1 \in 1..Len(x) /\ i + 1 > Len(w)
        BY <1>1, <1>2, <2>1, <2>4, <3>2
      <4> QED
        BY <1>1, <1>2, <2>1, <3>2, <4>1
    <3> QED
      BY <1>1, <3>1, <3>2
  <2>5. ASSUME NEW i \in 1..Len(x), x[i].part = 4, i < Len(x)
        PROVE  x[i + 1].part = 1
    <3>1. CASE i < Len(w)
      <4>1. i \in 1..Len(w) /\ i + 1 \in 1..Len(w) /\ w[i].part = 4
        BY <1>1, <2>2, <2>5, <3>1
      <4> QED
        BY <1>1, <1>3, <2>2, <3>1, <4>1 DEF Chain
    <3>2. CASE i >= Len(w)
      <4>1. i + 1 \in 1..Len(x) /\ i + 1 > Len(w)
        BY <1>1, <1>2, <2>5, <3>2
      <4>2. i = Len(w)
        BY <1>1, <1>2, <2>1, <2>5, <3>2, <4>1
      <4> QED
        BY <1>1, <2>1, <4>1, <4>2
    <3> QED
      BY <1>1, <3>1, <3>2
  <2> QED
    BY <2>3, <2>4, <2>5 DEF Chain
<1> QED
  BY <1>1, <1>2, <1>3 DEF x, f

\* The first frame, and what is behind it.
LEMMA ChainFirst ==
  ASSUME NEW w \in Seq(Unit), Chain(w), w # <<>>
  PROVE  /\ Len(w) \in Nat /\ Len(w) >= 4
         /\ \A i \in 1..4 : w[i].of = w[1].of /\ w[i].part = i
         /\ SubSeq(w, 3, 4) = Body(w[1].of) /\ w[1].of \in Packet
         /\ SubSeq(w, 5, Len(w)) \in Seq(Unit) /\ Chain(SubSeq(w, 5, Len(w)))
         /\ Len(SubSeq(w, 5, Len(w))) = Len(w) - 4
         /\ \A i \in 1..(Len(w) - 4) : SubSeq(w, 5, Len(w))[i] = w[i + 4]
<1>1. /\ Len(w) \in Nat /\ Len(w) > 0 /\ \A i \in 1..Len(w) : w[i] \in Unit
  BY EmptySeq, LenProperties, ElementOfSeq
<1>2. 1 \in 1..Len(w) /\ w[1].part = 1
  BY <1>1 DEF Chain
<1>3. 2 \in 1..Len(w) /\ w[2].part = 2 /\ w[2].of = w[1].of
  BY <1>1, <1>2 DEF Chain
<1>4. 3 \in 1..Len(w) /\ w[3].part = 3 /\ w[3].of = w[1].of
  BY <1>1, <1>3 DEF Chain
<1>5. 4 \in 1..Len(w) /\ w[4].part = 4 /\ w[4].of = w[1].of
  BY <1>1, <1>4 DEF Chain
<1>6. Len(w) >= 4 /\ \A i \in 1..4 : w[i].of = w[1].of /\ w[i].part = i
  BY <1>1, <1>2, <1>3, <1>4, <1>5
<1>7. w[1].of \in Packet
  BY <1>1, <1>2 DEF Unit
<1>8. SubSeq(w, 3, 4) = Body(w[1].of)
  <2>1. /\ SubSeq(w, 3, 4) \in Seq(Unit) /\ Len(SubSeq(w, 3, 4)) = 2
        /\ SubSeq(w, 3, 4)[1] = w[3] /\ SubSeq(w, 3, 4)[2] = w[4]
    <3>1. \A i \in 3..4 : w[i] \in Unit
      BY <1>1, <1>4, <1>5
    <3> QED
      BY <3>1, SubSeqProperties
  <2>2. w[3] = [of |-> w[1].of, part |-> 3] /\ w[4] = [of |-> w[1].of, part |-> 4]
    <3>1. w[3] \in Unit /\ w[4] \in Unit
      BY <1>1, <1>4, <1>5
    <3> QED
      BY <1>4, <1>5, <3>1 DEF Unit
  <2>3. /\ Body(w[1].of) \in Seq(Unit) /\ Len(Body(w[1].of)) = 2
        /\ Body(w[1].of)[1] = w[3] /\ Body(w[1].of)[2] = w[4]
    <3> DEFINE a == [of |-> w[1].of, part |-> 3]
               b == [of |-> w[1].of, part |-> 4]
    <3>1. Body(w[1].of) = <<a, b>> /\ a = w[3] /\ b = w[4]
      BY <2>2 DEF Body
    <3> HIDE DEF a, b
    <3>2. a \in Unit /\ b \in Unit
      BY <1>1, <1>4, <1>5, <3>1
    <3> QED
      BY <3>1, <3>2
  <2>4. \A i \in 1..2 : SubSeq(w, 3, 4)[i] = Body(w[1].of)[i]
    BY <2>1, <2>3
  <2> QED
    BY <2>1, <2>3, <2>4, SeqEqual
<1> DEFINE x == SubSeq(w, 5, Len(w))
<1>9. /\ x \in Seq(Unit) /\ Len(x) = Len(w) - 4
      /\ \A i \in 1..(Len(w) - 4) : x[i] = w[i + 4]
  <2>1. \A i \in 5..Len(w) : w[i] \in Unit
    BY <1>1
  <2>2. /\ x \in Seq(Unit) /\ Len(x) = IF 5 <= Len(w) THEN Len(w) - 5 + 1 ELSE 0
        /\ \A i \in 1..(Len(w) - 5 + 1) : x[i] = w[5 + i - 1]
    BY <1>1, <2>1, SubSeqProperties
  <2> HIDE DEF x
  <2>3. Len(x) = Len(w) - 4
    <3>1. CASE Len(w) = 4
      BY <2>2, <3>1
    <3>2. CASE Len(w) >= 5
      BY <1>1, <2>2, <3>2
    <3>3. Len(w) \in Nat /\ Len(w) >= 4
      BY <1>1, <1>5
    <3>4. Len(w) = 4 \/ Len(w) >= 5
      <4> DEFINE n == Len(w)
      <4>1. n \in Nat /\ n >= 4
        BY <3>3
      <4> HIDE DEF n
      <4>2. n = 4 \/ n >= 5
        BY <4>1
      <4> QED
        BY <4>2 DEF n
    <3> QED
      BY <3>1, <3>2, <3>4, Zenon
  <2>4. ASSUME NEW i \in 1..(Len(w) - 4) PROVE x[i] = w[i + 4]
    <3>1. i \in 1..(Len(w) - 5 + 1) /\ 5 + i - 1 = i + 4
      BY <1>1, <1>6
    <3> QED
      BY <2>2, <3>1
  <2> QED
    BY <2>2, <2>3, <2>4
<1> HIDE DEF x
<1>10. Chain(x)
  <2>1. \A i \in 1..Len(x) : i + 4 \in 1..Len(w) /\ x[i] = w[i + 4]
    BY <1>1, <1>9
  <2>2. ASSUME x # <<>> PROVE x[1].part = 1
    <3>1. Len(x) > 0
      BY <1>9, <2>2, EmptySeq
    <3>2. w[4 + 1].part = 1
      BY <1>1, <1>5, <1>9, <3>1 DEF Chain
    <3> QED
      BY <1>1, <1>9, <3>1, <3>2
  <2>3. ASSUME NEW i \in 1..Len(x), x[i].part < 4
        PROVE  i < Len(x) /\ x[i + 1].of = x[i].of /\ x[i + 1].part = x[i].part + 1
    <3>1. /\ i + 4 < Len(w) /\ w[i + 4 + 1].of = w[i + 4].of
          /\ w[i + 4 + 1].part = w[i + 4].part + 1
      BY <1>1, <2>1, <2>3 DEF Chain
    <3>2. i + 1 \in 1..Len(x) /\ i + 1 + 4 = i + 4 + 1
      BY <1>1, <1>9, <3>1
    <3> QED
      BY <1>1, <1>9, <2>1, <3>1, <3>2
  <2>4. ASSUME NEW i \in 1..Len(x), x[i].part = 4, i < Len(x)
        PROVE  x[i + 1].part = 1
    <3>1. i + 1 \in 1..Len(x) /\ i + 1 + 4 = i + 4 + 1 /\ i + 4 < Len(w)
      BY <1>1, <1>9, <2>4
    <3>2. w[i + 4 + 1].part = 1
      BY <2>1, <2>4, <3>1 DEF Chain
    <3> QED
      BY <2>1, <3>1, <3>2
  <2> QED
    BY <2>2, <2>3, <2>4 DEF Chain
<1> QED
  BY <1>1, <1>6, <1>7, <1>8, <1>9, <1>10 DEF x

-----------------------------------------------------------------------------
(* What is handed on, sent and read.                                       *)

\* What is handed on comes last.
LEMMA HandedFacts ==
  ASSUME IInv, NEW s \in Stations, NEW content \in Seq(Unit), NEW k \in Nat,
         HandOn(s, content, k)
  PROVE  /\ Len(inbox[s]) \in Nat /\ Len(inbox'[s]) = Len(inbox[s]) + 1
         /\ \A i \in 1..Len(inbox[s]) : inbox'[s][i] = inbox[s][i]
         /\ inbox'[s][Len(inbox[s]) + 1] = [content |-> content, conn |-> k]
         /\ \A r \in Stations : r # s => inbox'[r] = inbox[r]
<1> DEFINE E == [content : Seq(Unit), conn : Nat]
           e == [content |-> content, conn |-> k]
<1>1. /\ inbox \in [Stations -> Seq(E)] /\ e \in E
      /\ inbox' = [inbox EXCEPT ![s] = Append(inbox[s], e)]
  BY DEF IInv, Mail, HandOn
<1>2. inbox[s] \in Seq(E)
  BY <1>1
<1> HIDE DEF e, E
<1>3. /\ Len(Append(inbox[s], e)) = Len(inbox[s]) + 1 /\ Len(inbox[s]) \in Nat
      /\ \A i \in 1..Len(inbox[s]) : Append(inbox[s], e)[i] = inbox[s][i]
      /\ Append(inbox[s], e)[Len(inbox[s]) + 1] = e
  BY <1>1, <1>2, AppendProperties, LenProperties
<1>4. inbox'[s] = Append(inbox[s], e) /\ \A r \in Stations : r # s => inbox'[r] = inbox[r]
  BY <1>1
<1> QED
  BY <1>3, <1>4 DEF e

\* What is handed on is right, or cut, or its connection is spoiled.
LEMMA HandedConfined ==
  ASSUME IInv, Confined, NEW s \in Stations, NEW content \in Seq(Unit), NEW k \in Nat,
         HandOn(s, content, k), UNCHANGED net, spoiled \subseteq spoiled',
         \/ k \in spoiled'
         \/ content # <<>> /\ content = Body(content[1].of)
         \/ its.dgram /\ Len(content) = 1 /\ content[1].of.size = "big",
         spoiled' = {} /\ "big" \notin its.sizes => dead' = dead
  PROVE  Confined'
<1>1. ASSUME NEW r \in Stations, NEW i \in 1..Len(inbox'[r])
      PROVE  Right(inbox'[r][i]) \/ inbox'[r][i].conn \in spoiled' \/ Cut(inbox'[r][i])
  <2>1. CASE r = s /\ i = Len(inbox[s]) + 1
    <3>1. inbox'[r][i] = [content |-> content, conn |-> k]
      BY <2>1, HandedFacts
    <3> QED
      BY <3>1 DEF Right, Cut
  <2>2. CASE ~(r = s /\ i = Len(inbox[s]) + 1)
    <3>1. i \in 1..Len(inbox[r]) /\ inbox'[r][i] = inbox[r][i]
      <4>1. CASE r = s
        <5>1. i \in 1..(Len(inbox[s]) + 1) /\ i # Len(inbox[s]) + 1 /\ Len(inbox[s]) \in Nat
          BY <1>1, <2>2, <4>1, HandedFacts
        <5>2. i \in 1..Len(inbox[s])
          BY <5>1
        <5> QED
          BY <4>1, <5>2, HandedFacts
      <4>2. CASE r # s
        BY <1>1, <4>2, HandedFacts
      <4> QED
        BY <4>1, <4>2
    <3> QED
      BY <3>1 DEF Confined
  <2> QED
    BY <2>1, <2>2
<1>2. spoiled' = {} /\ "big" \notin its.sizes => dead' = {}
  BY DEF Confined
<1> QED
  BY <1>1, <1>2, Fixed DEF Confined, Right, Cut, Body

\* Whole frames where nothing is spoiled.
LEMMA RewiredFramed ==
  ASSUME IInv, Framed, NEW k \in 1..Len(conns), NEW t \in Stations, NEW w,
         Rewired(k, t, w), UNCHANGED net, spoiled \subseteq spoiled',
         k \in spoiled' \/ Chain(w)
  PROVE  Framed'
<1>1. ASSUME NEW j \in 1..Len(conns'), NEW s \in Stations, j \notin spoiled'
      PROVE  Chain(To(j, s)')
  <2>1. /\ j \in 1..Len(conns) /\ j \notin spoiled
        /\ To(j, s)' = IF j = k /\ s = t THEN w ELSE To(j, s)
    BY <1>1 DEF Rewired
  <2>2. Chain(To(j, s))
    BY <2>1 DEF Framed
  <2> QED
    BY <1>1, <2>1, <2>2
<1> QED
  BY <1>1, Fixed DEF Framed, Chain

\* The units that flow.
LEMMA FlowFacts ==
  ASSUME IInv, NEW s \in Stations, link[s] # 0, NEW units \in Seq(Unit), Flow(s, units)
  PROVE  /\ link[s] \in 1..Len(conns) /\ Other(s, link[s]) \in Stations
         /\ To(link[s], Other(s, link[s])) \in Seq(Unit)
         /\ Rewired(link[s], Other(s, link[s]), To(link[s], Other(s, link[s])) \o units)
<1> DEFINE k == link[s]
           t == Other(s, k)
           w == To(k, t) \o units
<1>1. k \in 1..Len(conns) /\ t \in Stations
  BY SocketFacts
<1>2. To(k, t) \in Seq(Unit)
  BY <1>1, WireFacts
<1>3. w \in Seq(Unit)
  <2> HIDE DEF k, t
  <2> QED
    BY <1>2, Joined
<1>4. conns' = [conns EXCEPT ![k].to[t] = w]
  BY DEF Flow, To
<1> HIDE DEF k, t, w
<1>5. Rewired(k, t, w)
  BY <1>1, <1>3, <1>4, RewiredFacts
<1> QED
  BY <1>1, <1>2, <1>5 DEF k, t, w

\* The units that are read.
LEMMA TakenFacts ==
  ASSUME IInv, NEW s \in Stations, link[s] # 0, NEW n \in Nat \ {0},
         conns' = [conns EXCEPT ![link[s]].to[s] = SubSeq(@, n, Len(@))]
  PROVE  /\ link[s] \in 1..Len(conns) /\ UnderWay(s) = To(link[s], s)
         /\ UnderWay(s) \in Seq(Unit) /\ Len(UnderWay(s)) \in Nat
         /\ Rewired(link[s], s, SubSeq(UnderWay(s), n, Len(UnderWay(s))))
<1> DEFINE k == link[s]
           w == SubSeq(UnderWay(s), n, Len(UnderWay(s)))
<1>1. k \in 1..Len(conns)
  BY SocketFacts
<1>2. /\ UnderWay(s) = To(k, s) /\ UnderWay(s) \in Seq(Unit)
      /\ Len(UnderWay(s)) \in Nat
  BY UnderWayTypes, LenProperties DEF UnderWay, To
<1>3. w \in Seq(Unit)
  <2> HIDE DEF k
  <2> QED
    BY <1>2, Portion
<1>4. conns' = [conns EXCEPT ![k].to[s] = w]
  BY DEF UnderWay
<1> HIDE DEF k, w
<1>5. Rewired(k, s, w)
  BY <1>1, <1>3, <1>4, RewiredFacts
<1> QED
  BY <1>1, <1>2, <1>5 DEF k, w

\* Where a station reads, it has not closed.
LEMMA StillOpen ==
  ASSUME IInv, Turns, NEW s \in Stations, link[s] # 0, NEW w, Rewired(link[s], s, w),
         UNCHANGED <<net, link>>
  PROVE  Turns'
<1>1. link[s] \in 1..Len(conns) /\ s \in conns[link[s]].open
  BY SocketFacts DEF IInv, Sockets
<1> QED
  BY <1>1, RewiredTurns

\* What a frame's reception does: it is handed on whole, or its connection is
\* spoiled.
LEMMA FrameRead ==
  ASSUME IInv, Framed, NEW s \in Stations, NEW k \in 0..2, ReceiveFrame(s, k)
  PROVE  /\ link[s] \in 1..Len(conns) /\ UnderWay(s) = To(link[s], s)
         /\ UnderWay(s) \in Seq(Unit) /\ SubSeq(UnderWay(s), 3, 2 + k) \in Seq(Unit)
         /\ HandOn(s, SubSeq(UnderWay(s), 3, 2 + k), link[s])
         /\ Rewired(link[s], s, SubSeq(UnderWay(s), 3 + k, Len(UnderWay(s))))
         /\ spoiled \subseteq spoiled'
         /\ link[s] \notin spoiled' =>
              spoiled' = spoiled /\ k = 2 /\ UnderWay(s) # <<>> /\ Chain(UnderWay(s))
<1>1. /\ link[s] # 0 /\ 2 + k <= Len(UnderWay(s)) /\ 2 <= Len(UnderWay(s))
      /\ HandOn(s, SubSeq(UnderWay(s), 3, 2 + k), link[s])
      /\ \E length \in Lengths(UnderWay(s)) :
           /\ k <= length
           /\ spoiled' = IF k < length THEN spoiled \cup {link[s]} ELSE spoiled
  BY DEF ReceiveFrame, Alive
<1>2. /\ link[s] \in 1..Len(conns) /\ UnderWay(s) = To(link[s], s)
      /\ UnderWay(s) \in Seq(Unit) /\ Len(UnderWay(s)) \in Nat
      /\ Rewired(link[s], s, SubSeq(UnderWay(s), 3 + k, Len(UnderWay(s))))
  <2>1. conns' = [conns EXCEPT ![link[s]].to[s] = SubSeq(@, 3 + k, Len(@))]
    BY DEF ReceiveFrame
  <2>2. 3 + k \in Nat \ {0}
    OBVIOUS
  <2> QED
    BY <1>1, <2>1, <2>2, TakenFacts
<1>3. SubSeq(UnderWay(s), 3, 2 + k) \in Seq(Unit)
  BY <1>1, <1>2, Portion
<1>4. ASSUME link[s] \notin spoiled'
      PROVE  spoiled' = spoiled /\ k = 2 /\ UnderWay(s) # <<>> /\ Chain(UnderWay(s))
  <2>1. spoiled' = spoiled /\ k \in Lengths(UnderWay(s))
    BY <1>1, <1>4 DEF Lengths
  <2>2. Chain(UnderWay(s))
    BY <1>2, <1>4, <2>1 DEF Framed
  <2>3. UnderWay(s) # <<>>
    BY <1>1, EmptySeq
  <2>4. \A i \in 1..4 : UnderWay(s)[i].of = UnderWay(s)[1].of /\ UnderWay(s)[i].part = i
    BY <1>2, <2>2, <2>3, ChainFirst
  <2>5. Lengths(UnderWay(s)) = {2}
    BY <2>4 DEF Lengths, AtFrame
  <2> QED
    BY <2>1, <2>2, <2>3, <2>5
<1> QED
  BY <1>1, <1>2, <1>3, <1>4

-----------------------------------------------------------------------------
(* Questions and answers.                                                  *)

\* What is handed over comes last.
LEMMA OutboxFacts ==
  ASSUME IInv, NEW r \in Stations, NEW q \in Packet,
         outbox' = [outbox EXCEPT ![r] = Append(outbox[r], q)]
  PROVE  /\ Len(outbox[r]) \in Nat /\ Len(outbox'[r]) = Len(outbox[r]) + 1
         /\ \A i \in 1..Len(outbox[r]) : outbox'[r][i] = outbox[r][i]
         /\ outbox'[r][Len(outbox[r]) + 1] = q
         /\ Waiting(r)' = Waiting(r) \cup {q}
         /\ \A s \in Stations : s # r => outbox'[s] = outbox[s] /\ Waiting(s)' = Waiting(s)
<1>1. outbox \in [Stations -> Seq(Packet)] /\ outbox[r] \in Seq(Packet)
  BY DEF IInv, Mail
<1>2. /\ Len(Append(outbox[r], q)) = Len(outbox[r]) + 1 /\ Len(outbox[r]) \in Nat
      /\ \A i \in 1..Len(outbox[r]) : Append(outbox[r], q)[i] = outbox[r][i]
      /\ Append(outbox[r], q)[Len(outbox[r]) + 1] = q
  BY <1>1, AppendProperties, LenProperties
<1>3. outbox'[r] = Append(outbox[r], q) /\ \A s \in Stations : s # r => outbox'[s] = outbox[s]
  BY <1>1
<1>4. \A s \in Stations : s # r => Waiting(s)' = Waiting(s)
  BY <1>3 DEF Waiting
<1> DEFINE b == outbox'[r]
           l == Len(outbox[r])
<1>5. /\ l \in Nat /\ Len(b) = l + 1 /\ b[l + 1] = q
      /\ \A i \in 1..l : b[i] = outbox[r][i]
  BY <1>2, <1>3
<1>6. Waiting(r)' = {b[i] : i \in 1..Len(b)} /\ Waiting(r) = {outbox[r][i] : i \in 1..l}
  BY DEF Waiting
<1> HIDE DEF b, l
<1>7. \A i \in 1..Len(b) : i \in 1..l \/ i = l + 1
  BY <1>5
<1>8. (1..l) \subseteq 1..Len(b) /\ l + 1 \in 1..Len(b)
  BY <1>5
<1>9. Waiting(r)' = Waiting(r) \cup {q}
  BY <1>5, <1>6, <1>7, <1>8
<1> QED
  BY <1>2, <1>3, <1>4, <1>9

\* A packet after all others of its client may be handed over.
LEMMA MoreInOrder ==
  ASSUME IInv, InOrder, InTurn, NEW r \in Stations, NEW q \in Packet,
         outbox' = [outbox EXCEPT ![r] = Append(outbox[r], q)],
         UNCHANGED <<net, inbox, conns>>,
         \A x \in Waiting(r) : Before(x, q),
         \A s \in Stations : r \in Senders(s) => \A x \in In(s) : Before(x, q),
         \A s \in Stations, k \in 1..Len(conns) :
           r \in Senders(s) => \A x \in On(k, s) : Before(x, q)
  PROVE  InOrder' /\ InTurn'
<1>1. /\ Stations' = Stations /\ Clients' = Clients
      /\ \A s \in Stations : Senders(s) \subseteq Stations /\ Senders(s)' = Senders(s)
  BY Fixed DEF Senders, Stations
<1>2. \A s : In(s)' = In(s) /\ \A k : On(k, s)' = On(k, s) /\ To(k, s)' = To(k, s)
  BY DEF In, Got, On, To
<1>3. ASSUME NEW s \in Stations, NEW i \in 1..Len(outbox'[s]), NEW j \in 1..Len(outbox'[s]), i < j
      PROVE  Before(outbox'[s][i], outbox'[s][j])
  <2>1. CASE s # r
    BY <1>3, <2>1, OutboxFacts DEF InOrder
  <2>2. CASE s = r
    <3> DEFINE l == Len(outbox[r])
    <3>1. /\ l \in Nat /\ i \in 1..(l + 1) /\ j \in 1..(l + 1)
          /\ \A u \in 1..l : outbox'[r][u] = outbox[r][u]
          /\ outbox'[r][l + 1] = q
      BY <1>3, <2>2, OutboxFacts
    <3>2. \A u \in 1..l : Before(outbox[r][u], q)
      BY DEF Waiting
    <3>3. \A u, v \in 1..l : u < v => Before(outbox[r][u], outbox[r][v])
      BY DEF InOrder
    <3> HIDE DEF l
    <3>4. i \in 1..l /\ (j \in 1..l \/ j = l + 1)
      BY <1>3, <3>1
    <3> QED
      BY <1>3, <2>2, <3>1, <3>2, <3>3, <3>4
  <2> QED
    BY <2>1, <2>2
<1>4. InOrder'
  <2>1. \A s \in Stations : \A i, j \in 1..Len(inbox'[s]) :
          i < j => Before(Got(s, i)', Got(s, j)')
    BY DEF InOrder, Got
  <2>2. \A k \in 1..Len(conns'), s \in Stations : \A u, v \in 1..Len(To(k, s)') :
          u + 4 <= v => Before(To(k, s)'[u].of, To(k, s)'[v].of)
    BY <1>2 DEF InOrder
  <2> QED
    BY <1>1, <1>3, <2>1, <2>2 DEF InOrder, Before
<1>5. \A s \in Stations : Waiting(s)' = IF s = r THEN Waiting(r) \cup {q} ELSE Waiting(s)
  BY OutboxFacts
<1>6. \A s \in Stations : \A m \in Senders(s) : Ahead(In(s), Waiting(m)')
  BY <1>1, <1>5 DEF InTurn, Ahead
<1>7. \A k \in 1..Len(conns), s \in Stations : \A m \in Senders(s) : Ahead(On(k, s), Waiting(m)')
  BY <1>1, <1>5 DEF InTurn, Ahead
<1> QED
  BY <1>1, <1>2, <1>4, <1>6, <1>7 DEF InTurn, Ahead, Before

\* What a station has been handed is a packet.
LEMMA GotPacket ==
  ASSUME IInv, Confined, Intact, NEW s \in Stations, NEW i \in 1..Len(inbox[s])
  PROVE  /\ Right(inbox[s][i]) /\ Got(s, i) \in Packet
         /\ AsAnswer(Got(s, i)) \in Packet
         /\ AsAnswer(Got(s, i)).client = Got(s, i).client
         /\ AsAnswer(Got(s, i)).n = Got(s, i).n
<1>1. inbox[s][i] \in [content : Seq(Unit), conn : Nat]
  <2>1. inbox[s] \in Seq([content : Seq(Unit), conn : Nat])
    BY DEF IInv, Mail
  <2> QED
    BY <2>1, Element
<1>2. Right(inbox[s][i])
  BY DEF Confined, Cut, Intact
<1>3. Got(s, i) \in Packet
  <2>1. inbox[s][i].content \in Seq(Unit) /\ inbox[s][i].content # <<>>
    BY <1>1, <1>2 DEF Right
  <2>2. inbox[s][i].content[1] \in Unit
    BY <2>1, HeadTail
  <2> QED
    BY <2>2 DEF Unit, Got
<1>4. AsAnswer(Got(s, i)) \in Packet
  BY <1>1, <1>2, HeardIsPacket DEF Got
<1>5. /\ AsAnswer(Got(s, i)).client = Got(s, i).client
      /\ AsAnswer(Got(s, i)).n = Got(s, i).n
  BY <1>3 DEF Packet, AsAnswer
<1> QED
  BY <1>2, <1>3, <1>4, <1>5

LEMMA Packets ==
  ASSUME IInv, Confined, Intact, NEW s \in Stations
  PROVE  /\ In(s) \subseteq Packet /\ Waiting(s) \subseteq Packet
         /\ \A k \in 1..Len(conns) : On(k, s) \subseteq Packet
<1>1. In(s) \subseteq Packet
  BY GotPacket DEF In
<1>2. Waiting(s) \subseteq Packet
  <2>1. outbox[s] \in Seq(Packet)
    BY DEF IInv, Mail
  <2> QED
    BY <2>1, Element DEF Waiting
<1>3. ASSUME NEW k \in 1..Len(conns), NEW u \in 1..Len(To(k, s)) PROVE To(k, s)[u].of \in Packet
  <2>1. To(k, s)[u] \in Unit
    BY WireFacts, Element
  <2> QED
    BY <2>1 DEF Unit
<1> QED
  BY <1>1, <1>2, <1>3 DEF On

LEMMA AskOrdered ==
  ASSUME IInv, Confined, Ordered, NEW c \in Clients, NEW size \in its.sizes, Ask(c, size)
  PROVE  Ordered'
<1> DEFINE q == Question(c, asked[c] + 1, size)
<1> SUFFICES ASSUME Intact' PROVE (InOrder /\ InTurn /\ Counts /\ Origins)'
  BY DEF Ordered
<1>1. /\ UNCHANGED <<net, answered, inbox, conns, spoiled>>
      /\ asked' = [asked EXCEPT ![c] = asked[c] + 1] /\ asked[c] < its.asks
      /\ outbox' = [outbox EXCEPT ![c] = Append(outbox[c], q)]
  BY DEF Ask, tcpVars
<1>2. /\ net \in DOMAIN Nets /\ asked \in [Clients -> 0..its.asks]
      /\ c \in Stations /\ Clients \subseteq Stations
      /\ its.asks \in Nat /\ "server" \notin Clients
      /\ "server" \in Stations
  BY NetFacts DEF IInv, Mail, Stations
<1>3. q \in Packet /\ q.client = c /\ q.n = asked[c] + 1 /\ asked[c] \in Nat
  BY <1>1, <1>2 DEF Question, Packet
<1> HIDE DEF q
<1>4. InOrder /\ InTurn /\ Counts /\ Origins /\ Intact
  BY <1>1, Fixed DEF Ordered, Intact
<1>5. \A A : UpTo(A) /\ A \subseteq Packet => \A x \in A : Before(x, q)
  <2>1. ASSUME NEW A, UpTo(A), A \subseteq Packet, NEW x \in A, x.client = q.client
        PROVE  x.n < q.n
    <3>1. x.n <= asked[c] /\ x \in Packet
      BY <1>3, <2>1 DEF UpTo
    <3>2. x.n \in Nat
      BY <1>2, <3>1 DEF Packet
    <3> QED
      BY <1>3, <3>1, <3>2
  <2> QED
    BY <2>1 DEF Before
<1>6. /\ \A x \in Waiting(c) : Before(x, q)
      /\ \A s \in Stations : c \in Senders(s) => \A x \in In(s) : Before(x, q)
      /\ \A s \in Stations, k \in 1..Len(conns) :
           c \in Senders(s) => \A x \in On(k, s) : Before(x, q)
  <2>1. \A s \in Stations : c \in Senders(s) => s = "server"
    BY <1>2 DEF Senders
  <2> QED
    BY <1>2, <1>4, <1>5, <2>1, Packets DEF Counts
<1>7. InOrder' /\ InTurn'
  BY <1>1, <1>2, <1>3, <1>4, <1>6, MoreInOrder
<1>8. /\ Clients' = Clients /\ \A s : In(s)' = In(s) /\ \A k : On(k, s)' = On(k, s)
      /\ Seen' = Seen
  BY <1>1, Fixed DEF In, Got, On, To, Seen, AsAnswer
<1>9. \A s \in Stations : Waiting(s)' = IF s = c THEN Waiting(c) \cup {q} ELSE Waiting(s)
  BY <1>1, <1>2, <1>3, OutboxFacts
<1>10. \A A : UpTo(A) /\ A \subseteq Packet => \A x \in A, d \in Clients : x.client = d => x.n <= asked'[d]
  <2>1. ASSUME NEW A, UpTo(A), A \subseteq Packet, NEW x \in A, NEW d \in Clients, x.client = d
        PROVE  x.n <= asked'[d]
    <3>1. x.n <= asked[d]
      BY <2>1 DEF UpTo
    <3>2. CASE d = c
      <4>1. x.n <= asked[c] /\ asked'[c] = asked[c] + 1
        BY <1>1, <1>2, <3>1, <3>2
      <4>2. x.n \in Nat
        BY <1>2, <2>1 DEF Packet
      <4> QED
        BY <1>3, <3>2, <4>1, <4>2
    <3>3. CASE d # c
      BY <1>1, <1>2, <3>1, <3>3
    <3> QED
      BY <3>2, <3>3
  <2> QED
    BY <2>1
<1>11. \A d \in Clients : q.client = d => q.n <= asked'[d]
  BY <1>1, <1>2, <1>3
<1>12. Counts'
  <2>1. /\ Len(conns') = Len(conns)
        /\ In("server") \subseteq Packet /\ \A d \in Clients : Waiting(d) \subseteq Packet
        /\ \A k \in 1..Len(conns) : On(k, "server") \subseteq Packet
    BY <1>1, <1>2, <1>4, Packets
  <2>2. UpTo(In("server"))' /\ \A k \in 1..Len(conns') : UpTo(On(k, "server"))'
    BY <1>4, <1>8, <1>10, <2>1 DEF Counts, UpTo
  <2>3. ASSUME NEW d \in Clients PROVE UpTo(Waiting(d))'
    <3>1. \A x \in Waiting(d) : \A b \in Clients : x.client = b => x.n <= asked'[b]
      BY <1>4, <1>10, <2>1 DEF Counts
    <3>2. Waiting(d)' \subseteq Waiting(d) \cup {q}
      BY <1>2, <1>9
    <3> QED
      BY <1>8, <1>11, <3>1, <3>2 DEF UpTo
  <2> QED
    BY <1>8, <2>2, <2>3 DEF Counts
<1>13. Origins'
  BY <1>1, <1>2, <1>4, <1>8, <1>9 DEF Origins
<1> QED
  BY <1>7, <1>12, <1>13

LEMMA AnswerOrdered ==
  ASSUME IInv, Confined, Ordered, Answer
  PROVE  Ordered'
<1> DEFINE a == AsAnswer(Got("server", answered + 1))
<1> SUFFICES ASSUME Intact' PROVE (InOrder /\ InTurn /\ Counts /\ Origins)'
  BY DEF Ordered
<1>1. /\ UNCHANGED <<net, asked, inbox, conns, spoiled>>
      /\ answered < Len(inbox["server"]) /\ answered' = answered + 1
      /\ Right(inbox["server"][answered + 1]) =>
           outbox' = [outbox EXCEPT !["server"] = Append(outbox["server"], a)]
  BY DEF Answer, tcpVars, AsAnswer, Got
<1>2. /\ "server" \in Stations /\ Clients \subseteq Stations /\ "server" \notin Clients
      /\ answered \in Nat /\ Len(inbox["server"]) \in Nat
      /\ answered + 1 \in 1..Len(inbox["server"])
  <2>1. /\ net \in DOMAIN Nets /\ answered \in 0..Len(inbox["server"])
        /\ inbox["server"] \in Seq([content : Seq(Unit), conn : Nat])
    BY DEF IInv, Mail, Stations
  <2>2. Len(inbox["server"]) \in Nat
    BY <2>1, LenProperties
  <2> QED
    BY <1>1, <2>1, <2>2, NetFacts DEF Stations
<1>3. InOrder /\ InTurn /\ Counts /\ Origins /\ Intact
  BY <1>1, Fixed DEF Ordered, Intact
<1>4. a \in Packet /\ outbox' = [outbox EXCEPT !["server"] = Append(outbox["server"], a)]
  BY <1>1, <1>2, <1>3, GotPacket
<1>5. \A y \in Seen : Before(y, a)
  <2>1. ASSUME NEW i \in 1..answered PROVE Before(AsAnswer(Got("server", i)), a)
    <3>1. i \in 1..Len(inbox["server"]) /\ i < answered + 1
      BY <1>2
    <3>2. Before(Got("server", i), Got("server", answered + 1))
      BY <1>2, <1>3, <3>1 DEF InOrder
    <3> QED
      BY <1>2, <1>3, <3>1, <3>2, GotPacket DEF Before
  <2> QED
    BY <2>1 DEF Seen
<1>6. Seen' = Seen \cup {a}
  <2>1. /\ Seen' = {AsAnswer(Got("server", i)) : i \in 1..(answered + 1)}
        /\ Seen = {AsAnswer(Got("server", i)) : i \in 1..answered}
    BY <1>1 DEF Seen, Got, AsAnswer
  <2>2. 1..(answered + 1) = (1..answered) \cup {answered + 1}
    BY <1>2
  <2> QED
    BY <2>1, <2>2
<1> HIDE DEF a
<1>7. /\ \A x \in Waiting("server") : Before(x, a)
      /\ \A s \in Stations : "server" \in Senders(s) => \A x \in In(s) : Before(x, a)
      /\ \A s \in Stations, k \in 1..Len(conns) :
           "server" \in Senders(s) => \A x \in On(k, s) : Before(x, a)
  <2>1. \A s \in Stations : "server" \in Senders(s) => s \in Clients
    BY <1>2 DEF Senders, Stations
  <2> QED
    BY <1>3, <1>5, <2>1 DEF Origins
<1>8. InOrder' /\ InTurn'
  BY <1>1, <1>2, <1>3, <1>4, <1>7, MoreInOrder
<1>9. /\ Clients' = Clients /\ \A s : In(s)' = In(s) /\ \A k : On(k, s)' = On(k, s)
  BY <1>1, Fixed DEF In, Got, On, To
<1>10. /\ Waiting("server")' = Waiting("server") \cup {a}
       /\ \A c \in Clients : Waiting(c)' = Waiting(c)
  BY <1>2, <1>4, OutboxFacts
<1>11. Counts'
  BY <1>1, <1>3, <1>9, <1>10 DEF Counts, UpTo
<1>12. Origins'
  BY <1>1, <1>3, <1>6, <1>9, <1>10 DEF Origins
<1> QED
  BY <1>8, <1>11, <1>12

-----------------------------------------------------------------------------
(* From the outbox onto the connection.                                    *)

\* The packets under way, with a frame more.
LEMMA OnMore ==
  ASSUME IInv, NEW k \in 1..Len(conns), NEW t \in Stations, NEW p \in Packet,
         Rewired(k, t, To(k, t) \o Frame(p)),
         \A u, v \in 1..Len(To(k, t)) :
           u + 4 <= v => Before(To(k, t)[u].of, To(k, t)[v].of),
         \A x \in On(k, t) : Before(x, p)
  PROVE  /\ \A j \in 1..Len(conns), s \in Stations :
              On(j, s)' = IF j = k /\ s = t THEN On(k, t) \cup {p} ELSE On(j, s)
         /\ \A u, v \in 1..Len(To(k, t)') :
              u + 4 <= v => Before(To(k, t)'[u].of, To(k, t)'[v].of)
<1> DEFINE w == To(k, t)
           x == w \o Frame(p)
<1>1. /\ w \in Seq(Unit) /\ \A u, v \in 1..Len(w) : u + 4 <= v => Before(w[u].of, w[v].of)
      /\ \A y \in On(k, t) : Before(y, p)
  BY WireFacts
<1>2. To(k, t)' = x /\ \A j \in 1..Len(conns), s \in Stations :
                         ~(j = k /\ s = t) => To(j, s)' = To(j, s)
  BY DEF Rewired
<1>3. /\ On(k, t) = {w[i].of : i \in 1..Len(w)}
      /\ On(k, t)' = {x[i].of : i \in 1..Len(x)}
  BY <1>2 DEF On
<1> HIDE DEF w
<1>4. /\ Len(w) \in Nat /\ Len(x) = Len(w) + 4
      /\ \A i \in 1..(Len(w) + 4) : x[i] = IF i <= Len(w) THEN w[i] ELSE Frame(p)[i - Len(w)]
  BY <1>1, ChainAppended
<1>5. \A i \in 1..4 : Frame(p)[i].of = p
  BY FrameFacts
<1> HIDE DEF x
<1>6. /\ \A i \in 1..Len(x) : i <= Len(w) => i \in 1..Len(w) /\ x[i].of = w[i].of
      /\ \A i \in 1..Len(x) : i > Len(w) => x[i].of = p
      /\ \A i \in 1..Len(w) : i \in 1..Len(x) /\ x[i].of = w[i].of
      /\ Len(w) + 1 \in 1..Len(x) /\ x[Len(w) + 1].of = p
  <2>1. \A i \in 1..Len(x) : i <= Len(w) => i \in 1..Len(w) /\ x[i].of = w[i].of
    BY <1>4
  <2>2. ASSUME NEW i \in 1..Len(x), i > Len(w) PROVE x[i].of = p
    <3>1. i - Len(w) \in 1..4 /\ i \in 1..(Len(w) + 4) /\ ~(i <= Len(w))
      <4>1. Len(w) \in Nat /\ Len(x) = Len(w) + 4
        BY <1>4
      <4> QED
        BY ONLY <2>2, <4>1
    <3>2. x[i] = Frame(p)[i - Len(w)]
      BY <1>4, <3>1
    <3> QED
      BY <1>5, <3>1, <3>2
  <2>3. \A i \in 1..Len(w) : i \in 1..Len(x) /\ x[i].of = w[i].of
    BY <1>4
  <2>4. Len(w) + 1 \in 1..Len(x) /\ Len(w) + 1 > Len(w)
    BY <1>4
  <2> QED
    BY <2>1, <2>2, <2>3, <2>4
<1>7. On(k, t)' = On(k, t) \cup {p}
  <2>1. \A i \in 1..Len(x) : i <= Len(w) \/ i > Len(w)
    BY <1>4
  <2>2. {x[i].of : i \in 1..Len(x)} = {w[i].of : i \in 1..Len(w)} \cup {p}
    BY <1>6, <2>1
  <2> QED
    BY <1>3, <2>2
<1>8. \A j \in 1..Len(conns), s \in Stations : ~(j = k /\ s = t) => On(j, s)' = On(j, s)
  BY <1>2 DEF On
<1>9. ASSUME NEW u \in 1..Len(x), NEW v \in 1..Len(x), u + 4 <= v
      PROVE  Before(x[u].of, x[v].of)
  <2>1. u <= Len(w) /\ u \in 1..Len(w)
    BY <1>4, <1>9
  <2>2. x[u].of = w[u].of /\ w[u].of \in On(k, t)
    BY <1>3, <1>6, <2>1
  <2>3. CASE v <= Len(w)
    <3>1. v \in 1..Len(w) /\ x[v].of = w[v].of
      BY <1>6, <2>3
    <3> QED
      BY <1>1, <1>9, <2>1, <2>2, <3>1
  <2>4. CASE v > Len(w)
    BY <1>1, <1>6, <2>2, <2>4
  <2> QED
    BY <1>4, <2>3, <2>4
<1> QED
  BY <1>2, <1>7, <1>8, <1>9 DEF w

\* Who sends to the other end, and what.
LEMMA SenderFacts ==
  ASSUME IInv, NEW s \in Stations, link[s] # 0
  PROVE  /\ Other(s, link[s]) \in Stations /\ s \in Senders(Other(s, link[s]))
         /\ Other(s, link[s]) = "server" => s \in Clients
         /\ Other(s, link[s]) # "server" => s = "server"
<1>1. "server" \notin Clients /\ "server" \in Stations
  BY NetFacts DEF IInv, Mail, Stations
<1>2. /\ conns[link[s]].client \in Clients /\ Other(s, link[s]) \in Stations
      /\ s \in Clients => conns[link[s]].client = s
  BY SocketFacts
<1> QED
  BY <1>1, <1>2 DEF Other, Senders, Stations

\* Questions are their clients'.
LEMMA ClientsOf ==
  ASSUME IInv
  PROVE  /\ \A c \in Clients : \A y \in Waiting(c) : y.client = c
         /\ \A k \in 1..Len(conns) : \A y \in On(k, "server") : y.client = conns[k].client
<1>1. ASSUME NEW c \in Clients, NEW i \in 1..Len(outbox[c]) PROVE outbox[c][i].client = c
  <2>1. outbox[c] \in Seq(AsksOf(c))
    BY DEF IInv, Due
  <2>2. outbox[c][i] \in AsksOf(c)
    BY <2>1, Element
  <2> QED
    BY <2>2 DEF AsksOf
<1>2. ASSUME NEW k \in 1..Len(conns), NEW u \in 1..Len(To(k, "server"))
      PROVE  To(k, "server")[u].of.client = conns[k].client
  <2>1. To(k, "server") \in Seq(UnitsOf(AsksOf(conns[k].client)))
    BY DEF IInv, Wired, ToEnds, To
  <2>2. To(k, "server")[u] \in UnitsOf(AsksOf(conns[k].client))
    BY <2>1, Element
  <2> QED
    BY <2>2 DEF UnitsOf, AsksOf
<1> QED
  BY <1>1, <1>2 DEF Waiting, On

\* A frame that is on its way comes after all before it.
LEMMA SentOrdered ==
  ASSUME IInv, Confined, Turns, Ordered, NEW s \in Stations, link[s] # 0,
         outbox[s] # <<>>, Popped(s), Flow(s, Frame(Head(outbox[s]))),
         UNCHANGED <<net, asked, answered, inbox, link, spoiled>>
  PROVE  Ordered'
<1> SUFFICES ASSUME Intact' PROVE (InOrder /\ InTurn /\ Counts /\ Origins)'
  BY DEF Ordered
<1>1. InOrder /\ InTurn /\ Counts /\ Origins /\ Intact
  BY Fixed DEF Ordered, Intact
<1>2. PICK k \in 1..Len(conns), t \in Stations : k = link[s] /\ t = Other(s, link[s])
  BY SocketFacts
<1>3. PICK p \in Packet : p = Head(outbox[s])
  BY NextPacket
<1>4. /\ s \in Senders(t)
      /\ t = "server" => s \in Clients /\ k # 0
      /\ t # "server" => s = "server"
      /\ "server" \notin Clients /\ "server" \in Stations /\ Clients \subseteq Stations
  BY <1>2, SenderFacts, NetFacts DEF IInv, Mail, Stations
<1>13. Rewired(k, t, To(k, t) \o Frame(p))
  <2>1. Frame(p) \in Seq(Unit)
    BY FrameFacts
  <2>2. Rewired(link[s], Other(s, link[s]),
                To(link[s], Other(s, link[s])) \o Frame(Head(outbox[s])))
    BY <1>3, <2>1, FlowFacts
  <2> QED
    BY <1>2, <1>3, <2>2
<1>5. /\ p \in Waiting(s) /\ \A y \in Waiting(s)' : Before(p, y)
      /\ \A r \in Stations : Waiting(r)' \subseteq Waiting(r)
      /\ \A r \in Stations : \A i, j \in 1..Len(outbox'[r]) :
           i < j => Before(outbox'[r][i], outbox'[r][j])
  <2>1. \A r \in Stations : \A i, j \in 1..Len(outbox[r]) :
          i < j => Before(outbox[r][i], outbox[r][j])
    BY <1>1 DEF InOrder
  <2> QED
    BY <1>3, <2>1, PoppedInOrder
<1>6. /\ \A j \in 1..Len(conns), r \in Stations :
           On(j, r)' = IF j = k /\ r = t THEN On(k, t) \cup {p} ELSE On(j, r)
      /\ \A u, v \in 1..Len(To(k, t)') :
           u + 4 <= v => Before(To(k, t)'[u].of, To(k, t)'[v].of)
  <2>1. \A x \in On(k, t) : Before(x, p)
    BY <1>1, <1>4, <1>5 DEF InTurn, Ahead
  <2>2. \A u, v \in 1..Len(To(k, t)) : u + 4 <= v => Before(To(k, t)[u].of, To(k, t)[v].of)
    BY <1>1, <1>4 DEF InOrder
  <2> QED
    BY <1>13, <2>1, <2>2, OnMore
<1>7. /\ Len(conns') = Len(conns)
      /\ \A j \in 1..Len(conns), r \in Stations : ~(j = k /\ r = t) => To(j, r)' = To(j, r)
  BY <1>13 DEF Rewired
<1>8. /\ Stations' = Stations /\ Clients' = Clients
      /\ \A r \in Stations : Senders(r)' = Senders(r) /\ Senders(r) \subseteq Stations
      /\ \A r : In(r)' = In(r) /\ Seen' = Seen
  BY Fixed DEF Senders, In, Got, Seen, AsAnswer, Stations
<1>9. InOrder'
  <2>1. \A r \in Stations : \A i, j \in 1..Len(inbox'[r]) :
          i < j => Before(Got(r, i)', Got(r, j)')
    BY <1>1 DEF InOrder, Got
  <2>2. \A j \in 1..Len(conns'), r \in Stations : \A u, v \in 1..Len(To(j, r)') :
          u + 4 <= v => Before(To(j, r)'[u].of, To(j, r)'[v].of)
    <3>1. ASSUME NEW j \in 1..Len(conns), NEW r \in Stations,
                 NEW u \in 1..Len(To(j, r)'), NEW v \in 1..Len(To(j, r)'), u + 4 <= v
          PROVE  Before(To(j, r)'[u].of, To(j, r)'[v].of)
      <4>1. CASE j = k /\ r = t
        BY <1>6, <3>1, <4>1
      <4>2. CASE ~(j = k /\ r = t)
        <5>1. To(j, r)' = To(j, r)
          BY <1>7, <4>2
        <5> QED
          BY <1>1, <3>1, <5>1 DEF InOrder
      <4> QED
        BY <4>1, <4>2
    <3> QED
      BY <1>7, <3>1
  <2> QED
    BY <1>5, <1>8, <2>1, <2>2 DEF InOrder, Before
<1>10. InTurn'
  <2>1. \A j \in 1..Len(conns), r \in Stations : Ahead(In(r), On(j, r)')
    BY <1>1, <1>4, <1>5, <1>6 DEF InTurn, Ahead
  <2>2. \A r \in Stations : \A m \in Senders(r) : Ahead(In(r), Waiting(m)')
    BY <1>1, <1>5, <1>8 DEF InTurn, Ahead
  <2>3. ASSUME NEW j \in 1..Len(conns), NEW r \in Stations, NEW m \in Senders(r)
        PROVE  Ahead(On(j, r)', Waiting(m)')
    <3>1. Ahead(On(j, r), Waiting(m)') /\ m \in Stations
      BY <1>1, <1>5, <1>8 DEF InTurn, Ahead
    <3>2. CASE j = k /\ r = t
      <4>1. CASE m = s
        BY <1>5, <1>6, <3>1, <3>2, <4>1 DEF Ahead
      <4>2. CASE m # s
        <5>1. m \in Clients /\ s \in Clients
          BY <1>4, <2>3, <3>2, <4>2 DEF Senders
        <5>2. p.client = s /\ \A y \in Waiting(m)' : y.client = m
          BY <1>5, <3>1, <5>1, ClientsOf
        <5>3. \A y \in Waiting(m)' : Before(p, y)
          BY <4>2, <5>2 DEF Before
        <5> QED
          BY <1>6, <3>1, <3>2, <5>3 DEF Ahead
      <4> QED
        BY <4>1, <4>2
    <3>3. CASE ~(j = k /\ r = t)
      BY <1>6, <3>1, <3>3
    <3> QED
      BY <3>2, <3>3
  <2>4. ASSUME NEW j \in 1..Len(conns), NEW m \in 1..Len(conns), j < m
        PROVE  Ahead(On(j, "server")', On(m, "server")')
    <3>1. Ahead(On(j, "server"), On(m, "server"))
      BY <1>1, <2>4 DEF InTurn
    <3>2. CASE t = "server" /\ m = k
      <4>1. j # k
        BY <2>4, <3>2
      <4>2. \A x \in On(j, "server") : Before(x, p)
        BY <1>1, <1>4, <1>5, <3>2 DEF InTurn, Ahead
      <4> QED
        BY <1>4, <1>6, <3>1, <3>2, <4>1, <4>2 DEF Ahead
    <3>3. CASE t = "server" /\ j = k
      <4>1. m # k /\ s \in Clients /\ link[s] # 0 /\ link[s] < m
        BY <1>2, <1>4, <2>4, <3>3
      <4>2. conns[m].client # s
        BY <4>1 DEF Turns
      <4>3. p.client = s /\ \A y \in On(m, "server") : y.client = conns[m].client
        BY <1>5, <4>1, ClientsOf
      <4>4. \A y \in On(m, "server") : Before(p, y)
        BY <4>2, <4>3 DEF Before
      <4> QED
        BY <1>4, <1>6, <3>1, <3>3, <4>1, <4>4 DEF Ahead
    <3>4. CASE t # "server" \/ (m # k /\ j # k)
      BY <1>4, <1>6, <3>1, <3>4
    <3> QED
      BY <3>2, <3>3, <3>4
  <2> QED
    BY <1>7, <1>8, <2>1, <2>2, <2>3, <2>4 DEF InTurn, Ahead, Before
<1>11. Counts'
  <2>1. \A j \in 1..Len(conns) : \A x \in On(j, "server")' : \A c \in Clients :
          x.client = c => x.n <= asked[c]
    <3>1. t = "server" => UpTo(Waiting(s))
      BY <1>1, <1>4 DEF Counts
    <3> QED
      BY <1>1, <1>4, <1>5, <1>6, <3>1 DEF Counts, UpTo
  <2>2. \A c \in Clients : \A x \in Waiting(c)' : \A d \in Clients :
          x.client = d => x.n <= asked[d]
    BY <1>1, <1>4, <1>5 DEF Counts, UpTo
  <2> QED
    BY <1>1, <1>7, <1>8, <2>1, <2>2 DEF Counts, UpTo
<1>12. Origins'
  <2>1. t # "server" => p \in Seen
    BY <1>1, <1>4, <1>5 DEF Origins
  <2>2. \A j \in 1..Len(conns), c \in Clients : On(j, c)' \subseteq Seen
    BY <1>1, <1>4, <1>6, <2>1 DEF Origins
  <2> QED
    BY <1>1, <1>4, <1>5, <1>7, <1>8, <2>2 DEF Origins
<1> QED
  BY <1>9, <1>10, <1>11, <1>12

-----------------------------------------------------------------------------
(* From the connection into the inbox.                                     *)

\* The packets under way, with a frame less.
LEMMA OnLess ==
  ASSUME IInv, NEW k \in 1..Len(conns), NEW t \in Stations,
         To(k, t) # <<>>, Chain(To(k, t)),
         Rewired(k, t, SubSeq(To(k, t), 5, Len(To(k, t)))),
         \A u, v \in 1..Len(To(k, t)) :
           u + 4 <= v => Before(To(k, t)[u].of, To(k, t)[v].of)
  PROVE  /\ To(k, t)[1].of \in On(k, t) /\ On(k, t)' \subseteq On(k, t)
         /\ \A j \in 1..Len(conns), s \in Stations : ~(j = k /\ s = t) => On(j, s)' = On(j, s)
         /\ \A y \in On(k, t)' : Before(To(k, t)[1].of, y)
         /\ \A u, v \in 1..Len(To(k, t)') :
              u + 4 <= v => Before(To(k, t)'[u].of, To(k, t)'[v].of)
<1> DEFINE w == To(k, t)
           x == SubSeq(w, 5, Len(w))
<1>1. /\ w \in Seq(Unit) /\ w # <<>> /\ Chain(w)
      /\ \A u, v \in 1..Len(w) : u + 4 <= v => Before(w[u].of, w[v].of)
  BY WireFacts
<1>2. To(k, t)' = x /\ \A j \in 1..Len(conns), s \in Stations :
                         ~(j = k /\ s = t) => To(j, s)' = To(j, s)
  BY DEF Rewired
<1>3. /\ On(k, t) = {w[i].of : i \in 1..Len(w)}
      /\ On(k, t)' = {x[i].of : i \in 1..Len(x)}
  BY <1>2 DEF On
<1> HIDE DEF w
<1>4. /\ Len(w) \in Nat /\ Len(w) >= 4 /\ Len(x) = Len(w) - 4
      /\ \A i \in 1..(Len(w) - 4) : x[i] = w[i + 4]
  BY <1>1, ChainFirst
<1> HIDE DEF x
<1>5. \A i \in 1..Len(x) : i + 4 \in 1..Len(w) /\ 1 + 4 <= i + 4 /\ x[i].of = w[i + 4].of
  BY <1>4
<1>6. 1 \in 1..Len(w)
  BY <1>4
<1>7. w[1].of \in On(k, t) /\ On(k, t)' \subseteq On(k, t)
  BY <1>3, <1>5, <1>6
<1>8. \A y \in On(k, t)' : Before(w[1].of, y)
  BY <1>1, <1>3, <1>5, <1>6
<1>9. ASSUME NEW u \in 1..Len(x), NEW v \in 1..Len(x), u + 4 <= v
      PROVE  Before(x[u].of, x[v].of)
  <2>1. (u + 4) + 4 <= v + 4
    BY <1>9
  <2> QED
    BY <1>1, <1>5, <2>1
<1>10. \A j \in 1..Len(conns), s \in Stations : ~(j = k /\ s = t) => On(j, s)' = On(j, s)
  BY <1>2 DEF On
<1> QED
  BY <1>2, <1>7, <1>8, <1>9, <1>10 DEF w

\* What a station has been handed, and one packet more.
LEMMA InMore ==
  ASSUME IInv, NEW s \in Stations, NEW content \in Seq(Unit), NEW k \in Nat,
         HandOn(s, content, k), UNCHANGED <<net, answered>>,
         \A r \in Stations : \A i, j \in 1..Len(inbox[r]) : i < j => Before(Got(r, i), Got(r, j)),
         \A x \in In(s) : Before(x, content[1].of)
  PROVE  /\ In(s)' = In(s) \cup {content[1].of}
         /\ \A r \in Stations : r # s => In(r)' = In(r)
         /\ Seen' = Seen
         /\ \A r \in Stations : \A i, j \in 1..Len(inbox'[r]) :
              i < j => Before(Got(r, i)', Got(r, j)')
<1> DEFINE p == content[1].of
<1>1. PICK l \in Nat : l = Len(inbox[s])
  BY HandedFacts
<1>2. /\ Len(inbox'[s]) = l + 1 /\ \A i \in 1..l : Got(s, i)' = Got(s, i)
      /\ Got(s, l + 1)' = p
      /\ \A r \in Stations : r # s => inbox'[r] = inbox[r]
  <2>1. /\ Len(inbox'[s]) = l + 1 /\ \A i \in 1..l : inbox'[s][i] = inbox[s][i]
        /\ inbox'[s][l + 1] = [content |-> content, conn |-> k]
        /\ \A r \in Stations : r # s => inbox'[r] = inbox[r]
    BY <1>1, HandedFacts
  <2>2. \A i : Got(s, i)' = inbox'[s][i].content[1].of
    BY DEF Got
  <2>3. \A i \in 1..l : Got(s, i)' = Got(s, i)
    BY <2>1, <2>2 DEF Got
  <2> QED
    BY <2>1, <2>2, <2>3
<1> HIDE DEF p
<1>3. In(s)' = In(s) \cup {p}
  <2>1. In(s)' = {Got(s, i)' : i \in 1..(l + 1)} /\ In(s) = {Got(s, i) : i \in 1..l}
    BY <1>1, <1>2 DEF In
  <2>2. 1..(l + 1) = (1..l) \cup {l + 1}
    BY <1>1
  <2> QED
    BY <1>2, <2>1, <2>2
<1>4. \A r \in Stations : r # s => In(r)' = In(r) /\ \A i : Got(r, i)' = Got(r, i)
  BY <1>2 DEF In, Got
<1>5. Seen' = Seen
  <2>1. \A i \in 1..answered : Got("server", i)' = Got("server", i)
    <3>1. "server" \in Stations /\ answered \in 0..Len(inbox["server"])
      BY DEF IInv, Mail, Stations
    <3>2. CASE s = "server"
      <4>1. \A i \in 1..answered : i \in 1..l
        BY <1>1, <3>1, <3>2
      <4> QED
        BY <1>2, <3>2, <4>1
    <3>3. CASE s # "server"
      BY <1>4, <3>1, <3>3
    <3> QED
      BY <3>2, <3>3
  <2>2. /\ Seen' = {AsAnswer(Got("server", i)') : i \in 1..answered}
        /\ Seen = {AsAnswer(Got("server", i)) : i \in 1..answered}
    BY DEF Seen, AsAnswer
  <2> QED
    BY <2>1, <2>2
<1>6. ASSUME NEW r \in Stations, NEW i \in 1..Len(inbox'[r]), NEW j \in 1..Len(inbox'[r]), i < j
      PROVE  Before(Got(r, i)', Got(r, j)')
  <2>1. CASE r # s
    <3>1. inbox'[r] = inbox[r]
      BY <1>2, <2>1
    <3> QED
      BY <1>4, <1>6, <2>1, <3>1
  <2>2. CASE r = s
    <3>1. i \in 1..l /\ (j \in 1..l \/ j = l + 1)
      BY <1>1, <1>2, <1>6, <2>2
    <3>2. Got(s, i)' = Got(s, i) /\ Got(s, i) \in In(s)
      BY <1>1, <1>2, <3>1 DEF In
    <3>3. CASE j \in 1..l
      <4>1. Before(Got(s, i), Got(s, j)) /\ Got(s, j)' = Got(s, j)
        BY <1>1, <1>2, <1>6, <3>1, <3>3
      <4> QED
        BY <2>2, <3>2, <4>1
    <3>4. CASE j = l + 1
      <4>1. Before(Got(s, i), p) /\ Got(s, l + 1)' = p
        BY <1>2, <3>2 DEF p
      <4> QED
        BY <2>2, <3>2, <3>4, <4>1
    <3> QED
      BY <3>1, <3>3, <3>4
  <2> QED
    BY <2>1, <2>2
<1> QED
  BY <1>3, <1>4, <1>5, <1>6 DEF p

\* Where else something may be under way to a station: on later connections.
LEMMA Elsewhere ==
  ASSUME IInv, Turns, NEW s \in Stations, link[s] # 0, NEW j \in 1..Len(conns), j # link[s],
         To(j, s) # <<>>
  PROVE  s = "server" /\ link[s] < j
<1>1. s \in conns[j].open
  BY DEF Turns
<1>2. s = "server" /\ ~conns[j].accepted
  <2>1. s \in conns[j].open /\ (s = "server" => conns[j].accepted) => link[s] = j
    BY DEF IInv, Sockets
  <2>2. conns[j].accepted \in BOOLEAN
    BY WireFacts DEF Conn
  <2> QED
    BY <1>1, <2>1, <2>2
<1> QED
  BY <1>1, <1>2 DEF Turns, Queue

\* The first frame of a connection comes after all that has been handed on.
LEMMA ReadOrdered ==
  ASSUME IInv, IInv', Turns, Ordered, NEW s \in Stations, link[s] # 0,
         UnderWay(s) = To(link[s], s), UnderWay(s) # <<>>, Chain(UnderWay(s)),
         HandOn(s, SubSeq(UnderWay(s), 3, 4), link[s]),
         Rewired(link[s], s, SubSeq(UnderWay(s), 5, Len(UnderWay(s)))),
         UNCHANGED <<net, asked, answered, outbox, spoiled>>
  PROVE  Ordered'
<1> SUFFICES ASSUME Intact' PROVE (InOrder /\ InTurn /\ Counts /\ Origins)'
  BY DEF Ordered
<1>1. InOrder /\ InTurn /\ Counts /\ Origins
  BY Fixed DEF Ordered, Intact
<1>2. PICK k \in 1..Len(conns) : k = link[s]
  BY SocketFacts
<1>3. /\ To(k, s) \in Seq(Unit) /\ To(k, s) # <<>> /\ Chain(To(k, s)) /\ k \in Nat
      /\ HandOn(s, SubSeq(To(k, s), 3, 4), k)
      /\ Rewired(k, s, SubSeq(To(k, s), 5, Len(To(k, s))))
  BY <1>2, WireFacts
<1>4. PICK p \in Packet : p = To(k, s)[1].of
  BY <1>3, ChainFirst
<1>5. /\ p \in On(k, s) /\ On(k, s)' \subseteq On(k, s)
      /\ \A j \in 1..Len(conns), r \in Stations : ~(j = k /\ r = s) => On(j, r)' = On(j, r)
      /\ \A y \in On(k, s)' : Before(p, y)
      /\ \A u, v \in 1..Len(To(k, s)') :
           u + 4 <= v => Before(To(k, s)'[u].of, To(k, s)'[v].of)
  <2>1. \A u, v \in 1..Len(To(k, s)) :
          u + 4 <= v => Before(To(k, s)[u].of, To(k, s)[v].of)
    BY <1>1 DEF InOrder
  <2> QED
    BY <1>3, <1>4, <2>1, OnLess
<1>6. /\ Len(conns') = Len(conns)
      /\ \A j \in 1..Len(conns), r \in Stations : ~(j = k /\ r = s) => To(j, r)' = To(j, r)
  BY <1>3 DEF Rewired
<1>7. /\ In(s)' = In(s) \cup {p}
      /\ \A r \in Stations : r # s => In(r)' = In(r)
      /\ Seen' = Seen
      /\ \A r \in Stations : \A i, j \in 1..Len(inbox'[r]) :
           i < j => Before(Got(r, i)', Got(r, j)')
  <2>1. PICK content \in Seq(Unit) : content = SubSeq(To(k, s), 3, 4)
    <3>1. 4 <= Len(To(k, s))
      BY <1>3, ChainFirst
    <3>2. 3 \in Nat \ {0} /\ 4 \in Nat
      OBVIOUS
    <3>3. SubSeq(To(k, s), 3, 4) \in Seq(Unit)
      BY <1>3, <3>1, <3>2, Portion
    <3> QED
      BY <3>3
  <2>2. content[1].of = p
    <3>1. content = Body(p)
      BY <1>3, <1>4, <2>1, ChainFirst
    <3> QED
      BY <3>1 DEF Body
  <2>3. \A x \in In(s) : Before(x, content[1].of)
    BY <1>1, <1>5, <2>2 DEF InTurn, Ahead
  <2>4. \A r \in Stations : \A i, j \in 1..Len(inbox[r]) :
          i < j => Before(Got(r, i), Got(r, j))
    BY <1>1 DEF InOrder
  <2>5. HandOn(s, content, k)
    BY <1>3, <2>1
  <2> QED
    BY <1>3, <2>2, <2>3, <2>4, <2>5, InMore
<1>8. /\ Stations' = Stations /\ Clients' = Clients
      /\ \A r \in Stations : Senders(r)' = Senders(r) /\ Senders(r) \subseteq Stations
      /\ \A r : Waiting(r)' = Waiting(r)
      /\ "server" \in Stations /\ Clients \subseteq Stations
  BY Fixed DEF Senders, Waiting, Stations
<1>9. InOrder'
  <2>1. ASSUME NEW j \in 1..Len(conns), NEW r \in Stations,
               NEW u \in 1..Len(To(j, r)'), NEW v \in 1..Len(To(j, r)'), u + 4 <= v
        PROVE  Before(To(j, r)'[u].of, To(j, r)'[v].of)
    <3>1. CASE j = k /\ r = s
      BY <1>5, <2>1, <3>1
    <3>2. CASE ~(j = k /\ r = s)
      <4>1. To(j, r)' = To(j, r)
        BY <1>6, <3>2
      <4> QED
        BY <1>1, <2>1, <4>1 DEF InOrder
    <3> QED
      BY <3>1, <3>2
  <2>2. \A r \in Stations : \A i, j \in 1..Len(outbox'[r]) :
          i < j => Before(outbox'[r][i], outbox'[r][j])
    BY <1>1 DEF InOrder
  <2> QED
    BY <1>6, <1>7, <1>8, <2>1, <2>2 DEF InOrder, Before
<1>10. \A j \in 1..Len(conns), r \in Stations : On(j, r)' \subseteq On(j, r)
  BY <1>5
<1>11. InTurn'
  <2>1. ASSUME NEW j \in 1..Len(conns), NEW r \in Stations
        PROVE  Ahead(In(r)', On(j, r)')
    <3>1. Ahead(In(r), On(j, r)')
      BY <1>1, <1>10 DEF InTurn, Ahead
    <3>2. CASE r # s
      BY <1>7, <3>1, <3>2
    <3>3. CASE r = s
      <4>1. \A y \in On(j, s)' : Before(p, y)
        <5>1. CASE j = k
          BY <1>5, <5>1
        <5>2. CASE j # k
          <6>1. ASSUME To(j, s) # <<>> PROVE \A y \in On(j, s) : Before(p, y)
            <7>1. s = "server" /\ k < j
              BY <1>2, <5>2, <6>1, Elsewhere
            <7> QED
              BY <1>1, <1>5, <7>1 DEF InTurn, Ahead
          <6>2. ASSUME To(j, s) = <<>> PROVE On(j, s) = {}
            <7>1. Len(<<>>) = 0
              BY EmptySeq
            <7> QED
              BY <6>2, <7>1 DEF On
          <6> QED
            BY <1>10, <6>1, <6>2
        <5> QED
          BY <5>1, <5>2
      <4> QED
        BY <1>7, <3>1, <3>3, <4>1 DEF Ahead
    <3> QED
      BY <3>2, <3>3
  <2>2. ASSUME NEW r \in Stations, NEW m \in Senders(r) PROVE Ahead(In(r)', Waiting(m))
    <3>1. Ahead(In(r), Waiting(m)) /\ Ahead(On(k, r), Waiting(m))
      BY <1>1 DEF InTurn
    <3>2. CASE r # s
      BY <1>7, <3>1, <3>2
    <3>3. CASE r = s
      BY <1>5, <1>7, <3>1, <3>3 DEF Ahead
    <3> QED
      BY <3>2, <3>3
  <2>3. \A j \in 1..Len(conns), r \in Stations : \A m \in Senders(r) :
          Ahead(On(j, r)', Waiting(m))
    BY <1>1, <1>10 DEF InTurn, Ahead
  <2>4. \A j, m \in 1..Len(conns) : j < m => Ahead(On(j, "server")', On(m, "server")')
    BY <1>1, <1>8, <1>10 DEF InTurn, Ahead
  <2> QED
    BY <1>6, <1>8, <2>1, <2>2, <2>3, <2>4 DEF InTurn, Ahead, Before
<1>12. Counts'
  <2>1. \A x \in In("server")' : \A c \in Clients : x.client = c => x.n <= asked[c]
    BY <1>1, <1>5, <1>7, <1>8 DEF Counts, UpTo
  <2>2. \A j \in 1..Len(conns) : \A x \in On(j, "server")' : \A c \in Clients :
          x.client = c => x.n <= asked[c]
    BY <1>1, <1>8, <1>10 DEF Counts, UpTo
  <2>3. \A d \in Clients : \A x \in Waiting(d) : \A c \in Clients :
          x.client = c => x.n <= asked[c]
    BY <1>1 DEF Counts, UpTo
  <2> QED
    BY <1>6, <1>8, <2>1, <2>2, <2>3 DEF Counts, UpTo
<1>13. Origins'
  <2>1. ASSUME NEW c \in Clients PROVE In(c)' \subseteq Seen
    <3>1. CASE c = s
      BY <1>1, <1>5, <1>7, <3>1 DEF Origins
    <3>2. CASE c # s
      BY <1>1, <1>7, <1>8, <3>2 DEF Origins
    <3> QED
      BY <3>1, <3>2
  <2>2. \A j \in 1..Len(conns), c \in Clients : On(j, c)' \subseteq Seen
    BY <1>1, <1>8, <1>10 DEF Origins
  <2> QED
    BY <1>1, <1>6, <1>7, <1>8, <2>1, <2>2 DEF Origins
<1> QED
  BY <1>9, <1>11, <1>12, <1>13

-----------------------------------------------------------------------------
(* One step after the other.                                               *)

\* Steps that lose what is under way, or nothing, and hand nothing on.
LEMMA QuietKeeps ==
  ASSUME IInv, IInv', OInv, Emptied, Turns',
         UNCHANGED <<net, asked, answered, inbox, dead>>, spoiled \subseteq spoiled',
         UNCHANGED outbox \/ \E s \in Stations : outbox[s] # <<>> /\ Popped(s)
  PROVE  OInv'
BY EmptiedFramed, StillConfined, EmptiedOrdered DEF OInv

\* Steps of the plugins.
LEMMA PluginKeeps ==
  ASSUME IInv, IInv', OInv, UNCHANGED <<net, inbox, tcpVars>>, Ordered'
  PROVE  OInv'
<1>1. UNCHANGED <<net, conns, link>> /\ UNCHANGED net /\ UNCHANGED <<net, inbox>>
      /\ UNCHANGED conns /\ dead' = dead /\ spoiled \subseteq spoiled'
  BY DEF tcpVars
<1>2. Framed'
  BY <1>1, StillEmptied, EmptiedFramed DEF OInv
<1>3. Confined' /\ Turns'
  BY <1>1, StillConfined, StillTurns DEF OInv
<1> QED
  BY <1>2, <1>3 DEF OInv

\* Steps over UDP.
LEMMA DatagramKeeps ==
  ASSUME IInv, IInv', OInv, its.dgram, UNCHANGED <<net, conns, link, spoiled>>, Confined'
  PROVE  OInv'
<1>1. UNCHANGED <<net, conns, link>> /\ UNCHANGED net /\ UNCHANGED conns
      /\ spoiled \subseteq spoiled'
  OBVIOUS
<1>2. Framed'
  BY <1>1, StillEmptied, EmptiedFramed DEF OInv
<1>3. Turns'
  BY <1>1, StillTurns DEF OInv
<1>4. Ordered'
  BY <1>1, Fixed DEF Ordered, Intact
<1> QED
  BY <1>2, <1>3, <1>4 DEF OInv

LEMMA SendDatagramSafe ==
  ASSUME IInv, IInv', OInv, NEW s \in Stations, SendDatagram(s)
  PROVE  OInv'
<1>1. /\ its.dgram /\ UNCHANGED <<net, conns, link, spoiled>> /\ UNCHANGED <<net, inbox>>
      /\ spoiled' = spoiled /\ dead' = dead
  BY DEF SendDatagram, tcpVars
<1>2. Confined'
  BY <1>1, StillConfined DEF OInv
<1> QED
  BY <1>1, <1>2, DatagramKeeps

LEMMA LoseDatagramSafe ==
  ASSUME IInv, IInv', OInv, NEW d \in flying, LoseDatagram(d)
  PROVE  OInv'
<1>1. /\ its.dgram /\ UNCHANGED <<net, conns, link, spoiled>> /\ UNCHANGED <<net, inbox>>
      /\ spoiled' = spoiled /\ dead' = dead
  BY DEF LoseDatagram, tcpVars, IInv, Aired
<1>2. Confined'
  BY <1>1, StillConfined DEF OInv
<1> QED
  BY <1>1, <1>2, DatagramKeeps

\* A datagram is a packet.
LEMMA ReceiveDatagramSafe ==
  ASSUME IInv, IInv', OInv, NEW d \in flying, ReceiveDatagram(d)
  PROVE  OInv'
<1>1. /\ its.dgram /\ UNCHANGED <<net, conns, link, spoiled>> /\ UNCHANGED net
      /\ spoiled' = spoiled /\ dead' = dead
      /\ HandOn(d.to, Body(d.packet), 0)
  BY DEF ReceiveDatagram, tcpVars, IInv, Aired
<1>2. 1 \in 1..2
  OBVIOUS
<1>3. PICK content \in Seq(Unit) :
        /\ content = Body(d.packet)
        /\ content # <<>> /\ content = Body(content[1].of)
  BY <1>2, DatagramUnits, EmptySeq
<1>4. HandOn(d.to, content, 0) /\ 0 \in Nat /\ spoiled \subseteq spoiled'
  BY <1>1, <1>3
<1>5. d.to \in Stations
  BY <1>2, DatagramUnits
<1>6. Confined'
  BY <1>1, <1>3, <1>4, <1>5, HandedConfined DEF OInv
<1> QED
  BY <1>1, <1>6, DatagramKeeps

\* One that is cut is longer than what was asked of the ring.
LEMMA ReceiveCutSafe ==
  ASSUME IInv, IInv', OInv, NEW d \in flying, NEW k \in 1..2, ReceiveCut(d, k)
  PROVE  OInv'
<1>1. /\ its.dgram /\ UNCHANGED <<net, conns, link, spoiled>> /\ UNCHANGED net
      /\ spoiled' = spoiled /\ d.packet.size = "big"
      /\ HandOn(d.to, SubSeq(Body(d.packet), 1, k), 0)
  BY DEF ReceiveCut, IInv, Aired
<1>2. d.to \in Stations /\ d.packet \in Packet
  BY DatagramUnits
<1>3. "big" \in its.sizes
  BY <1>1, <1>2 DEF Packet
<1>4. PICK content \in Seq(Unit) :
        /\ content = SubSeq(Body(d.packet), 1, k)
        /\ \/ content # <<>> /\ content = Body(content[1].of)
           \/ its.dgram /\ Len(content) = 1 /\ content[1].of.size = "big"
  <2>1. CASE k = 1
    BY <1>1, <2>1, DatagramUnits
  <2>2. CASE k = 2
    BY <2>2, DatagramUnits
  <2> QED
    BY <2>1, <2>2
<1>5. HandOn(d.to, content, 0) /\ 0 \in Nat /\ spoiled \subseteq spoiled'
  BY <1>1, <1>4
<1>6. Confined'
  BY <1>1, <1>2, <1>3, <1>4, <1>5, HandedConfined DEF OInv
<1> QED
  BY <1>1, <1>6, DatagramKeeps

\* A whole frame flows, or nobody is left to read it.
LEMMA SendWholeSafe ==
  ASSUME IInv, IInv', OInv, NEW s \in Stations, SendWhole(s)
  PROVE  OInv'
<1>1. /\ UNCHANGED <<net, asked, answered, inbox, link, dead, spoiled>>
      /\ outbox[s] # <<>> /\ Popped(s) /\ link[s] # 0
      /\ \/ Reaches(s) /\ Flow(s, Frame(Head(outbox[s])))
         \/ UNCHANGED conns
  BY DEF SendWhole, Alive
<1>2. CASE UNCHANGED conns
  <2>1. Emptied
    BY <1>2, StillEmptied
  <2>2. Turns'
    BY <1>1, <1>2, StillTurns DEF OInv
  <2> QED
    BY <1>1, <2>1, <2>2, QuietKeeps
<1>3. CASE Reaches(s) /\ Flow(s, Frame(Head(outbox[s])))
  <2>1. PICK k \in 1..Len(conns), t \in Stations : k = link[s] /\ t = Other(s, link[s])
    BY <1>1, SocketFacts
  <2>2. PICK p \in Packet : p = Head(outbox[s])
    BY <1>1, NextPacket
  <2>3. To(k, t) \in Seq(Unit) /\ Rewired(k, t, To(k, t) \o Frame(p))
    <3>1. Frame(Head(outbox[s])) \in Seq(Unit)
      BY <2>2, FrameFacts
    <3> QED
      BY <1>1, <1>3, <2>1, <2>2, <3>1, FlowFacts
  <2>4. Framed'
    <3>1. k \in spoiled' \/ Chain(To(k, t) \o Frame(p))
      <4>1. k \notin spoiled => Chain(To(k, t))
        BY DEF OInv, Framed
      <4> QED
        BY <1>1, <2>3, <4>1, ChainAppended
    <3> QED
      BY <1>1, <2>3, <3>1, RewiredFramed DEF OInv
  <2>5. Turns'
    <3>1. t \in conns[k].open
      BY <1>3, <2>1 DEF Reaches
    <3> QED
      BY <1>1, <2>3, <3>1, RewiredTurns DEF OInv
  <2>6. Confined'
    BY <1>1, StillConfined DEF OInv
  <2>7. Ordered'
    BY <1>1, <1>3, SentOrdered DEF OInv
  <2> QED
    BY <2>4, <2>5, <2>6, <2>7 DEF OInv
<1> QED
  BY <1>1, <1>2, <1>3

\* Where something is spoiled, nothing is said of the order.
LEMMA SpoiledKeeps ==
  ASSUME IInv, OInv, NEW k \in 1..Len(conns), NEW t \in Stations, NEW w,
         Rewired(k, t, w), t \in conns[k].open, UNCHANGED <<net, link>>,
         spoiled' = spoiled \cup {k}, Confined'
  PROVE  OInv'
<1>1. Framed'
  BY RewiredFramed DEF OInv
<1>2. Turns'
  BY RewiredTurns DEF OInv
<1>3. Ordered'
  BY DEF Ordered, Intact
<1> QED
  BY <1>1, <1>2, <1>3 DEF OInv

LEMMA SendPartSafe ==
  ASSUME IInv, IInv', OInv, NEW s \in Stations, NEW k \in {1, 3}, SendPart(s, k)
  PROVE  OInv'
<1>1. /\ UNCHANGED <<net, link>> /\ UNCHANGED <<net, inbox>> /\ dead' = dead
      /\ spoiled' = spoiled \cup {link[s]}
      /\ outbox[s] # <<>> /\ link[s] # 0 /\ Reaches(s)
      /\ Flow(s, SubSeq(Frame(Head(outbox[s])), 1, k))
  BY DEF SendPart, Alive
<1>2. PICK j \in 1..Len(conns), t \in Stations : j = link[s] /\ t = Other(s, link[s])
  BY <1>1, SocketFacts
<1>3. Rewired(j, t, To(j, t) \o SubSeq(Frame(Head(outbox[s])), 1, k))
  <2>1. SubSeq(Frame(Head(outbox[s])), 1, k) \in Seq(Unit)
    BY <1>1, NextUnits
  <2> QED
    BY <1>1, <1>2, <2>1, FlowFacts
<1>4. t \in conns[j].open /\ spoiled' = spoiled \cup {j} /\ spoiled \subseteq spoiled'
  BY <1>1, <1>2 DEF Reaches
<1>5. Confined'
  BY <1>1, <1>4, StillConfined DEF OInv
<1> QED
  BY <1>1, <1>3, <1>4, <1>5, SpoiledKeeps

LEMMA ReceiveFrameSafe ==
  ASSUME IInv, IInv', OInv, NEW s \in Stations, NEW k \in 0..2, ReceiveFrame(s, k)
  PROVE  OInv'
<1>1. /\ UNCHANGED <<net, asked, answered, outbox, link, dead>> /\ link[s] # 0
      /\ UNCHANGED <<net, link>> /\ UNCHANGED net
      /\ spoiled' \in {spoiled, spoiled \cup {link[s]}}
  BY DEF ReceiveFrame, Alive
<1>2. /\ link[s] \in 1..Len(conns) /\ UnderWay(s) = To(link[s], s)
      /\ UnderWay(s) \in Seq(Unit) /\ SubSeq(UnderWay(s), 3, 2 + k) \in Seq(Unit)
      /\ HandOn(s, SubSeq(UnderWay(s), 3, 2 + k), link[s])
      /\ Rewired(link[s], s, SubSeq(UnderWay(s), 3 + k, Len(UnderWay(s))))
      /\ spoiled \subseteq spoiled'
      /\ link[s] \notin spoiled' =>
           spoiled' = spoiled /\ k = 2 /\ UnderWay(s) # <<>> /\ Chain(UnderWay(s))
  BY FrameRead DEF OInv
<1>3. PICK j \in 1..Len(conns) : j = link[s] /\ j \in Nat /\ s \in conns[j].open
  <2>1. Len(conns) \in Nat
    BY WireFacts
  <2> QED
    BY <1>1, <1>2, <2>1 DEF IInv, Sockets
<1>4. PICK content \in Seq(Unit) : content = SubSeq(UnderWay(s), 3, 2 + k)
  BY <1>2
<1>5. CASE link[s] \in spoiled'
  <2>1. Confined'
    <3>1. j \in spoiled' /\ HandOn(s, content, j) /\ spoiled' # {}
      BY <1>2, <1>3, <1>4, <1>5
    <3> QED
      BY <1>1, <1>2, <3>1, HandedConfined DEF OInv
  <2>2. Turns'
    BY <1>1, <1>2, StillOpen DEF OInv
  <2>3. Framed'
    BY <1>1, <1>2, <1>5, RewiredFramed DEF OInv
  <2>4. Ordered'
    BY <1>5 DEF Ordered, Intact
  <2> QED
    BY <2>1, <2>2, <2>3, <2>4 DEF OInv
<1>6. CASE link[s] \notin spoiled'
  <2>1. /\ spoiled' = spoiled /\ k = 2 /\ UnderWay(s) # <<>> /\ Chain(UnderWay(s))
        /\ 2 + k = 4 /\ 3 + k = 5
    BY <1>2, <1>6
  <2>2. /\ content = Body(UnderWay(s)[1].of)
        /\ Chain(SubSeq(UnderWay(s), 5, Len(UnderWay(s))))
    BY <1>2, <1>4, <2>1, ChainFirst
  <2>3. Confined'
    <3>1. content # <<>> /\ content = Body(content[1].of)
      <4>1. content # <<>> /\ content[1].of = UnderWay(s)[1].of
        BY <2>2 DEF Body
      <4> QED
        BY <2>2, <4>1
    <3>2. HandOn(s, content, j)
      BY <1>2, <1>3, <1>4
    <3> QED
      BY <1>1, <1>2, <1>3, <3>1, <3>2, HandedConfined DEF OInv
  <2>4. Turns'
    BY <1>1, <1>2, StillOpen DEF OInv
  <2>5. Framed'
    BY <1>1, <1>2, <2>1, <2>2, RewiredFramed DEF OInv
  <2>6. Ordered'
    <3>1. /\ HandOn(s, SubSeq(UnderWay(s), 3, 4), link[s])
          /\ Rewired(link[s], s, SubSeq(UnderWay(s), 5, Len(UnderWay(s))))
      BY <1>2, <2>1
    <3>2. UNCHANGED <<net, asked, answered, outbox, spoiled>>
      BY <1>1, <2>1
    <3> QED
      BY <1>1, <1>2, <2>1, <3>1, <3>2, ReadOrdered DEF OInv
  <2> QED
    BY <2>3, <2>4, <2>5, <2>6 DEF OInv
<1> QED
  BY <1>5, <1>6

\* What is written beyond the ring's room is a frame longer than what was asked
\* for, or the connection is spoiled.
LEMMA ReceiveOverlongSafe ==
  ASSUME IInv, IInv', OInv, NEW s \in Stations, ReceiveOverlong(s)
  PROVE  OInv'
<1>1. /\ UNCHANGED <<net, link>> /\ UNCHANGED <<net, asked, answered, inbox>> /\ UNCHANGED net
      /\ UNCHANGED <<net, inbox>> /\ UNCHANGED outbox /\ spoiled' = spoiled
      /\ link[s] # 0 /\ 3 <= Len(UnderWay(s)) /\ Overlong(UnderWay(s))
      /\ conns' = [conns EXCEPT ![link[s]].to[s] = <<>>]
  BY DEF ReceiveOverlong, Alive
<1>2. /\ link[s] \in 1..Len(conns) /\ UnderWay(s) = To(link[s], s)
      /\ UnderWay(s) \in Seq(Unit) /\ Len(UnderWay(s)) \in Nat
  BY <1>1, SocketFacts, UnderWayTypes, LenProperties DEF UnderWay, To
<1>3. Rewired(link[s], s, <<>>)
  <2>1. <<>> \in Seq(Unit)
    BY EmptySeq
  <2> QED
    BY <1>1, <1>2, <2>1, RewiredFacts
<1>4. Turns'
  BY <1>1, <1>3, StillOpen DEF OInv
<1>5. Emptied
  BY <1>3, WireFacts DEF Emptied, Rewired
<1>6. ASSUME spoiled = {} PROVE "big" \in its.sizes
  <2>1. Chain(UnderWay(s)) /\ UnderWay(s) # <<>>
    BY <1>1, <1>2, <1>6, EmptySeq DEF OInv, Framed
  <2>2. \A i \in 1..4 : UnderWay(s)[i].of = UnderWay(s)[1].of /\ UnderWay(s)[i].part = i
    BY <1>2, <2>1, ChainFirst
  <2>3. UnderWay(s)[1].of.size = "big"
    BY <1>1, <2>2 DEF Overlong, AtFrame
  <2>4. UnderWay(s)[1] \in Unit
    BY <1>2, <2>1, HeadTail
  <2> QED
    BY <2>3, <2>4 DEF Unit, Packet
<1>7. Confined'
  BY <1>1, <1>6, StillConfined DEF OInv
<1>8. Framed' /\ Ordered'
  BY <1>1, <1>5, EmptiedFramed, EmptiedOrdered DEF OInv
<1> QED
  BY <1>4, <1>7, <1>8 DEF OInv

LEMMA ReceivePrefixSafe ==
  ASSUME IInv, IInv', OInv, NEW s \in Stations, ReceivePrefix(s)
  PROVE  OInv'
<1>1. /\ UNCHANGED <<net, link>> /\ UNCHANGED <<net, inbox>> /\ link[s] # 0
      /\ spoiled' = spoiled \cup {link[s]}
  BY DEF ReceivePrefix, Alive
<1>2. /\ link[s] \in 1..Len(conns)
      /\ Rewired(link[s], s, SubSeq(UnderWay(s), 3, Len(UnderWay(s))))
  <2>1. conns' = [conns EXCEPT ![link[s]].to[s] = SubSeq(@, 3, Len(@))] /\ 3 \in Nat \ {0}
    BY DEF ReceivePrefix
  <2> QED
    BY <1>1, <2>1, TakenFacts
<1>3. s \in conns[link[s]].open /\ spoiled \subseteq spoiled' /\ spoiled' # {}
  BY <1>1 DEF IInv, Sockets
<1>4. Confined'
  BY <1>1, <1>3, StillConfined DEF OInv
<1> QED
  BY <1>1, <1>2, <1>3, <1>4, SpoiledKeeps

LEMMA ReceivePartSafe ==
  ASSUME IInv, IInv', OInv, NEW s \in Stations, ReceivePart(s)
  PROVE  OInv'
<1>1. /\ UNCHANGED <<net, link>> /\ UNCHANGED net /\ link[s] # 0 /\ UnderWay(s) # <<>>
      /\ spoiled' = spoiled \cup {link[s]} /\ HandOn(s, <<>>, link[s])
  BY DEF ReceivePart, Alive
<1>2. /\ link[s] \in 1..Len(conns)
      /\ Rewired(link[s], s, SubSeq(UnderWay(s), 2, Len(UnderWay(s))))
  <2>1. conns' = [conns EXCEPT ![link[s]].to[s] = Tail(@)]
    BY DEF ReceivePart
  <2>2. Tail(UnderWay(s)) = SubSeq(UnderWay(s), 2, Len(UnderWay(s)))
    BY <1>1, UnderWayTypes, TailIsSubSeq
  <2>3. /\ link[s] \in 1..Len(conns) /\ UnderWay(s) = To(link[s], s)
        /\ Tail(UnderWay(s)) \in Seq(Unit)
    BY <1>1, SocketFacts, UnderWayTypes, HeadTail DEF UnderWay, To
  <2>4. conns' = [conns EXCEPT ![link[s]].to[s] = Tail(UnderWay(s))]
    BY <2>1 DEF UnderWay
  <2>5. Rewired(link[s], s, Tail(UnderWay(s)))
    BY <2>3, <2>4, RewiredFacts
  <2> QED
    BY <2>2, <2>3, <2>5
<1>3. /\ s \in conns[link[s]].open /\ spoiled \subseteq spoiled' /\ spoiled' # {}
      /\ link[s] \in spoiled' /\ link[s] \in Nat
  BY <1>1, <1>2, WireFacts DEF IInv, Sockets
<1>4. Confined'
  <2>1. PICK content \in Seq(Unit) : content = <<>>
    BY EmptySeq
  <2> QED
    BY <1>1, <1>3, <2>1, HandedConfined DEF OInv
<1> QED
  BY <1>1, <1>2, <1>3, <1>4, SpoiledKeeps

\* The life of connections.
LEMMA SocketsSafe ==
  ASSUME IInv, IInv', OInv,
         \/ Accept \/ Reopen \/ \E c \in Clients : Connects(c)
         \/ \E k \in 1..Len(conns) : Break(k)
  PROVE  OInv'
<1>1. /\ UNCHANGED <<net, asked, answered, inbox, dead>> /\ spoiled' = spoiled
      /\ UNCHANGED outbox
  BY DEF Accept, Reopen, Connects, Connect, ConnectAgain, Break
<1>2. Emptied /\ Turns'
  BY AcceptQuiet, ReopenQuiet, ConnectQuiet, ConnectAgainQuiet, BreakQuiet DEF OInv, Connects
<1> QED
  BY <1>1, <1>2, QuietKeeps

LEMMA CloseSafe ==
  ASSUME IInv, IInv', OInv, NEW s \in Stations, SendFail(s) \/ ReceiveEnd(s)
  PROVE  OInv'
<1>1. /\ UNCHANGED <<net, asked, answered, inbox, dead>> /\ spoiled' = spoiled
      /\ UNCHANGED outbox
      /\ link[s] # 0 /\ Close(s)
  BY DEF SendFail, ReceiveEnd, Alive
<1>2. conns' = Let(s, link[s]) /\ link' = [link EXCEPT ![s] = 0] /\ UNCHANGED net
  BY <1>1 DEF Close
<1>3. Emptied /\ Turns'
  BY <1>1, <1>2, LetQuiet DEF OInv
<1> QED
  BY <1>1, <1>3, QuietKeeps

LEMMA SendNothingSafe ==
  ASSUME IInv, IInv', OInv, NEW s \in Stations, SendNothing(s)
  PROVE  OInv'
<1>1. /\ UNCHANGED <<net, asked, answered, inbox, dead>> /\ spoiled' = spoiled
      /\ outbox[s] # <<>> /\ Popped(s) /\ UNCHANGED <<net, conns, link>> /\ UNCHANGED conns
  BY DEF SendNothing, tcpVars
<1>2. Emptied /\ Turns'
  BY <1>1, StillEmptied, StillTurns DEF OInv
<1> QED
  BY <1>1, <1>2, QuietKeeps

LEMMA InitOInv == Init => OInv
<1> SUFFICES ASSUME Init PROVE OInv
  OBVIOUS
<1>1. Len(<<>>) = 0
  BY EmptySeq
<1>2. /\ conns = <<>> /\ answered = 0 /\ spoiled = {} /\ dead = {}
      /\ \A s \in Stations : outbox[s] = <<>> /\ inbox[s] = <<>> /\ link[s] = 0
  BY DEF Init
<1>3. Len(conns) = 0 /\ \A s \in Stations : Len(outbox[s]) = 0 /\ Len(inbox[s]) = 0
  BY <1>1, <1>2
<1>4. "server" \in Stations /\ Clients \subseteq Stations
      /\ \A s \in Stations : Senders(s) \subseteq Stations
  BY DEF Stations, Senders
<1>5. Framed /\ Confined
  BY <1>2, <1>3 DEF Framed, Confined
<1>6. Turns
  BY <1>3 DEF Turns, Queue
<1>7. \A s \in Stations : In(s) = {} /\ Waiting(s) = {}
  BY <1>3 DEF In, Waiting
<1>8. InOrder
  BY <1>3 DEF InOrder
<1>9. InTurn
  BY <1>3, <1>4, <1>7 DEF InTurn, Ahead
<1>10. Counts /\ Origins
  BY <1>3, <1>4, <1>7 DEF Counts, Origins, UpTo
<1> QED
  BY <1>5, <1>6, <1>8, <1>9, <1>10 DEF OInv, Ordered

LEMMA StillOrder ==
  ASSUME IInv, IInv', OInv, UNCHANGED vars
  PROVE  OInv'
<1>1. /\ UNCHANGED <<net, asked, answered, inbox, dead>> /\ spoiled' = spoiled
      /\ UNCHANGED outbox /\ UNCHANGED <<net, conns, link>> /\ UNCHANGED conns
  BY DEF vars, tcpVars
<1>2. Emptied /\ Turns'
  BY <1>1, StillEmptied, StillTurns DEF OInv
<1> QED
  BY <1>1, <1>2, QuietKeeps

LEMMA OrderInductive == IInv /\ IInv' /\ OInv /\ [Next]_vars => OInv'
<1> SUFFICES ASSUME IInv, IInv', OInv, [Next]_vars PROVE OInv'
  OBVIOUS
<1>1. ASSUME NEW c \in Clients, NEW size \in its.sizes, Ask(c, size) PROVE OInv'
  <2>1. UNCHANGED <<net, inbox, tcpVars>>
    BY <1>1 DEF Ask
  <2> QED
    BY <1>1, <2>1, AskOrdered, PluginKeeps DEF OInv
<1>2. CASE Answer
  <2>1. UNCHANGED <<net, inbox, tcpVars>>
    BY <1>2 DEF Answer
  <2> QED
    BY <1>2, <2>1, AnswerOrdered, PluginKeeps DEF OInv
<1>3. CASE \E d \in flying : LoseDatagram(d)
  BY <1>3, LoseDatagramSafe
<1>4. CASE \/ Accept \/ Reopen \/ \E c \in Clients : Connects(c)
           \/ \E k \in 1..Len(conns) : Break(k)
  BY <1>4, SocketsSafe
<1>5. ASSUME NEW s \in Stations, Sends(s) PROVE OInv'
  BY <1>5, SendDatagramSafe, SendNothingSafe, SendWholeSafe, CloseSafe DEF Sends
<1>6. ASSUME NEW s \in Stations, Receives(s) PROVE OInv'
  BY <1>6, ReceiveDatagramSafe, ReceiveCutSafe, ReceiveFrameSafe, ReceiveOverlongSafe,
     CloseSafe DEF Receives
<1>7. ASSUME NEW s \in Stations, ReceivePart(s) \/ ReceivePrefix(s) PROVE OInv'
  BY <1>7, ReceivePartSafe, ReceivePrefixSafe
<1>8. ASSUME NEW s \in Stations, NEW k \in {1, 3}, SendPart(s, k) PROVE OInv'
  BY <1>8, SendPartSafe
<1>9. CASE UNCHANGED vars
  BY <1>9, StillOrder
<1> QED
  BY <1>1, <1>2, <1>3, <1>4, <1>5, <1>6, <1>7, <1>8, <1>9 DEF Next

LEMMA OrderInvariant == Spec => []OInv
<1>1. Init => OInv
  BY InitOInv
<1>2. IInv /\ IInv' /\ OInv /\ [Next]_vars => OInv'
  BY OrderInductive
<1> QED
  BY <1>1, <1>2, Invariant, PTL DEF Spec

\* Whatever is sent or received in part spoils what comes after it on its
\* connection and nothing else: on all others, what is handed on is a packet as
\* it was sent, or a datagram longer than was asked of the ring, cut.  Nothing
\* is written beyond the ring's room before anything is spoiled, where all
\* packets are as short as what is asked of the ring; where they are not,
\* nothing of the kind holds, for the code has no check (stream.h:1103-1138: no
\* byte of a connection is kept for the next; 1112: the prefix).
THEOREM ConfinedSafe == Spec => []Confined
<1>1. OInv => Confined
  BY DEF OInv
<1> QED
  BY <1>1, OrderInvariant, PTL

\* Over TCP the packets of each client come in the order they were handed over,
\* and none twice, over however many connections: a packet is taken off the
\* outbox when it is on its way, and the connection accepted next is younger
\* than all before it (stream.h:986-1009).
THEOREM OnceInOrderSafe == Spec => []OnceInOrder
<1>1. OInv => OnceInOrder
  BY DEF OInv, Ordered, Intact, InOrder, Before, Got, OnceInOrder
<1> QED
  BY <1>1, OrderInvariant, PTL
=============================================================================
