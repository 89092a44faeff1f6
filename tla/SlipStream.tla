----------------------------- MODULE SlipStream -----------------------------
(***************************************************************************)
(* OSC packets with SLIP framing over a TCP connection (osc.tcp://,        *)
(* osc.slip.tcp://) or a serial line (osc.serial://), from one             *)
(* osc.lv2/osc.lv2/stream.h to another: one direction of what              *)
(* _lv2_osc_stream_run_tcp and _lv2_osc_stream_run_ser do at both ends.    *)
(* Each run goes once through the state of the connection, a loop that     *)
(* sends and one that receives; the iterations of the loops are the steps  *)
(* of the model.                                                           *)
(*                                                                         *)
(* A line delivers bytes in order, but not in the portions they were sent  *)
(* in; when a connection breaks, what is under way may be lost.            *)
(***************************************************************************)
EXTENDS Slip, FiniteSets

CONSTANTS Lines,      \* the lines there are, by name
          MaxFrames   \* bound: how many packets

Line == [serial   : BOOLEAN,       \* a serial line, not a connection
         frames   : SUBSET Seq(STRING),   \* the packets handed over
         tx       : Nat,           \* sizeof(stream->tx_buf)
         rx       : Nat,           \* sizeof(stream->rx_buf)
         splits   : BOOLEAN,       \* may recv() return a part of a frame?
         partial  : BOOLEAN,       \* may send() take a part of a frame?
         refusals : BOOLEAN,       \* may the receiver's ring be full?
         breaks   : Nat]           \* bound: how often the connection breaks

ASSUME LinesAssumption == Lines \in [DOMAIN Lines -> Line] /\ MaxFrames \in Nat
ASSUME FramesAssumption == \A l \in DOMAIN Lines : <<>> \notin Lines[l].frames

VARIABLES line,      \* the name of the line this is; never changes
          sent,      \* the packets handed over so far
          next,      \* the one the sender's driv->read_req returns next
          txUp,      \* the sender's stream->connected
          wire,      \* the bytes under way
          rxUp,      \* the receiver's stream->connected
          rxBuf,     \* its rx_buf, up to rx_off
          inbox,     \* the packets it has handed to driv->write_req
          breaks,    \* how often the connection has broken
          spoiled    \* history: the numbers of frames that met with an
                     \* accident: left or arrived in parts, were not taken,
                     \* were too long, went down with the connection, or were
                     \* the first sent on a new one when an old one had
                     \* left bytes

vars == <<line, sent, next, txUp, wire, rxUp, rxBuf, inbox, breaks, spoiled>>

\* The line.
its == Lines[line]

\* A line on which frames leave and arrive whole, and are taken; a connection
\* may break between them.
Calm == ~(its.splits \/ its.partial \/ its.refusals)

Init ==
  /\ line \in DOMAIN Lines
  /\ sent = <<>> /\ next = 1
  /\ txUp = TRUE /\ wire = <<>>
  /\ rxUp = TRUE /\ rxBuf = <<>>
  /\ inbox = <<>>
  /\ breaks = 0 /\ spoiled = {}

\* The plugin writes another packet to the ring driv->read_req reads.
HandOver(f) ==
  /\ Len(sent) < MaxFrames
  /\ sent' = Append(sent, f)
  /\ UNCHANGED <<line, next, txUp, wire, rxUp, rxBuf, inbox, breaks, spoiled>>

-----------------------------------------------------------------------------
(* The sender.                                                             *)

Ready == txUp /\ next <= Len(sent)

\* What the frame number n is on the wire.
Encoded(n) == LET e == Encode(sent[n])
              IN  [i \in DOMAIN e |-> Byte(e[i], n)]

\* A packet that does not fit into tx_buf is skipped.  (Had it been the first of
\* a new connection that meets old bytes, the one after it is.)
SendNothing ==
  /\ Ready /\ Len(sent[next]) > its.tx
  /\ next' = next + 1
  /\ spoiled' = spoiled \cup {next} \cup (IF next \in spoiled THEN {next + 1} ELSE {})
  /\ UNCHANGED <<line, sent, txUp, wire, rxUp, rxBuf, inbox, breaks>>

\* send() takes all of it.  (Encoding may make a packet longer than tx_buf; the
\* rest then stands in the rx_buf that follows it, which is not modelled.)
SendWhole ==
  /\ Ready /\ Len(sent[next]) <= its.tx
  /\ wire' = wire \o Encoded(next)
  /\ next' = next + 1
  /\ UNCHANGED <<line, sent, txUp, rxUp, rxBuf, inbox, breaks, spoiled>>

\* send() takes a part of it: an error, and the packet stays where it is, to
\* be sent from its beginning the next time.
SendPart(k) ==
  /\ its.partial
  /\ Ready /\ Len(sent[next]) <= its.tx
  /\ k < Len(Encoded(next))
  /\ next \notin spoiled      \* bound: once for each packet
  /\ wire' = wire \o SubSeq(Encoded(next), 1, k)
  /\ spoiled' = spoiled \cup {next}
  /\ UNCHANGED <<line, sent, next, txUp, rxUp, rxBuf, inbox, breaks>>

\* Does the wire's byte number k end a frame?
EndsFrame(k) == k < Len(wire) => wire[k + 1].of # wire[k].of

\* send() fails, or the line does: all but k bytes are lost.  The sender
\* closes its socket.
Break(k) ==
  /\ txUp /\ breaks < its.breaks
  /\ k <= Len(wire)
  /\ ~its.splits /\ k > 0 => EndsFrame(k)
  /\ txUp' = FALSE
  /\ wire' = SubSeq(wire, 1, k)
  /\ spoiled' = spoiled \cup {wire[i].of : i \in (k + 1)..Len(wire)}
  /\ breaks' = breaks + 1
  /\ UNCHANGED <<line, sent, next, rxUp, rxBuf, inbox>>

-----------------------------------------------------------------------------
(* The receiver.                                                           *)

\* The frame a refusal spoils: the one at the front of what is left.
Refused(m, rest) ==
  LET d == Decode(m, Len(m) - Len(rest) + 1)
  IN  IF d.frame THEN {d.out[1].of} ELSE {}

\* Mutant of Receive: the bytes left of the last call are overwritten.
ReceiveOver(k, room) ==
  /\ rxUp /\ k <= Len(wire)
  /\ ~its.splits => EndsFrame(k)
  /\ k <= its.rx - Len(rxBuf)
  /\ LET got  == SubSeq(wire, 1, k)
         done == Dispatch(got, room)
     IN  /\ inbox' = inbox \o done.frames
         /\ rxBuf' = done.rest
         /\ spoiled' = spoiled \cup Refused(got, done.rest)
                         \cup (IF EndsFrame(k) THEN {} ELSE {wire[k].of})
  /\ wire' = SubSeq(wire, k + 1, Len(wire))
  /\ UNCHANGED <<line, sent, next, txUp, rxUp, breaks>>

\* recv() returns k bytes behind those that are left of the last call; then
\* frames are dispatched, room of them at most, and what is left is kept.
Receive(k, room) ==
  /\ rxUp /\ k <= Len(wire)
  /\ ~its.splits => EndsFrame(k)
  /\ k <= its.rx - Len(rxBuf)
  /\ LET got  == rxBuf \o SubSeq(wire, 1, k)
         done == Dispatch(got, room)
     IN  /\ inbox' = inbox \o done.frames
         /\ rxBuf' = done.rest
         /\ spoiled' = spoiled \cup Refused(got, done.rest)
                         \cup (IF EndsFrame(k) THEN {} ELSE {wire[k].of})
  /\ wire' = SubSeq(wire, k + 1, Len(wire))
  /\ UNCHANGED <<line, sent, next, txUp, rxUp, breaks>>

\* recv() returns 0, because the peer has closed, or because it was asked for
\* no bytes: the receiver closes.  What it has left of the last call stays.
ReceiveEnd ==
  /\ rxUp
  /\ (txUp \/ wire # <<>>) => Len(rxBuf) = its.rx
  /\ rxUp' = FALSE
  /\ txUp' = FALSE
  /\ spoiled' = spoiled \cup {wire[i].of : i \in DOMAIN wire}
  /\ wire' = <<>>
  /\ UNCHANGED <<line, sent, next, rxBuf, inbox, breaks>>

\* Both ends find that they are not connected: the client connects again,
\* the server accepts.
Reconnect ==
  /\ ~txUp /\ ~rxUp
  /\ txUp' = TRUE /\ rxUp' = TRUE
  /\ spoiled' = IF rxBuf = <<>> THEN spoiled ELSE spoiled \cup {next}
  /\ UNCHANGED <<line, sent, next, wire, rxBuf, inbox, breaks>>

\* The frames the receiver's ring may have room for.
Rooms == IF its.refusals THEN 0..MaxFrames ELSE {2 * MaxFrames}

Sends == SendNothing \/ SendWhole \/ \E k \in 1..its.tx : SendPart(k)
Receives == \E k \in 1..its.rx, room \in Rooms : Receive(k, room)

\* _lv2_osc_stream_run_tcp
TcpRun == /\ ~its.serial
          /\ \/ Sends \/ Receives \/ ReceiveEnd \/ Reconnect
             \/ \E k \in 0..Len(wire) : Break(k)

\* _lv2_osc_stream_run_ser: the loops are the same.  When write() fails the
\* packet stays where it is, and when read() returns 0, because there is
\* nothing or because rx_buf is full, or fails, everything does.
SerialSends == its.serial /\ Sends
SerialReceives == its.serial /\ Receives

Next == \/ \E f \in its.frames : HandOver(f)
        \/ TcpRun \/ SerialSends \/ SerialReceives

Spec == Init /\ [][Next]_vars

\* The worker runs once per period, and so do both loops; a connection that
\* is down is tried again, and stays up for a packet now and then.  (Asked of
\* calm lines only, which is where it is used.)
FairSpec == /\ Spec
            /\ SF_vars(Calm /\ (SendNothing \/ SendWhole))
            /\ WF_vars(Calm /\ Receives)
            /\ WF_vars(Calm /\ ~its.serial /\ (ReceiveEnd \/ Reconnect))

-----------------------------------------------------------------------------
(* What makes it correct.                                                  *)

Bytes == [sym : (UNION {ToSet(f) : f \in its.frames})
                  \cup {END, ESC, END_REPLACE, ESC_REPLACE},
          of : 1..MaxFrames]

\* The state has its types, and rx_off stays inside rx_buf (stream.h:1028, 1091).
TypeOK ==
  /\ line \in DOMAIN Lines
  /\ sent \in Seq(its.frames) /\ next \in 1..(Len(sent) + 1)
  /\ txUp \in BOOLEAN /\ rxUp \in BOOLEAN
  /\ wire \in Seq(Bytes) /\ rxBuf \in Seq(Bytes) /\ Len(rxBuf) <= its.rx
  /\ inbox \in Seq(Seq(Bytes))
  /\ breaks \in 0..its.breaks
  /\ spoiled \subseteq 1..MaxFrames + 1

\* The number of the frame a packet in the inbox came from.
Number(f) == f[1].of

\* On a calm line, every packet the receiver hands on is one the sender was
\* given, whole and unchanged, and they come in order and once each: neither
\* stuffing nor the bytes left of an earlier call, of a packet not taken, or of
\* an earlier connection ever make up a packet (stream.h:684-779, 1051-1097).
OnlySent ==
  Calm =>
  /\ \A i \in DOMAIN inbox :
       inbox[i] = [j \in DOMAIN sent[Number(inbox[i])] |->
                     Byte(sent[Number(inbox[i])][j], Number(inbox[i]))]
  /\ \A i, j \in DOMAIN inbox : i < j => Number(inbox[i]) < Number(inbox[j])

\* Nothing but the frames that met with an accident is lost: after each, the
\* receiver finds the beginning of the next frame (stream.h:1058-1101).  All
\* others are in the inbox, on the wire, or still in the receiver's buffer.
OnlySpoiledLost ==
  1..(next - 1) \subseteq {Number(f) : f \in ToSet(inbox)} \cup spoiled
                            \cup {b.of : b \in ToSet(wire \o rxBuf)}

\* As long as the connection holds and packets are taken, nothing is lost,
\* however the bytes are split (osc_test.c:897-903, 699, 846: lossy = false).
NothingLost ==
  wire = <<>> /\ breaks = 0 => Len(inbox) = next - 1

\* Every packet handed over arrives, or has met with an accident: the
\* connection comes back, and what was not sent is.
Arrives ==
  Calm => \A n \in 1..MaxFrames :
    n <= Len(sent) ~>
      n \in {Number(f) : f \in ToSet(inbox)} \cup spoiled
=============================================================================
