------------------------------ MODULE Carriage ------------------------------
(***************************************************************************)
(* How what goes into one plugin comes out of another, one at a time:      *)
(*   io        an OSC packet, written to be sent and forged when received; *)
(*   cloak     the same, but written to a buffer of BUF_SIZE;              *)
(*   midi      the bytes of what is in that buffer, in MIDI messages: the  *)
(*             steps of EterojCloak, of one packet after the other;        *)
(*   packMidi  MIDI events in OSC messages, of type MIDI (eteroj_pack.c),  *)
(*   packBlob  or of type blob; they go the way of io;                     *)
(*   net       an atom to a host that numbers URIs otherwise (netatom).    *)
(* What the ways have in common is that nothing is done where writing      *)
(* fails: eteroj_io.c:454 and eteroj_cloak.c:201 ignore what               *)
(* lv2_osc_writer_packet returns, and send what has been written.          *)
(***************************************************************************)
EXTENDS OscPacket, NetAtom, EterojCloak

CONSTANTS Packets,    \* the OSC packets there are, as atoms
          Midis,      \* the MIDI events there are
          Atoms,      \* the atoms there are, of host 1
          Rooms       \* bytes there may be for the dictionary of an atom

VARIABLES way,        \* one of the above; never changes
          given,      \* what went in; never changes
          stage,      \* how far it has come
          packet,     \* it as an atom
          writer,     \* it as written; for netatom, as serialized
          words,      \* it as received
          got         \* what comes out

stageVars == <<way, given, stage, packet, writer, words, got>>
vars == <<stageVars, cloakVars>>

Init ==
  /\ \/ /\ way \in {"io", "cloak", "packMidi", "packBlob"} /\ given \in Packets /\ stage = "packet"
        /\ given.kind = "other" => way = "cloak"
     \/ way \in {"packMidi", "packBlob"} /\ given \in Midis /\ stage = "event"
     \/ way = "net" /\ given \in Atoms /\ stage = "packet"
     \/ way = "midi" /\ given = NoPacket /\ stage = "cloak"
  /\ CloakInit
  /\ packet = given
  /\ writer = Writer(0) /\ words = <<>> /\ got = <<>>

Goes(s) == stage' = s /\ UNCHANGED <<way, given>>

\* The type of argument that stands for MIDI.
PackType == IF way = "packMidi" THEN "m" ELSE "b"
PackPath == [path |-> "/midi", len |-> 5]

\* eteroj_pack: a MIDI event as a message; OSC's MIDI has three bytes only.
Pack ==
  /\ stage = "event"
  /\ IF way = "packMidi" /\ given.len > 3
     THEN Goes("done") /\ UNCHANGED packet
     ELSE /\ Goes("packet")
          /\ packet' = [kind |-> "message", path |-> PackPath,
                        args |-> <<[type |-> PackType, len |-> given.len, val |-> given.val]>>]
  /\ UNCHANGED <<writer, words, got>>

\* A packet is written: with as much room as the atom takes, or BufSize.  What
\* becomes of a plugin whose writer is ruined is not followed.
Write ==
  /\ stage = "packet" /\ way # "net"
  /\ writer' = AddPacket(Writer(IF way = "cloak" THEN BufSize ELSE BodySize(packet)), packet)
  /\ words' = writer'.words
  /\ Goes(CASE writer'.ruined -> "ruined"
            [] ~writer'.ruined /\ words' = <<>> -> "done"
            [] OTHER -> "received")
  /\ UNCHANGED <<packet, got>>

\* What the sizes that were never filled in may be, in words.
Stales == [Holes(words) -> 0..Len(words)]

\* eteroj_io reads the time of a bundle from its first item; if that cannot be
\* read there is none to read it from.
Unroll(stale) ==
  /\ way # "cloak" /\ IsBundle(words) /\ ItemsOf(words, stale) = <<>>
  /\ Goes("crashed") /\ UNCHANGED <<packet, got>>

\* Otherwise, and if what stands there is read all the same, it is forged.
Forge ==
  /\ stage = "received"
  /\ \E stale \in Stales :
       \/ Unroll(stale)
       \/ /\ packet' = ReadPacket(words, stale)
          /\ IF way \in {"io", "cloak"}
             THEN Goes("done") /\ got' = packet'
             ELSE Goes("forged") /\ UNCHANGED got
  /\ UNCHANGED <<writer, words>>

-----------------------------------------------------------------------------
Flat(ss) == FoldLeft(LAMBDA s, t : s \o t, <<>>, ss)

\* lv2_osc_unroll: the messages of a packet, one after the other.
RECURSIVE Unrolled(_)
Unrolled(p) ==
  CASE p.kind = "bundle" -> Flat([i \in DOMAIN p.items |-> Unrolled(p.items[i])])
    [] p.kind = "message" -> <<p>>
    [] OTHER -> <<>>

\* The MIDI events among the arguments of a message.
Events(p) ==
  LET args == SelectSeq(p.args, LAMBDA a : a.type = PackType)
  IN  [i \in DOMAIN args |-> [len |-> args[i].len, val |-> args[i].val]]

EventsOf(p) == LET ps == Unrolled(p) IN Flat([i \in DOMAIN ps |-> Events(ps[i])])

\* eteroj_pack, the other way round.
Unpack ==
  /\ stage = "forged"
  /\ got' = EventsOf(packet)
  /\ Goes("done")
  /\ UNCHANGED <<packet, writer, words>>

Serial ==
  /\ stage = "packet" /\ way = "net"
  /\ \E room \in Rooms : writer' = Serialize(1, packet, room)
  /\ Goes(IF writer'.overflow THEN "done" ELSE "serialized")
  /\ UNCHANGED <<packet, words, got>>

Deserial ==
  /\ stage = "serialized"
  /\ got' = DeserAtom(writer, 2, writer.atom)
  /\ Goes("done")
  /\ UNCHANGED <<packet, writer, words>>

\* The cloak's own steps.
Cloak == stage = "cloak" /\ CloakNext /\ UNCHANGED stageVars

Stage == (Pack \/ Write \/ Forge \/ Unpack \/ Serial \/ Deserial) /\ UNCHANGED cloakVars

Next == Stage \/ Cloak

Spec == Init /\ [][Next]_vars

-----------------------------------------------------------------------------
(* What makes it correct.                                                  *)

Done == stage = "done"
IsEvent == given \in Midis

\* What OSC has to change: the arguments from the first it has no type for are
\* lost, and MIDI messages get as long as three bytes.
MessageAsOsc(p) ==
  LET args == Typed(p.args)
  IN  [p EXCEPT !.args = [i \in DOMAIN args |->
         CASE args[i].type = "m" -> [args[i] EXCEPT !.len = 3]
           [] args[i].type \in Unsized -> [type |-> args[i].type, len |-> 0, val |-> "none"]
           [] OTHER -> args[i]]]

RECURSIVE AsOsc(_)
AsOsc(p) ==
  CASE p.kind = "bundle" -> [p EXCEPT !.items = [i \in DOMAIN @ |-> AsOsc(@[i])]]
    [] p.kind = "message" -> MessageAsOsc(p)
    [] OTHER -> NoPacket

\* An atom as the other host would number it; an URID that is none is 0 there.
Same(urid) == IF Unmap(1, urid) = {} THEN 0
              ELSE Map(2, CHOOSE uri \in Uris : Map(1, uri) = urid)
RECURSIVE AsNet(_)
AsNet(a) == [type  |-> Same(a.type),
             urids |-> [i \in DOMAIN a.urids |-> Same(a.urids[i])],
             kids  |-> [k \in DOMAIN a.kids |-> AsNet(a.kids[k])]]

\* A packet that could be written comes out as it went in, though nothing
\* tells how long the strings in it are but where they end (writer.h:125-139,
\* 304-319, reader.h:189-201).  Of a message without a path there is nothing to
\* come out, and nothing is sent.
PacketsCarried ==
  Done /\ way \in {"io", "cloak"} /\ writer.ok =>
    got = IF given.kind = "badMessage" THEN <<>> ELSE AsOsc(given)

\* MIDI events that could be packed come out, each with its bytes, and in the
\* order of the messages of a bundle (eteroj_pack.c:131-168, util.h:578-618).
EventsCarried ==
  Done /\ way \in {"packMidi", "packBlob"} /\ writer.ok =>
    got = CASE IsEvent /\ way = "packBlob" -> <<given>>
            [] IsEvent /\ way = "packMidi" -> IF given.len > 3 THEN <<>> ELSE <<[given EXCEPT !.len = 3]>>
            [] OTHER -> EventsOf(AsOsc(given))

\* The URIs of an atom, each once.
RECURSIVE UrisOf(_)
UrisOf(a) == UNION {Unmap(1, u) : u \in {a.type} \cup Range(a.urids)}
             \cup UNION {UrisOf(a.kids[k]) : k \in DOMAIN a.kids}

\* An atom comes out with the other host's URIDs of the same URIs; it is given
\* up just if the URIs it has, each once, are too long for the room behind it
\* (netatom.h:77-136, 445-500).
AtomsCarried ==
  Done /\ way = "net" =>
    LET needed == MapThenSumSet(EntrySize, UrisOf(given))
    IN  /\ writer.overflow => needed > writer.room
        /\ ~writer.overflow => needed <= writer.room /\ got = AsNet(given)

\* Whatever way it goes, it comes out as what it was.
Carried == PacketsCarried /\ EventsCarried /\ AtomsCarried

RECURSIVE Some(_, _)
\* Is there something like this in a packet?
Some(Is(_), p) == \/ Is(p)
                  \/ p.kind = "bundle" /\ \E i \in DOMAIN p.items : Some(Is, p.items[i])

Arg(Is(_), p) == p.kind = "message" /\ \E i \in DOMAIN p.args : Is(p.args[i])

\* The room an atom takes is enough for the packet, unless an URI is longer
\* than what is around it, and nothing is written beyond it.  Otherwise writing
\* fails only for a MIDI message that is too long, an URID that is none, a
\* colour that is none, a bundle without items, and what is no packet, or an
\* item without a path; in the buffer of eteroj_cloak also for what is too
\* large.  And it goes wrong where there are too many arguments or no property
\* for them (writer.h:82, 442, 477, 535, 561, 572, eteroj_io.c:450-454).
RoomEnough ==
  way \notin {"net", "midi"} =>
    /\ 4 * Len(writer.words) <= writer.room
    /\ \/ writer.ok
       \/ Some(LAMBDA p : p.kind \in {"badBundle", "other", "bare"}, given)
       \/ Some(LAMBDA p : p.kind = "bundle" /\ p.items = <<>>, given)
       \/ given.kind = "bundle" /\ Some(LAMBDA p : p.kind = "badMessage", given)
       \/ Some(LAMBDA p : p.kind = "message" /\ Len(p.args) >= FmtSize, given)
       \/ Some(LAMBDA p : Arg(LAMBDA a : a.type = "m" /\ a.len > 3, p), given)
       \/ Some(LAMBDA p : Arg(LAMBDA a : a.type \in {"S", "r"} /\ a.val = "bad", p), given)
       \/ Some(LAMBDA p : Arg(LAMBDA a : a.type = "S" /\ a.len > 8, p), given)
       \/ way = "cloak" /\ BodySize(given) > BufSize

RECURSIVE Begins(_, _)
\* q is p, or what is left of it when its end is missing: of a bundle the last
\* item that is left, too, may be without its end, and may then be followed by
\* anything.
Begins(q, p) ==
  \/ q = NoPacket
  \/ /\ q.kind = "message" /\ p.kind = "message"
     /\ q.path = p.path /\ IsPrefix(q.args, p.args)
  \/ /\ q.kind = "bundle" /\ p.kind = "bundle" /\ q.time = p.time
     /\ \E n \in 1..Min({Len(q.items), Len(p.items)}) :
          /\ q.items \in {SubSeq(q.items, 1, n), SubSeq(q.items, 1, n) \o <<Anything>>}
          /\ SubSeq(q.items, 1, n - 1) = SubSeq(p.items, 1, n - 1)
          /\ Begins(q.items[n], p.items[n])

\* What could be written in part only, and is sent as it is, comes out as the
\* beginning of it, or not at all, whatever stands where the size of an item
\* was to come: all whole items, the beginning of the one whose size is
\* missing, and only behind that may bytes be taken for something else
\* (writer.h:269-296, reader.h:264-311, 435-469).  (Where not even the first
\* item can be read, eteroj_io may crash instead, eteroj_io.c:387-390.)
PartIsBeginning == Done /\ way \in {"io", "cloak"} /\ ~writer.ok /\ got # <<>> => Begins(got, AsOsc(given))
=============================================================================
