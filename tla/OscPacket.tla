----------------------------- MODULE OscPacket ------------------------------
(***************************************************************************)
(* OSC packets as atoms and as bytes: osc.lv2/osc.lv2/writer.h makes a     *)
(* packet of an atom, reader.h and forge.h make an atom of a packet.       *)
(*                                                                         *)
(* An atom is a record, of kind "message" or "bundle"; or "bare", if it is *)
(* a message that has no property for arguments, "badMessage" without a    *)
(* path, "badBundle" without a time or items, "other" if it is none of     *)
(* these.  An argument has a type, as its letter in OSC ("?" for an atom   *)
(* OSC has none for), a length in bytes and a value, "bad" for an URID     *)
(* that is none and an RGBA literal that is no colour.  Paths begin with a *)
(* slash.                                                                  *)
(*                                                                         *)
(* Everything in a packet has a multiple of four bytes, so a packet is a   *)
(* sequence of words.  A word tells what has been written there: part `at' *)
(* of a thing, and whether it has a zero byte where reading a string would *)
(* stop.                                                                   *)
(***************************************************************************)
EXTENDS Integers, Sequences, FiniteSetsExt, SequencesExt

CONSTANT FmtSize    \* bytes for the types of a message, 128 in the code

\* LV2_OSC_PADDED_SIZE
Padded(size) == ((size + 3) \div 4) * 4

Unsized == {"T", "F", "N", "I", "?"}      \* written as a type only
Texts == {"s", "S"}                       \* strings, and URIDs as their URIs
Long == {"h", "d", "t"}                   \* of 64 bits

\* n words of a thing, from part first on; surely the last of them, those after
\* the first `open' ones, have a zero byte.
Parts(x, first, n, open) ==
  [j \in 1..n |-> [of |-> x, at |-> first + j - 1, ends |-> j > open]]

\* n words of a thing that is no string; any of its bytes may be zero.
Plain(x, first, n) == Parts(x, first, n, 0)

\* A string of len bytes, the zero byte after it, and more up to a word.
Text(x, len) == Parts(x, 1, Padded(len + 1) \div 4, len \div 4)

-----------------------------------------------------------------------------
(* writer.h.  A writer has the words so far, the room for bytes, and       *)
(* whether everything has succeeded; once not, nothing more is written.    *)
(* It is ruined when something has been done that C does not define.       *)

Writer(room) == [words |-> <<>>, ok |-> TRUE, ruined |-> FALSE, room |-> room]

Fails(w) == [w EXCEPT !.ok = FALSE]
Ruined(w) == [w EXCEPT !.ok = FALSE, !.ruined = TRUE]

\* lv2_osc_writer_overflow: the last byte of the room is never used.
Add(w, words) ==
  IF ~w.ok \/ 4 * (Len(w.words) + Len(words)) >= w.room THEN Fails(w)
  ELSE [w EXCEPT !.words = @ \o words]

\* Mutant: the port byte of a MIDI message is forgotten when it is written.
AddArgShort(w, a) ==
  CASE a.type \in Unsized -> w
    [] a.type = "m" /\ a.len > 2 -> Fails(w)
    [] a.val = "bad" -> Fails(w)
    [] a.type \in Texts -> Add(w, Text(a, a.len))
    [] a.type = "b" -> Add(w, Plain(a, 0, 1 + Padded(a.len) \div 4))
    [] OTHER -> Add(w, Plain(a, 1, IF a.type \in Long THEN 2 ELSE 1))

\* A blob has its length before it.  A MIDI message is a port and three bytes
\* at most; of a shorter one the bytes it does not have are not written.  The
\* host may have no URI for an URID, and sscanf() may find no colour.
AddArg(w, a) ==
  CASE a.type \in Unsized -> w
    [] a.type = "m" /\ a.len > 3 -> Fails(w)
    [] a.val = "bad" -> Fails(w)
    [] a.type \in Texts -> Add(w, Text(a, a.len))
    [] a.type = "b" -> Add(w, Plain(a, 0, 1 + Padded(a.len) \div 4))
    [] OTHER -> Add(w, Plain(a, 1, IF a.type \in Long THEN 2 ELSE 1))

\* The types end at the first argument OSC has none for: it puts a zero byte
\* there (the arguments after it are written all the same).
Typed(args) ==
  IF \E i \in DOMAIN args : args[i].type = "?"
  THEN SubSeq(args, 1, SelectInSeq(args, LAMBDA a : a.type = "?") - 1)
  ELSE args

TypesOf(args) == [types |-> [i \in DOMAIN Typed(args) |-> Typed(args)[i].type]]

\* The types are put into a buffer of FmtSize with a zero byte after them, and
\* nobody looks whether it is large enough, nor whether there are arguments to
\* go through.
Ruins(p) == p.kind = "bare" \/ Len(p.args) >= FmtSize

\* What comes behind the path.
AddBody(path, types, p) ==
  CASE ~path.ok -> path
    [] path.ok /\ Ruins(p) -> Ruined(path)
    [] OTHER -> FoldLeft(AddArg, Add(path, types), p.args)

\* Mutant: the comma does not count when the size is rounded up.
AddMessageComma(w, p) ==
  LET types == TypesOf(p.args)
      n     == Len(types.types)
  IN  AddBody(Add(w, Text(p.path, p.path.len)),
              Parts(types, 1, Padded(n + 1) \div 4, (n + 1) \div 4), p)

\* Path, types with a comma before them, arguments.
AddMessage(w, p) ==
  LET types == TypesOf(p.args)
  IN  AddBody(Add(w, Text(p.path, p.path.len)), Text(types, 1 + Len(types.types)), p)

RECURSIVE AddPacket(_, _)

\* push_item leaves a hole for the size, pop_item fills it; what was there
\* before stays in it if the packet fails.
AddItem(w, p) ==
  LET at   == Len(w.words) + 1
      done == AddPacket(Add(w, Plain([hole |-> at], 1, 1)), p)
      size == 4 * (Len(done.words) - at)
  IN  CASE ~done.ok -> done
        [] done.ok /\ size = 0 -> Fails([done EXCEPT !.words = w.words])
        [] OTHER -> [done EXCEPT !.words[at].of = [size |-> size]]

\* A bundle without items is taken back, and is a failure.
AddBundle(w, p) ==
  LET done == FoldLeft(AddItem, Add(w, Plain([bundle |-> p.time], 1, 4)), p.items)
  IN  IF done.ok /\ Len(done.words) = Len(w.words) + 4
      THEN Fails([done EXCEPT !.words = w.words])
      ELSE done

\* lv2_osc_writer_packet.  Of a message without a path nothing is written, and
\* that is no failure.
AddPacket(w, p) ==
  CASE p.kind \in {"message", "bare"} -> AddMessage(w, p)
    [] p.kind = "bundle" -> AddBundle(w, p)
    [] p.kind = "badMessage" -> w
    [] p.kind \in {"badBundle", "other"} -> Fails(w)

-----------------------------------------------------------------------------
(* reader.h and forge.h.                                                   *)

NoPacket == [kind |-> "none"]
\* Items of which nothing can be said.
Anything == [kind |-> "anything"]
Junk == [junk |-> TRUE]

\* The thing the first n of the words are, if they are all of it from part on.
Thing(words, n, part) ==
  IF \A j \in 1..n : words[j].of = words[1].of /\ words[j].at = part + j - 1
  THEN words[1].of ELSE Junk

\* How many words a string takes, the one with the zero byte included; more
\* than there are if there is none.
TextLen(words) ==
  LET ends == {j \in DOMAIN words : words[j].ends}
  IN  IF ends = {} THEN Len(words) + 1 ELSE Min(ends)

\* How many words an argument of a type takes.
ArgLen(words, type) ==
  CASE type \in Unsized -> 0
    [] type \in Texts -> TextLen(words)
    [] type = "b" -> IF words # <<>> /\ words[1].at = 0
                     THEN 1 + Padded(words[1].of.len) \div 4 ELSE 1
    [] OTHER -> IF type \in Long THEN 2 ELSE 1

\* What it is then.  A MIDI message always has three bytes: those it has not got
\* are what has been there before.
ArgValue(words, type) ==
  LET a == IF type \in Unsized THEN [type |-> type, len |-> 0, val |-> "none"]
           ELSE Thing(words, ArgLen(words, type), IF type = "b" THEN 0 ELSE 1)
  IN  IF type = "m" /\ a # Junk THEN [a EXCEPT !.len = 3] ELSE a

\* Mutant: what is not there is read all the same.
ReadArgAnyway(r, type) ==
  LET n == ArgLen(r.words, type)
  IN  IF n > Len(r.words)
      THEN [words |-> <<>>, args |-> Append(r.args, Junk), ok |-> TRUE]
      ELSE [words |-> SubSeq(r.words, n + 1, Len(r.words)), ok |-> TRUE,
            args |-> Append(r.args, ArgValue(r.words, type))]

\* lv2_osc_reader_arg_raw: an argument, unless it goes beyond the end.  After
\* one that does there are no others.
ReadArg(r, type) ==
  LET n == ArgLen(r.words, type)
  IN  IF ~r.ok \/ n > Len(r.words) THEN [r EXCEPT !.ok = FALSE]
      ELSE [words |-> SubSeq(r.words, n + 1, Len(r.words)), ok |-> TRUE,
            args |-> Append(r.args, ArgValue(r.words, type))]

\* The message branch of lv2_osc_forge_packet: the arguments end where they
\* cannot be read, and the message counts; but not if it is the first that
\* cannot, which is read along with path and types.
ReadMessage(words) ==
  LET n     == TextLen(words)
      rest  == SubSeq(words, n + 1, Len(words))
      k     == TextLen(rest)
      types == Thing(rest, k, 1)
      read  == FoldLeft(ReadArg, [words |-> SubSeq(rest, k + 1, Len(rest)),
                                  args |-> <<>>, ok |-> TRUE], types.types)
  IN  IF \/ n > Len(words) \/ k > Len(rest) \/ types = Junk
         \/ ~read.ok /\ read.args = <<>>
      THEN NoPacket
      ELSE [kind |-> "message", path |-> Thing(words, n, 1), args |-> read.args]

RECURSIVE ReadPacket(_, _), ReadItems(_, _)

\* The items whose sizes were never filled in: what is read for them is what
\* has been there before.  It matters as a number of words: a part of a word is
\* not read, and a size below zero is as one of zero.
Holes(words) == {words[j].of.hole : j \in {i \in DOMAIN words : "hole" \in DOMAIN words[i].of}}

\* The items end where none can be read.  An item whose size was not filled in
\* is what its stale size makes of what comes next; behind it, arguments may be
\* taken for sizes and items: there may be any, or none, or one that spoils the
\* bundle.
ReadItems(words, stale) ==
  LET of   == words[1].of
      hole == "hole" \in DOMAIN of
      n    == IF hole THEN stale[of.hole] ELSE of.size \div 4
      item == ReadPacket(SubSeq(words, 2, n + 1), stale)
      rest == SubSeq(words, n + 2, Len(words))
  IN  CASE words = <<>> \/ n >= Len(words) -> <<>>
        [] words # <<>> /\ n < Len(words) /\ hole /\ rest # <<>> -> <<item, Anything>>
        [] OTHER -> <<item>> \o ReadItems(rest, stale)

IsBundle(words) == words # <<>> /\ "bundle" \in DOMAIN words[1].of

ItemsOf(words, stale) ==
  IF Len(words) < 5 THEN <<>> ELSE ReadItems(SubSeq(words, 5, Len(words)), stale)

\* lv2_osc_forge_packet: an item that cannot be read spoils the bundle, one
\* that is not there does not, unless it is the first.
ReadPacket(words, stale) ==
  CASE IsBundle(words) ->
         LET items == ItemsOf(words, stale)
         IN  IF items = <<>> \/ NoPacket \in {items[i] : i \in DOMAIN items} THEN NoPacket
             ELSE [kind |-> "bundle", time |-> words[1].of.bundle, items |-> items]
    [] words # <<>> /\ "path" \in DOMAIN words[1].of -> ReadMessage(words)
    [] OTHER -> NoPacket

-----------------------------------------------------------------------------
(* What the atoms take as atoms: sizes of lv2_atom_forge.                  *)

Eight(size) == ((size + 7) \div 8) * 8

ArgSize(a) ==
  8 + Eight(CASE a.type = "s" -> a.len + 1
              [] a.type \in {"b", "m"} -> a.len
              [] a.type = "t" -> 56
              [] a.type \in {"N", "I"} -> 9
              [] a.type = "c" -> 10
              [] a.type = "r" -> 17
              [] OTHER -> 8)

Total(f(_), s) == FoldLeft(LAMBDA n, x : n + f(x), 0, s)

\* The size of the object, without its own head.
RECURSIVE BodySize(_)
BodySize(p) ==
  CASE p.kind = "message" -> 8 + 16 + Eight(p.path.len + 1) + 16 + Total(ArgSize, p.args)
    [] p.kind = "bare" -> 8 + 16 + Eight(p.path.len + 1)
    [] p.kind = "bundle" -> 8 + 8 + 64 + 16 + Total(LAMBDA q : 8 + BodySize(q), p.items)
    [] OTHER -> 8
=============================================================================
