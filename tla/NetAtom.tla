------------------------------ MODULE NetAtom -------------------------------
(***************************************************************************)
(* Atoms between hosts that number URIs differently: netatom.lv2's         *)
(* netatom_serialize and netatom_deserialize.  Each URID of an atom is     *)
(* replaced, in place, by where the URI is in a dictionary behind it.      *)
(*                                                                         *)
(* An atom has a type, the URIDs in its head or body (an object: its id    *)
(* and type, then key and context of each property) and the atoms in it.   *)
(* The order of bytes of what else it has is turned once here and once     *)
(* there and left out.                                                     *)
(***************************************************************************)
EXTENDS Integers, Sequences, SequencesExt

CONSTANTS UriLen,       \* the length of each URI that there is
          Map(_, _)     \* map(host, uri), a positive number

Uris == DOMAIN UriLen
Unmap(host, urid) == {uri \in Uris : Map(host, uri) = urid}

Compound == {"Object", "Tuple", "Sequence"}
HasUrids == Compound \cup {"URID", "Literal", "Vector"}

\* What an entry takes: an atom's head, the URI with its zero byte, padded.
EntrySize(uri) == 8 + ((UriLen[uri] + 1 + 7) \div 8) * 8

-----------------------------------------------------------------------------
\* _netatom_ser_uri: an entry that is there is used again, an URID that is
\* none becomes 0, and so does one there is no room for, which is noted.
SerUri(d, host, urid) ==
  LET found == SelectInSeq(d.entries, LAMBDA e : e.urid = urid)
      uri   == CHOOSE u \in Unmap(host, urid) : TRUE
  IN  CASE urid = 0 \/ (found = 0 /\ Unmap(host, urid) = {}) -> [d EXCEPT !.ref = 0]
        [] found # 0 -> [d EXCEPT !.ref = d.entries[found].at]
        [] urid # 0 /\ found = 0 /\ Unmap(host, urid) # {} ->
             IF d.used + EntrySize(uri) <= d.room
             THEN [d EXCEPT !.entries = Append(@, [at |-> d.used + 1, urid |-> urid, uri |-> uri]),
                            !.used = @ + EntrySize(uri), !.ref = d.used + 1]
             ELSE [d EXCEPT !.overflow = TRUE, !.ref = 0]

\* One after the other; the atom that they belong to is changed with them.
SerUrids(d, host, is) ==
  FoldLeft(LAMBDA e, i : LET f == SerUri(e, host, e.atom.urids[i])
                         IN  [f EXCEPT !.atom.urids[i] = f.ref],
           d, is)

RECURSIVE SerAtom(_, _)

\* The k-th of the atoms within.
SerKid(d, host, k) ==
  LET e == SerAtom([d EXCEPT !.atom = d.atom.kids[k]], host)
  IN  [e EXCEPT !.atom = [d.atom EXCEPT !.kids[k] = e.atom]]

\* _netatom_ser_atom: the URIDs of a property come before the value of the one
\* before it; those of the head, and the type, which tells what all this is,
\* come last.
SerAtom(d, host) ==
  LET type == d.atom.type
      is(t) == type = Map(host, t)
      n    == Len(d.atom.kids)
      prop(e, k) == SerUrids(IF k = 1 THEN e ELSE SerKid(e, host, k - 1),
                             host, <<2 * k + 1, 2 * k + 2>>)
      props == FoldLeft(prop, d, [k \in 1..n |-> k])
      body == CASE is("Object") ->
                     SerUrids(IF n = 0 THEN props ELSE SerKid(props, host, n), host, <<1, 2>>)
                [] is("Tuple") \/ is("Sequence") ->
                     SerUrids(FoldLeft(LAMBDA e, k : SerKid(e, host, k), d, [k \in 1..n |-> k]),
                              host, IF is("Sequence") THEN <<1>> ELSE <<>>)
                [] \E t \in HasUrids \ Compound : is(t) ->
                     SerUrids(d, host, [i \in DOMAIN d.atom.urids |-> i])
                [] OTHER -> d
      last == SerUri(body, host, type)
  IN  [last EXCEPT !.atom.type = last.ref]

\* netatom_serialize, with room for a dictionary of so many bytes.
Serialize(host, atom, room) ==
  SerAtom([atom |-> atom, entries |-> <<>>, used |-> 0, room |-> room,
           overflow |-> FALSE, ref |-> 0], host)

-----------------------------------------------------------------------------
\* _netatom_deser_uri: the dictionary has this host's URIDs by then.
DeserUri(d, host, ref) ==
  IF ref = 0 THEN 0
  ELSE Map(host, (CHOOSE e \in Range(d.entries) : e.at = ref).uri)

RECURSIVE DeserAtom(_, _, _)

\* _netatom_deser_atom: the type first, then what an atom of that type has.
DeserAtom(d, host, atom) ==
  LET type == DeserUri(d, host, atom.type)
      is(S) == \E t \in S : type = Map(host, t)
  IN  [type  |-> type,
       urids |-> IF is(HasUrids)
                 THEN [i \in DOMAIN atom.urids |-> DeserUri(d, host, atom.urids[i])]
                 ELSE atom.urids,
       kids  |-> IF is(Compound)
                 THEN [k \in DOMAIN atom.kids |-> DeserAtom(d, host, atom.kids[k])]
                 ELSE atom.kids]
=============================================================================
