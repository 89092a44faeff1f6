---------------------------- MODULE EterojCloak -----------------------------
(***************************************************************************)
(* The cloak plugin (src/eteroj_cloak.c), at both ends of a MIDI           *)
(* connection.  An OSC packet is written to the handle's buffer and coded  *)
(* there, in place, to a message of system-exclusive kind, which has bytes *)
(* of seven bits only: seven bytes become eight, the first of which has    *)
(* the high bits of the others.  It is filled from its end.  The other end *)
(* copies the message to its own buffer and decodes it there, in place,    *)
(* from its beginning.                                                     *)
(*                                                                         *)
(* Each iteration of the two loops is a step, and the buffers keep what    *)
(* earlier packets and messages have left in them.  A byte is the set of   *)
(* its bits.  No name is one of Carriage's or EterojIO's, since the ways    *)
(* of a packet include this one, and PluginsProof extends both plugins.    *)
(***************************************************************************)
EXTENDS Integers, Sequences

CONSTANTS BufSize,      \* BUF_SIZE
          Payloads,     \* what the OSC writer may leave in the buffer
          Others,       \* MIDI messages that do not come from a cloak
          MaxMessages,  \* bound: how many there are
          MaxWire       \* bound: how many of them under way

Byte == SUBSET (0..7)
High == 7                                      \* 0x80

START == {4, 5, 6, 7}                          \* SYSEX_START
END == {0, 1, 2, 4, 5, 6, 7}                   \* SYSEX_END

\* The writer never uses the last byte of the buffer (writer.h:82).
ASSUME PayloadsAssumption ==
  /\ BufSize \in Nat /\ Payloads \subseteq Seq(Byte)
  /\ \A p \in Payloads : Len(p) \in 1..(BufSize - 1)
ASSUME OthersAssumption == Others \subseteq Seq(Byte)
ASSUME BoundsAssumption == MaxMessages \in Nat /\ MaxWire \in Nat

VARIABLES tx, rx,        \* what each end is doing
          txBuf, rxBuf,  \* handle->buf
          payload,       \* tx: the packet in the works
          left,          \* _7bit_encode: i + 1, the bytes not yet read
          top,           \* ... and to, counted from dst
          high,          \* ... and acc
          wire,          \* MIDI messages under way, and what packet is in each
          pos,           \* _7bit_decode: i
          to, acc,       \* ... and to, counted from dst, and acc
          forged,        \* the last packet forged, and which it was
          count          \* bound: messages so far

encodeVars == <<tx, txBuf, payload, left, top, high>>
decodeVars == <<rx, rxBuf, pos, to, acc, forged>>
cloakVars == <<encodeVars, decodeVars, wire, count>>

Indices == 0..(BufSize - 1)
None == <<>>
Nothing == [bytes |-> <<>>, of |-> None]

CloakInit ==
  /\ tx = "idle" /\ txBuf = [a \in Indices |-> {}] /\ payload = None
  /\ left = 0 /\ top = 0 /\ high = {}
  /\ wire = <<>>
  /\ rx = "idle" /\ rxBuf = [a \in Indices |-> {}]
  /\ pos = 0 /\ to = 0 /\ acc = {} /\ forged = Nothing
  /\ count = 0

\* memcpy, or what else puts bytes at the beginning of a buffer.
Over(buf, bytes) == [a \in Indices |-> IF a < Len(bytes) THEN bytes[a + 1] ELSE buf[a]]

\* The first n bytes of a buffer.
First(buf, n) == [k \in 1..n |-> buf[k - 1]]

-----------------------------------------------------------------------------
(* _7bit_encode, in run().                                                 *)

\* Mutant of Written: a last group that is not full is reckoned as a full one.
WrittenFull(size) == 8 * ((size + 6) \div 7) + 2

\* Mutant of Written: the bytes that have the high bits are forgotten.
WrittenBare(size) == size + 2

\* The length of the message for size bytes.
Written(size) == 8 * (size \div 7) + (IF size % 7 = 0 THEN 0 ELSE 1 + (size % 7)) + 2

\* A packet is in the buffer; the last byte of its message is stored.  When that
\* is behind the buffer, nothing is known of what follows.
WritePayload(p) ==
  /\ tx = "idle" /\ count < MaxMessages
  /\ count' = count + 1
  /\ payload' = p
  /\ IF Written(Len(p)) <= BufSize
     THEN /\ tx' = "encode"
          /\ txBuf' = [Over(txBuf, p) EXCEPT ![Written(Len(p)) - 1] = END]
          /\ left' = Len(p) /\ top' = Written(Len(p)) - 2
     ELSE /\ tx' = "overrun" /\ txBuf' = Over(txBuf, p)
          /\ UNCHANGED <<left, top>>
  /\ UNCHANGED <<high, wire, decodeVars>>

\* The high bit of a byte, at its place in the byte that has those of a group.
Upper(byt, shift) == IF High \in byt THEN {shift} ELSE {}

\* A byte: its low bits are stored, its high one is kept, and stored with the
\* others of its group before the first of them.
EncodeByte ==
  /\ tx = "encode" /\ left > 0
  /\ LET shift == (left - 1) % 7
         byt   == txBuf[left - 1]
         all   == high \cup Upper(byt, shift)
         low   == [txBuf EXCEPT ![top] = byt \ {High}]
     IN  IF shift = 0
         THEN txBuf' = [low EXCEPT ![top - 1] = all] /\ top' = top - 2 /\ high' = {}
         ELSE txBuf' = low /\ top' = top - 1 /\ high' = all
  /\ left' = left - 1
  /\ UNCHANGED <<tx, payload, wire, decodeVars, count>>

\* The first byte; then the message is forged, if it fits into the output.
EncodeEnd(fits) ==
  /\ tx = "encode" /\ left = 0 /\ Len(wire) < MaxWire
  /\ txBuf' = [txBuf EXCEPT ![top] = START]
  /\ wire' = IF fits THEN Append(wire, [bytes |-> First(txBuf', Written(Len(payload))),
                                        of |-> payload])
                     ELSE wire
  /\ tx' = "idle" /\ payload' = None /\ top' = 0
  /\ UNCHANGED <<left, high, decodeVars, count>>

-----------------------------------------------------------------------------
(* The MIDI connection, which is external, has other messages, too.        *)

Play(m) ==
  /\ count < MaxMessages /\ Len(wire) < MaxWire
  /\ count' = count + 1
  /\ wire' = Append(wire, [bytes |-> m, of |-> None])
  /\ UNCHANGED <<encodeVars, decodeVars>>

-----------------------------------------------------------------------------
(* _7bit_decode, in run().                                                 *)

Arrived == Head(wire).bytes

\* Is it one that can be decoded?
Cloaked(m) == Len(m) >= 2 /\ m[1] = START /\ m[Len(m)] = END

\* A message is copied to the buffer.  What is no message of this kind is left
\* there; one longer than the buffer goes on behind it.
Receive ==
  /\ rx = "idle" /\ wire # <<>>
  /\ IF Len(Arrived) > BufSize
     THEN rx' = "overrun" /\ UNCHANGED <<rxBuf, wire>>
     ELSE /\ rxBuf' = Over(rxBuf, Arrived)
          /\ IF Cloaked(Arrived) THEN rx' = "decode" /\ UNCHANGED wire
                                 ELSE wire' = Tail(wire) /\ UNCHANGED rx
  /\ UNCHANGED <<pos, to, acc, forged, encodeVars, count>>

\* Mutant of Lower: the bits are counted from one place further up.
LowerUp(shift) == IF shift \in acc THEN {High} ELSE {}

\* The bit of acc that is the high one of the byte at this place of a group.
Lower(shift) == IF shift - 1 \in acc THEN {High} ELSE {}

\* A byte: the first of each eight has the high bits of the others.
DecodeByte ==
  /\ rx = "decode" /\ pos < Len(Arrived) - 2
  /\ LET shift == pos % 8
         byt   == rxBuf[pos + 1]
     IN  IF shift = 0
         THEN acc' = byt /\ UNCHANGED <<rxBuf, to>>
         ELSE /\ rxBuf' = [rxBuf EXCEPT ![to] = byt \cup Lower(shift)]
              /\ to' = to + 1 /\ UNCHANGED acc
  /\ pos' = pos + 1
  /\ UNCHANGED <<rx, forged, wire, encodeVars, count>>

\* What has been decoded is forged, if it is anything.
DecodeEnd ==
  /\ rx = "decode" /\ pos >= Len(Arrived) - 2
  /\ forged' = IF to > 0 THEN [bytes |-> First(rxBuf, to), of |-> Head(wire).of] ELSE forged
  /\ wire' = Tail(wire)
  /\ rx' = "idle" /\ pos' = 0 /\ to' = 0 /\ acc' = {}
  /\ UNCHANGED <<rxBuf, encodeVars, count>>

CloakNext ==
  \/ \E p \in Payloads : WritePayload(p)
  \/ EncodeByte \/ \E fits \in BOOLEAN : EncodeEnd(fits)
  \/ \E m \in Others : Play(m)
  \/ Receive \/ DecodeByte \/ DecodeEnd

CloakSpec == CloakInit /\ [][CloakNext]_cloakVars

-----------------------------------------------------------------------------
(* What makes it correct.                                                  *)

Carrier == [bytes : Seq(Byte), of : Payloads \cup {None}]

\* The state has its types; every store is inside the buffer, from the last
\* byte of the message, which END takes, down to the first, which is START's.
CloakTypeOK ==
  /\ tx \in {"idle", "encode", "overrun"} /\ rx \in {"idle", "decode", "overrun"}
  /\ txBuf \in [Indices -> Byte] /\ rxBuf \in [Indices -> Byte]
  /\ payload \in Payloads \cup {None}
  /\ left \in 0..BufSize /\ high \in Byte
  /\ wire \in Seq(Carrier) /\ forged \in Carrier
  /\ pos \in Nat /\ acc \in Byte
  /\ top \in Nat /\ to \in Nat
  /\ tx = "encode" => top \in Indices /\ (left = 0 <=> top = 0)
  /\ rx = "decode" => wire # <<>> /\ to <= pos /\ pos + 1 \in Indices
  /\ count \in 0..MaxMessages

\* Both loops work in the memory they read from: what they have not read yet
\* is what was there when they began (eteroj_cloak.c:109-123, 143-158).
InPlace ==
  /\ tx = "encode" => \A a \in 0..(left - 1) : txBuf[a] = payload[a + 1]
  /\ rx = "decode" => \A a \in (pos + 1)..(Len(Arrived) - 1) : rxBuf[a] = Arrived[a + 1]

\* A packet comes out as it went in, whatever its length and its bytes are and
\* whatever earlier ones have left in the buffers (eteroj_cloak.c:100-163).
Restored == forged.of # None => forged.bytes = forged.of

\* Between its ends a message has bytes of seven bits only, as MIDI wants it.
\* It is within the buffer unless the packet takes more than seven eighths of
\* what is left of that; and what one cloak sends does not overrun the other's
\* buffer (eteroj_cloak.c:128-163, 179).
MidiFits ==
  /\ \A n \in DOMAIN wire : wire[n].of # None =>
       \A k \in 2..(Len(wire[n].bytes) - 1) : High \notin wire[n].bytes[k]
  /\ tx = "overrun" => 8 * Len(payload) > 7 * (BufSize - 2)
  /\ rx = "overrun" => Head(wire).of = None
=============================================================================
