--------------------------- MODULE VarchunkProof ----------------------------
(***************************************************************************)
(* Proofs about Varchunk, for every ring size, every set of request sizes  *)
(* and every set of payloads, of producers that write no more than the     *)
(* minimum they asked for (~FillMax).                                      *)
(*                                                                         *)
(* Offsets wrap around, so the invariant measures them from the tail:      *)
(* Dist(tail, p) is how far the consumer has to go to reach p.  In this    *)
(* measure the published chunks lie one after the other between 0 and      *)
(* Dist(tail, head), what the producer was granted lies after them, and    *)
(* all of it stays below Size.  The consumer's steps shift the measure.    *)
(* From the same invariant, the ring implements the queue of ChunkQueue,   *)
(* and whoever reads on from the tail finds the published chunks: that is  *)
(* shown by induction on how many looks at the memory it takes.            *)
(***************************************************************************)
EXTENDS Varchunk, SequenceTheorems, WellFoundedInduction, TLAPS

USE DEF Hdr

\* How far p is from t, walking forward around the ring.
Dist(t, p) == IF p >= t THEN p - t ELSE p - t + Size

\* Where a chunk begins (at its gap, if it has one) and how long it is.
Begin(c)  == IF c.gap > 0 THEN Size - c.gap ELSE c.pos
Length(c) == c.gap + Hdr + Pad(c.size)

\* A chunk lies inside the ring, at word boundaries; a gap runs up to the end
\* of the ring and has its chunk at 0.
ChunkInRing(c) ==
  /\ c.pos \in Pos /\ c.size \in Nat /\ c.gap \in Nat
  /\ c.val \in Values \cup {Blank}
  /\ c.pos + Hdr + Pad(c.size) <= Size
  /\ c.gap > 0 => c.pos = 0 /\ Size - c.gap \in Pos

\* The chunks are in the ring, one behind the other.
Layout ==
  /\ \A i \in DOMAIN chunks : ChunkInRing(chunks[i])
  /\ chunks = <<>> => head = tail
  /\ chunks # <<>> => /\ Begin(chunks[1]) = tail
                      /\ Dist(tail, Begin(chunks[Len(chunks)]))
                           + Length(chunks[Len(chunks)]) = Dist(tail, head)
  /\ \A i \in DOMAIN chunks : i + 1 \in DOMAIN chunks =>
       Dist(tail, Begin(chunks[i])) + Length(chunks[i])
         = Dist(tail, Begin(chunks[i + 1]))
  /\ \A i, j \in DOMAIN chunks : i < j =>
       Dist(tail, Begin(chunks[i])) + Length(chunks[i])
         <= Dist(tail, Begin(chunks[j]))
  /\ \A i \in DOMAIN chunks :
       Dist(tail, Begin(chunks[i])) + Length(chunks[i]) <= Dist(tail, head)

\* What the producer was granted, or has written, lies behind them.
Granted ==
  ppc # "idle" =>
    /\ gapd > 0 => gapd = Size - head
    /\ gapd = 0 => head + Hdr + Pad(wmin) <= Size
    /\ Dist(tail, head) + gapd + Hdr + Pad(wmin) < Size
    /\ ppc # "granted" => wlen <= wmin /\ wlen \in Requests

\* Every published chunk, and the gap before it, is in the memory
\* m as written.
Intact(m, c) ==
  /\ InMemory(m, c)
  /\ c.gap > 0 => m[Size - c.gap].gap = 1

Memory ==
  /\ \A i \in DOMAIN chunks : Intact(buf, chunks[i])
  /\ ppc \in {"filled", "stamped"} =>
       \A p \in PayloadWords(Target, wlen) : buf[p] = Payload(wval)
  /\ ppc = "stamped" => /\ buf[Target] = Header(wlen, 0)
                        /\ gapd > 0 => buf[head].gap = 1

\* Where the consumer is.
Reader ==
  /\ cpc \in {"skip", "reading"} => chunks # <<>>
  /\ cpc = "skip" => chunks[1].gap > 0
  /\ cpc = "reading" => /\ chunks[1].gap = 0
                        /\ got = [pos |-> chunks[1].pos, size |-> chunks[1].size]

IInv == TypeOK /\ Layout /\ Granted /\ Memory /\ Reader

-----------------------------------------------------------------------------
(* Arithmetic of offsets.                                                  *)

\* Padding rounds up to the next word boundary (VARCHUNK_PAD).
LEMMA PadFacts ==
  ASSUME NEW n \in Nat
  PROVE  Pad(n) \in Nat /\ n <= Pad(n) /\ Pad(n) % 8 = 0
BY DEF Pad

\* Fewer bytes do not take more words.
LEMMA PadMonotone ==
  ASSUME NEW m \in Nat, NEW n \in Nat, m <= n
  PROVE  Pad(m) <= Pad(n)
BY DEF Pad

LEMMA WholeWords ==
  ASSUME NEW a \in Int, NEW b \in Int, a % 8 = 0, b % 8 = 0
  PROVE  (a + b) % 8 = 0 /\ (a - b) % 8 = 0 /\ (a + 8) % 8 = 0
OBVIOUS

\* & mask leaves an offset inside the ring alone and wraps one beyond it.
LEMMA MaskFacts ==
  ASSUME NEW x \in Int
  PROVE  /\ x \in 0..(Size - 1) => Mask(x) = x
         /\ x \in Size..(2 * Size - 1) => Mask(x) = x - Size
BY SizeAssumption DEF Mask

\* Moving by whole words from a word boundary ends on one.
LEMMA MaskPos ==
  ASSUME NEW p \in Pos, NEW k \in Nat, k % 8 = 0, k <= Size
  PROVE  /\ Mask(p + k) \in Pos
         /\ Mask(p + k) = p + k \/ Mask(p + k) = p + k - Size
<1>1. p \in Int /\ p >= 0 /\ p < Size /\ p % 8 = 0
  BY SizeAssumption DEF Pos
<1>2. CASE p + k < Size
  BY <1>1, <1>2, MaskFacts, SizeAssumption DEF Pos
<1>3. CASE p + k >= Size
  <2>1. Mask(p + k) = p + k - Size
    BY <1>1, <1>3, MaskFacts, SizeAssumption
  <2>2. (p + k - Size) % 8 = 0
    BY <1>1, SizeAssumption
  <2> QED
    BY <1>1, <1>3, <2>1, <2>2, SizeAssumption DEF Pos
<1> QED
  BY <1>1, <1>2, <1>3, SizeAssumption

\* Offsets are integers in the ring, a whole number of words apart.
LEMMA PosFacts ==
  ASSUME NEW p \in Pos
  PROVE  p \in Int /\ 0 <= p /\ p < Size /\ p + Hdr <= Size /\ p % 8 = 0
BY SizeAssumption DEF Pos

LEMMA PosApart ==
  ASSUME NEW p \in Pos, NEW q \in Pos, p < q
  PROVE  p + Hdr <= q
BY SizeAssumption DEF Pos

\* The distance to an offset k bytes further on is larger by k, as long as
\* the tail is not passed.
LEMMA DistForward ==
  ASSUME NEW t \in Pos, NEW b \in Pos, NEW p \in Pos, NEW k \in Nat,
         p = b + k \/ p = b + k - Size, Dist(t, b) + k < Size
  PROVE  Dist(t, p) = Dist(t, b) + k
BY PosFacts, SizeAssumption DEF Dist

\* Moving the tail k bytes on brings everything that lies at least that far
\* ahead nearer by k.
LEMMA DistTail ==
  ASSUME NEW t \in Pos, NEW u \in Pos, NEW p \in Pos, NEW k \in Nat,
         u = t + k \/ u = t + k - Size, k < Size, k <= Dist(t, p)
  PROVE  Dist(u, p) = Dist(t, p) - k
<1>1. /\ t \in Int /\ 0 <= t /\ t < Size
      /\ u \in Int /\ 0 <= u /\ u < Size
      /\ p \in Int /\ 0 <= p /\ p < Size
  BY PosFacts
<1> QED
  BY <1>1, SizeAssumption DEF Dist

LEMMA DistRange ==
  ASSUME NEW t \in Pos, NEW p \in Pos
  PROVE  Dist(t, p) \in Nat /\ Dist(t, p) < Size /\ (Dist(t, p) = 0 <=> p = t)
BY PosFacts, SizeAssumption DEF Dist

-----------------------------------------------------------------------------
(* Chunks and the words they take.                                         *)

LEMMA ChunkFacts ==
  ASSUME NEW c, ChunkInRing(c)
  PROVE  /\ Begin(c) \in Pos
         /\ Length(c) \in Nat /\ Length(c) % 8 = 0 /\ Length(c) >= Hdr
         /\ c.gap = 0 \/ c.gap = Size - Begin(c)
<1>1. Pad(c.size) \in Nat /\ Pad(c.size) % 8 = 0
  BY PadFacts DEF ChunkInRing
<1>2. Begin(c) \in Pos
  BY DEF Begin, ChunkInRing
<1>3. c.gap = 0 \/ c.gap = Size - Begin(c)
  BY SizeAssumption DEF Begin, ChunkInRing
<1>4. c.gap \in Nat
  BY DEF ChunkInRing
<1>5. c.gap % 8 = 0
  <2>1. Begin(c) \in Int /\ Begin(c) % 8 = 0 /\ Size \in Int /\ Size % 8 = 0
    BY <1>2, PosFacts, SizeAssumption
  <2>2. (Size - Begin(c)) % 8 = 0
    BY <2>1, WholeWords, Zenon
  <2> QED
    BY <1>3, <2>2
<1>6. Length(c) = (c.gap + Pad(c.size)) + 8
  BY <1>1, <1>4 DEF Length
<1>7. (c.gap + Pad(c.size)) % 8 = 0 /\ c.gap + Pad(c.size) \in Nat
  BY <1>1, <1>4, <1>5, WholeWords
<1>8. ((c.gap + Pad(c.size)) + 8) % 8 = 0
  <2>1. c.gap + Pad(c.size) \in Int
    BY <1>7
  <2> QED
    BY <2>1, <1>7, WholeWords, Zenon
<1>9. Length(c) \in Nat /\ Length(c) >= Hdr
  BY <1>6, <1>7
<1> QED
  BY <1>2, <1>3, <1>6, <1>8, <1>9

\* Seen from the tail, the words of a chunk lie between where it begins and
\* where it ends.
LEMMA FootprintDist ==
  ASSUME NEW t \in Pos, NEW c, ChunkInRing(c),
         Dist(t, Begin(c)) + Length(c) < Size, NEW p \in Footprint(c)
  PROVE  /\ Dist(t, Begin(c)) <= Dist(t, p)
         /\ Dist(t, p) < Dist(t, Begin(c)) + Length(c)
<1>1. /\ Begin(c) \in Pos /\ Pad(c.size) \in Nat /\ c.gap \in Nat
      /\ c.pos \in Pos /\ Length(c) = c.gap + Hdr + Pad(c.size)
  BY ChunkFacts, PadFacts DEF ChunkInRing, Length
<1>2. /\ p \in Pos /\ p \in Int /\ 0 <= p /\ p < Size
      /\ Begin(c) \in Int /\ Begin(c) < Size
      /\ c.pos \in Int /\ 0 <= c.pos /\ Size \in Nat
  BY <1>1, PosFacts, SizeAssumption DEF Footprint
<1>3. \E k \in Nat : k < Length(c) /\ (p = Begin(c) + k \/ p = Begin(c) + k - Size)
  <2>1. CASE p >= Size - c.gap
    <3>1. c.gap > 0 /\ Begin(c) = Size - c.gap
      BY <1>1, <1>2, <2>1 DEF Begin
    <3>2. p - Begin(c) \in Nat /\ p - Begin(c) < Length(c)
      BY <1>1, <1>2, <2>1, <3>1
    <3> QED
      BY <1>2, <3>2
  <2>2. CASE p >= c.pos /\ p < c.pos + Hdr + Pad(c.size) /\ c.gap = 0
    <3>1. Begin(c) = c.pos
      BY <2>2 DEF Begin
    <3>2. p - Begin(c) \in Nat /\ p - Begin(c) < Length(c)
      BY <1>1, <1>2, <2>2, <3>1
    <3> QED
      BY <1>2, <3>2
  <2>3. CASE p >= c.pos /\ p < c.pos + Hdr + Pad(c.size) /\ c.gap > 0
    <3>1. Begin(c) = Size - c.gap /\ c.pos = 0
      BY <2>3 DEF Begin, ChunkInRing
    <3>2. c.gap + p \in Nat /\ c.gap + p < Length(c)
      BY <1>1, <1>2, <2>3, <3>1
    <3>3. p = Begin(c) + (c.gap + p) - Size
      BY <1>1, <1>2, <3>1
    <3> QED
      BY <3>2, <3>3
  <2> QED
    BY <1>1, <2>1, <2>2, <2>3 DEF Footprint
<1>4. PICK k \in Nat : k < Length(c) /\ (p = Begin(c) + k \/ p = Begin(c) + k - Size)
  BY <1>3
<1>5. Dist(t, Begin(c)) \in Nat /\ Length(c) \in Nat
  BY <1>1, DistRange, ChunkFacts
<1>6. Dist(t, p) = Dist(t, Begin(c)) + k
  BY <1>1, <1>2, <1>4, <1>5, DistForward, SizeAssumption
<1> QED
  BY <1>4, <1>5, <1>6

\* A chunk's own words: its header, its payload, the header of its gap.
LEMMA OwnWords ==
  ASSUME NEW c, ChunkInRing(c)
  PROVE  /\ c.pos \in Footprint(c)
         /\ PayloadWords(c.pos, c.size) \subseteq Footprint(c)
         /\ c.gap > 0 => Size - c.gap \in Footprint(c)
<1>1. Pad(c.size) \in Nat /\ c.pos \in Int
  BY PadFacts, PosFacts DEF ChunkInRing
<1>2. c.pos \in Footprint(c)
  BY <1>1 DEF Footprint, ChunkInRing
<1>3. PayloadWords(c.pos, c.size) \subseteq Footprint(c)
  BY <1>1, PosFacts DEF Footprint, PayloadWords
<1>4. ASSUME c.gap > 0 PROVE Size - c.gap \in Footprint(c)
  BY <1>4, PosFacts DEF Footprint, ChunkInRing
<1> QED
  BY <1>2, <1>3, <1>4

\* A granted request leaves room for a header and the bytes asked for, between
\* the head and the end of the ring or, behind a gap, at its beginning, and
\* never catches up with the tail (varchunk_write_request_max).
LEMMA AnswerSound ==
  ASSUME NEW n \in Nat, NEW h \in Pos, NEW t \in Pos
  PROVE  LET a == Answer(n, h, t)
         IN  /\ a.ok \in BOOLEAN /\ a.rsvd \in Nat /\ a.gapd \in Nat
             /\ a.ok => /\ a.gapd > 0 => a.gapd = Size - h
                        /\ a.gapd = 0 => h + Hdr + Pad(n) <= Size
                        /\ Dist(t, h) + a.gapd + Hdr + Pad(n) < Size
<1> DEFINE space == WriteSpace(h, t)
<1>1. /\ h \in Int /\ t \in Int /\ 0 <= h /\ 0 <= t /\ h + Hdr <= Size
      /\ t + Hdr <= Size /\ Size \in Nat /\ h < Size /\ t < Size
  BY PosFacts, SizeAssumption
<1>2. Pad(n) \in Nat
  BY PadFacts
<1>3. /\ h > t => space = Size - (h - t) - 1
      /\ h < t => space = t - h - 1
      /\ h = t => space = Size - 1
  <2>1. h > t => Mask(t - h + Size) = t - h + Size
    BY <1>1, MaskFacts
  <2> QED
    BY <1>1, <2>1 DEF WriteSpace
<1>4. space \in Nat
  BY <1>1, <1>3, PosApart
<1>5. h + space > Size => /\ h >= t
                          /\ Mask(h + space) = h + space - Size
                          /\ h + space - Size = t - 1
  <2>1. ASSUME h + space > Size
        PROVE  h >= t /\ h + space - Size = t - 1
    BY <1>1, <1>3, <1>4, <2>1
  <2>2. ASSUME h + space > Size PROVE h + space \in Size..(2 * Size - 1)
    BY <1>1, <1>4, <2>1, <2>2
  <2> QED
    BY <1>1, <1>4, <2>1, <2>2, MaskFacts
<1> HIDE DEF space
<1>6. CASE h + space > Size /\ Size - h >= Padded(n)
  BY <1>1, <1>2, <1>4, <1>5, <1>6 DEF Answer, Padded, Dist, space
<1>7. CASE h + space > Size /\ ~(Size - h >= Padded(n))
  BY <1>1, <1>2, <1>4, <1>5, <1>7 DEF Answer, Padded, Dist, space
<1>8. CASE ~(h + space > Size)
  BY <1>1, <1>2, <1>3, <1>5, <1>8 DEF Answer, Padded, Dist, space
<1> QED
  BY <1>1, <1>5, <1>6, <1>7, <1>8

-----------------------------------------------------------------------------
(* The chunk being written and the chunks already published.               *)

LEMMA PendingInRing ==
  ASSUME IInv, ppc # "idle", NEW n \in Nat, n <= wmin
  PROVE  /\ ChunkInRing(Pending(n))
         /\ Begin(Pending(n)) = head
         /\ Length(Pending(n)) = gapd + Hdr + Pad(n)
         /\ Dist(tail, head) + Length(Pending(n)) < Size
<1>1. /\ head \in Pos /\ tail \in Pos /\ gapd \in Nat /\ wmin \in Nat
      /\ wval \in Values \cup {Blank}
  BY DEF IInv, TypeOK
<1>2. Pad(n) \in Nat /\ Pad(wmin) \in Nat /\ Pad(n) <= Pad(wmin)
  BY <1>1, PadFacts, PadMonotone
<1>3. /\ head \in Int /\ 0 <= head /\ head < Size /\ head + Hdr <= Size
      /\ Size \in Nat
  BY <1>1, PosFacts, SizeAssumption
<1>4. 0 \in Pos
  BY SizeAssumption DEF Pos
<1>5. Dist(tail, head) \in Nat
  BY <1>1, DistRange
<1>6. /\ Pending(n).pos = Target /\ Pending(n).size = n
      /\ Pending(n).gap = gapd /\ Pending(n).val = wval
  BY DEF Pending
<1>7. /\ gapd > 0 => gapd = Size - head
      /\ gapd = 0 => head + Hdr + Pad(wmin) <= Size
      /\ Dist(tail, head) + gapd + Hdr + Pad(wmin) < Size
  BY DEF IInv, Granted
<1>8. Target \in Pos /\ Target + Hdr + Pad(n) <= Size
  BY <1>1, <1>2, <1>3, <1>4, <1>5, <1>7 DEF Target
<1>9. gapd > 0 => Target = 0 /\ Size - gapd = head
  BY <1>1, <1>3, <1>7 DEF Target
<1>10. ChunkInRing(Pending(n))
  BY <1>1, <1>6, <1>8, <1>9 DEF ChunkInRing
<1>11. Begin(Pending(n)) = head
  BY <1>1, <1>6, <1>9 DEF Begin, Target
<1>12. Length(Pending(n)) = gapd + Hdr + Pad(n)
  BY <1>6 DEF Length
<1>13. Dist(tail, head) + Length(Pending(n)) < Size
  BY <1>1, <1>2, <1>3, <1>5, <1>7, <1>12
<1> QED
  BY <1>10, <1>11, <1>12, <1>13

\* What the producer was granted takes no word of a published chunk.
LEMMA Clear ==
  ASSUME IInv, ppc # "idle", NEW n \in Nat, n <= wmin, NEW i \in DOMAIN chunks
  PROVE  Footprint(Pending(n)) \cap Footprint(chunks[i]) = {}
<1> SUFFICES ASSUME NEW p \in Footprint(Pending(n)), p \in Footprint(chunks[i])
             PROVE  FALSE
  OBVIOUS
<1>1. head \in Pos /\ tail \in Pos /\ p \in Pos
  BY DEF IInv, TypeOK, Footprint
<1>2. /\ ChunkInRing(chunks[i])
      /\ Dist(tail, Begin(chunks[i])) + Length(chunks[i]) <= Dist(tail, head)
  BY DEF IInv, Layout
<1>3. /\ Dist(tail, head) \in Nat /\ Dist(tail, head) < Size /\ Size \in Nat
      /\ Dist(tail, p) \in Nat
  BY <1>1, DistRange, SizeAssumption
<1>4. Dist(tail, Begin(chunks[i])) \in Nat /\ Length(chunks[i]) \in Nat
  BY <1>1, <1>2, ChunkFacts, DistRange
<1>5. Dist(tail, p) < Dist(tail, Begin(chunks[i])) + Length(chunks[i])
  BY <1>1, <1>2, <1>3, <1>4, FootprintDist
<1>6. Dist(tail, head) <= Dist(tail, p)
  BY <1>1, PendingInRing, FootprintDist
<1> QED
  BY <1>2, <1>3, <1>4, <1>5, <1>6

\* So writing there leaves what is published as it was.
LEMMA IntactStays ==
  ASSUME IInv, ppc # "idle", NEW n \in Nat, n <= wmin, NEW m,
         \A p \in Pos \ Footprint(Pending(n)) : m[p] = buf[p],
         NEW i \in DOMAIN chunks
  PROVE  Intact(m, chunks[i])
<1>1. ChunkInRing(chunks[i]) /\ Intact(buf, chunks[i])
  BY DEF IInv, Layout, Memory
<1>2. \A p \in Footprint(chunks[i]) : m[p] = buf[p]
  BY Clear DEF Footprint
<1> QED
  BY <1>1, <1>2, OwnWords DEF Intact, InMemory

-----------------------------------------------------------------------------
(* The producer's steps.                                                   *)

LEMMA InitIInv == Init => IInv
<1> SUFFICES ASSUME Init PROVE IInv
  OBVIOUS
<1>1. 0 \in Pos
  BY SizeAssumption DEF Pos
<1>2. TypeOK
  BY <1>1 DEF Init, TypeOK, Word, Header, Nowhere
<1>3. Layout
  BY DEF Init, Layout
<1> QED
  BY <1>2, <1>3 DEF Init, IInv, Granted, Memory, Reader

LEMMA WriteRequestStep ==
  ASSUME IInv, NEW n \in Requests, WriteRequest(n)
  PROVE  IInv'
<1> DEFINE answer == Answer(n, head, tail)
<1>1. /\ n \in Nat /\ head \in Pos /\ tail \in Pos
      /\ wlen \in Nat /\ wmin \in Nat
  BY RequestsAssumption DEF IInv, TypeOK
<1>2. /\ answer.rsvd \in Nat /\ answer.gapd \in Nat /\ answer.ok \in BOOLEAN
      /\ answer.ok => /\ answer.gapd > 0 => answer.gapd = Size - head
                      /\ answer.gapd = 0 => head + Hdr + Pad(n) <= Size
                      /\ Dist(tail, head) + answer.gapd + Hdr + Pad(n) < Size
  BY <1>1, AnswerSound
<1> HIDE DEF answer
<1>3. /\ ppc = "idle" /\ rsvd' = answer.rsvd /\ gapd' = answer.gapd
      /\ \/ answer.ok /\ ppc' = "granted" /\ wmin' = n
         \/ UNCHANGED <<ppc, wmin>>
      /\ UNCHANGED <<head, tail, buf, wlen, wval, cpc, got, chunks>>
  BY DEF WriteRequest, answer, consumerVars
<1>4. TypeOK'
  BY <1>1, <1>2, <1>3 DEF IInv, TypeOK
<1>5. Layout'
  BY <1>3 DEF IInv, Layout
<1>6. Granted'
  BY <1>1, <1>2, <1>3 DEF IInv, Granted
<1>7. Memory'
  BY <1>3 DEF IInv, Memory
<1>8. Reader'
  BY <1>3 DEF IInv, Reader
<1> QED
  BY <1>4, <1>5, <1>6, <1>7, <1>8 DEF IInv

LEMMA WritePayloadStep ==
  ASSUME ~FillMax, IInv, NEW n \in Lengths, NEW v \in Values, WritePayload(n, v)
  PROVE  IInv'
<1>1. /\ n \in Nat /\ n <= wmin /\ n \in Requests
      /\ head \in Pos /\ tail \in Pos /\ gapd \in Nat
      /\ buf \in [Pos -> Word]
  BY RequestsAssumption DEF IInv, TypeOK, Lengths
<1>2. /\ ppc = "granted" /\ ppc' = "filled" /\ wlen' = n /\ wval' = v
      /\ buf' = [p \in Pos |-> IF p \in PayloadWords(Target, n)
                               THEN Payload(v) ELSE buf[p]]
      /\ UNCHANGED <<head, tail, rsvd, gapd, wmin, cpc, got, chunks>>
  BY DEF WritePayload, consumerVars
<1>3. PayloadWords(Target, n) \subseteq Footprint(Pending(n))
  <2>1. Pending(n).pos = Target /\ Pending(n).size = n
    BY DEF Pending
  <2> QED
    BY <1>1, <1>2, <2>1, PendingInRing, OwnWords
<1>4. \A i \in DOMAIN chunks : Intact(buf', chunks[i])
  <2>1. \A p \in Pos \ Footprint(Pending(n)) : buf'[p] = buf[p]
    BY <1>2, <1>3
  <2> QED
    BY <1>1, <1>2, <2>1, IntactStays
<1>5. TypeOK'
  <2>1. Payload(v) \in Word
    BY DEF Payload, Word
  <2> QED
    BY <1>1, <1>2, <2>1 DEF IInv, TypeOK
<1>6. Layout'
  BY <1>2 DEF IInv, Layout
<1>7. Granted'
  BY <1>1, <1>2 DEF IInv, Granted
<1>8. Memory'
  <2>1. Target' = Target
    BY <1>2 DEF Target
  <2>2. \A p \in PayloadWords(Target, n) : buf'[p] = Payload(v)
    BY <1>2 DEF PayloadWords
  <2> QED
    BY <1>2, <1>4, <2>1, <2>2 DEF Memory
<1>9. Reader'
  BY <1>2 DEF IInv, Reader
<1> QED
  BY <1>5, <1>6, <1>7, <1>8, <1>9 DEF IInv

LEMMA WriteHeaderStep ==
  ASSUME IInv, WriteHeader
  PROVE  IInv'
<1>1. /\ head \in Pos /\ tail \in Pos /\ gapd \in Nat /\ wlen \in Nat
      /\ buf \in [Pos -> Word] /\ 0 \in Pos
  BY SizeAssumption DEF IInv, TypeOK, Pos
<1>2. /\ ppc = "filled" /\ ppc' = "stamped"
      /\ buf' = IF gapd > 0
                THEN [buf EXCEPT ![head] = Header(gapd - Hdr, 1),
                                 ![0]    = Header(wlen, 0)]
                ELSE [buf EXCEPT ![head] = Header(wlen, 0)]
      /\ UNCHANGED <<head, tail, rsvd, gapd, wmin, wlen, wval, cpc, got, chunks>>
  BY DEF WriteHeader, consumerVars
<1>3. wlen <= wmin
  BY <1>2 DEF IInv, Granted
<1>4. /\ Pending(wlen).pos = Target /\ Pending(wlen).size = wlen
      /\ Pending(wlen).gap = gapd
  BY DEF Pending
<1>5. ChunkInRing(Pending(wlen)) /\ Begin(Pending(wlen)) = head
  BY <1>1, <1>2, <1>3, PendingInRing
<1>6. /\ gapd > 0 => Size - gapd = head /\ Target = 0
      /\ gapd = 0 => Target = head
  BY <1>1, <1>4, <1>5 DEF Begin, Target
<1>7. head \in Footprint(Pending(wlen)) /\ Target \in Footprint(Pending(wlen))
  BY <1>1, <1>4, <1>5, <1>6, OwnWords
<1>8. \A i \in DOMAIN chunks : Intact(buf', chunks[i])
  <2>1. \A p \in Pos \ Footprint(Pending(wlen)) : buf'[p] = buf[p]
    BY <1>1, <1>2, <1>6, <1>7
  <2> QED
    BY <1>1, <1>2, <1>3, <2>1, IntactStays
<1>9. gapd > 0 => gapd - Hdr \in Nat
  BY <1>1, <1>6, PosFacts, SizeAssumption
<1>10. TypeOK'
  <2>1. Header(wlen, 0) \in Word
    BY <1>1 DEF Header, Word
  <2>2. gapd > 0 => Header(gapd - Hdr, 1) \in Word
    BY <1>9 DEF Header, Word
  <2>3. buf' \in [Pos -> Word]
    BY <1>1, <1>2, <2>1, <2>2
  <2> QED
    BY <1>2, <2>3 DEF IInv, TypeOK
<1>11. Layout'
  BY <1>2 DEF IInv, Layout
<1>12. Granted'
  BY <1>2 DEF IInv, Granted
<1>13. Memory'
  <2>0. gapd > 0 => Hdr + Pad(wlen) < head /\ Pad(wlen) \in Nat
    <3>1. /\ Dist(tail, head) \in Nat /\ Pad(wmin) \in Nat
          /\ Pad(wlen) \in Nat /\ Pad(wlen) <= Pad(wmin)
      BY <1>1, <1>3, DistRange, PadFacts, PadMonotone DEF IInv, TypeOK
    <3>2. Dist(tail, head) + gapd + Hdr + Pad(wmin) < Size
      BY <1>2 DEF IInv, Granted
    <3> QED
      BY <1>1, <1>6, <3>1, <3>2, PosFacts, SizeAssumption
  <2>1. Target' = Target
    BY <1>2 DEF Target
  <2>2. Target \in Pos /\ (gapd > 0 => head # Target)
    BY <1>1, <1>6, <2>0
  <2>3. /\ buf'[Target] = Header(wlen, 0)
        /\ gapd > 0 => buf'[head] = Header(gapd - Hdr, 1)
    BY <1>1, <1>2, <1>6, <2>2
  <2>4. \A p \in PayloadWords(Target, wlen) : buf'[p] = Payload(wval)
    <3> SUFFICES ASSUME NEW p \in PayloadWords(Target, wlen)
                 PROVE  buf'[p] = Payload(wval)
      OBVIOUS
    <3>1. p \in Pos /\ p >= Target + Hdr /\ p < Target + Hdr + Pad(wlen)
      BY DEF PayloadWords
    <3>2. p # Target
      BY <2>2, <3>1, PosFacts
    <3>3. p # head
      BY <1>1, <1>6, <2>0, <3>1, <3>2, PosFacts
    <3>4. buf'[p] = buf[p]
      BY <1>1, <1>2, <1>6, <2>2, <3>1, <3>2, <3>3
    <3> QED
      BY <1>2, <3>4 DEF IInv, Memory
  <2> QED
    <3>1. \A i \in DOMAIN chunks' : Intact(buf', chunks'[i])
      BY <1>2, <1>8
    <3>2. \A p \in PayloadWords(Target', wlen') : buf'[p] = Payload(wval')
      BY <1>2, <2>1, <2>4
    <3>3. buf'[Target'] = Header(wlen', 0)
      BY <1>2, <2>1, <2>3
    <3>4. gapd' > 0 => buf'[head'].gap = 1
      BY <1>2, <2>3 DEF Header
    <3> QED
      BY <3>1, <3>2, <3>3, <3>4 DEF Memory
<1>14. Reader'
  BY <1>2 DEF IInv, Reader
<1> QED
  BY <1>10, <1>11, <1>12, <1>13, <1>14 DEF IInv

LEMMA WriteAbandonStep ==
  ASSUME IInv, WriteAbandon
  PROVE  IInv'
<1>1. /\ ppc' = "idle" /\ wmin' = 0 /\ wlen' = 0 /\ wval' = Blank
      /\ UNCHANGED <<head, tail, buf, rsvd, gapd, cpc, got, chunks>>
  BY DEF WriteAbandon, Return, consumerVars
<1> QED
  BY <1>1 DEF IInv, TypeOK, Layout, Granted, Memory, Reader

LEMMA StoreHeadStep ==
  ASSUME ~FillMax, IInv, StoreHead
  PROVE  IInv'
<1> DEFINE P == Pending(wlen)
           N == Len(chunks)
           W == Length(P)
<1>1. /\ head \in Pos /\ tail \in Pos /\ gapd \in Nat /\ wlen \in Nat
      /\ wval \in Values \cup {Blank} /\ chunks \in Seq(ChunkRecord)
  BY DEF IInv, TypeOK
<1>2. /\ ppc = "stamped" /\ ppc' = "idle"
      /\ wmin' = 0 /\ wlen' = 0 /\ wval' = Blank
      /\ chunks' = Append(chunks, P)
      /\ UNCHANGED <<tail, buf, rsvd, gapd, cpc, got>>
  BY DEF StoreHead, Return, consumerVars
<1>3. /\ ChunkInRing(P) /\ Begin(P) = head
      /\ Dist(tail, head) + W < Size
      /\ head' = Mask(head + W)
  <2>1. wlen <= wmin
    BY <1>2 DEF IInv, Granted
  <2> QED
    BY <1>1, <1>2, <2>1, PendingInRing DEF StoreHead, Written
<1>4. W \in Nat /\ W % 8 = 0 /\ W >= Hdr
  BY <1>3, ChunkFacts
<1>5. Dist(tail, head) \in Nat /\ Size \in Nat
  BY <1>1, DistRange, SizeAssumption
<1>6. /\ head' \in Pos
      /\ head' = head + W \/ head' = head + W - Size
  BY <1>1, <1>3, <1>4, <1>5, MaskPos
<1>7. Dist(tail, head') = Dist(tail, head) + W
  BY <1>1, <1>3, <1>4, <1>5, <1>6, DistForward
<1>8. /\ P.pos = Target /\ P.size = wlen /\ P.gap = gapd /\ P.val = wval
      /\ P \in ChunkRecord
  <2>1. Target \in Nat
    BY <1>1, PosFacts DEF Target
  <2> QED
    BY <1>1, <2>1 DEF Pending, ChunkRecord
<1> HIDE DEF P, W
<1>9. /\ N \in Nat /\ DOMAIN chunks = 1..N
      /\ DOMAIN chunks' = 1..(N + 1) /\ Len(chunks') = N + 1
      /\ chunks'[N + 1] = P
      /\ \A i \in 1..N : chunks'[i] = chunks[i]
      /\ chunks = <<>> <=> N = 0
      /\ chunks' # <<>>
      /\ chunks' \in Seq(ChunkRecord)
  BY <1>1, <1>2, <1>8
<1> HIDE DEF N
<1>10. TypeOK'
  BY <1>2, <1>6, <1>9 DEF IInv, TypeOK
<1>11. Layout'
  <2>1. \A i \in 1..N : /\ ChunkInRing(chunks[i])
                        /\ Dist(tail, Begin(chunks[i])) \in Nat
                        /\ Length(chunks[i]) \in Nat
                        /\ Dist(tail, Begin(chunks[i])) + Length(chunks[i])
                             <= Dist(tail, head)
    BY <1>1, <1>9, ChunkFacts, DistRange DEF IInv, Layout
  <2>2. \A i \in 1..(N + 1) : ChunkInRing(chunks'[i])
    BY <1>3, <1>9, <2>1
  <2>3. Begin(chunks'[1]) = tail
    <3>1. CASE N = 0
      BY <1>3, <1>9, <3>1 DEF IInv, Layout
    <3>2. CASE N > 0
      BY <1>9, <3>2 DEF IInv, Layout
    <3> QED
      BY <1>9, <3>1, <3>2
  <2>4. Dist(tail, Begin(chunks'[N + 1])) + Length(chunks'[N + 1])
          = Dist(tail, head')
    BY <1>3, <1>7, <1>9 DEF W
  <2>5. \A i \in 1..N : Dist(tail, Begin(chunks'[i])) + Length(chunks'[i])
                          = Dist(tail, Begin(chunks'[i + 1]))
    <3> SUFFICES ASSUME NEW i \in 1..N
                 PROVE  Dist(tail, Begin(chunks'[i])) + Length(chunks'[i])
                          = Dist(tail, Begin(chunks'[i + 1]))
      OBVIOUS
    <3>1. CASE i = N
      <4>1. Dist(tail, Begin(chunks[N])) + Length(chunks[N]) = Dist(tail, head)
        BY <1>9, <3>1 DEF IInv, Layout, N
      <4> QED
        BY <1>3, <1>9, <3>1, <4>1
    <3>2. CASE i < N
      <4>1. i + 1 \in 1..N
        BY <1>9, <3>2
      <4> QED
        BY <1>9, <4>1 DEF IInv, Layout
    <3> QED
      BY <1>9, <3>1, <3>2
  <2>6. \A i, j \in 1..(N + 1) : i < j =>
          Dist(tail, Begin(chunks'[i])) + Length(chunks'[i])
            <= Dist(tail, Begin(chunks'[j]))
    <3> SUFFICES ASSUME NEW i \in 1..(N + 1), NEW j \in 1..(N + 1), i < j
                 PROVE  Dist(tail, Begin(chunks'[i])) + Length(chunks'[i])
                          <= Dist(tail, Begin(chunks'[j]))
      OBVIOUS
    <3>1. i \in 1..N
      BY <1>9
    <3>2. CASE j = N + 1
      BY <1>3, <1>9, <2>1, <3>1, <3>2
    <3>3. CASE j \in 1..N
      BY <1>9, <3>1, <3>3 DEF IInv, Layout
    <3> QED
      BY <1>9, <3>2, <3>3
  <2>7. \A i \in 1..(N + 1) : Dist(tail, Begin(chunks'[i])) + Length(chunks'[i])
                                <= Dist(tail, head')
    <3> SUFFICES ASSUME NEW i \in 1..(N + 1)
                 PROVE  Dist(tail, Begin(chunks'[i])) + Length(chunks'[i])
                          <= Dist(tail, head')
      OBVIOUS
    <3>1. CASE i = N + 1
      BY <1>4, <1>5, <1>7, <2>4, <3>1
    <3>2. CASE i \in 1..N
      BY <1>4, <1>5, <1>7, <1>9, <2>1, <3>2
    <3> QED
      BY <1>9, <3>1, <3>2
  <2>8. \A i \in 1..(N + 1) : i + 1 \in 1..(N + 1) => i \in 1..N
    BY <1>9
  <2>9. tail' = tail
    BY <1>2
  <2> QED
    BY <1>9, <2>2, <2>3, <2>4, <2>5, <2>6, <2>7, <2>8, <2>9 DEF Layout
<1>12. Granted'
  BY <1>2 DEF Granted
<1>13. Memory'
  <2>1. Intact(buf, P)
    <3>1. /\ buf[Target] = Header(wlen, 0)
          /\ gapd > 0 => buf[head].gap = 1
          /\ \A p \in PayloadWords(Target, wlen) : buf[p] = Payload(wval)
      BY <1>2 DEF IInv, Memory
    <3>2. gapd > 0 => Size - gapd = head
      BY <1>3, <1>8 DEF Begin
    <3> QED
      BY <1>8, <3>1, <3>2 DEF Intact, InMemory
  <2>2. \A i \in 1..(N + 1) : Intact(buf, chunks'[i])
    <3>1. \A i \in 1..N : Intact(buf, chunks[i])
      BY <1>9 DEF IInv, Memory
    <3>2. \A i \in 1..(N + 1) : i \in 1..N \/ i = N + 1
      BY <1>9
    <3> QED
      BY <1>9, <2>1, <3>1, <3>2
  <2> QED
    BY <1>2, <1>9, <2>2 DEF Memory
<1>14. Reader'
  <2>1. chunks # <<>> => chunks'[1] = chunks[1]
    BY <1>9
  <2> QED
    BY <1>2, <1>9, <2>1 DEF IInv, Reader
<1> QED
  BY <1>10, <1>11, <1>12, <1>13, <1>14 DEF IInv

-----------------------------------------------------------------------------
(* The consumer's steps.                                                   *)

\* What can be read reaches exactly from the tail to the head.
LEMMA ReadSpaceIsDist ==
  ASSUME NEW h \in Pos, NEW t \in Pos
  PROVE  ReadSpace(h, t) = Dist(t, h)
<1>1. /\ h \in Int /\ 0 <= h /\ h < Size /\ t \in Int /\ 0 <= t /\ t < Size
      /\ Size \in Nat
  BY PosFacts, SizeAssumption
<1>2. CASE h > t
  BY <1>1, <1>2 DEF ReadSpace, Dist
<1>3. CASE h = t
  <2>1. Mask(h - t + Size) = 0
    BY <1>1, <1>3, MaskFacts
  <2> QED
    BY <1>1, <1>3, <2>1 DEF ReadSpace, Dist
<1>4. CASE h < t
  <2>1. Mask(h - t + Size) = h - t + Size
    BY <1>1, <1>4, MaskFacts
  <2> QED
    BY <1>1, <1>4, <2>1 DEF ReadSpace, Dist
<1> QED
  BY <1>1, <1>2, <1>3, <1>4

\* The oldest chunk begins at the tail and is in memory there.
LEMMA OldestFacts ==
  ASSUME IInv, chunks # <<>>
  PROVE  /\ ChunkInRing(chunks[1]) /\ Intact(buf, chunks[1])
         /\ Begin(chunks[1]) = tail
         /\ Length(chunks[1]) <= Dist(tail, head)
         /\ \A i \in 2..Len(chunks) :
              Length(chunks[1]) <= Dist(tail, Begin(chunks[i]))
         /\ 1 \in DOMAIN chunks /\ Len(chunks) \in Nat /\ Len(chunks) >= 1
         /\ DOMAIN chunks = 1..Len(chunks)
<1>1. /\ chunks \in Seq(ChunkRecord) /\ tail \in Pos /\ head \in Pos
  BY DEF IInv, TypeOK
<1>2. /\ 1 \in DOMAIN chunks /\ Len(chunks) \in Nat /\ Len(chunks) >= 1
      /\ DOMAIN chunks = 1..Len(chunks)
  BY <1>1
<1>3. /\ ChunkInRing(chunks[1]) /\ Intact(buf, chunks[1])
      /\ Begin(chunks[1]) = tail
  BY <1>2 DEF IInv, Layout, Memory
<1>4. Dist(tail, Begin(chunks[1])) = 0 /\ Length(chunks[1]) \in Nat
  BY <1>1, <1>3, ChunkFacts, DistRange
<1>5. Length(chunks[1]) <= Dist(tail, head)
  BY <1>2, <1>4 DEF IInv, Layout
<1>6. \A i \in 2..Len(chunks) :
        Length(chunks[1]) <= Dist(tail, Begin(chunks[i]))
  BY <1>2, <1>4 DEF IInv, Layout
<1> QED
  BY <1>2, <1>3, <1>5, <1>6

LEMMA ReadRequestStep ==
  ASSUME IInv, ReadRequest
  PROVE  IInv'
<1>1. /\ head \in Pos /\ tail \in Pos /\ buf \in [Pos -> Word]
  BY DEF IInv, TypeOK
<1>2. /\ Dist(tail, head) > 0
      /\ \/ AtGap /\ cpc' = "skip" /\ UNCHANGED got
         \/ /\ ~AtGap /\ cpc' = "reading"
            /\ got' = [pos |-> tail, size |-> buf[tail].size]
      /\ UNCHANGED <<head, tail, buf, rsvd, gapd, ppc, wmin, wlen, wval, chunks>>
  BY <1>1, ReadSpaceIsDist DEF ReadRequest, producerVars
<1>3. chunks # <<>>
  BY <1>1, <1>2, DistRange DEF IInv, Layout
<1>4. /\ chunks[1].gap \in Nat
      /\ chunks[1].gap > 0 => AtGap
      /\ chunks[1].gap = 0 => ~AtGap /\ tail = chunks[1].pos
                                    /\ buf[tail].size = chunks[1].size
  <2>1. /\ ChunkInRing(chunks[1]) /\ Intact(buf, chunks[1])
        /\ Begin(chunks[1]) = tail
        /\ Length(chunks[1]) <= Dist(tail, head)
    BY <1>3, OldestFacts
  <2>2. chunks[1].gap \in Nat /\ Pad(chunks[1].size) \in Nat
    BY <2>1, PadFacts DEF ChunkInRing
  <2>3. ASSUME chunks[1].gap > 0 PROVE AtGap
    <3>1. Size - chunks[1].gap = tail /\ buf[tail].gap = 1
      BY <2>1, <2>3 DEF Begin, Intact
    <3>2. tail + Dist(tail, head) > Size
      BY <1>1, <2>1, <2>2, <3>1, PosFacts, DistRange, SizeAssumption DEF Length
    <3> QED
      BY <1>1, <3>1, <3>2, ReadSpaceIsDist DEF AtGap
  <2>4. ASSUME chunks[1].gap = 0
        PROVE  ~AtGap /\ tail = chunks[1].pos /\ buf[tail].size = chunks[1].size
    <3>1. tail = chunks[1].pos /\ buf[tail] = Header(chunks[1].size, 0)
      BY <2>1, <2>4 DEF Begin, Intact, InMemory
    <3> QED
      BY <3>1 DEF AtGap, Header
  <2> QED
    BY <2>2, <2>3, <2>4
<1>5. TypeOK'
  <2>1. buf[tail].size \in Nat
    BY <1>1 DEF Word
  <2> QED
    BY <1>1, <1>2, <2>1 DEF IInv, TypeOK
<1>6. Layout'
  BY <1>2 DEF IInv, Layout
<1>7. Granted'
  BY <1>2 DEF IInv, Granted
<1>8. Memory'
  BY <1>2 DEF IInv, Memory, Target
<1>9. Reader'
  BY <1>2, <1>3, <1>4 DEF Reader
<1> QED
  BY <1>5, <1>6, <1>7, <1>8, <1>9 DEF IInv

LEMMA ReadAbandonStep ==
  ASSUME IInv, ReadAbandon
  PROVE  IInv'
<1>1. /\ cpc' = "idle" /\ got' = Nowhere
      /\ UNCHANGED <<head, tail, buf, rsvd, gapd, ppc, wmin, wlen, wval, chunks>>
  BY DEF ReadAbandon, producerVars
<1>2. Nowhere \in [pos : Pos, size : Nat]
  BY SizeAssumption DEF Nowhere, Pos
<1>3. TypeOK'
  BY <1>1, <1>2 DEF IInv, TypeOK
<1>4. Layout' /\ Granted' /\ Reader'
  BY <1>1 DEF IInv, Layout, Granted, Reader
<1>5. Memory'
  BY <1>1 DEF IInv, Memory, Target
<1> QED
  BY <1>3, <1>4, <1>5 DEF IInv

\* Moving the tail k bytes on, up to the head and no further, keeps what the
\* producer was granted free.
LEMMA GrantedStays ==
  ASSUME IInv, NEW k \in Nat, k <= Dist(tail, head), tail' \in Pos,
         tail' = tail + k \/ tail' = tail + k - Size,
         UNCHANGED <<head, gapd, ppc, wmin, wlen>>
  PROVE  Granted'
<1>1. /\ head \in Pos /\ tail \in Pos /\ gapd \in Nat /\ Pad(wmin) \in Nat
      /\ Dist(tail, head) \in Nat /\ Dist(tail, head) < Size /\ Size \in Nat
  BY PadFacts, DistRange, SizeAssumption DEF IInv, TypeOK
<1>2. Dist(tail', head) = Dist(tail, head) - k
  BY <1>1, DistTail
<1>3. ppc # "idle" => Dist(tail', head) + gapd + Hdr + Pad(wmin) < Size
  BY <1>1, <1>2 DEF IInv, Granted
<1> QED
  BY <1>3 DEF IInv, Granted

LEMMA SkipGapStep ==
  ASSUME IInv, SkipGap
  PROVE  IInv'
<1> DEFINE c == chunks[1]
           d == [c EXCEPT !.gap = 0]
           N == Len(chunks)
           g == c.gap
<1>1. /\ head \in Pos /\ tail \in Pos /\ buf \in [Pos -> Word]
      /\ chunks \in Seq(ChunkRecord)
  BY DEF IInv, TypeOK
<1>2. /\ cpc = "skip" /\ cpc' = "reading"
      /\ tail' = Mask(tail + (Size - tail))
      /\ got' = [pos |-> 0, size |-> buf[0].size]
      /\ UNCHANGED <<head, buf, rsvd, gapd, ppc, wmin, wlen, wval>>
      /\ chunks # <<>>
      /\ chunks' = [chunks EXCEPT ![1].gap = 0]
  BY DEF SkipGap, producerVars, NoGap, IInv, Reader
<1>3. /\ ChunkInRing(c) /\ Intact(buf, c) /\ Begin(c) = tail
      /\ Length(c) <= Dist(tail, head)
      /\ \A i \in 2..N : Length(c) <= Dist(tail, Begin(chunks[i]))
      /\ N \in Nat /\ N >= 1 /\ DOMAIN chunks = 1..N
  BY <1>2, OldestFacts
<1>4. g \in Nat /\ g > 0 /\ g = Size - tail /\ c.pos = 0
  BY <1>1, <1>2, <1>3, PosFacts, SizeAssumption
     DEF IInv, Reader, ChunkInRing, Begin
<1>5. tail' = 0 /\ tail' \in Pos
  <2>1. tail + (Size - tail) = Size /\ Size \in Int /\ 0 \in Pos
    BY <1>1, PosFacts, SizeAssumption DEF Pos
  <2>2. Mask(Size) = 0
    BY MaskFacts, SizeAssumption
  <2> QED
    BY <1>2, <2>1, <2>2
<1>6. Length(c) = g + Hdr + Pad(c.size) /\ Pad(c.size) \in Nat
  BY <1>3, PadFacts DEF Length, ChunkInRing
<1>7. /\ d.pos = c.pos /\ d.size = c.size /\ d.gap = 0 /\ d.val = c.val
      /\ d \in ChunkRecord
  <2>1. c \in ChunkRecord
    BY <1>1, <1>3
  <2> QED
    BY <2>1 DEF ChunkRecord
<1>8. ChunkInRing(d) /\ Begin(d) = 0 /\ Length(d) = Length(c) - g
  BY <1>3, <1>4, <1>6, <1>7 DEF ChunkInRing, Begin, Length
<1>9. /\ DOMAIN chunks' = 1..N /\ Len(chunks') = N /\ chunks' # <<>>
      /\ chunks'[1] = d
      /\ \A i \in 2..N : chunks'[i] = chunks[i]
      /\ chunks' \in Seq(ChunkRecord)
  BY <1>1, <1>2, <1>3, <1>7
<1> HIDE DEF d
<1>10. /\ Dist(tail, head) \in Nat /\ Dist(tail, head) < Size
       /\ Size \in Nat
       /\ tail \in Int /\ 0 <= tail
  BY <1>1, <1>4, DistRange, PosFacts, SizeAssumption
<1>11. \A p \in Pos : g <= Dist(tail, p) => Dist(tail', p) = Dist(tail, p) - g
  <2> SUFFICES ASSUME NEW p \in Pos, g <= Dist(tail, p)
               PROVE  Dist(tail', p) = Dist(tail, p) - g
    OBVIOUS
  <2>1. Dist(tail, p) \in Nat /\ Dist(tail, p) < Size
    BY <1>1, DistRange
  <2>2. g < Size /\ tail' = tail + g - Size
    <3>1. g < Size
      BY <1>4, <1>10, <2>1
    <3>2. tail + g - Size = 0
      BY <1>4, <1>10
    <3> QED
      BY <1>5, <3>1, <3>2
  <2> QED
    BY <1>1, <1>4, <1>5, <2>2, DistTail
<1>12. Dist(tail', head) = Dist(tail, head) - g /\ g <= Dist(tail, head)
  <2>1. g <= Length(c)
    BY <1>4, <1>6
  <2>2. Length(c) \in Nat /\ Length(c) <= Dist(tail, head)
    BY <1>3, <1>4, <1>6
  <2>3. g <= Dist(tail, head)
    BY <1>4, <1>10, <2>1, <2>2
  <2> QED
    BY <1>1, <1>11, <2>3
<1>13. TypeOK'
  <2>1. buf[0].size \in Nat
    BY <1>1, <1>5 DEF Word
  <2> QED
    BY <1>2, <1>5, <1>9, <2>1 DEF IInv, TypeOK
<1>14. Layout'
  <2>1. \A i \in 2..N :
          /\ ChunkInRing(chunks[i])
          /\ Begin(chunks[i]) \in Pos
          /\ Dist(tail, Begin(chunks[i])) \in Nat
          /\ Length(chunks[i]) \in Nat
          /\ Dist(tail', Begin(chunks[i])) = Dist(tail, Begin(chunks[i])) - g
    <3> SUFFICES ASSUME NEW i \in 2..N
                 PROVE  /\ ChunkInRing(chunks[i])
                        /\ Begin(chunks[i]) \in Pos
                        /\ Dist(tail, Begin(chunks[i])) \in Nat
                        /\ Length(chunks[i]) \in Nat
                        /\ Dist(tail', Begin(chunks[i]))
                             = Dist(tail, Begin(chunks[i])) - g
      OBVIOUS
    <3>1. ChunkInRing(chunks[i])
      BY <1>3 DEF IInv, Layout
    <3>2. /\ Begin(chunks[i]) \in Pos /\ Length(chunks[i]) \in Nat
          /\ Dist(tail, Begin(chunks[i])) \in Nat
      BY <1>1, <3>1, ChunkFacts, DistRange
    <3>3. g <= Dist(tail, Begin(chunks[i]))
      BY <1>3, <1>4, <1>6, <3>2
    <3> QED
      BY <1>11, <3>1, <3>2, <3>3
  <2>2. Dist(tail', Begin(d)) = 0 /\ Dist(tail, Begin(c)) = 0
    BY <1>1, <1>3, <1>5, <1>8, DistRange
  <2>3. \A i \in 1..N : ChunkInRing(chunks'[i])
    BY <1>3, <1>8, <1>9, <2>1
  <2>4. \A i \in 1..N :
          Dist(tail', Begin(chunks'[i])) + Length(chunks'[i])
            = (Dist(tail, Begin(chunks[i])) + Length(chunks[i])) - g
    <3> SUFFICES ASSUME NEW i \in 1..N
                 PROVE  Dist(tail', Begin(chunks'[i])) + Length(chunks'[i])
                          = (Dist(tail, Begin(chunks[i])) + Length(chunks[i])) - g
      OBVIOUS
    <3>1. CASE i = 1
      BY <1>4, <1>6, <1>8, <1>9, <2>2, <3>1
    <3>2. CASE i \in 2..N
      BY <1>4, <1>9, <2>1, <3>2
    <3> QED
      BY <1>3, <3>1, <3>2
  <2>5. \A i \in 2..N : Dist(tail', Begin(chunks'[i]))
                          = Dist(tail, Begin(chunks[i])) - g
    BY <1>9, <2>1
  <2>6. \A i \in 1..N : /\ Dist(tail, Begin(chunks[i])) \in Nat
                        /\ Length(chunks[i]) \in Nat
    BY <1>3, <1>4, <1>6, <2>1, <2>2
  <2>7. Dist(tail', Begin(chunks'[N])) + Length(chunks'[N]) = Dist(tail', head)
    BY <1>2, <1>3, <1>12, <2>4 DEF IInv, Layout
  <2>8. \A i \in 1..N : i + 1 \in 1..N =>
          Dist(tail', Begin(chunks'[i])) + Length(chunks'[i])
            = Dist(tail', Begin(chunks'[i + 1]))
    <3> SUFFICES ASSUME NEW i \in 1..N, i + 1 \in 1..N
                 PROVE  Dist(tail', Begin(chunks'[i])) + Length(chunks'[i])
                          = Dist(tail', Begin(chunks'[i + 1]))
      OBVIOUS
    <3>1. i + 1 \in 2..N
      BY <1>3
    <3>2. Dist(tail, Begin(chunks[i])) + Length(chunks[i])
            = Dist(tail, Begin(chunks[i + 1]))
      BY <1>3 DEF IInv, Layout
    <3> QED
      BY <2>4, <2>5, <3>1, <3>2
  <2>9. \A i, j \in 1..N : i < j =>
          Dist(tail', Begin(chunks'[i])) + Length(chunks'[i])
            <= Dist(tail', Begin(chunks'[j]))
    <3> SUFFICES ASSUME NEW i \in 1..N, NEW j \in 1..N, i < j
                 PROVE  Dist(tail', Begin(chunks'[i])) + Length(chunks'[i])
                          <= Dist(tail', Begin(chunks'[j]))
      OBVIOUS
    <3>1. j \in 2..N
      BY <1>3
    <3>2. Dist(tail, Begin(chunks[i])) + Length(chunks[i])
            <= Dist(tail, Begin(chunks[j]))
      BY <1>3 DEF IInv, Layout
    <3> QED
      BY <1>4, <2>4, <2>5, <2>6, <3>1, <3>2
  <2>10. \A i \in 1..N : Dist(tail', Begin(chunks'[i])) + Length(chunks'[i])
                           <= Dist(tail', head)
    <3> SUFFICES ASSUME NEW i \in 1..N
                 PROVE  Dist(tail', Begin(chunks'[i])) + Length(chunks'[i])
                          <= Dist(tail', head)
      OBVIOUS
    <3>1. Dist(tail, Begin(chunks[i])) + Length(chunks[i]) <= Dist(tail, head)
      BY <1>3 DEF IInv, Layout
    <3> QED
      BY <1>4, <1>10, <1>12, <2>4, <2>6, <3>1
  <2>11. Begin(chunks'[1]) = tail'
    BY <1>5, <1>8, <1>9
  <2>12. head' = head /\ DOMAIN chunks' = 1..N /\ Len(chunks') = N
         /\ chunks' # <<>>
    BY <1>2, <1>9
  <2> HIDE DEF N, c, g
  <2>13. \A i \in DOMAIN chunks' : ChunkInRing(chunks'[i])
    BY <2>3, <2>12
  <2>14. /\ Begin(chunks'[1]) = tail'
         /\ Dist(tail', Begin(chunks'[Len(chunks')])) + Length(chunks'[Len(chunks')])
              = Dist(tail', head')
    BY <2>7, <2>11, <2>12
  <2>15. \A i \in DOMAIN chunks' : i + 1 \in DOMAIN chunks' =>
           Dist(tail', Begin(chunks'[i])) + Length(chunks'[i])
             = Dist(tail', Begin(chunks'[i + 1]))
    BY <2>8, <2>12
  <2>16. \A i, j \in DOMAIN chunks' : i < j =>
           Dist(tail', Begin(chunks'[i])) + Length(chunks'[i])
             <= Dist(tail', Begin(chunks'[j]))
    BY <2>9, <2>12
  <2>17. \A i \in DOMAIN chunks' :
           Dist(tail', Begin(chunks'[i])) + Length(chunks'[i])
             <= Dist(tail', head')
    BY <2>10, <2>12
  <2> QED
    BY <2>12, <2>13, <2>14, <2>15, <2>16, <2>17 DEF Layout
<1>15. Granted'
  BY <1>2, <1>4, <1>5, <1>10, <1>12, GrantedStays
<1>16. Memory'
  <2>1. Intact(buf, d)
    BY <1>3, <1>7 DEF Intact, InMemory
  <2>2. \A i \in 1..N : Intact(buf, chunks'[i])
    <3>1. \A i \in 2..N : Intact(buf, chunks[i])
      BY <1>3 DEF IInv, Memory
    <3>2. \A i \in 1..N : i = 1 \/ i \in 2..N
      BY <1>3
    <3> QED
      BY <1>9, <2>1, <3>1, <3>2
  <2>3. /\ ppc \in {"filled", "stamped"} =>
             \A p \in PayloadWords(Target, wlen) : buf[p] = Payload(wval)
        /\ ppc = "stamped" => /\ buf[Target] = Header(wlen, 0)
                              /\ gapd > 0 => buf[head].gap = 1
    BY DEF IInv, Memory
  <2>4. Target' = Target
    BY <1>2 DEF Target
  <2> QED
    BY <1>2, <1>9, <2>2, <2>3, <2>4 DEF Memory
<1>17. Reader'
  <2>1. buf[0].size = d.size
    BY <1>3, <1>4, <1>7 DEF Intact, InMemory, Header
  <2> QED
    BY <1>2, <1>4, <1>7, <1>9, <2>1 DEF Reader
<1> QED
  BY <1>13, <1>14, <1>15, <1>16, <1>17 DEF IInv

LEMMA ReadAdvanceStep ==
  ASSUME IInv, ReadAdvance
  PROVE  IInv'
<1> DEFINE c == chunks[1]
           N == Len(chunks)
           L == Length(c)
<1>1. /\ head \in Pos /\ tail \in Pos /\ buf \in [Pos -> Word]
      /\ chunks \in Seq(ChunkRecord)
  BY DEF IInv, TypeOK
<1>2. /\ cpc = "reading" /\ cpc' = "idle" /\ got' = Nowhere
      /\ tail' = Mask(tail + Hdr + Pad(buf[tail].size))
      /\ UNCHANGED <<head, buf, rsvd, gapd, ppc, wmin, wlen, wval>>
      /\ chunks # <<>>
      /\ chunks' = Tail(chunks)
  BY DEF ReadAdvance, producerVars, Rest, IInv, Reader
<1>3. /\ ChunkInRing(c) /\ Intact(buf, c) /\ Begin(c) = tail
      /\ L <= Dist(tail, head)
      /\ \A i \in 2..N : L <= Dist(tail, Begin(chunks[i]))
      /\ N \in Nat /\ N >= 1 /\ DOMAIN chunks = 1..N
  BY <1>2, OldestFacts
<1>4. L \in Nat /\ L % 8 = 0 /\ Begin(c) \in Pos /\ Pad(c.size) \in Nat
  BY <1>3, ChunkFacts, PadFacts DEF ChunkInRing
<1>5. tail' = Mask(tail + L)
  <2>1. c.gap = 0 /\ buf[tail].size = c.size
    BY <1>2, <1>3 DEF IInv, Reader, Begin, Intact, InMemory, Header
  <2>2. L = Hdr + Pad(c.size)
    BY <1>4, <2>1 DEF Length
  <2>3. tail \in Int
    BY <1>1, PosFacts
  <2> QED
    BY <1>2, <1>4, <2>1, <2>2, <2>3
<1>6. Dist(tail, head) \in Nat /\ Dist(tail, head) < Size /\ Size \in Nat
  BY <1>1, DistRange, SizeAssumption
<1> HIDE DEF L
<1>7. tail' \in Pos /\ (tail' = tail + L \/ tail' = tail + L - Size)
  BY <1>1, <1>3, <1>4, <1>5, <1>6, MaskPos
<1>8. \A p \in Pos : L <= Dist(tail, p) => Dist(tail', p) = Dist(tail, p) - L
  <2> SUFFICES ASSUME NEW p \in Pos, L <= Dist(tail, p)
               PROVE  Dist(tail', p) = Dist(tail, p) - L
    OBVIOUS
  <2>1. Dist(tail, p) \in Nat /\ Dist(tail, p) < Size
    BY <1>1, DistRange
  <2>2. L < Size
    BY <1>4, <1>6, <2>1
  <2> QED
    BY <1>1, <1>4, <1>7, <2>2, DistTail
<1>9. Dist(tail', head) = Dist(tail, head) - L
  BY <1>1, <1>3, <1>8
<1>10. /\ DOMAIN chunks' = 1..(N - 1) /\ Len(chunks') = N - 1
       /\ chunks' = <<>> <=> N = 1
       /\ \A i \in 1..(N - 1) : i + 1 \in 2..N /\ chunks'[i] = chunks[i + 1]
       /\ chunks' \in Seq(ChunkRecord)
  <2>1. /\ chunks' \in Seq(ChunkRecord)
        /\ Len(chunks') = N - 1
        /\ \A i \in 1..(N - 1) : chunks'[i] = chunks[i + 1]
    BY <1>1, <1>2
  <2>2. DOMAIN chunks' = 1..(N - 1) /\ (chunks' = <<>> <=> N = 1)
    BY <1>3, <2>1
  <2>3. \A i \in 1..(N - 1) : i + 1 \in 2..N
    BY <1>3
  <2> QED
    BY <2>1, <2>2, <2>3
<1> HIDE DEF N
<1>11. TypeOK'
  <2>1. Nowhere \in [pos : Pos, size : Nat]
    BY SizeAssumption DEF Nowhere, Pos
  <2> QED
    BY <1>2, <1>7, <1>10, <2>1 DEF IInv, TypeOK
<1>12. Layout'
  <2>1. \A i \in 2..N :
          /\ ChunkInRing(chunks[i])
          /\ Begin(chunks[i]) \in Pos
          /\ Dist(tail, Begin(chunks[i])) \in Nat
          /\ Length(chunks[i]) \in Nat
          /\ Dist(tail', Begin(chunks[i])) = Dist(tail, Begin(chunks[i])) - L
    <3> SUFFICES ASSUME NEW i \in 2..N
                 PROVE  /\ ChunkInRing(chunks[i])
                        /\ Begin(chunks[i]) \in Pos
                        /\ Dist(tail, Begin(chunks[i])) \in Nat
                        /\ Length(chunks[i]) \in Nat
                        /\ Dist(tail', Begin(chunks[i]))
                             = Dist(tail, Begin(chunks[i])) - L
      OBVIOUS
    <3>1. ChunkInRing(chunks[i])
      BY <1>3 DEF IInv, Layout
    <3>2. /\ Begin(chunks[i]) \in Pos /\ Length(chunks[i]) \in Nat
          /\ Dist(tail, Begin(chunks[i])) \in Nat
      BY <1>1, <3>1, ChunkFacts, DistRange
    <3> QED
      BY <1>3, <1>8, <3>1, <3>2
  <2>2. \A i \in 1..(N - 1) :
          /\ ChunkInRing(chunks'[i])
          /\ Dist(tail', Begin(chunks'[i]))
               = Dist(tail, Begin(chunks[i + 1])) - L
          /\ Length(chunks'[i]) = Length(chunks[i + 1])
          /\ Dist(tail, Begin(chunks[i + 1])) \in Nat
          /\ Length(chunks[i + 1]) \in Nat
    BY <1>10, <2>1
  <2>3. Dist(tail, Begin(chunks[N])) + Length(chunks[N]) = Dist(tail, head)
    BY <1>2 DEF IInv, Layout, N
  <2>4. Dist(tail, Begin(chunks[1])) = 0
    BY <1>1, <1>3, DistRange
  <2>5. CASE N = 1
    <3>1. Dist(tail', head) = 0
      BY <1>4, <1>6, <1>9, <2>3, <2>4, <2>5 DEF L
    <3>2. head' = tail'
      BY <1>1, <1>2, <1>7, <3>1, DistRange
    <3>3. chunks' = <<>> /\ DOMAIN chunks' = {}
      BY <1>10, <2>5
    <3> QED
      BY <3>2, <3>3 DEF Layout
  <2>6. CASE N > 1
    <3>1. 1 \in 1..(N - 1) /\ N - 1 \in 1..(N - 1) /\ 2 \in 1..N /\ 1 \in 1..N
      BY <1>3, <2>6
    <3>2. Begin(chunks'[1]) = tail'
      <4>1. Dist(tail, Begin(chunks[1])) + Length(chunks[1])
              = Dist(tail, Begin(chunks[1 + 1]))
        BY <1>3, <3>1 DEF IInv, Layout
      <4>2. Dist(tail', Begin(chunks'[1])) = 0
        <5>1. /\ Dist(tail', Begin(chunks'[1]))
                   = Dist(tail, Begin(chunks[1 + 1])) - L
              /\ Dist(tail, Begin(chunks[1 + 1])) \in Nat
          BY <2>2, <3>1
        <5>2. Dist(tail, Begin(chunks[1 + 1])) = L
          BY <1>4, <2>4, <4>1 DEF L
        <5> QED
          BY <1>4, <5>1, <5>2
      <4>3. Begin(chunks'[1]) \in Pos
        BY <2>2, <3>1, ChunkFacts
      <4> QED
        BY <1>7, <4>2, <4>3, DistRange
    <3>3. Dist(tail', Begin(chunks'[N - 1])) + Length(chunks'[N - 1])
            = Dist(tail', head)
      <4>1. (N - 1) + 1 = N
        BY <1>3
      <4> QED
        BY <1>4, <1>6, <1>9, <2>2, <2>3, <3>1, <4>1
    <3>4. \A i \in 1..(N - 1) : i + 1 \in 1..(N - 1) =>
            Dist(tail', Begin(chunks'[i])) + Length(chunks'[i])
              = Dist(tail', Begin(chunks'[i + 1]))
      <4> SUFFICES ASSUME NEW i \in 1..(N - 1), i + 1 \in 1..(N - 1)
                   PROVE  Dist(tail', Begin(chunks'[i])) + Length(chunks'[i])
                            = Dist(tail', Begin(chunks'[i + 1]))
        OBVIOUS
      <4>1. i + 1 \in 1..N /\ (i + 1) + 1 \in 1..N
        BY <1>3
      <4>2. Dist(tail, Begin(chunks[i + 1])) + Length(chunks[i + 1])
              = Dist(tail, Begin(chunks[(i + 1) + 1]))
        BY <1>3, <4>1 DEF IInv, Layout
      <4> QED
        BY <1>4, <2>2, <4>2
    <3>5. \A i, j \in 1..(N - 1) : i < j =>
            Dist(tail', Begin(chunks'[i])) + Length(chunks'[i])
              <= Dist(tail', Begin(chunks'[j]))
      <4> SUFFICES ASSUME NEW i \in 1..(N - 1), NEW j \in 1..(N - 1), i < j
                   PROVE  Dist(tail', Begin(chunks'[i])) + Length(chunks'[i])
                            <= Dist(tail', Begin(chunks'[j]))
        OBVIOUS
      <4>1. i + 1 \in 1..N /\ j + 1 \in 1..N /\ i + 1 < j + 1
        BY <1>3
      <4>2. Dist(tail, Begin(chunks[i + 1])) + Length(chunks[i + 1])
              <= Dist(tail, Begin(chunks[j + 1]))
        BY <1>3, <4>1 DEF IInv, Layout
      <4> QED
        BY <1>4, <2>2, <4>2
    <3>6. \A i \in 1..(N - 1) :
            Dist(tail', Begin(chunks'[i])) + Length(chunks'[i])
              <= Dist(tail', head)
      <4> SUFFICES ASSUME NEW i \in 1..(N - 1)
                   PROVE  Dist(tail', Begin(chunks'[i])) + Length(chunks'[i])
                            <= Dist(tail', head)
        OBVIOUS
      <4>1. i + 1 \in 1..N
        BY <1>3
      <4>2. Dist(tail, Begin(chunks[i + 1])) + Length(chunks[i + 1])
              <= Dist(tail, head)
        BY <1>3, <4>1 DEF IInv, Layout
      <4> QED
        BY <1>4, <1>6, <1>9, <2>2, <4>2
    <3>7. chunks' # <<>> /\ Len(chunks') = N - 1 /\ head' = head
      BY <1>2, <1>10, <2>6
    <3> QED
      BY <1>10, <2>2, <3>2, <3>3, <3>4, <3>5, <3>6, <3>7 DEF Layout
  <2> QED
    BY <1>3, <2>5, <2>6
<1>13. Granted'
  BY <1>2, <1>3, <1>4, <1>7, GrantedStays
<1>14. Memory'
  <2>1. \A i \in 1..(N - 1) : Intact(buf, chunks'[i])
    <3>1. \A i \in 2..N : Intact(buf, chunks[i])
      BY <1>3 DEF IInv, Memory
    <3> QED
      BY <1>10, <3>1
  <2>2. Target' = Target
    BY <1>2 DEF Target
  <2> QED
    BY <1>2, <1>10, <2>1, <2>2 DEF IInv, Memory
<1>15. Reader'
  BY <1>2 DEF Reader
<1> QED
  BY <1>11, <1>12, <1>13, <1>14, <1>15 DEF IInv

-----------------------------------------------------------------------------
(* The theorems.                                                           *)

LEMMA Stuttering ==
  ASSUME IInv, UNCHANGED vars
  PROVE  IInv'
<1>1. UNCHANGED <<head, tail, buf, rsvd, gapd, ppc, wmin, wlen, wval,
                  cpc, got, chunks>>
  BY DEF vars, producerVars, consumerVars
<1>2. Target' = Target
  BY <1>1 DEF Target
<1> QED
  BY <1>1, <1>2 DEF IInv, TypeOK, Layout, Granted, Memory, Reader

LEMMA Inductive ==
  ASSUME ~FillMax, IInv, [Next]_vars
  PROVE  IInv'
<1>1. ASSUME NEW n \in Requests, WriteRequest(n) PROVE IInv'
  BY <1>1, WriteRequestStep
<1>2. ASSUME NEW n \in Lengths, NEW v \in Values, WritePayload(n, v) PROVE IInv'
  BY <1>2, WritePayloadStep
<1>3. CASE WriteHeader
  BY <1>3, WriteHeaderStep
<1>4. CASE StoreHead
  BY <1>4, StoreHeadStep
<1>5. CASE WriteAbandon
  BY <1>5, WriteAbandonStep
<1>6. CASE ReadRequest
  BY <1>6, ReadRequestStep
<1>7. CASE SkipGap
  BY <1>7, SkipGapStep
<1>8. CASE ReadAdvance
  BY <1>8, ReadAdvanceStep
<1>9. CASE ReadAbandon
  BY <1>9, ReadAbandonStep
<1>10. CASE UNCHANGED vars
  BY <1>10, Stuttering
<1> QED
  BY <1>1, <1>2, <1>3, <1>4, <1>5, <1>6, <1>7, <1>8, <1>9, <1>10
     DEF Next, Producer, Consumer

\* The ring's layout, memory and clients are as IInv says in every state.
THEOREM Invariance ==
  ASSUME ~FillMax
  PROVE  Spec => []IInv
<1>1. Init => IInv
  BY InitIInv
<1>2. IInv /\ [Next]_vars => IInv'
  BY Inductive
<1> QED
  BY <1>1, <1>2, PTL DEF Spec

\* Type correctness: the cursors stay on word boundaries inside the ring
\* (varchunk.h:170-172, 299-301).
THEOREM TypeCorrect ==
  ASSUME ~FillMax
  PROVE  Spec => []TypeOK
<1>1. IInv => TypeOK
  BY DEF IInv
<1> QED
  BY <1>1, Invariance, PTL

\* A producer that keeps to its minimum writes inside the buffer and clear of
\* every chunk that is still to be read (varchunk.h:184-294).
THEOREM WriterStaysClear ==
  ASSUME ~FillMax
  PROVE  Spec => []WriterClear
<1>1. IInv => WriterClear
  <2> SUFFICES ASSUME IInv, ppc # "idle"
               PROVE  LET n == IF ppc = "granted" THEN wmin ELSE wlen
                      IN  /\ Target + Hdr + Pad(n) <= Size
                          /\ \A i \in DOMAIN chunks :
                               Footprint(Pending(n)) \cap Footprint(chunks[i]) = {}
    BY DEF WriterClear
  <2> DEFINE n == IF ppc = "granted" THEN wmin ELSE wlen
  <2>1. n \in Nat /\ n <= wmin
    BY DEF IInv, TypeOK, Granted
  <2> HIDE DEF n
  <2>2. Target + Hdr + Pad(n) <= Size
    BY <2>1, PendingInRing DEF ChunkInRing, Pending
  <2>3. \A i \in DOMAIN chunks :
          Footprint(Pending(n)) \cap Footprint(chunks[i]) = {}
    BY <2>1, Clear
  <2> QED
    BY <2>2, <2>3 DEF n
<1> QED
  BY <1>1, Invariance, PTL

\* What a consumer holds is the oldest chunk, complete and unchanged
\* (varchunk.h:304-376).
THEOREM ConsumerReadsOldest ==
  ASSUME ~FillMax
  PROVE  Spec => []ReadsOldest
<1>1. IInv => ReadsOldest
  <2> SUFFICES ASSUME IInv, cpc = "reading"
               PROVE  /\ chunks # <<>>
                      /\ got = [pos |-> chunks[1].pos, size |-> chunks[1].size]
                      /\ tail = got.pos
                      /\ InMemory(buf, chunks[1])
    BY DEF ReadsOldest
  <2>1. /\ chunks # <<>> /\ chunks[1].gap = 0
        /\ got = [pos |-> chunks[1].pos, size |-> chunks[1].size]
    BY DEF IInv, Reader
  <2> QED
    BY <2>1, OldestFacts DEF Begin, Intact
<1> QED
  BY <1>1, Invariance, PTL

\* Once it is empty the ring grants every request that needs at most half of
\* it, wherever its cursors are (varchunk.h:191-252).
THEOREM EmptyRingGrants ==
  ASSUME ~FillMax
  PROVE  Spec => []EmptyRingAccepts
<1>1. TypeOK => EmptyRingAccepts
  <2> SUFFICES ASSUME TypeOK, head = tail, NEW n \in Requests,
                      Padded(n) <= Size \div 2
               PROVE  Answer(n, head, head).ok
    BY DEF EmptyRingAccepts
  <2>1. /\ head \in Int /\ 0 <= head /\ head < Size /\ head % 8 = 0
        /\ Size \in Nat /\ Pad(n) \in Nat /\ Pad(n) % 8 = 0
    BY RequestsAssumption, PosFacts, PadFacts, SizeAssumption DEF TypeOK
  <2>2. WriteSpace(head, head) = Size - 1
    BY <2>1 DEF WriteSpace
  <2>3. Padded(n) = 16 + Pad(n) /\ 2 * Padded(n) <= Size
    BY <2>1 DEF Padded
  <2>4. CASE head + (Size - 1) > Size /\ Size - head >= Padded(n)
    BY <2>2, <2>4 DEF Answer
  <2>5. CASE head + (Size - 1) > Size /\ ~(Size - head >= Padded(n))
    <3>1. head + (Size - 1) \in Size..(2 * Size - 1)
      BY <2>1, <2>5
    <3>2. Mask(head + (Size - 1)) = head - 1
      BY <2>1, <3>1, MaskFacts
    <3>3. head - 1 >= Padded(n)
      BY <2>1, <2>3, <2>5
    <3> QED
      BY <2>2, <2>5, <3>2, <3>3 DEF Answer
  <2>6. CASE ~(head + (Size - 1) > Size)
    BY <2>1, <2>2, <2>3, <2>6, SizeAssumption DEF Answer
  <2> QED
    BY <2>4, <2>5, <2>6
<1> QED
  BY <1>1, TypeCorrect, PTL

-----------------------------------------------------------------------------
(* The ring implements the queue of ChunkQueue.                            *)

\* Chunks as their reader sees them, of any size.
SeenChunk == [size : Nat, val : Values \cup {Blank}]

\* The published chunks are a sequence, one entry for each chunk.
LEMMA PublishedFacts ==
  ASSUME IInv
  PROVE  /\ Len(Published) = Len(chunks)
         /\ Published \in Seq(SeenChunk)
         /\ \A i \in 1..Len(chunks) :
              Published[i] = Seen(chunks[i].size, chunks[i].val)
<1>1. chunks \in Seq(ChunkRecord)
  BY DEF IInv, TypeOK
<1>2. \A i \in 1..Len(chunks) :
        Seen(chunks[i].size, chunks[i].val) \in SeenChunk
  <2> SUFFICES ASSUME NEW i \in 1..Len(chunks)
               PROVE  Seen(chunks[i].size, chunks[i].val)
                        \in SeenChunk
    OBVIOUS
  <2>1. chunks[i] \in ChunkRecord
    BY <1>1
  <2> QED
    BY <2>1 DEF ChunkRecord, Seen, SeenChunk
<1>3. Len(chunks) \in Nat /\ DOMAIN chunks = 1..Len(chunks)
  BY <1>1
<1>4. Published \in [1..Len(chunks) -> SeenChunk]
  BY <1>2, <1>3 DEF Published
<1>5. Published \in Seq(SeenChunk)
  BY <1>3, <1>4, SeqDef
<1>6. Len(Published) = Len(chunks)
  BY <1>3, <1>4, <1>5, LenProperties
<1> QED
  BY <1>3, <1>5, <1>6 DEF Published

\* The first word of a payload is in memory behind its header.
LEMMA FirstWord ==
  ASSUME NEW c, ChunkInRing(c), InMemory(buf, c), c.size # 0
  PROVE  buf[c.pos + Hdr].val = c.val
<1>1. /\ c.pos \in Pos /\ c.size \in Nat /\ c.size <= Pad(c.size)
      /\ Pad(c.size) \in Nat /\ c.pos + Hdr + Pad(c.size) <= Size
  BY PadFacts DEF ChunkInRing
<1>2. /\ c.pos \in Int /\ 0 <= c.pos /\ c.pos % 8 = 0 /\ Size \in Nat
  BY <1>1, PosFacts, SizeAssumption
<1>3. (c.pos + 8) % 8 = 0
  BY <1>2, WholeWords, Zenon
<1>4. Pad(c.size) > 0
  BY <1>1
<1>5. c.pos + Hdr \in Pos
  <2>1. c.pos + 8 \in 0..(Size - 1)
    BY <1>1, <1>2, <1>4
  <2> QED
    BY <1>3, <2>1 DEF Pos
<1>6. c.pos + Hdr \in PayloadWords(c.pos, c.size)
  BY <1>1, <1>2, <1>4, <1>5 DEF PayloadWords
<1> QED
  BY <1>6 DEF InMemory, Payload

\* What the consumer finds in front of it in memory is the oldest chunk.
LEMMA FrontIsOldest ==
  ASSUME IInv, cpc = "reading"
  PROVE  /\ chunks # <<>>
         /\ InFront = Seen(chunks[1].size, chunks[1].val)
<1> DEFINE c == chunks[1]
<1>1. chunks # <<>> /\ got = [pos |-> c.pos, size |-> c.size]
  BY DEF IInv, Reader
<1>2. ChunkInRing(c) /\ InMemory(buf, c)
  BY <1>1, OldestFacts DEF Intact
<1>3. c.size # 0 => buf[c.pos + Hdr].val = c.val
  BY <1>2, FirstWord
<1> QED
  BY <1>1, <1>3 DEF InFront, Seen


\* What is in front of the consumer is a chunk only while it reads one, and
\* then it is the oldest.
FrontOldest ==
  /\ cpc # "reading" => InFront = NoChunk
  /\ cpc = "reading" => /\ InFront # NoChunk
                        /\ Published # <<>>
                        /\ InFront = Head(Published)
                        /\ InFront = Published[1]

\* The published chunks, as the queue has them, are those of the history.
PublishedChunks ==
  /\ Len(Published) = Len(chunks)
  /\ Published \in Seq(SeenChunk)
  /\ \A i \in 1..Len(chunks) :
       Published[i] = Seen(chunks[i].size, chunks[i].val)

LEMMA FrontFacts == IInv => FrontOldest /\ PublishedChunks
<1> SUFFICES ASSUME IInv PROVE FrontOldest /\ PublishedChunks
  OBVIOUS
<1>1. cpc # "reading" => InFront = NoChunk
  BY DEF InFront
<1>2. ASSUME cpc = "reading"
      PROVE  /\ InFront # NoChunk /\ Published # <<>>
             /\ InFront = Head(Published) /\ InFront = Published[1]
  <2>1. chunks # <<>> /\ InFront = Seen(chunks[1].size, chunks[1].val)
    BY <1>2, FrontIsOldest
  <2>2. 1 \in 1..Len(chunks) /\ ChunkInRing(chunks[1])
    BY <2>1, OldestFacts
  <2>3. Published # <<>> /\ InFront = Published[1] /\ InFront = Head(Published)
    BY <2>1, <2>2, PublishedFacts
  <2>4. Seen(chunks[1].size, chunks[1].val).size \in Nat
    BY <2>2 DEF Seen, ChunkInRing
  <2>5. NoChunk.size = -1
    BY DEF NoChunk
  <2> QED
    BY <2>1, <2>3, <2>4, <2>5
<1> QED
  BY <1>1, <1>2, PublishedFacts DEF FrontOldest, PublishedChunks

\* The same of the state a step leads to.
LEMMA FrontFactsAfter ==
  ASSUME IInv'
  PROVE  FrontOldest' /\ PublishedChunks'
BY FrontFacts, PTL

\* Steps that publish and consume nothing leave the queue alone.
LEMMA SameQueue ==
  ASSUME IInv, IInv', UNCHANGED chunks
  PROVE  Published' = Published
BY DEF Published

LEMMA SameFront ==
  ASSUME IInv, IInv', UNCHANGED cpc, Published # <<>> => Published'[1] = Published[1]
  PROVE  InFront' = InFront
BY FrontFacts, FrontFactsAfter DEF FrontOldest

-----------------------------------------------------------------------------

LEMMA InitQueue == Init => Queue!Init
<1> SUFFICES ASSUME Init PROVE Queue!Init
  OBVIOUS
<1>1. chunks = <<>> /\ cpc = "idle"
  BY DEF Init
<1>2. Published = <<>>
  BY <1>1, InitIInv, PublishedFacts, EmptySeq
<1> QED
  BY <1>1, <1>2 DEF Queue!Init, InFront

\* Publishing a chunk puts it into the queue, behind all others.
LEMMA StoreHeadPuts ==
  ASSUME ~FillMax, IInv, IInv', StoreHead
  PROVE  Queue!Put
<1> DEFINE x == Seen(wlen, wval)
<1>1. /\ ppc = "stamped" /\ chunks' = Append(chunks, Pending(wlen))
      /\ UNCHANGED cpc
  BY DEF StoreHead, consumerVars
<1>2. /\ chunks \in Seq(ChunkRecord) /\ wlen \in Nat
      /\ wval \in Values \cup {Blank}
  BY DEF IInv, TypeOK
<1>3. wlen \in Requests
  BY <1>1 DEF IInv, Granted
<1>4. /\ Pending(wlen).size = wlen /\ Pending(wlen).val = wval
      /\ x \in SeenChunk /\ x \in [size : Requests, val : Values \cup {Blank}]
  BY <1>2, <1>3 DEF Pending, Seen, SeenChunk
<1>5. PublishedChunks /\ PublishedChunks'
  BY FrontFacts, FrontFactsAfter
<1>6. Published' = Append(Published, x)
  <2> DEFINE N == Len(chunks)
             s == Append(Published, x)
  <2>1. /\ N \in Nat /\ Len(chunks') = N + 1
        /\ chunks'[N + 1] = Pending(wlen)
        /\ \A i \in 1..N : chunks'[i] = chunks[i]
    BY <1>1, <1>2
  <2>2. /\ s \in Seq(SeenChunk) /\ Len(s) = N + 1 /\ s[N + 1] = x
        /\ \A i \in 1..N : s[i] = Published[i]
    BY <1>4, <1>5, <2>1 DEF PublishedChunks
  <2>3. /\ Published' \in Seq(SeenChunk) /\ Len(Published') = N + 1
        /\ \A i \in 1..(N + 1) :
             Published'[i] = Seen(chunks'[i].size, chunks'[i].val)
    BY <1>5, <2>1 DEF PublishedChunks
  <2> HIDE DEF s, x, N
  <2>4. \A i \in 1..(N + 1) : Published'[i] = s[i]
    <3> SUFFICES ASSUME NEW i \in 1..(N + 1) PROVE Published'[i] = s[i]
      OBVIOUS
    <3>1. CASE i = N + 1
      BY <1>4, <2>1, <2>2, <2>3, <3>1 DEF x
    <3>2. CASE i \in 1..N
      BY <1>5, <2>1, <2>2, <2>3, <3>2 DEF PublishedChunks, N
    <3> QED
      BY <2>1, <3>1, <3>2
  <2>5. Published' = s
    BY <2>2, <2>3, <2>4, SeqEqual
  <2> QED
    BY <2>5 DEF s
<1>7. InFront' = InFront
  <2>1. Published # <<>> => Published'[1] = Published[1]
    BY <1>4, <1>5, <1>6 DEF PublishedChunks
  <2> QED
    BY <1>1, <2>1, SameFront
<1> QED
  BY <1>4, <1>6, <1>7 DEF Queue!Put

\* The producer's other steps are none of the queue's.
LEMMA ProducerStutters ==
  ASSUME IInv, IInv', UNCHANGED <<cpc, chunks>>
  PROVE  UNCHANGED Queue!vars
<1>1. Published' = Published
  BY SameQueue
<1>2. InFront' = InFront
  BY <1>1, SameFront
<1> QED
  BY <1>1, <1>2 DEF Queue!vars

\* Finding an element is the queue's Peek, finding a gap none of its steps.
LEMMA ReadRequestPeeks ==
  ASSUME IInv, IInv', ReadRequest
  PROVE  Queue!Peek \/ UNCHANGED Queue!vars
<1>1. cpc = "idle" /\ cpc' \in {"skip", "reading"} /\ UNCHANGED chunks
  BY DEF ReadRequest
<1>2. Published' = Published
  BY <1>1, SameQueue
<1>3. FrontOldest /\ FrontOldest'
  BY FrontFacts, FrontFactsAfter
<1>4. CASE cpc' = "reading"
  BY <1>1, <1>2, <1>3, <1>4 DEF FrontOldest, Queue!Peek
<1>5. CASE cpc' = "skip"
  BY <1>1, <1>2, <1>3, <1>5 DEF FrontOldest, Queue!vars
<1> QED
  BY <1>1, <1>4, <1>5

\* Skipping the gap brings the element behind it in front.
LEMMA SkipGapPeeks ==
  ASSUME IInv, IInv', SkipGap
  PROVE  Queue!Peek
<1>1. /\ cpc = "skip" /\ cpc' = "reading" /\ chunks # <<>>
      /\ chunks' = [chunks EXCEPT ![1].gap = 0]
  BY DEF SkipGap, NoGap, IInv, Reader
<1>2. /\ chunks \in Seq(ChunkRecord) /\ Len(chunks) \in Nat
      /\ DOMAIN chunks = 1..Len(chunks)
  BY DEF IInv, TypeOK
<1>3. FrontOldest /\ FrontOldest' /\ PublishedChunks /\ PublishedChunks'
  BY FrontFacts, FrontFactsAfter
<1>4. /\ Len(chunks') = Len(chunks)
      /\ \A i \in 1..Len(chunks) : /\ chunks'[i].size = chunks[i].size
                                   /\ chunks'[i].val = chunks[i].val
  <2>1. \A i \in 1..Len(chunks) : chunks[i] \in ChunkRecord
    BY <1>2
  <2>2. [chunks[1] EXCEPT !.gap = 0].size = chunks[1].size
        /\ [chunks[1] EXCEPT !.gap = 0].val = chunks[1].val
    <3>1. 1 \in 1..Len(chunks)
      BY <1>1, <1>2
    <3> QED
      BY <2>1, <3>1 DEF ChunkRecord
  <2> QED
    BY <1>1, <1>2, <2>2
<1>5. \A i \in 1..Len(chunks) : Published'[i] = Published[i]
  BY <1>3, <1>4 DEF PublishedChunks
<1>6. Published' = Published
  <2>1. Len(Published') = Len(Published)
    BY <1>3, <1>4 DEF PublishedChunks
  <2> QED
    BY <1>3, <1>5, <2>1, SeqEqual DEF PublishedChunks
<1> QED
  BY <1>1, <1>3, <1>6 DEF FrontOldest, Queue!Peek

\* Advancing drops the chunk that was read.
LEMMA ReadAdvanceDrops ==
  ASSUME IInv, IInv', ReadAdvance
  PROVE  Queue!Drop
<1>1. /\ cpc = "reading" /\ cpc' = "idle" /\ chunks # <<>>
      /\ chunks' = Tail(chunks)
  BY DEF ReadAdvance, Rest, IInv, Reader
<1>2. chunks \in Seq(ChunkRecord)
  BY DEF IInv, TypeOK
<1>3. FrontOldest /\ FrontOldest' /\ PublishedChunks /\ PublishedChunks'
  BY FrontFacts, FrontFactsAfter
<1>4. Published' = Tail(Published)
  <2> DEFINE N == Len(chunks)
             s == Tail(Published)
  <2>1. /\ N \in Nat /\ N >= 1 /\ Len(chunks') = N - 1
        /\ \A i \in 1..(N - 1) : chunks'[i] = chunks[i + 1]
    BY <1>1, <1>2, HeadTailProperties
  <2>2. /\ s \in Seq(SeenChunk) /\ Len(s) = N - 1
        /\ \A i \in 1..(N - 1) : s[i] = Published[i + 1]
    BY <1>1, <1>3, HeadTailProperties DEF FrontOldest, PublishedChunks
  <2>3. /\ Published' \in Seq(SeenChunk) /\ Len(Published') = N - 1
        /\ \A i \in 1..(N - 1) :
             Published'[i] = Seen(chunks'[i].size, chunks'[i].val)
    BY <1>3, <2>1 DEF PublishedChunks
  <2>4. \A i \in 1..(N - 1) :
          Published[i + 1] = Seen(chunks[i + 1].size, chunks[i + 1].val)
    <3>1. \A i \in 1..(N - 1) : i + 1 \in 1..N
      BY <2>1
    <3> QED
      BY <1>3, <3>1 DEF PublishedChunks
  <2> HIDE DEF s, N
  <2>5. \A i \in 1..(N - 1) : Published'[i] = s[i]
    BY <2>1, <2>2, <2>3, <2>4
  <2>6. Published' = s
    BY <2>2, <2>3, <2>5, SeqEqual
  <2> QED
    BY <2>6 DEF s
<1> QED
  BY <1>1, <1>3, <1>4 DEF FrontOldest, Queue!Drop

\* Abandoning leaves it where it was.
LEMMA ReadAbandonLeaves ==
  ASSUME IInv, IInv', ReadAbandon
  PROVE  Queue!Leave
<1>1. cpc = "reading" /\ cpc' = "idle" /\ UNCHANGED chunks
  BY DEF ReadAbandon
<1>2. Published' = Published
  BY <1>1, SameQueue
<1>3. FrontOldest /\ FrontOldest'
  BY FrontFacts, FrontFactsAfter
<1> QED
  BY <1>1, <1>2, <1>3 DEF FrontOldest, Queue!Leave

\* The ring of producers that keep to their minimum implements the queue
\* (varchunk.h:175-376).
THEOREM Refinement ==
  ASSUME ~FillMax
  PROVE  Spec => ImplementsQueue
<1>1. Init => Queue!Init
  BY InitQueue
<1>2. IInv /\ IInv' /\ [Next]_vars => [Queue!Next]_(Queue!vars)
  <2> SUFFICES ASSUME IInv, IInv', [Next]_vars
               PROVE  Queue!Next \/ UNCHANGED Queue!vars
    OBVIOUS
  <2>1. ASSUME NEW n \in Requests, WriteRequest(n) PROVE UNCHANGED Queue!vars
    BY <2>1, ProducerStutters DEF WriteRequest, consumerVars
  <2>2. ASSUME NEW n \in Lengths, NEW v \in Values, WritePayload(n, v)
        PROVE  UNCHANGED Queue!vars
    BY <2>2, ProducerStutters DEF WritePayload, consumerVars
  <2>3. CASE WriteHeader
    BY <2>3, ProducerStutters DEF WriteHeader, consumerVars
  <2>4. CASE StoreHead
    BY <2>4, StoreHeadPuts DEF Queue!Next
  <2>5. CASE WriteAbandon
    BY <2>5, ProducerStutters DEF WriteAbandon, consumerVars
  <2>6. CASE ReadRequest
    BY <2>6, ReadRequestPeeks DEF Queue!Next
  <2>7. CASE SkipGap
    BY <2>7, SkipGapPeeks DEF Queue!Next
  <2>8. CASE ReadAdvance
    BY <2>8, ReadAdvanceDrops DEF Queue!Next
  <2>9. CASE ReadAbandon
    BY <2>9, ReadAbandonLeaves DEF Queue!Next
  <2>10. CASE UNCHANGED vars
    BY <2>10, ProducerStutters DEF vars, consumerVars
  <2> QED
    BY <2>1, <2>2, <2>3, <2>4, <2>5, <2>6, <2>7, <2>8, <2>9, <2>10
       DEF Next, Producer, Consumer
<1> QED
  BY <1>1, <1>2, Invariance, PTL DEF Spec, ImplementsQueue, Queue!Spec

-----------------------------------------------------------------------------
(* The memory from the tail to the head is the published chunks.           *)

\* A set of naturals has a least member.
LEMMA Least ==
  ASSUME NEW T, T \subseteq Nat, T # {}
  PROVE  \E x \in T : \A y \in T : x <= y
<1> DEFINE R == OpToRel(<, Nat)
<1>1. IsWellFoundedOn(R, Nat)
  BY NatLessThanWellFounded
<1>2. \A x, y \in Nat : x < y => <<x, y>> \in R
  BY DEF OpToRel
<1> HIDE DEF R
<1>3. PICK x \in T : \A y \in T : ~(<<y, x>> \in R)
  BY <1>1, WFMin
<1>4. ASSUME NEW y \in T PROVE x <= y
  <2>1. x \in Nat /\ y \in Nat /\ ~(y < x)
    BY <1>2, <1>3
  <2> QED
    BY <2>1
<1> QED
  BY <1>4

\* What holds of 0 and goes on from n to n + 1 holds of all naturals.
LEMMA Induction ==
  ASSUME NEW T, 0 \in T, \A n \in Nat : n \in T => n + 1 \in T
  PROVE  \A n \in Nat : n \in T
<1> SUFFICES ASSUME NEW n \in Nat, n \notin T PROVE FALSE
  OBVIOUS
<1> DEFINE B == {k \in Nat : k \notin T}
<1>1. PICK x \in B : \A y \in B : x <= y
  <2>1. B \subseteq Nat /\ B # {}
    OBVIOUS
  <2> HIDE DEF B
  <2> QED
    BY <2>1, Least
<1>2. x # 0 /\ x \in Nat
  OBVIOUS
<1>3. x - 1 \in Nat /\ x - 1 \notin B
  BY <1>1, <1>2
<1> QED
  BY <1>2, <1>3

\* The function of Contents, over n looks.
Start == [pos |-> tail, seen |-> <<>>]
Walk(g, n) == g = [k \in 0..n |-> IF k = 0 THEN Start ELSE Look(g[k - 1])]

\* There is such a function.
LEMMA WalkExists == \A n \in Nat : \E g : Walk(g, n)
<1> DEFINE T == {n \in Nat : \E g : Walk(g, n)}
<1>1. 0 \in T
  <2>1. PICK g : g = [k \in 0..0 |-> Start]
    OBVIOUS
  <2>2. g = [k \in 0..0 |-> IF k = 0 THEN Start ELSE Look(g[k - 1])]
    BY <2>1
  <2> QED
    BY <2>2 DEF Walk
<1>2. ASSUME NEW n \in Nat, n \in T PROVE n + 1 \in T
  <2>1. PICK g : Walk(g, n)
    BY <1>2
  <2>2. PICK h : h = [k \in 0..(n + 1) |-> IF k = n + 1 THEN Look(g[n]) ELSE g[k]]
    OBVIOUS
  <2>3. ASSUME NEW k \in 0..(n + 1) PROVE h[k] = IF k = 0 THEN Start ELSE Look(h[k - 1])
    <3>1. CASE k = n + 1
      <4>1. k # 0 /\ k - 1 = n /\ n \in 0..(n + 1) /\ n # n + 1
        BY <3>1
      <4>2. h[k] = Look(g[n]) /\ h[n] = g[n]
        BY <2>2, <3>1, <4>1
      <4> QED
        BY <4>1, <4>2
    <3>2. CASE k # n + 1
      <4>1. k \in 0..n /\ (k # 0 => k - 1 \in 0..(n + 1) /\ k - 1 # n + 1)
        BY <3>2
      <4>2. h[k] = g[k] /\ (k # 0 => h[k - 1] = g[k - 1])
        BY <2>2, <3>2, <4>1
      <4>3. g[k] = IF k = 0 THEN Start ELSE Look(g[k - 1])
        BY <2>1, <4>1 DEF Walk
      <4> QED
        BY <4>2, <4>3
    <3> QED
      BY <3>1, <3>2
  <2>4. h = [k \in 0..(n + 1) |-> h[k]]
    BY <2>2
  <2>5. h = [k \in 0..(n + 1) |-> IF k = 0 THEN Start ELSE Look(h[k - 1])]
    BY <2>3, <2>4
  <2> QED
    BY <2>5 DEF Walk
<1> HIDE DEF T
<1>3. \A n \in Nat : n \in T
  BY <1>1, <1>2, Induction
<1> QED
  BY <1>3 DEF T

\* Contents is what such a function has seen in the end.
LEMMA ContentsIs == \E g : Walk(g, Size) /\ Contents = g[Size].seen
<1> DEFINE f == CHOOSE g : g = [k \in 0..Size |-> IF k = 0 THEN [pos |-> tail, seen |-> <<>>]
                                                  ELSE Look(g[k - 1])]
<1>1. \E g : g = [k \in 0..Size |-> IF k = 0 THEN [pos |-> tail, seen |-> <<>>]
                                    ELSE Look(g[k - 1])]
  BY WalkExists, SizeAssumption DEF Walk, Start
<1>2. f = [k \in 0..Size |-> IF k = 0 THEN [pos |-> tail, seen |-> <<>>] ELSE Look(f[k - 1])]
  BY <1>1
<1>3. Contents = f[Size].seen
  BY Zenon DEF Contents
<1> HIDE DEF f
<1>4. Walk(f, Size)
  BY <1>2 DEF Walk, Start
<1> QED
  BY <1>3, <1>4

\* It begins at the tail, and each step is a look.
LEMMA WalkSteps ==
  ASSUME NEW g, Walk(g, Size)
  PROVE  g[0] = Start /\ \A k \in 0..(Size - 1) : g[k + 1] = Look(g[k])
<1>1. Size \in Nat
  BY SizeAssumption
<1>2. \A k \in 0..Size : g[k] = IF k = 0 THEN Start ELSE Look(g[k - 1])
  BY DEF Walk
<1>3. g[0] = Start
  BY <1>1, <1>2
<1>4. ASSUME NEW k \in 0..(Size - 1) PROVE g[k + 1] = Look(g[k])
  <2>1. k + 1 \in 0..Size /\ k + 1 # 0 /\ (k + 1) - 1 = k
    BY <1>1
  <2> QED
    BY <1>2, <2>1
<1> QED
  BY <1>3, <1>4

\* Once it has met the head it stays there.
LEMMA WalkStays ==
  ASSUME NEW g, Walk(g, Size), NEW k \in 0..Size, g[k].pos = head
  PROVE  g[Size] = g[k]
<1> DEFINE T == {n \in Nat : k + n <= Size => g[k + n] = g[k]}
<1>0. Size \in Nat /\ k \in Nat
  BY SizeAssumption
<1>1. 0 \in T
  BY <1>0
<1>2. ASSUME NEW n \in Nat, n \in T PROVE n + 1 \in T
  <2> SUFFICES ASSUME k + (n + 1) <= Size PROVE g[k + (n + 1)] = g[k]
    OBVIOUS
  <2>1. k + n \in 0..(Size - 1) /\ k + n <= Size /\ (k + n) + 1 = k + (n + 1)
    BY <1>0
  <2>2. g[k + n] = g[k]
    BY <1>2, <2>1
  <2>3. g[(k + n) + 1] = Look(g[k + n])
    BY <2>1, WalkSteps
  <2> QED
    BY <2>1, <2>2, <2>3 DEF Look
<1> HIDE DEF T
<1>3. \A n \in Nat : n \in T
  BY <1>1, <1>2, Induction
<1>4. Size - k \in Nat /\ k + (Size - k) = Size
  BY <1>0
<1> QED
  BY <1>3, <1>4 DEF T

-----------------------------------------------------------------------------
(* What the walk sees of the chunks.                                       *)

\* A look at a chunk.
LEMMA LookAtChunk ==
  ASSUME NEW c, ChunkInRing(c), InMemory(buf, c), c.pos # head, NEW q
  PROVE  Look([pos |-> c.pos, seen |-> q])
           = [pos |-> Mask(c.pos + Hdr + Pad(c.size)), seen |-> Append(q, Seen(c.size, c.val))]
<1>1. buf[c.pos].gap = 0 /\ buf[c.pos].size = c.size
  BY DEF InMemory, Header
<1>2. Seen(c.size, IF c.size = 0 THEN Blank ELSE buf[c.pos + Hdr].val) = Seen(c.size, c.val)
  <2>1. CASE c.size = 0
    BY <2>1 DEF Seen
  <2>2. CASE c.size # 0
    BY <2>2, FirstWord
  <2> QED
    BY <2>1, <2>2
<1> QED
  BY <1>1, <1>2 DEF Look

\* A look at the gap before one.
LEMMA LookAtGap ==
  ASSUME NEW c, Intact(buf, c), c.gap > 0, Size - c.gap # head, NEW q
  PROVE  Look([pos |-> Size - c.gap, seen |-> q]) = [pos |-> 0, seen |-> q]
<1>1. buf[Size - c.gap].gap = 1
  BY DEF Intact
<1> QED
  BY <1>1 DEF Look

\* Two places as far away are one.
LEMMA DistSame ==
  ASSUME NEW t \in Pos, NEW p \in Pos, NEW q \in Pos, Dist(t, p) = Dist(t, q)
  PROVE  p = q
BY PosFacts, SizeAssumption DEF Dist

\* Where the chunk number i + 1 begins, or the head behind the last.
At(i) == IF i = Len(chunks) THEN head ELSE Begin(chunks[i + 1])

\* The first begins at the tail.
LEMMA AtFirst ==
  ASSUME IInv
  PROVE  At(0) = tail
<1>1. CASE chunks = <<>>
  BY <1>1 DEF At, IInv, Layout
<1>2. CASE chunks # <<>>
  BY <1>2, OldestFacts DEF At
<1> QED
  BY <1>1, <1>2

\* A chunk is in front of the head, and what comes behind it is where it ends.
LEMMA AtNext ==
  ASSUME IInv, NEW i \in Nat, i < Len(chunks), NEW c, c = chunks[i + 1]
  PROVE  /\ ChunkInRing(c) /\ Intact(buf, c) /\ At(i) = Begin(c)
         /\ At(i) # head /\ c.pos # head
         /\ Mask(c.pos + Hdr + Pad(c.size)) = At(i + 1)
         /\ Dist(tail, At(i + 1)) = Dist(tail, At(i)) + Length(c)
         /\ At(i) \in Pos /\ At(i + 1) \in Pos
<1>1. /\ chunks \in Seq(ChunkRecord) /\ Len(chunks) \in Nat /\ DOMAIN chunks = 1..Len(chunks)
      /\ head \in Pos /\ tail \in Pos
  BY DEF IInv, TypeOK
<1>2. i + 1 \in DOMAIN chunks /\ chunks # <<>> /\ i # Len(chunks)
  <2>1. i + 1 \in 1..Len(chunks) /\ i # Len(chunks) /\ Len(chunks) # 0
    <3>1. PICK n : n = Len(chunks)
      OBVIOUS
    <3>2. n \in Nat /\ i \in Nat /\ i < n
      BY <1>1, <3>1
    <3>3. i + 1 \in 1..n /\ i # n /\ n # 0
      BY ONLY <3>2
    <3> QED
      BY <3>1, <3>3
  <2>2. i + 1 \in DOMAIN chunks
    BY ONLY <1>1, <2>1
  <2>3. chunks # <<>>
    BY ONLY <2>1, EmptySeq, <1>1
  <2> QED
    BY <2>1, <2>2, <2>3
<1>3. ChunkInRing(c) /\ Intact(buf, c)
  BY <1>2 DEF IInv, Layout, Memory
<1>4. At(i) = Begin(c) /\ Begin(c) \in Pos
  BY <1>2, <1>3, ChunkFacts DEF At
<1> DEFINE u == At(i + 1)
           b == Begin(c)
           l == Length(c)
<1>5. u \in Pos /\ Dist(tail, u) = Dist(tail, b) + l
  <2>1. CASE i + 1 = Len(chunks)
    BY <1>1, <1>2, <2>1 DEF At, IInv, Layout
  <2>2. CASE i + 1 # Len(chunks)
    <3>1. i + 1 + 1 \in DOMAIN chunks
      <4>1. i + 1 + 1 \in 1..Len(chunks)
        <5>1. PICK n : n = Len(chunks)
          OBVIOUS
        <5>2. n \in Nat /\ i \in Nat /\ i < n /\ i + 1 # n
          BY <1>1, <2>2, <5>1
        <5>3. i + 1 + 1 \in 1..n
          BY ONLY <5>2
        <5> QED
          BY <5>1, <5>3
      <4> QED
        BY ONLY <1>1, <4>1
    <3>2. ChunkInRing(chunks[i + 1 + 1])
      BY <3>1 DEF IInv, Layout
    <3>3. Begin(chunks[i + 1 + 1]) \in Pos
      BY <3>2, ChunkFacts
    <3>4. Dist(tail, b) + l = Dist(tail, Begin(chunks[i + 1 + 1]))
      BY <1>2, <3>1 DEF IInv, Layout
    <3> QED
      BY <2>2, <3>3, <3>4 DEF At
  <2> QED
    BY <2>1, <2>2
<1>6. Dist(tail, b) + l <= Dist(tail, head)
  BY <1>2 DEF IInv, Layout
<1>7. /\ l \in Nat /\ l >= Hdr /\ Dist(tail, b) \in Nat
      /\ Dist(tail, head) \in Nat /\ Dist(tail, head) < Size
  BY <1>1, <1>3, <1>4, ChunkFacts, DistRange
<1>8. b # head
  <2> HIDE DEF b, l
  <2> QED
    BY <1>6, <1>7
<1>9. c.pos # head
  <2>1. c.pos \in Footprint(c)
    BY <1>3, OwnWords
  <2>2. Dist(tail, b) + l < Size
    BY <1>6, <1>7, SizeAssumption
  <2>3. Dist(tail, c.pos) < Dist(tail, b) + l
    BY <1>1, <1>3, <2>1, <2>2, FootprintDist
  <2>4. Dist(tail, c.pos) # Dist(tail, head)
    <3>1. c.pos \in Pos
      BY <1>3 DEF ChunkInRing
    <3>2. Dist(tail, c.pos) \in Nat
      BY <1>1, <3>1, DistRange
    <3> HIDE DEF b, l
    <3> QED
      BY <1>6, <1>7, <2>3, <3>2
  <2> QED
    BY <2>4
<1> DEFINE k == Hdr + Pad(c.size)
           e == Mask(c.pos + k)
<1>10. /\ c.pos \in Pos /\ c.gap \in Nat /\ Pad(c.size) \in Nat /\ Pad(c.size) % 8 = 0
       /\ c.pos + k <= Size /\ l = c.gap + k /\ k \in Nat
  <2>1. c.pos \in Pos /\ c.gap \in Nat /\ c.size \in Nat
    BY <1>3 DEF ChunkInRing
  <2>2. Pad(c.size) \in Nat /\ Pad(c.size) % 8 = 0
    BY <2>1, PadFacts
  <2>3. c.pos + Hdr + Pad(c.size) <= Size
    BY <1>3 DEF ChunkInRing
  <2>4. l = c.gap + Hdr + Pad(c.size)
    BY DEF Length
  <2>5. c.pos \in Nat /\ Hdr \in Nat /\ Size \in Nat
    BY <2>1, PosFacts, SizeAssumption
  <2>6. c.pos + k <= Size /\ l = c.gap + k /\ k \in Nat
    BY <2>1, <2>2, <2>3, <2>4, <2>5
  <2> QED
    BY <2>1, <2>2, <2>6
<1>11. e \in Pos /\ (e = c.pos + k \/ e = c.pos + k - Size)
  <2>1. k % 8 = 0
    <3>1. Pad(c.size) \in Int
      BY <1>10
    <3>2. (Pad(c.size) + 8) % 8 = 0
      BY <1>10, <3>1, WholeWords, Zenon
    <3>3. k = Pad(c.size) + 8
      BY <1>10
    <3> QED
      BY <3>2, <3>3
  <2>2. k <= Size
    BY <1>10, PosFacts, SizeAssumption
  <2> HIDE DEF k
  <2> QED
    BY <1>10, <2>1, <2>2, MaskPos
<1>12. e = b + l \/ e = b + l - Size
  <2>1. CASE c.gap = 0
    <3>1. b = c.pos /\ l = k
      BY <1>10, <2>1 DEF Begin
    <3> QED
      BY <1>11, <3>1
  <2>2. CASE c.gap > 0
    <3>1. b = Size - c.gap /\ c.pos = 0
      BY <1>3, <2>2 DEF Begin, ChunkInRing
    <3>2. l < Size /\ Size \in Nat
      BY <1>6, <1>7, SizeAssumption
    <3> HIDE DEF k, e, b, l
    <3>3. k < Size
      BY <1>10, <3>2
    <3>4. e \in Int /\ e >= 0
      BY <1>11, PosFacts
    <3>5. e = k
      BY <1>10, <1>11, <3>1, <3>2, <3>3, <3>4
    <3>6. c.gap \in Nat /\ k \in Nat /\ l = c.gap + k /\ b = Size - c.gap
      BY <1>10, <3>1
    <3> QED
      BY ONLY <3>2, <3>5, <3>6
  <2>3. c.gap = 0 \/ c.gap > 0
    BY <1>10
  <2> QED
    BY <2>1, <2>2, <2>3
<1>13. Dist(tail, e) = Dist(tail, b) + l
  <2>1. Dist(tail, b) + l < Size
    BY <1>6, <1>7, SizeAssumption
  <2> HIDE DEF e, b, l, k
  <2>2. b \in Pos /\ e \in Pos /\ l \in Nat
    BY <1>4, <1>7, <1>11 DEF b
  <2> QED
    BY <1>1, <1>12, <2>1, <2>2, DistForward
<1>14. e = u
  BY <1>1, <1>5, <1>11, <1>13, DistSame
<1>15. c.pos + Hdr + Pad(c.size) = c.pos + k
  BY <1>10, PosFacts
<1> QED
  BY <1>3, <1>4, <1>5, <1>8, <1>9, <1>14, <1>15

\* The first i chunks are found within the looks there is room for.
Reached(g, i) ==
  \E k \in 0..Size :
    /\ k <= Dist(tail, At(i)) /\ g[k].pos = At(i)
    /\ g[k].seen \in Seq(SeenChunk) /\ Len(g[k].seen) = i
    /\ \A j \in 1..i : g[k].seen[j] = Published[j]
    /\ g[k] = [pos |-> g[k].pos, seen |-> g[k].seen]

\* If the first i are, so is the next.
LEMMA ReachedNext ==
  ASSUME IInv, NEW g, Walk(g, Size), NEW i \in Nat, i < Len(chunks), Reached(g, i)
  PROVE  Reached(g, i + 1)
<1>1. PICK c, u, p, d : /\ c = chunks[i + 1] /\ u = At(i + 1) /\ p = At(i)
                        /\ d = Seen(c.size, c.val)
  OBVIOUS
<1>2. /\ ChunkInRing(c) /\ Intact(buf, c) /\ p = Begin(c) /\ p # head /\ c.pos # head
      /\ Mask(c.pos + Hdr + Pad(c.size)) = u
      /\ Dist(tail, u) = Dist(tail, p) + Length(c) /\ p \in Pos /\ u \in Pos
  BY <1>1, AtNext
<1>3. tail \in Pos /\ chunks \in Seq(ChunkRecord) /\ Size \in Nat
  BY SizeAssumption DEF IInv, TypeOK
<1>4. /\ Dist(tail, u) \in Nat /\ Dist(tail, u) < Size /\ Dist(tail, p) \in Nat
      /\ Length(c) \in Nat /\ Length(c) >= Hdr
  BY <1>2, <1>3, DistRange, ChunkFacts
<1>5. PICK k \in 0..Size :
        /\ k <= Dist(tail, p) /\ g[k].pos = p
        /\ g[k].seen \in Seq(SeenChunk) /\ Len(g[k].seen) = i
        /\ \A j \in 1..i : g[k].seen[j] = Published[j]
        /\ g[k] = [pos |-> g[k].pos, seen |-> g[k].seen]
  BY <1>1 DEF Reached
<1>6. PICK q : q = g[k].seen
  OBVIOUS
<1>7. /\ Len(Published) = Len(chunks) /\ Published \in Seq(SeenChunk)
      /\ i + 1 \in 1..Len(chunks) /\ Published[i + 1] = d
  <2>1. i + 1 \in 1..Len(chunks)
    BY <1>3
  <2> QED
    BY <1>1, <2>1, PublishedFacts
<1>8. d \in SeenChunk
  BY <1>7
<1>9. PICK r : r = Append(q, d)
  OBVIOUS
<1>10. /\ r \in Seq(SeenChunk) /\ Len(r) = i + 1
       /\ \A j \in 1..(i + 1) : r[j] = Published[j]
  <2>1. q \in Seq(SeenChunk) /\ Len(q) = i /\ \A j \in 1..i : q[j] = Published[j]
    BY <1>5, <1>6
  <2>2. /\ r \in Seq(SeenChunk) /\ Len(r) = Len(q) + 1
        /\ \A j \in 1..Len(q) : r[j] = q[j]
        /\ r[Len(q) + 1] = d
    BY ONLY <1>8, <1>9, <2>1, AppendProperties
  <2>3. ASSUME NEW j \in 1..(i + 1) PROVE r[j] = Published[j]
    <3>1. CASE j = i + 1
      BY <1>7, <2>1, <2>2, <3>1
    <3>2. CASE j # i + 1
      <4>1. j \in 1..i
        BY <3>2
      <4> QED
        BY <2>1, <2>2, <4>1
    <3> QED
      BY <3>1, <3>2
  <2> QED
    BY <2>1, <2>2, <2>3
<1>11. \E m \in 0..Size : m <= Dist(tail, u) /\ g[m] = [pos |-> u, seen |-> r]
  <2>1. PICK x, y, l : x = Dist(tail, p) /\ y = Dist(tail, u) /\ l = Length(c)
    OBVIOUS
  <2>2. /\ k \in 0..(Size - 1) /\ k + 1 \in 0..(Size - 1) /\ k + 2 \in 0..Size
        /\ k + 1 <= y /\ k + 2 <= y /\ (k + 1) + 1 = k + 2
    <3>1. /\ x \in Nat /\ y \in Nat /\ l \in Nat /\ l >= 8 /\ y = x + l /\ y < Size
          /\ k \in Nat /\ k <= x
      BY <1>2, <1>4, <1>5, <2>1
    <3> QED
      BY ONLY <1>3, <3>1
  <2>3. g[k] = [pos |-> p, seen |-> q]
    BY <1>5, <1>6
  <2>4. g[k + 1] = Look(g[k]) /\ g[(k + 1) + 1] = Look(g[k + 1])
    BY <2>2, WalkSteps
  <2>5. Look([pos |-> c.pos, seen |-> q]) = [pos |-> u, seen |-> r]
    BY <1>1, <1>2, <1>9, LookAtChunk DEF Intact
  <2>6. CASE c.gap = 0
    <3>1. p = c.pos
      BY <1>2, <2>6 DEF Begin
    <3>2. g[k + 1] = [pos |-> u, seen |-> r]
      BY <2>3, <2>4, <2>5, <3>1
    <3>3. k + 1 \in 0..Size
      BY <1>3, <2>2
    <3> QED
      BY <2>1, <2>2, <3>2, <3>3
  <2>7. CASE c.gap > 0
    <3>1. p = Size - c.gap /\ c.pos = 0
      BY <1>2, <2>7 DEF Begin, ChunkInRing
    <3>2. g[k + 1] = [pos |-> 0, seen |-> q]
      <4>1. Look([pos |-> Size - c.gap, seen |-> q]) = [pos |-> 0, seen |-> q]
        BY <1>2, <2>7, <3>1, LookAtGap
      <4> QED
        BY <2>3, <2>4, <3>1, <4>1
    <3>3. g[k + 2] = [pos |-> u, seen |-> r]
      BY <2>2, <2>4, <2>5, <3>1, <3>2
    <3> QED
      BY <2>1, <2>2, <3>3
  <2>8. c.gap \in Nat
    BY <1>2 DEF ChunkInRing
  <2> QED
    BY <2>6, <2>7, <2>8
<1>12. PICK m \in 0..Size : m <= Dist(tail, u) /\ g[m] = [pos |-> u, seen |-> r]
  BY <1>11
<1>13. g[m].pos = u /\ g[m].seen = r
  BY <1>12
<1> QED
  BY <1>1, <1>10, <1>12, <1>13 DEF Reached

\* So all of them are.
LEMMA AllReached ==
  ASSUME IInv, NEW g, Walk(g, Size)
  PROVE  Reached(g, Len(chunks))
<1> DEFINE T == {i \in Nat : i <= Len(chunks) => Reached(g, i)}
<1>0. Len(chunks) \in Nat /\ tail \in Pos /\ Size \in Nat
  BY SizeAssumption DEF IInv, TypeOK
<1>1. 0 \in T
  <2>1. g[0] = [pos |-> tail, seen |-> <<>>] /\ At(0) = tail
    BY WalkSteps, AtFirst DEF Start
  <2>2. Dist(tail, tail) = 0
    BY <1>0, DistRange
  <2>3. /\ <<>> \in Seq(SeenChunk) /\ Len(<<>>) = 0 /\ 0 \in 0..Size
    BY <1>0
  <2>4. g[0].pos = tail /\ g[0].seen = <<>>
    BY <2>1
  <2>5. \A j \in 1..0 : g[0].seen[j] = Published[j]
    OBVIOUS
  <2>6. g[0] = [pos |-> g[0].pos, seen |-> g[0].seen]
    BY <2>1, <2>4
  <2>7. 0 <= Dist(tail, At(0))
    BY <2>1, <2>2
  <2>8. g[0].seen \in Seq(SeenChunk) /\ Len(g[0].seen) = 0
    BY <2>3, <2>4
  <2>9. Reached(g, 0)
    BY ONLY <2>1, <2>3, <2>4, <2>5, <2>6, <2>7, <2>8 DEF Reached
  <2> QED
    BY <2>9
<1>2. ASSUME NEW i \in Nat, i \in T PROVE i + 1 \in T
  <2> SUFFICES ASSUME i + 1 <= Len(chunks) PROVE Reached(g, i + 1)
    OBVIOUS
  <2>1. i < Len(chunks) /\ i <= Len(chunks)
    BY <1>0
  <2> QED
    BY <1>2, <2>1, ReachedNext
<1> HIDE DEF T
<1>3. \A i \in Nat : i \in T
  BY <1>1, <1>2, Induction
<1> QED
  BY <1>0, <1>3 DEF T

\* At every moment whoever reads on from the tail finds the published chunks,
\* all of them, in their order and as they were written (varchunk.h:318-375).
THEOREM MemoryHoldsQueue ==
  ASSUME ~FillMax
  PROVE  Spec => []MemoryIsQueue
<1>1. IInv => MemoryIsQueue
  <2> SUFFICES ASSUME IInv PROVE Contents = Published
    BY DEF MemoryIsQueue
  <2>1. PICK g : Walk(g, Size) /\ Contents = g[Size].seen
    BY ContentsIs
  <2>2. Reached(g, Len(chunks))
    BY <2>1, AllReached
  <2>3. PICK k \in 0..Size :
          /\ g[k].pos = At(Len(chunks)) /\ g[k].seen \in Seq(SeenChunk)
          /\ Len(g[k].seen) = Len(chunks)
          /\ \A j \in 1..Len(chunks) : g[k].seen[j] = Published[j]
    BY <2>2 DEF Reached
  <2>4. g[Size] = g[k]
    BY <2>1, <2>3, WalkStays DEF At
  <2>5. PICK q : q = g[k].seen
    OBVIOUS
  <2>6. Len(Published) = Len(chunks) /\ Published \in Seq(SeenChunk)
    BY PublishedFacts
  <2>7. /\ q \in Seq(SeenChunk) /\ Len(q) = Len(Published)
        /\ \A j \in 1..Len(q) : q[j] = Published[j]
    BY <2>3, <2>5, <2>6
  <2>8. q = Published
    BY ONLY <2>6, <2>7, SeqEqual
  <2> QED
    BY <2>1, <2>4, <2>5, <2>8
<1> QED
  BY <1>1, Invariance, PTL
=============================================================================
