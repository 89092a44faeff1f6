------------------------------ MODULE Varchunk ------------------------------
(***************************************************************************)
(* The single-producer single-consumer ring of variably sized, contiguous  *)
(* chunks of varchunk/varchunk.h: the real-time thread and the worker      *)
(* thread of eteroj_io and eteroj_ninja talk through two of them each.     *)
(*                                                                         *)
(* The ring is a memory of 8-byte words (every header sits at a multiple   *)
(* of 8 and every payload is padded to one), so a header or a payload that *)
(* runs over another is seen as one that overwrites it.  The cursors head  *)
(* and tail are byte offsets, as in the code.  Every access to memory the  *)
(* two threads share is a step of its own; release/acquire ordering (what  *)
(* varchunk_new(_, true) asks for) is program order.                       *)
(***************************************************************************)
EXTENDS Integers, Sequences

CONSTANTS Size,      \* varchunk->size, the bytes of the ring
          Requests,  \* the minimum sizes producers ask for
          Values,    \* what a payload word can hold
          Blank,     \* a word that is no payload
          FillMax    \* does the producer fill all of *maximum (TRUE) or
                     \* at most the minimum it asked for (FALSE)?

Hdr == 8             \* sizeof(varchunk_elmnt_t)

ASSUME SizeAssumption == Size \in Nat /\ Size % Hdr = 0 /\ Size >= 2 * Hdr
ASSUME RequestsAssumption == Requests \subseteq Nat
ASSUME ValuesAssumption == Blank \notin Values
ASSUME FillMaxAssumption == FillMax \in BOOLEAN

\* VARCHUNK_PAD
Pad(n) == ((n + 7) \div 8) * 8

\* x & varchunk->mask, the size being a power of 2
Mask(x) == x % Size

\* the word-aligned offsets into varchunk->buf
Pos == {p \in 0..(Size - 1) : p % Hdr = 0}

\* A word of the ring as an element header, and as payload.
Header(n, g) == [size |-> n, gap |-> g, val |-> Blank]
Payload(v)   == [size |-> 0, gap |-> 0, val |-> v]

Word == [size : Nat, gap : 0..1, val : Values \cup {Blank}]

VARIABLES head, tail,    \* the shared cursors
          buf,           \* the ring's memory
          rsvd, gapd,    \* what the last request reserved, the gap before it
          ppc,           \* where the producer is
          wmin,          \* the minimum it asked for
          wlen, wval,    \* what it wrote: bytes, value
          cpc,           \* where the consumer is
          got,           \* the offset and size read_request returned
          chunks         \* history: the chunks published and not yet
                         \* consumed, the oldest first

producerVars == <<rsvd, gapd, ppc, wmin, wlen, wval>>
consumerVars == <<cpc, got>>
vars == <<head, tail, buf, producerVars, consumerVars, chunks>>

Nowhere == [pos |-> 0, size |-> 0]

Init ==
  /\ head = 0 /\ tail = 0
  /\ buf = [p \in Pos |-> Header(0, 0)]
  /\ rsvd = 0 /\ gapd = 0
  /\ ppc = "idle" /\ wmin = 0 /\ wlen = 0 /\ wval = Blank
  /\ cpc = "idle" /\ got = Nowhere
  /\ chunks = <<>>

-----------------------------------------------------------------------------
(* The producer.                                                           *)

\* The room for a new element, by what the producer sees of the cursors.
WriteSpace(h, t) ==
  IF h > t THEN Mask(t - h + Size) - 1
  ELSE IF h < t THEN (t - h) - 1
  ELSE Size - 1

\* What has to be free before a request for n bytes is granted.
Padded(n) == 2 * Hdr + Pad(n)

\* Mutant of Answer: what does not fit before the end is refused.
AnswerFirstPart(n, h, t) ==
  LET space == WriteSpace(h, t)
      len   == IF h + space > Size THEN Size - h ELSE space
      ok    == len >= Padded(n)
  IN  [ok |-> ok, rsvd |-> IF ok THEN len ELSE 0, gapd |-> 0]

\* Mutant of Answer: the second part of the ring is used without a look at
\* its length.
AnswerSecondPart(n, h, t) ==
  LET space == WriteSpace(h, t)
      end   == h + space
      Yes(len, g) == [ok |-> TRUE, rsvd |-> len, gapd |-> g]
  IN  IF end > Size
      THEN IF Size - h >= Padded(n) THEN Yes(Size - h, 0)
           ELSE Yes(Mask(end), Size - h)
      ELSE IF space >= Padded(n) THEN Yes(space, 0)
           ELSE [ok |-> FALSE, rsvd |-> 0, gapd |-> 0]

\* How varchunk_write_request_max answers a request for n bytes: whether it
\* is granted, how much it reserves and how large a gap comes before it.
Answer(n, h, t) ==
  LET space == WriteSpace(h, t)
      end   == h + space
      len1  == Size - h
      len2  == Mask(end)
      No          == [ok |-> FALSE, rsvd |-> 0, gapd |-> 0]
      Yes(len, g) == [ok |-> TRUE, rsvd |-> len, gapd |-> g]
  IN  IF end > Size
      THEN IF len1 >= Padded(n) THEN Yes(len1, 0)
           ELSE IF len2 >= Padded(n) THEN Yes(len2, len1) ELSE No
      ELSE IF space >= Padded(n) THEN Yes(space, 0) ELSE No

\* varchunk_write_request_max: granted, or NULL.
WriteRequest(n) ==
  /\ ppc = "idle"
  /\ LET answer == Answer(n, head, tail)
     IN  /\ rsvd' = answer.rsvd
         /\ gapd' = answer.gapd
         /\ IF answer.ok THEN ppc' = "granted" /\ wmin' = n
                         ELSE UNCHANGED <<ppc, wmin>>
  /\ UNCHANGED <<head, tail, buf, wlen, wval, consumerVars, chunks>>

\* The offset of the element the producer was granted.
Target == IF gapd > 0 THEN 0 ELSE head

\* The lengths a caller may write: varchunk_write_advance asserts no more
\* than written <= rsvd.
Lengths == IF FillMax THEN {wmin, rsvd} ELSE {n \in Requests : n <= wmin}

\* The words a payload of n bytes takes, its header being at offset p.
PayloadWords(p, n) ==
  {q \in Pos : q >= p + Hdr /\ q < p + Hdr + Pad(n)}

\* The caller fills in n bytes, in one step: nothing reads them before the
\* head is advanced, and if something did, that would be seen after it.
WritePayload(n, v) ==
  /\ ppc = "granted"
  /\ buf' = [p \in Pos |-> IF p \in PayloadWords(Target, n)
                           THEN Payload(v) ELSE buf[p]]
  /\ wlen' = n /\ wval' = v
  /\ ppc' = "filled"
  /\ UNCHANGED <<head, tail, rsvd, gapd, wmin, consumerVars, chunks>>

\* varchunk_write_advance, up to the store of the head: a header for the gap,
\* if there is one, and the header of the element.
WriteHeader ==
  /\ ppc = "filled"
  /\ buf' = IF gapd > 0
            THEN [buf EXCEPT ![head] = Header(gapd - Hdr, 1),
                             ![0]    = Header(wlen, 0)]
            ELSE [buf EXCEPT ![head] = Header(wlen, 0)]
  /\ ppc' = "stamped"
  /\ UNCHANGED <<head, tail, rsvd, gapd, wmin, wlen, wval, consumerVars, chunks>>

\* The bytes a write advances the head by.
Written == gapd + Hdr + Pad(wlen)

\* The producer's caller is done; its locals go.
Return == ppc' = "idle" /\ wmin' = 0 /\ wlen' = 0 /\ wval' = Blank

\* The chunk the producer is about to publish, if it writes n bytes.
Pending(n) == [pos |-> Target, size |-> n, gap |-> gapd, val |-> wval]

\* Mutant of StoreHead: the head may be stored before the headers are.
StoreHeadEarly ==
  /\ ppc \in {"filled", "stamped"}
  /\ head' = Mask(head + Written)
  /\ chunks' = Append(chunks, Pending(wlen))
  /\ Return
  /\ UNCHANGED <<tail, buf, rsvd, gapd, consumerVars>>

\* _varchunk_write_advance_raw: the store that publishes the chunk.
StoreHead ==
  /\ ppc = "stamped"
  /\ head' = Mask(head + Written)
  /\ chunks' = Append(chunks, Pending(wlen))
  /\ Return
  /\ UNCHANGED <<tail, buf, rsvd, gapd, consumerVars>>

\* A caller that has nothing to say after all does not advance.
WriteAbandon ==
  /\ ppc \in {"granted", "filled"}
  /\ Return
  /\ UNCHANGED <<head, tail, buf, rsvd, gapd, consumerVars, chunks>>

Producer ==
  \/ \E n \in Requests : WriteRequest(n)
  \/ \E n \in Lengths, v \in Values : WritePayload(n, v)
  \/ WriteHeader
  \/ StoreHead
  \/ WriteAbandon

-----------------------------------------------------------------------------
(* The consumer.                                                           *)

\* The bytes there are to read, by what the consumer sees of the cursors.
ReadSpace(h, t) == IF h > t THEN h - t ELSE Mask(h - t + Size)

\* Mutant of AtGap: gaps are read as elements.
AtGapNever == FALSE

\* Is there a gap to skip?  Only if what is readable wraps around.
AtGap == tail + ReadSpace(head, tail) > Size /\ buf[tail].gap # 0

\* varchunk_read_request: empty, or an element, or a gap before one.
ReadRequest ==
  /\ cpc = "idle"
  /\ ReadSpace(head, tail) > 0
  /\ IF AtGap
     THEN cpc' = "skip" /\ UNCHANGED got
     ELSE cpc' = "reading" /\ got' = [pos |-> tail, size |-> buf[tail].size]
  /\ UNCHANGED <<head, tail, buf, producerVars, chunks>>

\* The history without the gap before its oldest chunk, without that chunk.
\* (A ring that is read when nothing was published has nothing to lose.)
NoGap(s) == IF s = <<>> THEN s ELSE [s EXCEPT ![1].gap = 0]
Rest(s)  == IF s = <<>> THEN s ELSE Tail(s)

\* Mutant of SkipGap: the element after the gap is taken, the tail stays.
SkipGapInPlace ==
  /\ cpc = "skip"
  /\ got' = [pos |-> 0, size |-> buf[0].size]
  /\ cpc' = "reading"
  /\ UNCHANGED <<head, tail, buf, producerVars, chunks>>

\* Mutant of SkipGap: the gap is left for the next request.
SkipGapLater ==
  /\ cpc = "skip"
  /\ cpc' = "idle"
  /\ UNCHANGED <<head, tail, buf, producerVars, got, chunks>>

\* ... which moves the tail over the gap and takes the element at 0.
SkipGap ==
  /\ cpc = "skip"
  /\ tail' = Mask(tail + (Size - tail))
  /\ got' = [pos |-> 0, size |-> buf[0].size]
  /\ cpc' = "reading"
  /\ chunks' = NoGap(chunks)
  /\ UNCHANGED <<head, buf, producerVars>>

\* varchunk_read_advance: it reads the header at the tail once more.
ReadAdvance ==
  /\ cpc = "reading"
  /\ tail' = Mask(tail + Hdr + Pad(buf[tail].size))
  /\ cpc' = "idle" /\ got' = Nowhere
  /\ chunks' = Rest(chunks)
  /\ UNCHANGED <<head, buf, producerVars>>

\* A caller that cannot use the chunk now requests it again later.
ReadAbandon ==
  /\ cpc = "reading"
  /\ cpc' = "idle" /\ got' = Nowhere
  /\ UNCHANGED <<head, tail, buf, producerVars, chunks>>

Consumer == ReadRequest \/ SkipGap \/ ReadAdvance \/ ReadAbandon

Next == Producer \/ Consumer

Spec == Init /\ [][Next]_vars

-----------------------------------------------------------------------------
(* Fairness.  The host calls run() period after period and the worker it    *)
(* schedules in each, so neither side stops in the middle of a call, the    *)
(* producer asks again, and the consumer, which may put a chunk off, does   *)
(* not put it off for ever.                                                 *)

ProducerFairness == /\ WF_vars(\E n \in Requests : WriteRequest(n))
                    /\ WF_vars(WriteHeader)
                    /\ WF_vars(StoreHead)

ConsumerFairness == /\ WF_vars(ReadRequest)
                    /\ WF_vars(SkipGap)
                    /\ SF_vars(ReadAdvance)

FairSpec == Spec /\ ProducerFairness /\ ConsumerFairness

-----------------------------------------------------------------------------
(* What makes the ring correct.                                             *)

ChunkRecord == [pos : Nat, size : Nat, gap : Nat, val : Values \cup {Blank}]

\* The state has its types: the cursors stay on word boundaries inside the
\* ring (varchunk.h:170-172, 299-301), whatever sizes go through it.
TypeOK ==
  /\ head \in Pos /\ tail \in Pos
  /\ buf \in [Pos -> Word]
  /\ rsvd \in Nat /\ gapd \in Nat
  /\ ppc \in {"idle", "granted", "filled", "stamped"}
  /\ wmin \in Nat /\ wlen \in Nat /\ wval \in Values \cup {Blank}
  /\ cpc \in {"idle", "skip", "reading"}
  /\ got \in [pos : Pos, size : Nat]
  /\ chunks \in Seq(ChunkRecord)

\* The words of a published chunk: its header, its payload and its gap.
Footprint(c) == {p \in Pos : p >= c.pos /\ p < c.pos + Hdr + Pad(c.size)}
                  \cup {p \in Pos : p >= Size - c.gap}

\* While the producer fills what it was granted it stays inside the buffer
\* and clear of every chunk the consumer may still read, whatever the
\* consumer does meanwhile (varchunk.h:184-253: the tail it computed with
\* is already stale when it writes).
WriterClear ==
  ppc # "idle" =>
    LET n == IF ppc = "granted" THEN wmin ELSE wlen
    IN  /\ Target + Hdr + Pad(n) <= Size
        /\ \A i \in DOMAIN chunks :
             Footprint(Pending(n)) \cap Footprint(chunks[i]) = {}

\* The header and the payload of chunk c are in the memory m as written.
InMemory(m, c) == /\ m[c.pos] = Header(c.size, 0)
                  /\ \A p \in PayloadWords(c.pos, c.size) : m[p] = Payload(c.val)

\* As long as the consumer holds a chunk, it is the oldest one published and
\* not yet consumed, and its header and its whole payload are what was
\* written (varchunk.h:304-376): nothing lost, repeated, reordered or torn.
ReadsOldest ==
  cpc = "reading" =>
    /\ chunks # <<>>
    /\ got = [pos |-> chunks[1].pos, size |-> chunks[1].size]
    /\ tail = got.pos
    /\ InMemory(buf, chunks[1])

\* A ring that has been drained grants every request that needs at most half
\* of it, wherever its cursors have stopped (varchunk.h:191-252).  More than
\* half may be refused for ever: an empty ring is not a contiguous one.
EmptyRingAccepts ==
  head = tail => \A n \in Requests :
                   Padded(n) <= Size \div 2 => Answer(n, head, tail).ok

\* A chunk as its reader sees it.
Seen(n, v) == [size |-> n, val |-> IF n = 0 THEN Blank ELSE v]

\* What the consumer would see at the place at.pos, having seen at.seen, were
\* it to read on, the way varchunk.h:318-375 reads.
Look(at) ==
  IF at.pos = head THEN at
  ELSE IF buf[at.pos].gap # 0 THEN [at EXCEPT !.pos = 0]
  ELSE LET n == buf[at.pos].size
       IN  [pos  |-> Mask(at.pos + Hdr + Pad(n)),
            seen |-> Append(at.seen,
                            Seen(n, IF n = 0 THEN Blank ELSE buf[at.pos + Hdr].val))]

\* What it would find from the tail until it meets the head: each look takes it
\* on, so it needs no more than Size.
Contents ==
  LET after[k \in 0..Size] == IF k = 0 THEN [pos |-> tail, seen |-> <<>>]
                              ELSE Look(after[k - 1])
  IN  after[Size].seen

\* The published chunks as the promise has them.
Published == [i \in DOMAIN chunks |-> Seen(chunks[i].size, chunks[i].val)]

\* At every moment the memory between the tail and the head is exactly the
\* published chunks in their order, so a consumer that is scheduled late
\* (a worker run once per period) still finds all of them.
MemoryIsQueue == Contents = Published

\* The consumer's chunk, as it reads it from memory.
NoChunk == [size |-> -1, val |-> Blank]
InFront == IF cpc # "reading" THEN NoChunk
           ELSE Seen(got.size,
                     IF got.size = 0 THEN Blank ELSE buf[got.pos + Hdr].val)

Queue == INSTANCE ChunkQueue
           WITH Chunk <- [size : Requests, val : Values \cup {Blank}],
                NoChunk <- NoChunk, queue <- Published, front <- InFront

\* The ring implements the queue of chunks it promises: each step of either
\* side is one of the queue's, or none of them (a refused or abandoned
\* request, a payload that is not published yet, a gap that is skipped).
ImplementsQueue == Queue!Spec

-----------------------------------------------------------------------------
(* What must eventually happen, under FairSpec.                             *)

\* The consumer gets through: a readable ring does not keep its tail where it
\* is (varchunk.h:304-376).
ConsumerProgress ==
  \A p \in Pos : (tail = p /\ chunks # <<>>) ~> tail # p

\* A producer that keeps asking is granted its chunk again and again: the
\* room consumption makes is found, at whatever offsets the cursors stand
\* (varchunk.h:175-253).
ProducerProgress == []<>(ppc = "granted")

\* Neither side holds the other up for ever.
Progress == ConsumerProgress /\ ProducerProgress
=============================================================================
