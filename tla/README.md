# A model of eteroj.lv2

eteroj.lv2 is a bundle of LV2 plugins that carry Open Sound Control (OSC)
between a plugin host and the outside: `eteroj:io` over UDP, TCP and serial
lines, `eteroj:ninja`, `eteroj:query`, `eteroj:cloak` and `eteroj:pack` between
atom formats.  This directory holds TLA+ modules that model what is hard to
test in it, the TLC configurations that check them on small instances, and
theorems about them that TLAPS proves for every instance.

## The system

Two threads share each plugin instance.  The host calls `run()` period after
period in its real-time thread, which must never wait; a worker thread, asked
for with `schedule_work()` once per period, does what may block (`_work`), and
its answers come back through `_work_response` in the real-time thread.  A
third party, the host's state functions `save()` and `restore()`, may run
beside either: the plugins declare `state:threadSafeRestore`.

| part | state it keeps | operations | talks to |
|------|----------------|------------|----------|
| `varchunk/varchunk.h` | ring memory, `head`, `tail`, last reservation | write_request(_max), write_advance, read_request, read_advance | a producer thread and a consumer thread |
| `props.lv2/props.h` | per property: value, stash, atomic state, stashing; `stashing`, `restoring` | advance (patch:Get/Set/Put/Patch), idle, set, stash, save, restore | real-time thread; host thread |
| `osc.lv2/.../stream.h` | sockets, `connected`, `rx_buf`/`rx_off`, `tx_buf`, peer | init, reinit, deinit, run (UDP, TCP, serial), SLIP codec | worker thread; the kernel; the rings, through a driver |
| `eteroj_io.c` | three rings, `osc_url`, `rolling`, list of scheduled bundles, status properties | run, work, work_response, activate, deactivate | all of the above |
| `eteroj_ninja.c` | two rings, the netatom codec and its buffer | run, work | worker; host |
| `eteroj_query.c` | ring of requests, tree of remote nodes | run, refresh, message callback | a remote OSC node |
| `eteroj_cloak.c`, `eteroj_pack.c` | buffers only | run | host |
| `osc.lv2/.../{reader,writer,forge,util}.h` | a cursor over a packet | parse, serialise | everyone above |
| `netatom.lv2` | dictionary of URIs of one message | serialize, deserialize | ninja |

What makes each of them correct, and what of it is hard:

- **varchunk**: chunks come out whole, once and in order; the writer never
  touches what may still be read.  Two threads read each other's cursors while
  they move, and elements must be contiguous, so that the end of the ring is
  skipped with a *gap* element.
- **props**: the stash (which is what is saved) follows the value; what is saved
  is one value; a restored value is taken over.  The real-time thread only
  tries locks and comes back later, the host spins.
- **stream**: what one side sends as packets comes out as the same packets on
  the other.  TCP and serial lines deliver bytes in any split; connections end
  and come back.
- **eteroj_io**: a URL set is the URL opened; the status shown is that of the
  stream; scheduled bundles are dispatched once, in the order of their times,
  and the fixed list of 2048 entries does not overflow.
- **ninja**: atoms survive the round trip; the two threads share one codec.
- **query**: what the peer offers is found, one request a period; answers come in any order.
- **cloak, pack, OSC reader and writer, netatom**: decoding inverts encoding.

## The modules

| module | models | extends / instantiates |
|--------|--------|------------------------|
| `ChunkQueue` | abstract: what a ring promises its two callers | |
| `Varchunk` | `varchunk/varchunk.h` | instantiates `ChunkQueue` |
| `Props` | the shared part of `props.lv2/props.h` | |
| `Slip` | the SLIP codec of `stream.h` as operators | |
| `SlipStream` | the SLIP loops of `stream.h` over TCP and serial lines, both ends and the line | `Slip` |
| `OscStream` | UDP, length-prefixed TCP and the life of connections in `stream.h` | |
| `Calendar` | abstract: what the io plugin promises of the packets it receives | |
| `BundleSchedule` | the received half of `run()` in `eteroj_io.c` | instantiates `Calendar` |
| `EterojIO` | URL, worker, status of `eteroj_io.c` | |
| `EterojQuery` | `eteroj_query.c` | |
| `EterojNinja` | `eteroj_ninja.c` | |
| `OscPacket` | OSC writer, reader and forge as operators | |
| `EterojCloak` | the two ends of `eteroj_cloak.c` and the MIDI connection between them | |
| `NetAtom` | `netatom.h` as operators | |
| `Carriage` | the ways of a packet, an event and an atom from plugin to plugin | `OscPacket`, `NetAtom`, `EterojCloak` |
| `VarchunkProof`, `PropsProof`, `SlipStreamProof`, `BundleScheduleProof`, `EterojQueryProof`, `EterojNinjaProof`, `OscStreamProof` | theorems about the module they are named after | that module, `TLAPS` |
| `PluginsProof` | theorems about `EterojIO` and about `EterojCloak`, which share nothing | both, `TLAPS` |
| `MC*` | model values for TLC | the module of that name |

A definition preceded by a variant of it under the comment "Mutant" is the same
definition without a plausible bug; `PROJECT.json` says which property that
bug breaks.  Variables called "history" in their comments exist in the model
only, to state properties; those called "bound" keep the state space finite.

### `Varchunk`

`head`, `tail` and `buf` are those of `varchunk_t`; `buf` is a function from
word-aligned offsets to words, so that a header or a payload written over
another is seen as such.  `ppc`/`cpc` say where producer and consumer are between
their accesses to shared memory: `WriteRequest` (reads `tail`, computes with a
private `head`), `WritePayload` (the caller), `WriteHeader` (element and gap headers),
`StoreHead`; `ReadRequest`, `SkipGap`, `ReadAdvance`.  Abandoned requests and
reads are allowed on either side, as the callers use them.  Program order stands
for the release/acquire pairs the code asks for; weaker orders are not modelled.
`FillMax` says whether a caller keeps to the minimum it asked for or fills the
`*maximum` it is told.

`chunks` is the history of what was published; `Contents` walks the memory as a
late consumer would.  The refinement maps the published chunks to the queue of
`ChunkQueue`, and what a consumer reads *in memory* to its `front`.

### `Props`

One atomic step per compare-and-exchange and per half of a value copied (size,
then body), on the real-time side (`Set`, `Stash*`, `Restore*`/`Take*`, `Later*`)
and on the host's (`Choose`, `Spin`, `CopySize`, `CopyBody`, `Unlock`, `End`).
`state[i]` is `impl->state`; `expected` is the spin lock's local, which a failed
compare-and-exchange overwrites and the code does not reset (props.h:217-228).
`Hosts` says which calls there are: a host that saves, one that restores.
`Concurrent = FALSE` models a host that does not call beside `run()`.

### `Slip` and `SlipStream`

`Slip` has the encoder and the in-place decoder byte by byte, including that
the decoder shifts its output over the opening `END` of an incomplete frame.
`SlipStream` has one direction of a line: packets waiting in the sender's
ring, its loop (whole send, partial send, packet too long), the bytes on the
line, the receiver's loop (`recv` of any portion, dispatch, what is left is
kept in `rx_buf`), breaks on either side and reconnection; a serial line has the
same loops and no connection.  Each byte on the line carries the number of its
packet, so a packet put together from two can be told.

A frame is *spoiled* when it met with an accident of its own: sent in part,
refused and decoded in place, cut in two, lost with its connection, too long
to be sent, or the first of a new connection to a receiver that still holds
bytes of the old one (`rx_off` survives), behind which its opening `END` ends
their frame. When that first packet is too long and skipped, the one after it
meets the old bytes; that it is spoiled too is seen on the line `short`, where
some packets are too long for `tx_buf`.

Which line it is, is chosen in `Init` among `Lines`: over *calm* lines frames
come whole and a connection breaks between them; over *rough* ones they leave
and arrive in any portions, the ring may be full, and the connection breaks;
*unbroken* has portions only.

### `OscStream`

A server and its clients, each with a stream.  The clients ask (`Ask`), the
plugin on the server answers into its one stream (`Answer`).  `udp` is
datagrams, which get lost, doubled and overtake each other (`SendDatagram`,
`ReceiveDatagram`, `ReceiveCut`, `LoseDatagram`).  The other networks are
`osc.prefix.tcp://`: `Connect`, `ConnectAgain`, `Accept`, `Break`, `Reopen`
(the server's stream closed and opened), and each iteration of the loops:
`SendNothing`, `SendWhole`, `SendPart`, `SendFail`, `ReceiveFrame`,
`ReceiveOverlong`, `ReceivePart`, `ReceivePrefix`, `ReceiveEnd`.  A prefix is two units long and so
is what follows it; a short read takes any part of either, and what is no prefix,
read as one, may say any length.

A packet is *small* (no longer than the `LV2_OSC_STREAM_REQBUF` bytes the
receiver asks its ring for), *big*, or *huge* (too long to be sent).  A big one
may still find room in the ring.  If it does not, a datagram is cut to what the
ring said there is, which counts the header too (`ReceiveCut`), and a frame is
read over the end, for the prefix is compared with nothing (`ReceiveOverlong`;
so are two units read as a prefix that are none).  `dead` are stations that have
written beyond their room, or that an assertion of the ring ended, which a length
of -1 does not pass either; they are not followed any further.  A ring that is
full altogether receives nothing, and no end of the connection, until the
plugin's next period has emptied it: that is a receiver that takes no step for a
while, which every state allows.

### `BundleSchedule`

`run()` of `eteroj_io.c` from the received ring to the output: `Begin` (a new
period; distances are taken anew), `ReadImmediate`/`ReadScheduled`/`ReadDropped`
(`_unroll`, `_add_list`), `ReadDone` (sorting), `Dispatch`, `End` (accounting,
output handed over or cleared).  `qsort` is not stable: every sorted permutation
is a possible result.  The host's clock may drift from the sample count
(`Drifts`).  `Overrun` is what happens when the list is full and a loop whose
only end is a free cell goes on behind it (eteroj_io.c:478, 516); what is read
there is not known, so the model stops.

`Calendar` has none of it: packets wait, and in a turn those whose time falls
into it go out at their moments, or are lost together.  The refinement maps what
is on the list or in the output to what waits; `Begin` is `Advance`, a packet
read is `See`, `End` is `Play`, or `Lose` when the output was too small, and
sorting, distances and `Dispatch` change nothing that `Calendar` sees.

### `EterojIO`

The ring `toThread`, the worker's steps `Work`, `Drain`, `Switch`, `Reopen`,
`Respond`, its responses, the real-time steps `SetUrl`, `Run`, `HandleEnum`, and
`Activate`/`Deactivate`.  Ring and responses are queues here: that they are is
what `Varchunk` shows of the ring, and the host's promise for responses.
Opening may fail without an error, since errors are told by `errno` and a name
that is not resolved need not set it (stream.h:392, 438): the plugin then rolls
without a stream, until a TCP client's next run opens it (`Respond`) or another
URL is set.

### `EterojQuery`

`run()` collects requests of the host's (`Refresh`, `Click`, `Get`) and answers
of the peer's (`Described`, `Valued`) and ends with one request sent (`End`).
The peer and the network are external: questions and answers are delivered in
any order, late or never.  What `run()` forges reaches host and peer as a whole
or not at all, which is why the model keeps `out` until `End`.  `Shown` is what
the host would show if that were now; `Above(m)` are the nodes method `m` is
found from, which a peer's methods have the root among (`ReachableAssumption`).

### `EterojNinja`

Both threads convert with the same three steps, `Copy` an event to the handle's
buffer, `Code` it in place, `Forge` the result; each is a step of its own, so
that they interleave.  `run()` is `RunBegin` (new input, and what it sets of
`synchronous`), then either the conversion or `Move`, `Schedule`, `Take`, and
`RunEnd`; a job is `WorkBegin`, then `WorkNext`, the conversion, `WorkWrite`,
`WorkAdvance` over and over.  The host may refuse a job.  A result carries what
the buffer held, so that another's event, or one coded twice, is seen.

### `EterojCloak`

Both loops work in place in the handle's buffer, so each iteration is a step:
`Write` (the OSC writer's packet, and the `END` of its message), `EncodeByte`
from the last byte to the first, `EncodeEnd`; `Receive` (the copy of a message,
whoever it is from), `DecodeByte`, `DecodeEnd`.  The buffers keep what they had.
A byte is the set of its bits, so the high one is taken off, kept with the
others of its group of seven and put back as the code does with masks and
shifts.  The model stops where a buffer is overrun: behind it nothing is known.

### `Carriage` and its operators

One packet, MIDI event or atom goes one way, stage by stage: *io* (written,
sent, read and forged), *cloak* (the same, but written to a buffer of a fixed
size; what happens to it there is the way *midi*, whose steps are those of
`EterojCloak`), *packMidi* and
*packBlob* (a MIDI event as an argument), *net* (an atom to a host that numbers
URIs otherwise).  In `OscPacket` a packet is a sequence of words of four bytes
that know what was written there and whether a zero byte would end a string in
them; so reading is done as the code does it, by looking for ends and by sizes,
over a packet that may be half written.

Atoms may be malformed: a message without a path (`badMessage`; nothing is
written, and that is success), without its arguments (`bare`), a bundle without
its items or its time (`badBundle`), what is neither (`other`); and an URID may
have no URI, a colour no value (`val = "bad"`).  Writing then stops where the
code returns false.  Where the code goes on with what is not there, or beyond a
buffer, the way ends: in `ruined` when a writer goes through arguments that are
missing or has more of them than `FmtSize` (128 in the code, 9 in the run), and
in `crashed` when `_unroll` reads the time of an item it did not get (`Unroll`).

A packet that failed may have items whose sizes were never filled in (`Holes`);
`stale` says of each what stands there, any number of words.  What such a size
makes an item is read as it is; what comes behind that begins at a word that need
not be a size, so that a length or an argument can be taken for a size and what
follows for a message: `Anything` stands for those items.  A message whose first
argument cannot be read is none, and the bundle around it neither (reader.h:454,
forge.h:356); if it is a later one, the message counts with those before it.

`NetAtom` has the dictionary behind the
atom with the bytes it takes.  The two are composed because the plugins are:
what the writer leaves, the reader gets.

## The runs

The type invariants of the modules with proofs are proved, and so not among
what the runs check, though those of `SlipStream`, `OscStream` and `EterojCloak` say something
of buffers and sockets.  A property that has two or three sides, one for each
thread or way, is a conjunction of them (`Progress`, `Settles`, `CatchesUp`,
`Recovers`, `Carried`).

Deadlock is checked where the system has no business stopping; where
`CHECK_DEADLOCK FALSE` is set, packets, URLs or the clock run out by a bound.

| run | question | instance |
|-----|----------|----------|
| `ring` | do chunks stay whole, in order, clear of the writer; does the ring implement the queue; do both sides get on? | 64 bytes, requests of 1, 9 and 24 bytes, two payloads |
| `ring_maximum` | may a caller fill the `*maximum` it is told? (no) | the same, `FillMax` |
| `props` | does the stash follow the value while the host saves; is every restored value found and taken over? | two properties, two values, a host that saves or one that restores |
| `props_torn` | is what is saved one value? (no) | one property, two values, a host that saves |
| `slip` | do packets arrive unchanged, once and in order, when portions are whole; what is lost when they are not? (only what met with an accident) | calm and rough lines, TCP and serial, one with packets too long for it; three packets |
| `slip_lost` | is nothing lost over an unbroken line? (no) | two packets, any portions |
| `stream` | do packets come once and in order; is nothing spoiled beyond its connection, nor written beyond the ring's room; do answers reach who asked; do stations find together again; does everything leave? | two clients over UDP with packets of all lengths, one and two over TCP, one over TCP in portions, one over TCP with frames longer than the ring is asked for |
| `schedule` | are bundles dispatched once, in time and order; does the list implement the calendar? | list of 3, period 2, four packets, times 1, 4, 5 and none, drift 0 or 1, output of 2 |
| `io` | one stream, of the last URL; does the host know the status? | two URLs that fit and one that does not, one error, ring of 2 |
| `query` | are all methods found, or is it known why not? | root, directory, two methods; ring of 2, two refreshes |
| `ninja` | is each event its own conversion, in one place, in order; is work scheduled, do results come out? | four events of every kind, rings of 2 and 1, one job at a time |
| `carriage` | does decoding invert encoding, and what happens when writing fails; is the cloak's coding in place right, and what overruns its buffer? | packets of up to two arguments of all types and bundles two deep, events of 1 to 6 bytes, atoms two deep; for the cloak, packets of every number of words from 4 to 32 bytes, foreign messages, a buffer of 36 bytes, three messages |

Why the bounds are enough to be interesting:

- 64 bytes hold two or three chunks; the sizes leave gaps of 8 to 32 bytes and
  wrap the ring at every word, with a gap, exactly at the end, and full.
- two properties are needed for a flag that is shared by all and lowered before
  a loop over them; more add no new relation.  Saving and restoring are checked
  as two hosts because, by one, `StashFollows` fails by way of the spin lock
  that `props_torn` shows.
- three packets are one before, one with and one after an accident.  Over the
  rough lines the buffer of 8 bytes fills up, so that `recv` is asked for none.
- two clients are needed for an answer to go astray; two questions of one for
  their order; two accidents for one while the first is being recovered from;
  portions are seen with two questions over a connection that lasts, and with one
  over connections that end.
- three bundles overrun a list of three, and with two of them late and one in
  time the order of the late ones is seen; the fourth finds the list full, or
  its cells given back.  The clock may run ahead so far that two are late at
  once.
- three settings of the URL cover two in the ring while the worker holds a third; one job and
  one response under way bound the delay, not the order.  The theorems of
  `PluginsProof` have no such bound.
- the query ring of two overflows with the items of the root and the requests of
  the host.
- four events are two chunks of two, or a chunk with the worker while another
  waits and a third is converted by `run()`; a ring of one chunk back is full
  when the second is ready.
- the lengths of the packets the cloak codes leave 4, 1, 5, 2, 6, 3, 0 and 4 bytes for
  the last group of seven, and the last does not fit; one message under way, one
  in the works and one that has left its bytes behind are three.
- the networks of `stream` with small packets only are those over which nothing
  is written beyond the ring's room without a part; the others show that one long
  packet suffices.
- `FmtSize` is 9, so that messages of 3 to 9 arguments are on both sides of it and
  the shorter ones still fit the room.
- lengths in `carriage` are those at and around a multiple of four, rooms those at
  which nothing, one or all of the URIs fit.

### What they show of the code

Three runs are violations, each against words of the repository:

- `ring_maximum`: `varchunk_write_request_max` tells its caller the whole free
  length, header included, and the assertion "fail miserably if stupid
  programmer tries to write more than rsvd" (varchunk.h:266) passes for a caller
  who writes all of it, over the end of the ring.  UDP receives up to that maximum
  (stream.h:825).
- `props_torn`: a failed compare-and-exchange leaves what it found
  in `expected`, and the next one succeeds from `LOCK` or `RESTORE`.  The host
  can save the size of one value with the body of another; for the same reason a
  save right after a restore forgets what was restored.
- `slip_lost`: a frame that arrives in two portions can be lost, because the
  part kept for the next call has been shifted over its opening `END`.

More that a user should know, visible in the passing runs:

- a partial `send` sends the whole frame again the next time (stream.h:1003): the
  receiver hands on the fragment as a packet.  Together with refusals and breaks
  (`rx_off` is not reset on reconnection), packets can be put together from
  pieces; `OnlySent` therefore speaks of calm lines only, and of rough ones
  `OnlySpoiledLost` says what is left: nothing but spoiled frames is lost.
- a full `rx_buf` that holds a refused packet asks `recv` for 0 bytes and takes
  the answer for the end of the connection (stream.h:1028).
- a packet that fits `tx_buf` may not fit once encoded (stream.h:958 compares the
  length before encoding).  The model lets the frame be longer.
- a length prefix, or what follows it, that is read in part is taken for a packet
  as it is, and the rest for a prefix; nothing read yet is a length of -1, on
  which an assertion of the ring fails.  `Confined` says that what is handed on
  is spoiled by this up to the end of the connection only.
- a prefixed frame longer than the 1024 bytes the ring was asked for, whole and
  with nothing torn before it, is received over the room the ring gave
  (stream.h:1105-1114, "FIXME check prefix <= max_len"); then the assertion of the
  ring fails (varchunk.h:266), or its memory has been written over
  (`ReceiveOverlong`).  This is why `Confined` speaks of packets as short as the
  request.
- a datagram longer than the room in the ring is cut to the maximum the ring tells,
  which is the header's eight bytes more than there are (`ReceiveCut`); the cut
  packet is handed on.
- a packet too long for a datagram is never taken off the queue, and nothing
  behind it leaves (`Stuck`); over TCP it is skipped.
- a UDP server answers whoever spoke last, not who asked (`turnedFrom`).
- what `lv2_osc_writer_packet` returns is ignored (eteroj_io.c:454,
  eteroj_cloak.c:201): a packet that could not be written is sent as far as it
  was.  `PartIsBeginning` says what comes out: the beginning of the packet, or
  nothing; in a bundle, where the size of the item that failed was never filled in,
  that item's beginning and then possibly something else, made of its arguments.
- a received bundle whose first item cannot be read (one that failed in its first
  item can be such) takes `_unroll` to an item that is not there
  (eteroj_io.c:387-390; `Unroll`).
- a message atom without the property for its arguments, which util.h:560 calls
  valid, takes the writer through arguments from a null pointer (writer.h:479,
  487); and 128 arguments or more run over the buffer of the writer for their types
  (writer.h:477; `Ruins`).
- a name that is not resolved may go unnoticed: rolling, no stream, no error; over
  UDP it stays so until another URL is set (`Open`).
- a MIDI event of one or two bytes comes out with three (`AsOsc`), and a packet
  of more than seven eighths of cloak's buffer needs more than that buffer when
  coded (`MidiFits`); a MIDI message from elsewhere that is longer than the buffer is
  copied over its end (eteroj_cloak.c:179).
- the list of bundles is overrun when all cells are in use; `InsideUnlessFull`,
  a part of `Counted`, says that this is the only way.
- bundles that are late already when the period begins are all at distance 0 and
  go out in whatever order the sort leaves them: `ListOrdered`, a theorem, says that
  no others do.
- an output that overflows is given up as a whole: bundles in it have left the
  list.  `InOnePlace` counts them among the dropped.
- a URL of about 112 characters or more does not fit with its message into a
  buffer of `STR_LEN` and is silently not sent (eteroj_io.c:159); `wanted` is
  the last that was.
- the status is ticked off although the output had no room for it (`missed`).
- a job asked for before `deactivate()` and done after it opens the stream again.
- a click on `eteroj:query_refresh` ("click to refresh introspection",
  eteroj.ttl:127) also forges a message to a URI, which is no OSC path: the output
  of that period, and the first request of the ring, are lost (`Click`).
- when `ninja_synchronous` is set while the worker is busy, both threads convert
  in one buffer and an event can come out as another's, or garbled; what the
  worker has ready then stays in its ring while `run()` is synchronous.
  `OwnConversion` and `Delivered` say under which condition neither happens.

### Fairness

- `ring`: both threads go on; a producer that asks is answered, and a consumer
  that has a chunk finishes with it.  The plugins call both sides once a period.
- `props`: `props_idle` is called in every `run()`; `run()` is never left in the
  middle, and so it is with the host's calls.  `IdleBegin` is strongly fair
  because between two of them the plugin may set any number of properties.
  `Settles` has two parts: `RestoreTaken` is conditional on the host's calls
  returning, since its spin lock has no bound, and `StashSettles` on the host not
  saving for ever, since it may hold the lock every time the real-time thread
  tries.
- `slip`: both loops run once a period, a lost connection is tried again;
  strong fairness of sending says that the connection is up for a packet now and
  then.
- `stream`: each worker goes on running its stream, so it connects, accepts and
  receives.  Sending is strongly fair: `run` connects and sends in one call, so a
  connection that comes up, even one that ends again, is used.  Accidents are
  bounded, and none is forced.  That receiving goes on assumes the plugin's periods,
  which empty the ring.  Nothing is asked of a station that has written beyond its
  room, nor of a network with one.
- `schedule`, `io`, `query`: the host calls `run()` period after period while the
  plugin is active, does the jobs it was asked for, and hands responses on.
  `query`'s peer answers what reaches it; that nothing is lost is a condition of
  `Discovered`, not an assumption.
- `ninja`: the host goes on calling `run()`, with or without input, and does the
  jobs it has taken; it may refuse each of them.

## What is proved

TLAPS checks these for every value of the constants that their assumptions
admit.

**The ring** (`VarchunkProof`), for every size that is a multiple of a word (two
or more of them) and every set of requests, for producers that keep to their minimum (`~FillMax`;
`ring_maximum` shows that this is needed): `TypeOK`, `WriterClear`,
`ReadsOldest`, `EmptyRingAccepts`, `MemoryIsQueue`.  The invariant is
`IInv == TypeOK /\ Layout /\ Granted /\ Memory /\ Reader`.  None of the properties
is inductive alone: that the writer is clear of the chunks says nothing of
where they are.  `Layout` says that they lie one behind the other from the tail,
measured as distances walking forward around the ring; `Granted` that what the
producer holds lies behind the last and, with its stale tail, does not reach
the tail; `Memory` that headers, payloads and gaps are as written; `Reader` that
the consumer holds the first.  The argument is that the tail only moves forward
over chunks, which makes room and never takes it.
`MemoryIsQueue` speaks of a walk from the tail, each place of which is read from
the memory.  That it meets the chunks one by one is proved by induction
(`ReachedNext`): a chunk takes one look, or two if a gap comes before it, and
takes the walk at least 8 bytes on, so the chunks are all found before the looks
are used up, and `Size` looks are enough.

**The ring implements the queue** (`VarchunkProof`): `Init` maps to `Init`;
`StoreHead` is `Put`, a `ReadRequest` that finds an element, or the `SkipGap`
after one that finds a gap, is `Peek`, `ReadAdvance` is `Drop`, `ReadAbandon` is
`Leave`, and every other step changes neither the
published chunks nor what the consumer has in front of it.

**The properties** (`PropsProof`), for any number of them, any values and any
hosts: `TypeOK`, `LaterIsNoticed`, `RestoreNoticed`, `StashFollows`.  The
invariant adds to them where the loops can be (`Places`: an index is in range
wherever it is used), that the flag of a property is down while it is being
stashed (`Lowered`), and, for a host that does not restore, that nothing is taken
over (`OnlySaves`) and that the halves of the stash are equal
to the value's as far as they have been copied (`Halves`).

**The schedule** (`BundleScheduleProof`), for lists, periods, drifts and
outputs of any size: `TypeOK`, `Counted` (with `InsideUnlessFull`), `OnTime`,
`OutputOrdered`, `ListOrdered`, `InOnePlace`. The invariant says of the list
what the loops leave and rely on (`Filled`: the cells in use are the first;
`ListOK`: they hold bundles in the order of their distances once these are
taken), of the output that no bundle left on the list is due before what is in
it (`OutOK`), and of what was delivered that it was in time (`DeliveredOK`).
That sorting gathers the cells in use at the front is a lemma about bijections
(`Gathered`): a sorted permutation of a list with n of them in use has these
in its first n cells, whichever permutation `qsort` made. For `InOnePlace` it
adds `Placed`: no two places of a kind have the same packet (`Distinct`), and
the kinds of places part the packets taken out of the ring between them
(`Parted`).

**The schedule implements the calendar** (`CalendarKept`): beside these it needs
`Exact`, that the frame of each packet in the output, counted from the beginning
of the period, is the moment of the packet.  The distance of a bundle on the list
is clipped at zero when it is late, so this says more than that nothing goes out
early.  With `Placed`, what waits is all that was read and neither delivered nor
dropped, so most steps change nothing.  The step that matters is `End`: the loop
ended at a bundle that is not due, and the list is sorted, so none that is due
is left on it (`StayWait`); what is in the output is what is due, no more
(`DueForged`), and its order is one `Calendar` allows (`ForgedRow`).

**The io plugin** (`PluginsProof`), for any URLs, errors, ring size, number of
jobs and of responses: `TypeOK`, `OneStream`, `UrlOnItsWay`, `HostKnows`.
`HostKnows` speaks only of the moment nothing is under way; its strengthening is
`Answered` (the last response under way is the last given, or the status is) and
`Told` (the host knows the status unless it is to be told or has missed it).
`Room` says that a job under way has a place for its response.

**The cloak plugin** (`PluginsProof`), for any size of its buffer, any packets that
the writer can leave in it and any messages of others: `CloakTypeOK` (all stores
are inside the buffer), `InPlace`, `Restored`, `MidiFits`.  `Restored` speaks of
the end; the invariant says what holds at each iteration.  `Encoding`: from the
place of the next store upwards the message is complete, below the next read the
packet is untouched, and `high` has the high bits of those of the group that were
read (`HighOf`).  `OnWire`: messages under way are the whole code of their packets
(`Coded`).  `Decoding` mirrors the first: what was stored is the beginning of the
packet, what is to be read is as it came.  That the one end never runs into the
other is a matter of where they are: byte 7g + r of a packet is byte 8g + r + 2 of
its message, so the encoder stores at least two places above what it reads, until
both meet at the beginning, and the decoder at least one below.  The lemmas
`Inside`, `LastInside`, `FromPacket` and `AllCome` say where the last, incomplete
group ends, which is what the reckoning of the length (`Written`) must meet.

**The discovery** (`EterojQueryProof`), for any peer whose methods can be found
from its root (trees, or graphs with cycles), any ring and any network:
`TypeOK`, `NothingOverlooked`.  The pending nodes are a frontier: a method that is not
shown has a pending, or lost, node above it.  When a description of a node comes in, each of its
items is asked for, shown or lost, and one of them lies on the way to the
method (`AboveItems`), so the frontier moves down and never opens.

**The ninja plugin** (`EterojNinjaProof`), for any input, rings and hosts:
`TypeOK`, `OwnConversion`, `WorkIsScheduled`, `OutputOrdered`, `InOnePlace`.
For the first three the invariant says that, unless
`synchronous` was set at a time the worker was busy, the two threads do not
convert at once (`Alone`), that the buffer holds the event of the thread that
converts, in the form its step expects (`Own`), and that what is forged, ready
or put out is right (`AllRight`).  It needs that a worker with something to do
is seen as such by `RunBegin` (`Busy`).  For the last two an event goes one of two
ways: through the worker, or through `run()` alone.  Each way is a row of
numbered places, from what has been put out back to what is yet to come in.
`InLine` says that along a way the events of a place come before those of the
places behind it, `Rising` that each place is in order, `Shared` that the ways
and the lost part the events between them, and `HandsFree` that `run()` holds
events only at the steps that handle them.  A step passes the first events of a
place on (`Pass`) or loses them (`Lose`), and neither disturbs the line.

**The streams** (`OscStreamProof`), for any networks of either kind, any clients,
questions, parts and accidents: `TypeOK` (with what it says of sockets),
`AnswersAsker`, `Confined`, `OnceInOrder`.  The second follows what may become an answer all the way: with
`Faces` for the client the server sends to, what is pending at the server is
for that client or was pending when the server turned from another (`Due`), and
so is what is under way, in datagrams (`Aired`) or on each connection, whoever
broke or left it (`Wired`).  `Places` ties the sockets to the clients: the server
sends on a connection it has accepted, a client on one of its own.  The server
facing nobody is the hard case: between two connections anything may be pending,
until `Accept` counts what is pending for others as turned from.
For `Confined` and `OnceInOrder` the invariant is
`OInv == Framed /\ Confined /\ Turns /\ Ordered`.  `Confined` has two parts: what is
handed on is whole, unless a part was sent or read on its very connection or it is
a datagram that was cut; and nothing is written beyond the ring's room before that,
which holds only where packets are as short as what the ring is asked for.  `Framed` says that a connection on
which nothing was torn carries whole frames, so that the receiver finds them where they
were put; `Turns`, that nothing is under way to who has closed, that the
server's connection is older than those waiting for it and a client's is its
last; and `Ordered`, that outbox, connections and inbox are in order each and one
behind the other, so that what a step moves on comes behind all that went before.

**The line** (`SlipStreamProof`), for any packets, lines, buffers, portions
and breaks: `TypeOK`, `OnlySpoiledLost`, `OnlySent`. Encoder, decoder and the
receiver's loop are recursive functions; that they exist and what they return
is proved by induction over sets of lengths and places, since the provers
cannot use the induction theorems. `RoundTrip` says that decoding, begun where
an encoded packet stands, finds that packet and ends at its last byte,
wherever it stands and whatever follows. Of what may precede it, a *closer*
(an `END` behind a byte that is neither `END` nor `ESC`, as the last byte of
every frame is) is where any scan stops, so that a torn frame can be misread
but does not swallow the next. The invariant of `OnlySpoiledLost` says of each
frame that it is spoiled, handed on, or *kept*: it stands whole, at the
beginning of the bytes under way or right behind a closer (`AllSettled`); and
that the bytes under way end in a closer, or are none, unless the next frame
is spoiled already (`InFront`). The hard step is `Receive`: what a call leaves
has been decoded in place, and the closers and frames behind the place where
its loop ended must have stayed (`CloserKept`, `HasFrameLeft`). The invariant
of `OnlySent` says of a calm line that the receiver holds no bytes between
calls, that those under way are whole frames in order (`Rows`), and that all
of them come behind what was handed on.

Assumed: what the modules' `ASSUME`s say, and what the modelling assumes (one
producer and one consumer, release/acquire as program order, a host that does
not deactivate in the middle of a job, paths that begin with a slash).

Model-checked only, and why:

- all liveness, by which `Arrives`, `Progress`, `Settles` and their like: out of
  the prover's reach;
- `Carriage`: its packets nest, and its codecs are `RECURSIVE` operators;
- the runs that expect a violation.

## What is not modelled

- of `varchunk.h`: allocation and locking of memory;
- of `props.h`: the messages `props_advance` answers with, registration and
  lookup, the path branches of save and restore (which change only what is
  stored);
- of `stream.h`: URL parsing and address resolution, socket options and their
  errors, the serial line's set-up, polling and the event bits (`EterojIO` takes
  them as they come);
- of `eteroj_io.c`: what goes out (the ring is `Varchunk`, the line
  `SlipStream`); the answers to property messages, which are forged at their own
  frames before OSC packets at frame 0 (eteroj_io.c:370);
- of `eteroj_query.c`: how a JSON description is taken apart (one that names its
  items before its path, eteroj_query.c:642, is not among the peers), ranges and
  values;
- of the OSC headers: dispatch of paths to trees and hooks (`fnmatch`), the
  variants with variable arguments, checks of paths and formats;
- of `netatom.h`: the order of bytes, and that the copy of a URI (netatom.h:121)
  pads over the eight bytes behind its entry as well;
- `jsmn` (vendored), plugin tables, build files: no behaviour of their own.

## Plan

The order was: the ring, because everything between the threads goes through
it; `Props`, the other thing the threads share; the wire (`Slip`,
`SlipStream`); the io plugin (`BundleSchedule`, `EterojIO`); `EterojQuery`;
`EterojNinja`; the other transports (`OscStream`); the codecs (`Carriage`);
and the proofs of all safety invariants but those of `Carriage`. All of this is
done.

What is left, in this order:

1. `props_advance`: Get, Set, Put and Patch and what they answer, at which frame,
   beside the OSC packets of the same period.
2. An abstract channel that `SlipStream` over calm lines and `OscStream` without
   portions both implement, as `Varchunk` does the queue and `BundleSchedule` the
   calendar.
