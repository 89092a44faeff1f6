---------------------------- MODULE PluginsProof ----------------------------
(***************************************************************************)
(* Two of the plugins, which share nothing.                                *)
(*                                                                         *)
(* What the io plugin keeps, for any number of URLs, errors, jobs and      *)
(* responses: one stream at most, the last URL on its way to it, and a     *)
(* host that knows the last status unless that is on its way or was lost.  *)
(*                                                                         *)
(* The cloak plugin restores every packet, in place, for every buffer size *)
(* and whatever has been left in the buffers.                              *)
(***************************************************************************)
EXTENDS EterojIO, EterojCloak, SequenceTheorems, TLAPS

\* The thread's own status is what the last response said, unless that is
\* still to come; then it is the last of those to come.
Answered ==
  IF responses # <<>> THEN responses[Len(responses)] = last ELSE state = last

\* The host knows the thread's own status, unless it has to be told or has
\* missed it.
Told == ~updated /\ ~missed => shown = state

\* A job is taken on only if there is room for its response.
Room == worker # "idle" => Len(responses) < MaxJobs

\* The inductive invariant.
IInv == TypeOK /\ OneStream /\ UrlOnItsWay /\ Answered /\ Told /\ Room

-----------------------------------------------------------------------------
(* Queues.                                                                 *)

\* What is put into a queue is its last element.
LEMMA LastPut ==
  ASSUME NEW S, NEW s \in Seq(S), NEW e \in S
  PROVE  /\ Append(s, e) \in Seq(S) /\ Append(s, e) # <<>>
         /\ Len(Append(s, e)) = Len(s) + 1
         /\ Append(s, e)[Len(Append(s, e))] = e
BY AppendProperties

\* Taking from a queue keeps its last element, or takes it.
LEMMA LastTaken ==
  ASSUME NEW S, NEW s \in Seq(S), s # <<>>
  PROVE  /\ Head(s) \in S /\ Tail(s) \in Seq(S) /\ Len(Tail(s)) = Len(s) - 1
         /\ Tail(s) # <<>> => Tail(s)[Len(Tail(s))] = s[Len(s)]
         /\ Tail(s) = <<>> => Head(s) = s[Len(s)]
<1>1. Len(s) \in Nat \ {0} /\ Tail(s) \in Seq(S) /\ Len(Tail(s)) = Len(s) - 1
  BY EmptySeq, HeadTailProperties
<1>2. Head(s) \in S /\ Head(s) = s[1]
  BY <1>1
<1>3. ASSUME Tail(s) # <<>>
      PROVE  Tail(s)[Len(Tail(s))] = s[Len(s)]
  <2>1. Len(Tail(s)) \in 1..Len(Tail(s)) /\ Len(Tail(s)) + 1 = Len(s)
    BY <1>1, <1>3
  <2> QED
    BY <1>1, <2>1
<1>4. ASSUME Tail(s) = <<>>
      PROVE  Head(s) = s[Len(s)]
  <2>1. Len(s) = 1
    <3> DEFINE n == Len(Tail(s))
    <3>1. n = 0
      BY <1>4, EmptySeq, Zenon
    <3>2. Len(s) \in Int /\ n = Len(s) - 1
      BY <1>1
    <3> HIDE DEF n
    <3> QED
      BY <3>1, <3>2
  <2> QED
    BY <1>2, <2>1
<1> QED
  BY <1>1, <1>2, <1>3, <1>4

-----------------------------------------------------------------------------
(* Opening and closing.                                                    *)

\* Opening for the URL taken over last leaves one stream, of that URL.
LEMMA OpenKeeps ==
  ASSUME TypeOK, OneStream, NEW error \in Outcomes,
         Open(handleUrl, error), handleUrl' = handleUrl
  PROVE  rolling' \in BOOLEAN /\ streams' \in Seq(Urls) /\ OneStream'
<1>1. CASE ~rolling /\ handleUrl # NoUrl
  <2>1. streams = <<>> /\ handleUrl \in Urls
    BY <1>1 DEF OneStream, TypeOK
  <2>2. /\ rolling' = (error = NoError)
        /\ streams' \in IF error = NoError THEN {Append(streams, handleUrl), streams}
                                           ELSE {streams}
    BY <1>1 DEF Open
  <2>3. /\ Append(<<>>, handleUrl) = <<handleUrl>>
        /\ <<handleUrl>> \in Seq(Urls) /\ <<>> \in Seq(Urls)
    BY <2>1
  <2>4. CASE error = NoError
    <3>1. rolling' = TRUE /\ streams' \in {<<>>, <<handleUrl>>}
      BY <2>1, <2>2, <2>3, <2>4
    <3> QED
      BY <1>1, <2>3, <3>1 DEF OneStream
  <2>5. CASE error # NoError
    <3>1. rolling' = FALSE /\ streams' = <<>>
      BY <2>1, <2>2, <2>5
    <3> QED
      BY <2>3, <3>1 DEF OneStream
  <2> QED
    BY <2>4, <2>5
<1>2. CASE ~(~rolling /\ handleUrl # NoUrl)
  <2>1. rolling' = rolling /\ streams' = streams
    BY <1>2 DEF Open
  <2> QED
    BY <2>1 DEF OneStream, TypeOK
<1> QED
  BY <1>1, <1>2

\* Closing leaves no stream.
LEMMA CloseKeeps ==
  ASSUME TypeOK, OneStream, Close
  PROVE  rolling' = FALSE /\ streams' = <<>> /\ OneStream'
<1>1. rolling' = FALSE
  BY DEF Close
<1>2. CASE rolling /\ streams # <<>>
  <2>1. streams = <<handleUrl>> /\ Len(streams) = 1
    BY <1>2 DEF OneStream
  <2>2. streams' = SubSeq(streams, 1, 0)
    BY <1>2, <2>1 DEF Close
  <2>3. SubSeq(streams, 1, 0) = <<>>
    BY <2>1, SubSeqEmpty DEF TypeOK
  <2> QED
    BY <1>1, <2>2, <2>3 DEF OneStream
<1>3. CASE ~(rolling /\ streams # <<>>)
  <2>1. streams = <<>> /\ streams' = streams
    BY <1>3 DEF OneStream, Close
  <2> QED
    BY <1>1, <2>1 DEF OneStream
<1> QED
  BY <1>2, <1>3 DEF TypeOK

-----------------------------------------------------------------------------
(* The steps.                                                              *)

\* It holds at first.
LEMMA InitIInv == Init => IInv
<1> SUFFICES ASSUME Init
             PROVE  IInv
  OBVIOUS
<1>1. Fine \in Status
  BY DEF Fine, Status
<1>2. TypeOK
  <2>1. /\ <<>> \in Seq(Urls) /\ <<>> \in Seq(Status) /\ Len(<<>>) = 0
    BY EmptySeq
  <2>2. 0 \in 0..MaxSets /\ 0 \in 0..MaxJobs /\ 0 <= RingSize /\ 0 <= MaxJobs
    BY SizeAssumption
  <2>3. /\ toThread \in Seq(Urls) /\ Len(toThread) <= RingSize
        /\ responses \in Seq(Status) /\ Len(responses) <= MaxJobs
        /\ streams \in Seq(Urls)
    BY <2>1, <2>2 DEF Init
  <2> QED
    BY <1>1, <2>2, <2>3 DEF Init, TypeOK
<1>3. OneStream /\ UrlOnItsWay /\ Answered /\ Told /\ Room
  BY DEF Init, OneStream, UrlOnItsWay, Answered, Told, Room
<1> QED
  BY <1>2, <1>3 DEF IInv

\* The host activates or deactivates the plugin.
LEMMA HostKeeps == IInv /\ Host => IInv'
<1> SUFFICES ASSUME IInv, Host
             PROVE  IInv'
  OBVIOUS
<1>1. ASSUME NEW error \in Outcomes, Activate(error)
      PROVE  IInv'
  <2>1. rolling' \in BOOLEAN /\ streams' \in Seq(Urls) /\ OneStream'
    BY <1>1, OpenKeeps DEF IInv, Activate
  <2> QED
    BY <1>1, <2>1
    DEF IInv, Activate, TypeOK, UrlOnItsWay, Answered, Told, Room
<1>2. CASE Deactivate
  <2>1. rolling' = FALSE /\ streams' = <<>> /\ OneStream'
    BY <1>2, CloseKeeps DEF IInv, Deactivate
  <2>2. streams' \in Seq(Urls)
    BY <2>1, EmptySeq
  <2> QED
    BY <1>2, <2>1, <2>2
    DEF IInv, Deactivate, TypeOK, UrlOnItsWay, Answered, Told, Room
<1> QED
  BY <1>1, <1>2 DEF Host

\* A URL is set.
LEMMA SetUrlKeeps ==
  ASSUME IInv, NEW u \in Urls, SetUrl(u)
  PROVE  IInv'
<1>1. UNCHANGED <<active, jobs, responses, state, updated, shown, missed, workerVars>>
  BY DEF SetUrl
<1>2. sets' \in 0..MaxSets
  BY SizeAssumption DEF SetUrl, IInv, TypeOK
<1>3. CASE Sendable(u)
  <2>1. toThread' = Append(toThread, u) /\ wanted' = u
    BY <1>3 DEF SetUrl
  <2>2. /\ toThread' \in Seq(Urls) /\ toThread' # <<>>
        /\ toThread'[Len(toThread')] = u /\ Len(toThread') = Len(toThread) + 1
    BY <2>1, LastPut DEF IInv, TypeOK
  <2>3. Len(toThread') <= RingSize
    BY <1>3, <2>2, EmptySeq, SizeAssumption DEF Sendable, IInv, TypeOK
  <2>4. UrlOnItsWay'
    BY <2>1, <2>2 DEF UrlOnItsWay
  <2> QED
    BY <1>1, <1>2, <2>1, <2>2, <2>3, <2>4
    DEF IInv, TypeOK, OneStream, Answered, Told, Room, workerVars
<1>4. CASE ~Sendable(u)
  <2>1. UNCHANGED <<toThread, wanted>>
    BY <1>4 DEF SetUrl
  <2> QED
    BY <1>1, <1>2, <2>1
    DEF IInv, TypeOK, OneStream, UrlOnItsWay, Answered, Told, Room, workerVars
<1> QED
  BY <1>3, <1>4

\* The plugin runs for a period.
LEMMA RunKeeps ==
  ASSUME IInv, NEW fits \in BOOLEAN, Run(fits)
  PROVE  IInv'
<1>1. UNCHANGED <<active, toThread, responses, sets, state, wanted, workerVars>>
  BY DEF Run
<1>2. jobs' \in 0..MaxJobs /\ updated' = FALSE
  BY SizeAssumption DEF Run, IInv, TypeOK
<1>3. CASE updated /\ fits
  <2>1. shown' = state /\ missed' = FALSE
    BY <1>3 DEF Run
  <2> QED
    BY <1>1, <1>2, <2>1
    DEF IInv, TypeOK, OneStream, UrlOnItsWay, Answered, Told, Room, workerVars
<1>4. CASE updated /\ ~fits
  <2>1. missed' = TRUE /\ shown' = shown
    BY <1>4 DEF Run
  <2> QED
    BY <1>1, <1>2, <2>1
    DEF IInv, TypeOK, OneStream, UrlOnItsWay, Answered, Told, Room, workerVars
<1>5. CASE ~updated
  <2>1. UNCHANGED <<shown, missed>>
    BY <1>5 DEF Run
  <2> QED
    BY <1>1, <1>2, <1>5, <2>1
    DEF IInv, TypeOK, OneStream, UrlOnItsWay, Answered, Told, Room, workerVars
<1> QED
  BY <1>3, <1>4, <1>5

\* A response comes in.
LEMMA HandleEnumKeeps == IInv /\ HandleEnum => IInv'
<1> SUFFICES ASSUME IInv, HandleEnum
             PROVE  IInv'
  OBVIOUS
<1> DEFINE r == Head(responses)
<1>1. UNCHANGED <<active, toThread, jobs, sets, wanted, shown, missed, workerVars>>
  BY DEF HandleEnum
<1>2. /\ responses # <<>> /\ responses' = Tail(responses)
      /\ state' = r /\ updated' = (updated \/ Changes(r))
  BY DEF HandleEnum
<1>3. responses \in Seq(Status) /\ Len(responses) <= MaxJobs
  BY DEF IInv, TypeOK
<1>4. /\ r \in Status /\ responses' \in Seq(Status)
      /\ Len(responses') = Len(responses) - 1
      /\ responses' # <<>> => responses'[Len(responses')] = responses[Len(responses)]
      /\ responses' = <<>> => r = responses[Len(responses)]
  BY <1>2, <1>3, LastTaken
<1>5. Len(responses') < MaxJobs /\ Len(responses') <= MaxJobs
  BY <1>3, <1>4, EmptySeq, SizeAssumption
<1>6. Answered'
  BY <1>1, <1>2, <1>4 DEF IInv, Answered, workerVars
<1>7. Told'
  <2> SUFFICES ASSUME ~updated', ~missed'
               PROVE  shown' = state'
    BY DEF Told
  <2>1. ~updated /\ ~Changes(r)
    BY <1>2, Zenon
  <2>2. state = r
    <3>1. state \in Status /\ r \in Status
      BY <1>4 DEF IInv, TypeOK
    <3>2. state.error = r.error /\ state.connected = r.connected
      BY <2>1 DEF Changes
    <3> HIDE DEF r
    <3> QED
      BY <3>1, <3>2 DEF Status
  <2>3. shown = state
    BY <1>1, <2>1 DEF IInv, Told
  <2> QED
    BY <1>1, <1>2, <2>2, <2>3
<1>8. updated' \in BOOLEAN
  BY <1>2, Zenon
<1>9. TypeOK'
  <2>1. {state', last', shown'} \subseteq Status
    BY <1>1, <1>2, <1>4 DEF IInv, TypeOK, workerVars
  <2> QED
    BY <1>1, <1>4, <1>5, <1>8, <2>1 DEF IInv, TypeOK, workerVars
<1> QED
  BY <1>1, <1>2, <1>5, <1>6, <1>7, <1>9
  DEF IInv, OneStream, UrlOnItsWay, Room, workerVars

\* The worker takes on a job.
LEMMA WorkKeeps == IInv /\ Work => IInv'
BY SizeAssumption
DEF IInv, Work, TypeOK, OneStream, UrlOnItsWay, Answered, Told, Room, rtVars

\* It takes a URL out of the ring.
LEMMA DrainKeeps == IInv /\ Drain => IInv'
<1> SUFFICES ASSUME IInv, Drain
             PROVE  IInv'
  OBVIOUS
<1> DEFINE u == Head(toThread)
<1>1. UNCHANGED <<jobs, responses, rtVars, worker, ev, handleUrl, rolling,
                  streams, last>>
  BY DEF Drain
<1>2. toThread # <<>> /\ toThread' = Tail(toThread) /\ osc_url' = u
  BY DEF Drain, Kept
<1>3. toThread \in Seq(Urls) /\ Len(toThread) <= RingSize
  BY DEF IInv, TypeOK
<1>4. /\ u \in Urls /\ toThread' \in Seq(Urls)
      /\ Len(toThread') = Len(toThread) - 1
      /\ toThread' # <<>> => toThread'[Len(toThread')] = toThread[Len(toThread)]
      /\ toThread' = <<>> => u = toThread[Len(toThread)]
  BY <1>2, <1>3, LastTaken
<1>5. Len(toThread') <= RingSize
  BY <1>3, <1>4, EmptySeq, SizeAssumption
<1>6. UrlOnItsWay'
  BY <1>1, <1>2, <1>4, UrlsAssumption DEF IInv, UrlOnItsWay, rtVars
<1> QED
  BY <1>1, <1>2, <1>4, <1>5, <1>6
  DEF IInv, TypeOK, OneStream, Answered, Told, Room, rtVars

\* It takes over the last URL.
LEMMA SwitchKeeps == IInv /\ Switch => IInv'
<1> SUFFICES ASSUME IInv, Switch
             PROVE  IInv'
  OBVIOUS
<1>1. /\ UNCHANGED <<toThread, jobs, responses, rtVars, ev, last>>
      /\ osc_url' = NoUrl /\ worker' = "open" /\ worker = "drain" /\ toThread = <<>>
  BY DEF Switch
<1>2. CASE osc_url # NoUrl
  <2>1. handleUrl' = osc_url /\ Close
    BY <1>2 DEF Switch
  <2>2. rolling' = FALSE /\ streams' = <<>> /\ OneStream'
    BY <2>1, CloseKeeps DEF IInv
  <2>3. streams' \in Seq(Urls)
    BY <2>2, EmptySeq
  <2> QED
    BY <1>1, <1>2, <2>1, <2>2, <2>3
    DEF IInv, TypeOK, UrlOnItsWay, Answered, Told, Room, rtVars
<1>3. CASE osc_url = NoUrl
  <2>1. UNCHANGED <<handleUrl, rolling, streams>>
    BY <1>3 DEF Switch
  <2> QED
    BY <1>1, <1>3, <2>1
    DEF IInv, TypeOK, OneStream, UrlOnItsWay, Answered, Told, Room, rtVars
<1> QED
  BY <1>2, <1>3

\* It opens the stream.
LEMMA ReopenKeeps ==
  ASSUME IInv, NEW error \in Outcomes, Reopen(error)
  PROVE  IInv'
<1>1. /\ UNCHANGED <<toThread, jobs, responses, rtVars, osc_url, handleUrl, last>>
      /\ worker' = "run" /\ worker = "open"
  BY DEF Reopen
<1>2. ev' \in Errors \cup {NoError}
  BY DEF Reopen, Outcomes
<1>3. rolling' \in BOOLEAN /\ streams' \in Seq(Urls) /\ OneStream'
  BY <1>1, OpenKeeps DEF IInv, Reopen
<1> QED
  BY <1>1, <1>2, <1>3 DEF IInv, TypeOK, UrlOnItsWay, Answered, Told, Room, rtVars

\* It responds.
LEMMA RespondKeeps ==
  ASSUME IInv, NEW error \in Outcomes, NEW connected \in BOOLEAN,
         Respond(error, connected)
  PROVE  IInv'
<1> DEFINE r == IF rolling THEN [error |-> error, connected |-> connected]
                           ELSE [error |-> ev, connected |-> FALSE]
<1>1. /\ UNCHANGED <<toThread, jobs, rtVars, osc_url, handleUrl, rolling>>
      /\ responses' = Append(responses, r) /\ last' = r
      /\ ev' = NoError /\ worker' = "idle" /\ worker = "run"
  BY DEF Respond
<1>2. r \in Status
  BY DEF Status, Outcomes, IInv, TypeOK
<1>3. responses \in Seq(Status) /\ Len(responses) < MaxJobs
  BY <1>1 DEF IInv, TypeOK, Room
<1>4. /\ responses' \in Seq(Status) /\ responses' # <<>>
      /\ Len(responses') = Len(responses) + 1
      /\ responses'[Len(responses')] = r
  BY <1>1, <1>2, <1>3, LastPut
<1>5. Len(responses') <= MaxJobs
  BY <1>3, <1>4, EmptySeq, SizeAssumption
<1>6. streams' \in Seq(Urls) /\ OneStream'
  <2>1. CASE rolling /\ streams = <<>>
    <3>1. handleUrl \in Urls /\ <<handleUrl>> \in Seq(Urls)
      BY <2>1 DEF IInv, TypeOK, OneStream
    <3>2. streams' \in {<<>>, <<handleUrl>>}
      BY <2>1 DEF Respond
    <3>3. rolling' /\ handleUrl' = handleUrl /\ handleUrl # NoUrl
      BY <1>1, <2>1 DEF IInv, OneStream
    <3> QED
      BY <3>1, <3>2, <3>3, EmptySeq DEF OneStream
  <2>2. CASE ~(rolling /\ streams = <<>>)
    <3>1. streams' = streams
      BY <2>2 DEF Respond
    <3> QED
      BY <1>1, <3>1 DEF IInv, TypeOK, OneStream
  <2> QED
    BY <2>1, <2>2
<1> QED
  BY <1>1, <1>2, <1>4, <1>5, <1>6
  DEF IInv, TypeOK, UrlOnItsWay, Answered, Told, Room, rtVars

\* Every step keeps the invariant.
LEMMA NextIInv == IInv /\ [Next]_vars => IInv'
<1> SUFFICES ASSUME IInv, [Next]_vars
             PROVE  IInv'
  OBVIOUS
<1>1. CASE Host
  BY <1>1, HostKeeps
<1>2. CASE RealTime
  BY <1>2, SetUrlKeeps, RunKeeps, HandleEnumKeeps DEF RealTime
<1>3. CASE Work
  BY <1>3, WorkKeeps
<1>4. CASE Job
  BY <1>4, DrainKeeps, SwitchKeeps, ReopenKeeps, RespondKeeps DEF Job
<1>5. CASE UNCHANGED vars
  BY <1>5 DEF IInv, TypeOK, OneStream, UrlOnItsWay, Answered, Told, Room, vars,
              rtVars, workerVars
<1> QED
  BY <1>1, <1>2, <1>3, <1>4, <1>5 DEF Next

-----------------------------------------------------------------------------
(* The theorems.                                                           *)

\* The inductive invariant always holds.
THEOREM Invariant == Spec => []IInv
BY InitIInv, NextIInv, PTL DEF Spec

\* The state has its types, in every run of eteroj_io.c.
THEOREM TypesKept == Spec => []TypeOK
<1>1. IInv => TypeOK
  BY DEF IInv
<1> QED
  BY <1>1, Invariant, PTL

\* At most one stream is open, and it is that of the URL taken over last,
\* however many URLs are set and whatever fails (eteroj_io.c:610-645, 705-716).
THEOREM StreamIsOne == Spec => []OneStream
<1>1. IInv => OneStream
  BY DEF IInv
<1> QED
  BY <1>1, Invariant, PTL

\* The last URL sent is the last in the ring, or the worker's, or in use
\* (eteroj_io.c:155-182, 686-714).
THEOREM UrlNeverLost == Spec => []UrlOnItsWay
<1>1. IInv => UrlOnItsWay
  BY DEF IInv
<1> QED
  BY <1>1, Invariant, PTL

\* The host knows what the last job said, unless that is on its way or did not
\* fit into the output (eteroj_io.c:544-550, 562-608).
THEOREM HostIsTold == Spec => []HostKnows
<1>1. IInv => HostKnows
  BY DEF IInv, Answered, Told, HostKnows
<1> QED
  BY <1>1, Invariant, PTL

-----------------------------------------------------------------------------
(* The cloak plugin.                                                       *)

\* The high bits of those bytes of a group that are at l or behind it.
HighOf(p, g, l) == {k \in 0..6 : l <= 7 * g + k /\ 7 * g + k < Len(p) /\ High \in p[7 * g + k + 1]}

\* Byte m of the message of a packet.
Code(p, m) ==
  IF m = 0 THEN START
  ELSE IF m = Written(Len(p)) - 1 THEN END
  ELSE IF (m - 1) % 8 = 0 THEN HighOf(p, (m - 1) \div 8, 0)
  ELSE p[m - 1 - ((m - 1) \div 8)] \ {High}

Coded(p) == [k \in 1..Written(Len(p)) |-> Code(p, k - 1)]

\* _7bit_encode has l bytes to go: below, the packet is as it was; above the
\* place of the next byte the message is complete.
InEncode(b, p, l, t, h) ==
  /\ p \in Payloads /\ Written(Len(p)) <= BufSize
  /\ l \in 0..Len(p) /\ t \in Nat
  /\ l = 0 => t = 0 /\ h = {}
  /\ \A g \in Nat : l - 1 \in (7 * g)..(7 * g + 6) => t = l + 1 + g /\ h = HighOf(p, g, l)
  /\ \A j \in 0..(l - 1) : b[j] = p[j + 1]
  /\ \A m \in (t + 1)..(Written(Len(p)) - 1) : b[m] = Code(p, m)

\* What is under way is complete.
Sent(c) == c.of # None =>
             c.of \in Payloads /\ Written(Len(c.of)) <= BufSize /\ c.bytes = Coded(c.of)

\* _7bit_decode has come to i: behind, the message is as it was; below the place
\* of the next byte the packet is complete.
InDecode(b, c, i, t, a) ==
  /\ i \in Nat /\ t \in Nat
  /\ Len(c.bytes) \in 2..BufSize /\ i <= Len(c.bytes) - 2
  /\ \A q \in Nat : i = 8 * q => t = 7 * q
  /\ \A q \in Nat : i \in (8 * q + 1)..(8 * q + 7) =>
       /\ t = i - q - 1
       /\ c.of # None => a = HighOf(c.of, q, 0)
  /\ \A m \in (i + 1)..(Len(c.bytes) - 1) : b[m] = c.bytes[m + 1]
  /\ c.of # None => \A j \in 0..(t - 1) : b[j] = c.of[j + 1]

Encoding ==
  /\ tx = "encode" => InEncode(txBuf, payload, left, top, high)
  /\ tx # "encode" => high = {}
  /\ tx = "overrun" => payload \in Payloads /\ Written(Len(payload)) > BufSize
OnWire == \A n \in DOMAIN wire : Sent(wire[n])
Decoding ==
  /\ rx = "decode" => wire # <<>> /\ InDecode(rxBuf, Head(wire), pos, to, acc)
  /\ rx # "decode" => pos = 0 /\ to = 0 /\ acc = {}
  /\ rx = "overrun" => wire # <<>> /\ Len(Head(wire).bytes) > BufSize

CloakInv == CloakTypeOK /\ Encoding /\ OnWire /\ Decoding
-----------------------------------------------------------------------------
(* Where the bytes of a packet come to stand.                              *)

\* Bytes go by sevens, and the bytes of a message by eights.
LEMMA Sevens == ASSUME NEW i \in Nat PROVE \E g \in Nat, r \in 0..6 : i = 7 * g + r
<1>1. i \div 7 \in Nat /\ i % 7 \in 0..6 /\ i = 7 * (i \div 7) + (i % 7)
  BY SMT
<1> QED
  BY <1>1

LEMMA Eights == ASSUME NEW i \in Nat PROVE \E q \in Nat, r \in 0..7 : i = 8 * q + r
<1>1. i \div 8 \in Nat /\ i % 8 \in 0..7 /\ i = 8 * (i \div 8) + (i % 8)
  BY SMT
<1> QED
  BY <1>1

\* The length of the message, by the groups of the packet.
LEMMA WrittenIs ==
  ASSUME NEW n \in Nat
  PROVE  \E Q \in Nat, R \in 0..6 :
           n = 7 * Q + R /\ Written(n) = 8 * Q + (IF R = 0 THEN 0 ELSE 1 + R) + 2
<1>1. n \div 7 \in Nat /\ n % 7 \in 0..6 /\ n = 7 * (n \div 7) + (n % 7)
  BY SMT
<1> QED
  BY <1>1 DEF Written

LEMMA WrittenNat ==
  ASSUME NEW n \in Nat
  PROVE  Written(n) \in Nat /\ Written(n) >= n + 2
<1>1. PICK Q \in Nat, R \in 0..6 :
        n = 7 * Q + R /\ Written(n) = 8 * Q + (IF R = 0 THEN 0 ELSE 1 + R) + 2
  BY WrittenIs
<1> QED
  BY <1>1

\* A packet whose message is too long takes more than seven eighths of the room.
LEMMA LargePacket ==
  ASSUME NEW n \in Nat, NEW room \in Nat, Written(n) > room
  PROVE  8 * n > 7 * (room - 2)
<1>1. PICK Q \in Nat, R \in 0..6 :
        n = 7 * Q + R /\ Written(n) = 8 * Q + (IF R = 0 THEN 0 ELSE 1 + R) + 2
  BY WrittenIs
<1> QED
  BY <1>1

\* Every byte of a packet has a place before the end of the message.
LEMMA Inside ==
  ASSUME NEW n \in Nat, NEW g \in Nat, NEW r \in 0..6, 7 * g + r < n
  PROVE  8 * g + r + 2 <= Written(n) - 2
<1>1. PICK Q \in Nat, R \in 0..6 :
        n = 7 * Q + R /\ Written(n) = 8 * Q + (IF R = 0 THEN 0 ELSE 1 + R) + 2
  BY WrittenIs
<1>2. CASE g < Q
  BY <1>1, <1>2
<1>3. CASE g >= Q
  <2>1. g = Q /\ r < R
    BY <1>1, <1>3
  <2> QED
    BY <2>1, <1>1
<1> QED
  BY <1>2, <1>3

\* The last one stands right before the end.
LEMMA LastInside ==
  ASSUME NEW n \in Nat, NEW g \in Nat, NEW r \in 0..6, 7 * g + r = n - 1
  PROVE  8 * g + r + 2 = Written(n) - 2
<1>1. PICK Q \in Nat, R \in 0..6 :
        n = 7 * Q + R /\ Written(n) = 8 * Q + (IF R = 0 THEN 0 ELSE 1 + R) + 2
  BY WrittenIs
<1>2. CASE R = 0
  <2>1. g = Q - 1 /\ r = 6
    BY <1>1, <1>2
  <2> QED
    BY <2>1, <1>1, <1>2
<1>3. CASE R # 0
  <2>1. g = Q /\ r = R - 1
    BY <1>1, <1>3
  <2> QED
    BY <2>1, <1>1, <1>3
<1> QED
  BY <1>2, <1>3

\* What is before the end of the message comes from the packet.
LEMMA FromPacket ==
  ASSUME NEW n \in Nat, NEW q \in Nat, NEW r \in 1..7, 8 * q + r < Written(n) - 2
  PROVE  7 * q + r - 1 < n
<1>1. PICK Q \in Nat, R \in 0..6 :
        n = 7 * Q + R /\ Written(n) = 8 * Q + (IF R = 0 THEN 0 ELSE 1 + R) + 2
  BY WrittenIs
<1>2. CASE q < Q
  BY <1>1, <1>2
<1>3. CASE q >= Q
  <2>1. q = Q /\ r <= R
    BY <1>1, <1>3
  <2> QED
    BY <2>1, <1>1
<1> QED
  BY <1>2, <1>3

\* At the end of the message all of the packet has come.
LEMMA AllCome ==
  ASSUME NEW n \in Nat, NEW q \in Nat, NEW r \in 0..7, 8 * q + r = Written(n) - 2
  PROVE  n = IF r = 0 THEN 7 * q ELSE 7 * q + r - 1
<1>1. PICK Q \in Nat, R \in 0..6 :
        n = 7 * Q + R /\ Written(n) = 8 * Q + (IF R = 0 THEN 0 ELSE 1 + R) + 2
  BY WrittenIs
<1>2. CASE R = 0
  <2>1. q = Q /\ r = 0
    BY <1>1, <1>2
  <2> QED
    BY <2>1, <1>1, <1>2
<1>3. CASE R # 0
  <2>1. q = Q /\ r = 1 + R
    BY <1>1, <1>3
  <2> QED
    BY <2>1, <1>1, <1>3
<1> QED
  BY <1>2, <1>3

\* Byte j of a packet, from 1, is the one after r others of group g.
InGroup(j, g, r) == g \in Nat /\ r \in 0..6 /\ j = 7 * g + r + 1

\* The three kinds of bytes of a message.
LEMMA CodeLow ==
  ASSUME NEW p, Len(p) \in Nat, NEW g, NEW r, NEW j, InGroup(j, g, r), j <= Len(p),
         NEW m, m = 8 * g + r + 2
  PROVE  Code(p, m) = p[j] \ {High}
<1> g \in Nat /\ r \in 0..6 /\ j = 7 * g + r + 1
  BY DEF InGroup
<1>1. 8 * g + r + 2 <= Written(Len(p)) - 2
  BY Inside
<1> Written(Len(p)) \in Nat
  BY WrittenNat
<1>2. m # 0 /\ m # Written(Len(p)) - 1
  BY <1>1
<1>3. m - 1 = 8 * g + (r + 1) /\ r + 1 \in 1..7
  BY SMT
<1>4. (m - 1) % 8 = r + 1 /\ (m - 1) \div 8 = g
  BY <1>3
<1>5. m - 1 - ((m - 1) \div 8) = j
  BY <1>3, <1>4
<1> QED
  BY <1>2, <1>4, <1>5 DEF Code

LEMMA CodeHeader ==
  ASSUME NEW p, Len(p) \in Nat, NEW g \in Nat, NEW m, m = 8 * g + 1, m < Written(Len(p)) - 1
  PROVE  Code(p, m) = HighOf(p, g, 0)
<1>1. m # 0 /\ m # Written(Len(p)) - 1
  BY WrittenNat
<1>2. (m - 1) % 8 = 0 /\ (m - 1) \div 8 = g
  BY SMT
<1> QED
  BY <1>1, <1>2 DEF Code

LEMMA CodeEnds ==
  ASSUME NEW p, Len(p) \in Nat
  PROVE  Code(p, 0) = START /\ Code(p, Written(Len(p)) - 1) = END
  BY WrittenNat DEF Code

\* Between its ends a message has seven bits a byte.
LEMMA CodeSeven ==
  ASSUME NEW p, Len(p) \in Nat, NEW m \in 1..(Written(Len(p)) - 2)
  PROVE  High \notin Code(p, m)
<1> Written(Len(p)) \in Nat
  BY WrittenNat
<1>1. m # 0 /\ m # Written(Len(p)) - 1
  OBVIOUS
<1> QED
  BY <1>1 DEF Code, HighOf, High

\* One byte more of a group; a group of which all are there, and one without any.
LEMMA OneMore ==
  ASSUME NEW p, Len(p) \in Nat, NEW g, NEW r, NEW l, InGroup(l, g, r), l <= Len(p)
  PROVE  HighOf(p, g, l - 1) = HighOf(p, g, l) \cup Upper(p[l], r)
<1> g \in Nat /\ r \in 0..6 /\ l = 7 * g + r + 1
  BY DEF InGroup
<1>1. ASSUME NEW k \in 0..6
      PROVE  k \in HighOf(p, g, l - 1) <=> k \in HighOf(p, g, l) \/ k \in Upper(p[l], r)
  <2>1. CASE k = r
    <3>1. 7 * g + k + 1 = l /\ k \notin HighOf(p, g, l)
      BY <2>1 DEF HighOf
    <3>2. k \in HighOf(p, g, l - 1) <=> High \in p[l]
      BY <2>1, <3>1 DEF HighOf
    <3> QED
      BY <2>1, <3>1, <3>2 DEF Upper
  <2>2. CASE k # r
    BY <2>2 DEF HighOf, Upper
  <2> QED
    BY <2>1, <2>2
<1>2. Upper(p[l], r) \subseteq 0..6
  BY DEF Upper
<1> QED
  BY <1>1, <1>2 DEF HighOf

LEMMA AllOfGroup ==
  ASSUME NEW p, Len(p) \in Nat, NEW g \in Nat, NEW l, l = 7 * g
  PROVE  HighOf(p, g, l) = HighOf(p, g, 0)
  BY DEF HighOf

LEMMA NoneOfGroup ==
  ASSUME NEW p, Len(p) \in Nat, NEW g \in Nat, NEW l \in Nat, l > 7 * g + 6 \/ l >= Len(p)
  PROVE  HighOf(p, g, l) = {}
  BY DEF HighOf

\* The high bit comes back from the group's.
LEMMA LowerIs ==
  ASSUME NEW p, Len(p) \in Nat, NEW g, NEW r, NEW j, InGroup(j, g, r), j <= Len(p)
  PROVE  (p[j] \ {High}) \cup (IF r \in HighOf(p, g, 0) THEN {High} ELSE {}) = p[j]
<1>1. r \in HighOf(p, g, 0) <=> High \in p[j]
  BY DEF HighOf, InGroup
<1> QED
  BY <1>1

-----------------------------------------------------------------------------
(* The two loops.                                                          *)

Buffer == [Indices -> Byte]

LEMMA PacketType ==
  ASSUME NEW p \in Payloads
  PROVE  /\ p \in Seq(Byte) /\ Len(p) \in 1..(BufSize - 1) /\ Len(p) \in Nat
         /\ BufSize \in Nat /\ p # None
         /\ Written(Len(p)) \in Nat /\ Written(Len(p)) >= Len(p) + 2
<1>1. p \in Seq(Byte) /\ Len(p) \in 1..(BufSize - 1) /\ BufSize \in Nat
  BY PayloadsAssumption
<1>2. Len(p) \in Nat /\ p # None
  BY <1>1 DEF None
<1> QED
  BY <1>1, <1>2, WrittenNat

LEMMA OverType ==
  ASSUME NEW b \in Buffer, NEW s \in Seq(Byte), Len(s) <= BufSize
  PROVE  /\ Over(b, s) \in Buffer
         /\ \A a \in 0..(Len(s) - 1) : Over(b, s)[a] = s[a + 1]
<1> BufSize \in Nat
  BY PayloadsAssumption
<1>1. Len(s) \in Nat /\ \A k \in 1..Len(s) : s[k] \in Byte
  OBVIOUS
<1>2. ASSUME NEW a \in Indices
      PROVE  (IF a < Len(s) THEN s[a + 1] ELSE b[a]) \in Byte
  BY <1>1 DEF Buffer, Indices
<1>3. Over(b, s) \in Buffer
  BY <1>2 DEF Over, Buffer
<1>4. ASSUME NEW a \in 0..(Len(s) - 1)
      PROVE  Over(b, s)[a] = s[a + 1]
  BY <1>1 DEF Over, Indices
<1> QED
  BY <1>3, <1>4

\* Where the next byte goes.
LEMMA EncodePlace ==
  ASSUME NEW b, NEW p, NEW l, NEW t, NEW h, InEncode(b, p, l, t, h)
  PROVE  /\ t \in Indices /\ (l = 0 <=> t = 0)
         /\ t <= Written(Len(p)) - 2
         /\ l > 0 => \E g \in Nat, r \in 0..6 :
              l - 1 = 7 * g + r /\ t = 8 * g + r + 2 /\ h = HighOf(p, g, l)
<1> p \in Payloads /\ l \in 0..Len(p) /\ t \in Nat /\ Written(Len(p)) <= BufSize
  BY DEF InEncode
<1> Len(p) \in Nat /\ BufSize \in Nat /\ Written(Len(p)) \in Nat /\ Written(Len(p)) >= Len(p) + 2
  BY PacketType
<1>1. CASE l = 0
  BY <1>1 DEF InEncode, Indices
<1>2. CASE l > 0
  <2> PICK i \in Nat : i = l - 1
    BY <1>2
  <2>1. PICK g \in Nat, r \in 0..6 : i = 7 * g + r
    BY Sevens
  <2>2. l - 1 \in (7 * g)..(7 * g + 6)
    BY <2>1
  <2>3. t = l + 1 + g /\ h = HighOf(p, g, l)
    BY <2>2 DEF InEncode
  <2>4. 7 * g + r < Len(p) /\ t = 8 * g + r + 2
    BY <2>1, <2>3
  <2>5. t <= Written(Len(p)) - 2
    BY <2>4, Inside
  <2>6. t \in Indices /\ t # 0
    BY <2>4, <2>5 DEF Indices
  <2> QED
    BY <2>1, <2>3, <2>4, <2>5, <2>6, <1>2
<1> QED
  BY <1>1, <1>2

LEMMA EncodeStart ==
  ASSUME NEW b \in Buffer, NEW p \in Payloads, Written(Len(p)) <= BufSize
  PROVE  /\ [Over(b, p) EXCEPT ![Written(Len(p)) - 1] = END] \in Buffer
         /\ InEncode([Over(b, p) EXCEPT ![Written(Len(p)) - 1] = END], p, Len(p), Written(Len(p)) - 2, {})
<1> PICK w \in Nat, n \in Nat : w = Written(Len(p)) /\ n = Len(p)
  BY PacketType
<1> n \in 1..(BufSize - 1) /\ BufSize \in Nat /\ w >= n + 2 /\ p \in Seq(Byte)
  BY PacketType
<1> PICK o \in Buffer : o = Over(b, p) /\ \A a \in 0..(n - 1) : o[a] = p[a + 1]
  BY OverType
<1> PICK c : c = [o EXCEPT ![w - 1] = END]
  OBVIOUS
<1>1. c \in Buffer
  BY DEF Buffer, Indices, Byte, END
<1>2. \A j \in 0..(n - 1) : c[j] = p[j + 1]
  BY DEF Buffer, Indices
<1>3. \A m \in (w - 2 + 1)..(w - 1) : c[m] = Code(p, m)
  <2>1. c[w - 1] = END
    BY DEF Buffer, Indices
  <2>2. Code(p, w - 1) = END
    BY CodeEnds
  <2>3. ASSUME NEW m \in (w - 2 + 1)..(w - 1) PROVE m = w - 1
    OBVIOUS
  <2> QED
    BY <2>1, <2>2, <2>3
<1>4. ASSUME NEW g \in Nat, n - 1 \in (7 * g)..(7 * g + 6)
      PROVE  w - 2 = n + 1 + g /\ {} = HighOf(p, g, n)
  <2>1. n - 1 = 7 * g + (n - 1 - 7 * g) /\ n - 1 - 7 * g \in 0..6
    BY <1>4
  <2>2. PICK r \in 0..6 : n - 1 = 7 * g + r
    BY <2>1
  <2>3. 8 * g + r + 2 = w - 2
    BY <2>2, LastInside
  <2>4. HighOf(p, g, n) = {}
    BY NoneOfGroup
  <2>5. w - 2 = n + 1 + g
    BY ONLY <2>2, <2>3, n \in Nat, w \in Nat, g \in Nat, r \in 0..6
  <2> QED
    BY <2>4, <2>5
<1>5. w - 2 \in Nat /\ n # 0 /\ n \in 0..n
  OBVIOUS
<1>6. InEncode(c, p, n, w - 2, {})
  BY <1>2, <1>3, <1>4, <1>5 DEF InEncode
<1> QED
  BY <1>1, <1>6

\* A byte that is not the first of its group.
LEMMA EncodeLow ==
  ASSUME NEW b \in Buffer, NEW p, NEW l, NEW t, NEW h, InEncode(b, p, l, t, h),
         l > 0, NEW g \in Nat, NEW r \in 1..6, l - 1 = 7 * g + r
  PROVE  /\ [b EXCEPT ![t] = b[l - 1] \ {High}] \in Buffer
         /\ InEncode([b EXCEPT ![t] = b[l - 1] \ {High}], p, l - 1, t - 1, h \cup Upper(b[l - 1], r))
<1> p \in Payloads /\ l \in 0..Len(p) /\ t \in Nat /\ Written(Len(p)) <= BufSize
  BY DEF InEncode
<1> PICK w \in Nat, n \in Nat : w = Written(Len(p)) /\ n = Len(p)
  BY PacketType
<1> n \in 1..(BufSize - 1) /\ BufSize \in Nat /\ w >= n + 2 /\ p \in Seq(Byte)
  BY PacketType
<1>1. t = l + 1 + g /\ h = HighOf(p, g, l)
  BY DEF InEncode
<1>2. t \in Indices /\ t <= w - 2
  BY EncodePlace
<1>3. b[l - 1] = p[l]
  <2>1. \A j \in 0..(l - 1) : b[j] = p[j + 1]
    BY DEF InEncode
  <2> QED
    BY <2>1
<1> PICK c : c = [b EXCEPT ![t] = b[l - 1] \ {High}]
  OBVIOUS
<1>4. c \in Buffer
  <2>1. l - 1 \in Indices
    BY DEF Indices
  <2>2. b[l - 1] \ {High} \in Byte
    BY <2>1 DEF Buffer, Byte
  <2> QED
    BY <2>2, <1>2 DEF Buffer
<1>5. \A j \in 0..(l - 1 - 1) : c[j] = p[j + 1]
  <2> SUFFICES ASSUME NEW j \in 0..(l - 1 - 1) PROVE c[j] = p[j + 1]
    OBVIOUS
  <2>1. j # t /\ j \in Indices /\ j \in 0..(l - 1)
    BY <1>1, <1>2 DEF Indices
  <2>2. c[j] = b[j]
    BY <2>1 DEF Buffer
  <2> QED
    BY <2>1, <2>2 DEF InEncode
<1>6. \A m \in (t - 1 + 1)..(w - 1) : c[m] = Code(p, m)
  <2> SUFFICES ASSUME NEW m \in t..(w - 1) PROVE c[m] = Code(p, m)
    BY <1>2 DEF Indices
  <2>1. CASE m = t
    <3>1. c[m] = p[l] \ {High}
      BY <1>2, <1>3, <2>1 DEF Buffer
    <3>2. m = 8 * g + r + 2 /\ InGroup(l, g, r) /\ l <= n
      BY <1>1, <2>1 DEF InGroup
    <3>3. Code(p, m) = p[l] \ {High}
      BY <3>2, CodeLow
    <3> QED
      BY <3>1, <3>3
  <2>2. CASE m # t
    <3>1. m \in (t + 1)..(w - 1) /\ m \in Indices
      BY <2>2, <1>2 DEF Indices
    <3>2. c[m] = b[m]
      BY <3>1, <2>2 DEF Buffer
    <3> QED
      BY <3>1, <3>2 DEF InEncode
  <2> QED
    BY <2>1, <2>2
<1>7. h \cup Upper(b[l - 1], r) = HighOf(p, g, l - 1)
  <2>1. InGroup(l, g, r) /\ l <= n
    BY DEF InGroup
  <2>2. HighOf(p, g, l - 1) = HighOf(p, g, l) \cup Upper(p[l], r)
    BY <2>1, OneMore
  <2> QED
    BY <2>2, <1>1, <1>3
<1>8. ASSUME NEW f \in Nat, l - 1 - 1 \in (7 * f)..(7 * f + 6)
      PROVE  t - 1 = l - 1 + 1 + f /\ f = g
  BY <1>8, <1>1
<1>9. l - 1 # 0 /\ l - 1 \in 0..n /\ t - 1 \in Nat
  BY <1>1
<1>10. InEncode(c, p, l - 1, t - 1, h \cup Upper(b[l - 1], r))
  BY <1>5, <1>6, <1>7, <1>8, <1>9 DEF InEncode
<1> QED
  BY <1>4, <1>10

\* The first byte of a group.
LEMMA EncodeHeader ==
  ASSUME NEW b \in Buffer, NEW p, NEW l, NEW t, NEW h, InEncode(b, p, l, t, h),
         l > 0, NEW g \in Nat, l - 1 = 7 * g, NEW low, low = [b EXCEPT ![t] = b[l - 1] \ {High}],
         NEW all, all = h \cup Upper(b[l - 1], 0)
  PROVE  /\ [low EXCEPT ![t - 1] = all] \in Buffer
         /\ InEncode([low EXCEPT ![t - 1] = all], p, l - 1, t - 2, {})
<1> p \in Payloads /\ l \in 0..Len(p) /\ t \in Nat /\ Written(Len(p)) <= BufSize
  BY DEF InEncode
<1> PICK w \in Nat, n \in Nat : w = Written(Len(p)) /\ n = Len(p)
  BY PacketType
<1> n \in 1..(BufSize - 1) /\ BufSize \in Nat /\ w >= n + 2 /\ p \in Seq(Byte)
  BY PacketType
<1>1. t = l + 1 + g /\ h = HighOf(p, g, l)
  BY DEF InEncode
<1>2. t \in Indices /\ t - 1 \in Indices /\ t <= w - 2 /\ t >= 2
  BY EncodePlace, <1>1 DEF Indices
<1>3. b[l - 1] = p[l]
  <2>1. \A j \in 0..(l - 1) : b[j] = p[j + 1]
    BY DEF InEncode
  <2> QED
    BY <2>1
<1>4. all = HighOf(p, g, 0)
  <2>1. InGroup(l, g, 0) /\ l <= n
    BY DEF InGroup
  <2>2. HighOf(p, g, l - 1) = HighOf(p, g, l) \cup Upper(p[l], 0)
    BY <2>1, OneMore
  <2>3. HighOf(p, g, l - 1) = HighOf(p, g, 0)
    BY AllOfGroup
  <2> QED
    BY <2>2, <2>3, <1>1, <1>3
<1>5. all \in Byte
  BY <1>4 DEF HighOf, Byte
<1>6. low \in Buffer
  <2>1. l - 1 \in Indices
    BY DEF Indices
  <2>2. b[l - 1] \ {High} \in Byte
    BY <2>1 DEF Buffer, Byte
  <2> QED
    BY <2>2, <1>2 DEF Buffer
<1> PICK c : c = [low EXCEPT ![t - 1] = all]
  OBVIOUS
<1>7. c \in Buffer
  BY <1>2, <1>5, <1>6 DEF Buffer
<1>8. \A j \in 0..(l - 1 - 1) : c[j] = p[j + 1]
  <2> SUFFICES ASSUME NEW j \in 0..(l - 1 - 1) PROVE c[j] = p[j + 1]
    OBVIOUS
  <2>1. j # t /\ j # t - 1 /\ j \in Indices /\ j \in 0..(l - 1)
    BY <1>1, <1>2 DEF Indices
  <2>2. c[j] = low[j]
    BY <2>1, <1>6 DEF Buffer
  <2>3. low[j] = b[j]
    BY <2>1 DEF Buffer
  <2> QED
    BY <2>1, <2>2, <2>3 DEF InEncode
<1>9. \A m \in (t - 2 + 1)..(w - 1) : c[m] = Code(p, m)
  <2> SUFFICES ASSUME NEW m \in (t - 2 + 1)..(w - 1) PROVE c[m] = Code(p, m)
    OBVIOUS
  <2> m \in (t - 1)..(w - 1)
    BY <1>2 DEF Indices
  <2>1. CASE m = t - 1
    <3>1. c[m] = HighOf(p, g, 0)
      BY <1>2, <1>4, <1>6, <2>1 DEF Buffer
    <3>2. m = 8 * g + 1 /\ m < w - 1
      BY <1>1, <1>2, <2>1
    <3>3. Code(p, m) = HighOf(p, g, 0)
      BY <3>2, CodeHeader
    <3> QED
      BY <3>1, <3>3
  <2>2. CASE m = t
    <3>1. c[m] = low[m] /\ low[m] = p[l] \ {High}
      BY <1>2, <1>3, <1>6, <2>2 DEF Buffer, Indices
    <3>2. m = 8 * g + 0 + 2 /\ InGroup(l, g, 0) /\ l <= n
      BY <1>1, <2>2 DEF InGroup
    <3>3. Code(p, m) = p[l] \ {High}
      BY <3>2, CodeLow
    <3> QED
      BY <3>1, <3>3
  <2>3. CASE m # t /\ m # t - 1
    <3>1. m \in (t + 1)..(w - 1) /\ m \in Indices
      BY <2>3, <1>2 DEF Indices
    <3>2. c[m] = b[m]
      BY <3>1, <2>3, <1>6 DEF Buffer
    <3> QED
      BY <3>1, <3>2 DEF InEncode
  <2> QED
    BY <2>1, <2>2, <2>3
<1>10. ASSUME NEW f \in Nat, l - 1 - 1 \in (7 * f)..(7 * f + 6)
      PROVE  t - 2 = l - 1 + 1 + f /\ {} = HighOf(p, f, l - 1)
  <2>1. g = f + 1
    BY <1>10
  <2>2. l - 1 \in Nat /\ l - 1 > 7 * f + 6
    BY <2>1
  <2>3. HighOf(p, f, l - 1) = {}
    BY <2>2, NoneOfGroup
  <2> QED
    BY <2>1, <2>3, <1>1
<1>11. l - 1 \in 0..n /\ t - 2 \in Nat /\ (l - 1 = 0 => t - 2 = 0)
  BY <1>1
<1>12. InEncode(c, p, l - 1, t - 2, {})
  BY <1>8, <1>9, <1>10, <1>11 DEF InEncode
<1> QED
  BY <1>7, <1>12

LEMMA EncodeDone ==
  ASSUME NEW b \in Buffer, NEW p, NEW t, NEW h, InEncode(b, p, 0, t, h)
  PROVE  /\ [b EXCEPT ![t] = START] \in Buffer
         /\ First([b EXCEPT ![t] = START], Written(Len(p))) = Coded(p)
<1> p \in Payloads /\ t = 0 /\ h = {} /\ Written(Len(p)) <= BufSize
  BY DEF InEncode
<1> PICK w \in Nat, n \in Nat : w = Written(Len(p)) /\ n = Len(p)
  BY PacketType
<1> n \in 1..(BufSize - 1) /\ BufSize \in Nat /\ w >= n + 2 /\ p \in Seq(Byte)
  BY PacketType
<1> PICK c : c = [b EXCEPT ![t] = START]
  OBVIOUS
<1>1. c \in Buffer
  BY DEF Buffer, Byte, START, Indices
<1>2. ASSUME NEW k \in 1..w PROVE c[k - 1] = Code(p, k - 1)
  <2>1. CASE k = 1
    <3>1. c[0] = START
      BY DEF Buffer, Indices
    <3>2. Code(p, 0) = START
      BY CodeEnds
    <3> QED
      BY <2>1, <3>1, <3>2
  <2>2. CASE k # 1
    <3>1. k - 1 \in (0 + 1)..(w - 1) /\ k - 1 \in Indices
      BY <2>2 DEF Indices
    <3>2. c[k - 1] = b[k - 1]
      BY <3>1 DEF Buffer
    <3> QED
      BY <3>1, <3>2 DEF InEncode
  <2> QED
    BY <2>1, <2>2
<1>3. First(c, w) = Coded(p)
  BY <1>2 DEF First, Coded
<1> QED
  BY <1>1, <1>3

\* What is under way, byte by byte.
LEMMA SentByte ==
  ASSUME NEW c, Sent(c), c.of # None
  PROVE  /\ c.of \in Payloads /\ Len(c.bytes) = Written(Len(c.of))
         /\ Len(c.bytes) \in Nat /\ Len(c.bytes) <= BufSize
         /\ \A m \in 0..(Len(c.bytes) - 1) : c.bytes[m + 1] = Code(c.of, m)
<1>1. c.of \in Payloads /\ Written(Len(c.of)) <= BufSize /\ c.bytes = Coded(c.of)
  BY DEF Sent
<1> PICK w \in Nat : w = Written(Len(c.of))
  BY <1>1, PacketType
<1>2. Len(c.bytes) = w
  BY <1>1 DEF Coded
<1>3. ASSUME NEW m \in 0..(w - 1) PROVE c.bytes[m + 1] = Code(c.of, m)
  <2>1. m + 1 \in 1..w /\ m + 1 - 1 = m
    OBVIOUS
  <2> QED
    BY <2>1, <1>1 DEF Coded
<1> QED
  BY <1>1, <1>2, <1>3

LEMMA DecodeStart ==
  ASSUME NEW b \in Buffer, NEW c \in Carrier, Len(c.bytes) <= BufSize, Cloaked(c.bytes)
  PROVE  /\ Over(b, c.bytes) \in Buffer
         /\ InDecode(Over(b, c.bytes), c, 0, 0, {})
<1> c.bytes \in Seq(Byte)
  BY DEF Carrier
<1> PICK n \in Nat : n = Len(c.bytes)
  OBVIOUS
<1>1. BufSize \in Nat /\ n \in 2..BufSize
  BY PayloadsAssumption DEF Cloaked
<1> PICK o \in Buffer : o = Over(b, c.bytes) /\ \A a \in 0..(n - 1) : o[a] = c.bytes[a + 1]
  BY OverType
<1>2. \A m \in (0 + 1)..(n - 1) : o[m] = c.bytes[m + 1]
  OBVIOUS
<1>3. \A q \in Nat : /\ 0 = 8 * q => 0 = 7 * q
                     /\ 0 \notin (8 * q + 1)..(8 * q + 7)
  OBVIOUS
<1>4. 0 \in Nat /\ 0 <= n - 2 /\ 0..(0 - 1) = {}
  BY <1>1
<1> QED
  BY <1>1, <1>2, <1>3, <1>4 DEF InDecode

\* Where the next byte goes: never further than it is read.
LEMMA DecodePlace ==
  ASSUME NEW b, NEW c, NEW i, NEW t, NEW a, InDecode(b, c, i, t, a)
  PROVE  /\ t \in Nat /\ i \in Nat /\ t <= i /\ i + 1 \in Indices
         /\ \E q \in Nat, r \in 0..7 : i = 8 * q + r /\ t = IF r = 0 THEN 7 * q ELSE i - q - 1
<1> BufSize \in Nat
  BY PayloadsAssumption
<1> PICK n \in 2..BufSize : n = Len(c.bytes)
  BY DEF InDecode
<1>1. i \in Nat /\ t \in Nat /\ i <= n - 2
  BY DEF InDecode
<1>2. PICK q \in Nat, r \in 0..7 : i = 8 * q + r
  BY <1>1, Eights
<1>3. CASE r = 0
  <2>0. i = 8 * q
    BY <1>2, <1>3
  <2>1. t = 7 * q
    BY <2>0 DEF InDecode
  <2> QED
    BY <1>1, <1>2, <1>3, <2>1 DEF Indices
<1>4. CASE r # 0
  <2>1. i \in (8 * q + 1)..(8 * q + 7)
    BY <1>2, <1>4
  <2>2. t = i - q - 1
    BY <2>1 DEF InDecode
  <2> QED
    BY <1>1, <1>2, <1>4, <2>2 DEF Indices
<1> QED
  BY <1>3, <1>4

\* The byte that has the high bits of a group.
LEMMA DecodeHeader ==
  ASSUME NEW b, NEW c, NEW i, NEW t, NEW a, InDecode(b, c, i, t, a), Sent(c),
         i < Len(c.bytes) - 2, NEW g \in Nat, i = 8 * g
  PROVE  InDecode(b, c, i + 1, t, b[i + 1])
<1> BufSize \in Nat
  BY PayloadsAssumption
<1> PICK n \in 2..BufSize : n = Len(c.bytes)
  BY DEF InDecode
<1>1. i \in Nat /\ t \in Nat /\ i + 1 \in Nat /\ i + 1 <= n - 2 /\ t = 7 * g
  BY DEF InDecode
<1>2. ASSUME NEW q \in Nat, i + 1 \in (8 * q + 1)..(8 * q + 7)
      PROVE  t = i + 1 - q - 1 /\ q = g
  BY <1>1, <1>2
<1>3. \A q \in Nat : i + 1 # 8 * q
  OBVIOUS
<1>4. ASSUME c.of # None
      PROVE  b[i + 1] = HighOf(c.of, g, 0)
  <2>1. b[i + 1] = c.bytes[i + 1 + 1]
    BY <1>1 DEF InDecode
  <2>2. i + 1 \in 0..(n - 1)
    BY <1>1
  <2>3. c.bytes[i + 1 + 1] = Code(c.of, i + 1) /\ n = Written(Len(c.of)) /\ c.of \in Payloads
    BY <1>4, <2>2, SentByte
  <2>4. Len(c.of) \in Nat
    BY <2>3, PacketType
  <2>5. i + 1 = 8 * g + 1 /\ i + 1 < Written(Len(c.of)) - 1
    BY <1>1, <2>3
  <2>6. Code(c.of, i + 1) = HighOf(c.of, g, 0)
    BY <2>4, <2>5, CodeHeader
  <2> QED
    BY <2>1, <2>3, <2>6
<1>5. \A m \in (i + 1 + 1)..(n - 1) : b[m] = c.bytes[m + 1]
  <2>1. \A m \in (i + 1)..(n - 1) : b[m] = c.bytes[m + 1]
    BY DEF InDecode
  <2> QED
    BY <2>1, <1>1
<1>6. c.of # None => \A j \in 0..(t - 1) : b[j] = c.of[j + 1]
  BY DEF InDecode
<1> QED
  BY <1>1, <1>2, <1>3, <1>4, <1>5, <1>6 DEF InDecode

\* A byte of the packet.
LEMMA DecodeLow ==
  ASSUME NEW b \in Buffer, NEW c \in Carrier, NEW i, NEW t, NEW a, InDecode(b, c, i, t, a), Sent(c),
         i < Len(c.bytes) - 2, NEW g \in Nat, NEW r \in 1..7, i = 8 * g + r,
         NEW x, x = b[i + 1] \cup (IF r - 1 \in a THEN {High} ELSE {})
  PROVE  /\ [b EXCEPT ![t] = x] \in Buffer
         /\ InDecode([b EXCEPT ![t] = x], c, i + 1, t + 1, a)
<1> BufSize \in Nat
  BY PayloadsAssumption
<1> PICK n \in 2..BufSize : n = Len(c.bytes)
  BY DEF InDecode
<1>1. i \in (8 * g + 1)..(8 * g + 7)
  OBVIOUS
<1>0. \A q \in Nat : i \in (8 * q + 1)..(8 * q + 7) =>
         t = i - q - 1 /\ (c.of # None => a = HighOf(c.of, q, 0))
  BY DEF InDecode
<1>2. /\ i \in Nat /\ t \in Nat /\ i + 1 \in Nat /\ t + 1 \in Nat
      /\ i + 1 <= n - 2 /\ t = i - g - 1
      /\ c.of # None => a = HighOf(c.of, g, 0)
  <2>1. t = i - g - 1 /\ (c.of # None => a = HighOf(c.of, g, 0))
    BY ONLY <1>0, <1>1, g \in Nat
  <2>2. i \in Nat /\ t \in Nat
    BY DEF InDecode
  <2> QED
    BY <2>1, <2>2
<1>3. t \in Indices /\ i + 1 \in Indices /\ t < i
  BY <1>2 DEF Indices
<1>4. x \in Byte
  <2>1. b[i + 1] \in Byte
    BY <1>3 DEF Buffer
  <2> QED
    BY <2>1 DEF Byte, High
<1> PICK o : o = [b EXCEPT ![t] = x]
  OBVIOUS
<1>5. o \in Buffer
  BY <1>3, <1>4 DEF Buffer
<1>6. ASSUME NEW q \in Nat, i + 1 = 8 * q
      PROVE  t + 1 = 7 * q
  <2>1. q = g + 1 /\ r = 7
    BY <1>6
  <2> QED
    BY <2>1, <1>2
<1>7. ASSUME NEW q \in Nat, i + 1 \in (8 * q + 1)..(8 * q + 7)
      PROVE  t + 1 = i + 1 - q - 1 /\ q = g
  BY <1>2, <1>7
<1>8. \A m \in (i + 1 + 1)..(n - 1) : o[m] = c.bytes[m + 1]
  <2> SUFFICES ASSUME NEW m \in (i + 1 + 1)..(n - 1) PROVE o[m] = c.bytes[m + 1]
    OBVIOUS
  <2>1. m \in (i + 1)..(n - 1) /\ m \in Indices /\ m # t
    BY <1>2, <1>3 DEF Indices
  <2>2. o[m] = b[m]
    BY <2>1 DEF Buffer
  <2> QED
    BY <2>1, <2>2 DEF InDecode
<1>9. ASSUME c.of # None, NEW j \in 0..(t + 1 - 1)
      PROVE  o[j] = c.of[j + 1]
  <2>1. CASE j # t
    <3>1. j \in 0..(t - 1) /\ j \in Indices
      BY <1>2, <1>3, <2>1 DEF Indices
    <3>2. o[j] = b[j]
      BY <2>1, <3>1 DEF Buffer
    <3> QED
      BY <1>9, <3>1, <3>2 DEF InDecode
  <2>2. CASE j = t
    <3>0. \A m \in (i + 1)..(n - 1) : b[m] = c.bytes[m + 1]
      BY DEF InDecode
    <3>2. i + 1 \in 0..(n - 1) /\ i + 1 \in (i + 1)..(n - 1)
      BY <1>2
    <3>1. b[i + 1] = c.bytes[i + 1 + 1]
      BY ONLY <3>0, <3>2
    <3>3. c.bytes[i + 1 + 1] = Code(c.of, i + 1) /\ n = Written(Len(c.of)) /\ c.of \in Payloads
      BY <1>9, <3>2, SentByte
    <3>4. Len(c.of) \in Nat
      BY <3>3, PacketType
    <3>5. 8 * g + r < Written(Len(c.of)) - 2
      BY <3>3
    <3>6. 7 * g + r - 1 < Len(c.of)
      BY <3>4, <3>5, FromPacket
    <3>7. InGroup(t + 1, g, r - 1) /\ t + 1 <= Len(c.of) /\ i + 1 = 8 * g + (r - 1) + 2
      BY <1>2, <3>4, <3>6 DEF InGroup
    <3>8. Code(c.of, i + 1) = c.of[t + 1] \ {High}
      BY ONLY <3>4, <3>7, CodeLow
    <3>9. (c.of[t + 1] \ {High}) \cup (IF r - 1 \in HighOf(c.of, g, 0) THEN {High} ELSE {}) = c.of[t + 1]
      BY <3>4, <3>7, LowerIs
    <3>10. x = c.of[t + 1]
      BY <1>2, <1>9, <3>1, <3>3, <3>8, <3>9
    <3>11. o[t] = x
      BY <1>3 DEF Buffer
    <3> QED
      BY <2>2, <3>10, <3>11
  <2> QED
    BY <2>1, <2>2
<1>10. \A q \in Nat : i + 1 = 8 * q => t + 1 = 7 * q
  BY <1>6
<1>11. \A q \in Nat : i + 1 \in (8 * q + 1)..(8 * q + 7) =>
         t + 1 = i + 1 - q - 1 /\ (c.of # None => a = HighOf(c.of, q, 0))
  BY <1>2, <1>7
<1>12. c.of # None => \A j \in 0..(t + 1 - 1) : o[j] = c.of[j + 1]
  BY <1>9
<1>13. n \in 2..BufSize /\ n = Len(c.bytes)
  OBVIOUS
<1>14. InDecode(o, c, i + 1, t + 1, a)
  BY ONLY <1>2, <1>8, <1>10, <1>11, <1>12, <1>13 DEF InDecode
<1> QED
  BY <1>5, <1>14

\* What comes out is what went in.
LEMMA DecodeDone ==
  ASSUME NEW b \in Buffer, NEW c \in Carrier, NEW i, NEW t, NEW a, InDecode(b, c, i, t, a), Sent(c),
         i >= Len(c.bytes) - 2
  PROVE  /\ First(b, t) \in Seq(Byte)
         /\ c.of # None => First(b, t) = c.of
<1> BufSize \in Nat
  BY PayloadsAssumption
<1> PICK n \in 2..BufSize : n = Len(c.bytes)
  BY DEF InDecode
<1>0. t \in Nat /\ i \in Nat /\ t <= i
  BY DecodePlace
<1>1. t \in Nat /\ i \in Nat /\ t <= i /\ i = n - 2
  <2>1. i <= n - 2
    BY DEF InDecode
  <2> QED
    BY <1>0, <2>1
<1>2. First(b, t) \in Seq(Byte)
  <2>1. ASSUME NEW k \in 1..t PROVE b[k - 1] \in Byte
    <3>1. k - 1 \in Indices
      BY <1>1 DEF Indices
    <3> QED
      BY <3>1 DEF Buffer
  <2> QED
    BY <1>1, <2>1 DEF First
<1>3. ASSUME c.of # None
      PROVE  First(b, t) = c.of
  <2>1. c.of \in Payloads /\ n = Written(Len(c.of))
    BY <1>3, SentByte
  <2>2. c.of \in Seq(Byte) /\ Len(c.of) \in Nat
    BY <2>1, PacketType
  <2>3. PICK q \in Nat, r \in 0..7 : i = 8 * q + r /\ t = IF r = 0 THEN 7 * q ELSE i - q - 1
    BY DecodePlace
  <2>4. 8 * q + r = Written(Len(c.of)) - 2
    BY <1>1, <2>1, <2>3
  <2>5. Len(c.of) = IF r = 0 THEN 7 * q ELSE 7 * q + r - 1
    BY <2>2, <2>4, AllCome
  <2>6. t = Len(c.of)
    BY <2>3, <2>5
  <2>7. ASSUME NEW k \in 1..t PROVE b[k - 1] = c.of[k]
    <3>1. k - 1 \in 0..(t - 1) /\ k - 1 + 1 = k
      BY <1>1
    <3>2. b[k - 1] = c.of[k - 1 + 1]
      BY <1>3, <3>1 DEF InDecode
    <3> QED
      BY <3>1, <3>2
  <2>8. c.of = [k \in 1..Len(c.of) |-> c.of[k]]
    BY <2>2
  <2> QED
    BY <2>6, <2>7, <2>8 DEF First
<1> QED
  BY <1>2, <1>3

-----------------------------------------------------------------------------
(* The invariant.                                                          *)

LEMMA AppendSent ==
  ASSUME NEW s \in Seq(Carrier), NEW c \in Carrier, Sent(c), \A n \in DOMAIN s : Sent(s[n])
  PROVE  /\ Append(s, c) \in Seq(Carrier) /\ Append(s, c) # <<>>
         /\ \A n \in DOMAIN Append(s, c) : Sent(Append(s, c)[n])
         /\ s # <<>> => Head(Append(s, c)) = Head(s)
<1>1. ASSUME NEW n \in DOMAIN Append(s, c)
      PROVE  Sent(Append(s, c)[n])
  <2>1. n \in 1..(Len(s) + 1) /\ Len(s) \in Nat
    BY <1>1
  <2>2. CASE n = Len(s) + 1
    <3>1. Append(s, c)[n] = c
      BY <2>2
    <3> QED
      BY <3>1
  <2>3. CASE n # Len(s) + 1
    <3>1. n \in DOMAIN s /\ Append(s, c)[n] = s[n]
      BY <2>1, <2>3
    <3> QED
      BY <3>1
  <2> QED
    BY <2>2, <2>3
<1>2. s # <<>> => Head(Append(s, c)) = Head(s)
  OBVIOUS
<1>3. Append(s, c) \in Seq(Carrier) /\ Append(s, c) # <<>>
  OBVIOUS
<1> QED
  BY <1>1, <1>2, <1>3

LEMMA TailSent ==
  ASSUME NEW s \in Seq(Carrier), s # <<>>, \A n \in DOMAIN s : Sent(s[n])
  PROVE  /\ Tail(s) \in Seq(Carrier) /\ Head(s) \in Carrier /\ Sent(Head(s))
         /\ \A n \in DOMAIN Tail(s) : Sent(Tail(s)[n])
<1>1. Len(s) \in Nat /\ Len(s) > 0 /\ 1 \in DOMAIN s /\ Head(s) = s[1] /\ s[1] \in Carrier
  OBVIOUS
<1>2. Sent(Head(s))
  BY <1>1
<1>3. ASSUME NEW n \in DOMAIN Tail(s) PROVE Sent(Tail(s)[n])
  <2>1. n + 1 \in DOMAIN s /\ Tail(s)[n] = s[n + 1]
    OBVIOUS
  <2> QED
    BY <2>1
<1>4. Tail(s) \in Seq(Carrier)
  OBVIOUS
<1> QED
  BY <1>1, <1>2, <1>3, <1>4

LEMMA CarrierOf ==
  ASSUME NEW p \in Payloads
  PROVE  /\ [bytes |-> Coded(p), of |-> p] \in Carrier
         /\ Written(Len(p)) <= BufSize => Sent([bytes |-> Coded(p), of |-> p])
<1>1. Coded(p) \in Seq(Byte)
  <2>1. p \in Seq(Byte) /\ Len(p) \in Nat /\ Written(Len(p)) \in Nat
    BY PacketType
  <2>2. ASSUME NEW k \in 1..Written(Len(p)) PROVE Code(p, k - 1) \in Byte
    <3> PICK w \in Nat, n \in Nat : w = Written(Len(p)) /\ n = Len(p)
      BY <2>1
    <3> PICK m \in 0..(w - 1) : m = k - 1
      OBVIOUS
    <3>1. CASE m = 0 \/ m = w - 1
      BY <3>1, CodeEnds DEF START, END, Byte
    <3>2. CASE m # 0 /\ m # w - 1
      <4>1. PICK i \in Nat : i = m - 1
        BY <3>2
      <4>2. PICK g \in Nat, r \in 0..7 : i = 8 * g + r
        BY Eights
      <4>3. CASE r = 0
        <5>1. m = 8 * g + 1 /\ m < w - 1
          BY <4>1, <4>2, <4>3, <3>2
        <5>2. Code(p, m) = HighOf(p, g, 0)
          BY <5>1, <2>1, CodeHeader
        <5> QED
          BY <5>2 DEF HighOf, Byte
      <4>4. CASE r # 0
        <5>1. r \in 1..7 /\ 8 * g + r < Written(n) - 2
          BY <4>1, <4>2, <4>4, <3>2
        <5>2. 7 * g + r - 1 < n
          BY <5>1, FromPacket
        <5>3. PICK j \in 1..n : j = 7 * g + r
          BY <5>1, <5>2
        <5>4. InGroup(j, g, r - 1) /\ j <= Len(p) /\ m = 8 * g + (r - 1) + 2
          BY <5>1, <5>3, <4>1, <4>2 DEF InGroup
        <5>5. Code(p, m) = p[j] \ {High}
          BY ONLY <5>4, <2>1, CodeLow
        <5>6. p[j] \in Byte
          BY <2>1, <5>3
        <5> QED
          BY <5>5, <5>6 DEF Byte
      <4> QED
        BY <4>3, <4>4
    <3> QED
      BY <3>1, <3>2
  <2> QED
    BY <2>1, <2>2 DEF Coded
<1> QED
  BY <1>1 DEF Carrier, Sent

LEMMA InitCloakInv == CloakInit => CloakInv
<1> SUFFICES ASSUME CloakInit PROVE CloakInv
  OBVIOUS
<1> USE DEF CloakInit
<1>1. CloakTypeOK
  <2>1. Nothing \in Carrier
    BY DEF Nothing, None, Carrier
  <2>2. BufSize \in Nat /\ MaxMessages \in Nat
    BY PayloadsAssumption, BoundsAssumption
  <2> QED
    BY <2>1, <2>2 DEF CloakTypeOK, Byte
<1>2. Encoding /\ OnWire /\ Decoding
  BY DEF Encoding, OnWire, Decoding
<1> QED
  BY <1>1, <1>2 DEF CloakInv

\* What one end does leaves the other alone.
LEMMA DecodingKept ==
  ASSUME CloakTypeOK, Decoding, UNCHANGED decodeVars,
         wire # <<>> => wire' # <<>> /\ Head(wire') = Head(wire)
  PROVE  /\ Decoding' /\ rx' \in {"idle", "decode", "overrun"} /\ rxBuf' \in [Indices -> Byte]
         /\ forged' \in Carrier /\ pos' \in Nat /\ acc' \in Byte /\ to' \in Nat
         /\ rx' = "decode" => wire' # <<>> /\ to' <= pos' /\ pos' + 1 \in Indices
<1>1. UNCHANGED <<rx, rxBuf, pos, to, acc, forged>>
  BY DEF decodeVars
<1>2. Decoding'
  BY <1>1 DEF Decoding
<1> QED
  BY <1>1, <1>2 DEF CloakTypeOK

LEMMA EncodingKept ==
  ASSUME CloakTypeOK, Encoding, UNCHANGED encodeVars
  PROVE  /\ Encoding' /\ tx' \in {"idle", "encode", "overrun"} /\ txBuf' \in [Indices -> Byte]
         /\ payload' \in Payloads \cup {None} /\ left' \in 0..BufSize /\ high' \in Byte /\ top' \in Nat
         /\ tx' = "encode" => top' \in Indices /\ (left' = 0 <=> top' = 0)
<1>1. UNCHANGED <<tx, txBuf, payload, left, top, high>>
  BY DEF encodeVars
<1>2. Encoding'
  BY <1>1 DEF Encoding
<1> QED
  BY <1>1, <1>2 DEF CloakTypeOK

\* The types of what InEncode and InDecode are about.
LEMMA EncodeTypes ==
  ASSUME NEW b, NEW p, NEW l, NEW t, NEW h, InEncode(b, p, l, t, h)
  PROVE  /\ p \in Payloads /\ l \in 0..BufSize /\ h \in Byte /\ t \in Nat
         /\ t \in Indices /\ (l = 0 <=> t = 0)
<1> p \in Payloads /\ l \in 0..Len(p) /\ t \in Nat
  BY DEF InEncode
<1>1. l \in 0..BufSize
  BY PacketType
<1>2. t \in Indices /\ (l = 0 <=> t = 0)
  BY EncodePlace
<1>3. h \in Byte
  <2>1. CASE l = 0
    BY <2>1 DEF InEncode, Byte
  <2>2. CASE l > 0
    BY <2>2, EncodePlace DEF HighOf, Byte
  <2> QED
    BY <2>1, <2>2, <1>1
<1> QED
  BY <1>1, <1>2, <1>3

LEMMA WriteStep ==
  ASSUME CloakInv, NEW p \in Payloads, WritePayload(p)
  PROVE  CloakInv'
<1> USE DEF CloakInv
<1>1. /\ Decoding' /\ rx' \in {"idle", "decode", "overrun"} /\ rxBuf' \in [Indices -> Byte]
      /\ forged' \in Carrier /\ pos' \in Nat /\ acc' \in Byte /\ to' \in Nat
      /\ rx' = "decode" => wire' # <<>> /\ to' <= pos' /\ pos' + 1 \in Indices
  BY DecodingKept DEF WritePayload
<1>2. wire' = wire /\ wire' \in Seq(Carrier) /\ OnWire'
  BY DEF WritePayload, CloakTypeOK, OnWire
<1>3. count' \in 0..MaxMessages
  BY BoundsAssumption DEF WritePayload, CloakTypeOK
<1>4. high = {} /\ high' = {} /\ payload' = p /\ txBuf \in Buffer
  BY DEF WritePayload, Encoding, CloakTypeOK, Buffer
<1>5. CASE Written(Len(p)) <= BufSize
  <2> PICK c : c = [Over(txBuf, p) EXCEPT ![Written(Len(p)) - 1] = END]
    OBVIOUS
  <2>1. /\ tx' = "encode" /\ txBuf' = c
        /\ left' = Len(p) /\ top' = Written(Len(p)) - 2
    BY <1>5 DEF WritePayload
  <2>2. c \in Buffer /\ InEncode(c, p, Len(p), Written(Len(p)) - 2, {})
    BY <1>4, <1>5, EncodeStart
  <2>3. InEncode(txBuf', payload', left', top', high')
    BY <1>4, <2>1, <2>2
  <2>4. Encoding'
    BY <2>1, <2>3 DEF Encoding
  <2>5. /\ payload' \in Payloads /\ left' \in 0..BufSize /\ high' \in Byte /\ top' \in Nat
        /\ top' \in Indices /\ (left' = 0 <=> top' = 0)
    BY <2>3, EncodeTypes
  <2>6. txBuf' \in [Indices -> Byte]
    BY <2>1, <2>2 DEF Buffer
  <2>7. CloakTypeOK'
    BY <1>1, <1>2, <1>3, <2>1, <2>5, <2>6 DEF CloakTypeOK
  <2> QED
    BY <1>1, <1>2, <2>4, <2>7
<1>6. CASE ~(Written(Len(p)) <= BufSize)
  <2>1. tx' = "overrun" /\ txBuf' = Over(txBuf, p) /\ left' = left /\ top' = top
    BY <1>6 DEF WritePayload
  <2>2. Over(txBuf, p) \in Buffer /\ Written(Len(p)) > BufSize
    <3>1. p \in Seq(Byte) /\ Len(p) <= BufSize /\ Written(Len(p)) \in Nat /\ BufSize \in Nat
      BY PacketType
    <3> QED
      BY <1>4, <1>6, <3>1, OverType
  <2>3. Encoding'
    BY <1>4, <2>1, <2>2 DEF Encoding
  <2>4. left \in 0..BufSize /\ top \in Nat /\ {} \in Byte
    BY DEF CloakTypeOK, Byte
  <2>5. /\ tx' = "overrun" /\ txBuf' \in [Indices -> Byte] /\ payload' \in Payloads \cup {None}
        /\ left' \in 0..BufSize /\ high' \in Byte /\ top' \in Nat
    BY <1>4, <2>1, <2>2, <2>4 DEF Buffer
  <2>6. CloakTypeOK'
    BY <1>1, <1>2, <1>3, <2>5 DEF CloakTypeOK
  <2> QED
    BY <1>1, <1>2, <2>3, <2>6
<1> QED
  BY <1>5, <1>6

LEMMA EncodeByteStep ==
  ASSUME CloakInv, EncodeByte
  PROVE  CloakInv'
<1> USE DEF CloakInv
<1>1. /\ Decoding' /\ rx' \in {"idle", "decode", "overrun"} /\ rxBuf' \in [Indices -> Byte]
      /\ forged' \in Carrier /\ pos' \in Nat /\ acc' \in Byte /\ to' \in Nat
      /\ rx' = "decode" => wire' # <<>> /\ to' <= pos' /\ pos' + 1 \in Indices
  BY DecodingKept DEF EncodeByte
<1>2. wire' = wire /\ wire' \in Seq(Carrier) /\ OnWire' /\ count' \in 0..MaxMessages
  BY DEF EncodeByte, CloakTypeOK, OnWire
<1>3. InEncode(txBuf, payload, left, top, high) /\ left > 0 /\ txBuf \in Buffer /\ left \in 0..BufSize
  BY DEF EncodeByte, Encoding, CloakTypeOK, Buffer
<1>4. tx' = "encode" /\ payload' = payload /\ left' = left - 1
  BY DEF EncodeByte
<1>5. PICK g \in Nat, r \in 0..6 : left - 1 = 7 * g + r
  BY <1>3, EncodePlace
<1>6. (left - 1) % 7 = r
  BY <1>5
<1>7. txBuf' \in Buffer /\ InEncode(txBuf', payload', left', top', high')
  <2>1. CASE r = 0
    <3> PICK all : all = high \cup Upper(txBuf[left - 1], 0)
      OBVIOUS
    <3> PICK low : low = [txBuf EXCEPT ![top] = txBuf[left - 1] \ {High}]
      OBVIOUS
    <3>1. txBuf' = [low EXCEPT ![top - 1] = all] /\ top' = top - 2 /\ high' = {}
      BY <1>6, <2>1 DEF EncodeByte
    <3>2. left - 1 = 7 * g
      BY <1>5, <2>1
    <3>3. /\ [low EXCEPT ![top - 1] = all] \in Buffer
          /\ InEncode([low EXCEPT ![top - 1] = all], payload, left - 1, top - 2, {})
      BY <1>3, <3>2, EncodeHeader
    <3> QED
      BY <1>4, <3>1, <3>3
  <2>2. CASE r # 0
    <3>1. /\ txBuf' = [txBuf EXCEPT ![top] = txBuf[left - 1] \ {High}] /\ top' = top - 1
          /\ high' = high \cup Upper(txBuf[left - 1], r)
      BY <1>6, <2>2 DEF EncodeByte
    <3>2. r \in 1..6
      BY <2>2
    <3>3. /\ [txBuf EXCEPT ![top] = txBuf[left - 1] \ {High}] \in Buffer
          /\ InEncode([txBuf EXCEPT ![top] = txBuf[left - 1] \ {High}], payload, left - 1, top - 1,
                      high \cup Upper(txBuf[left - 1], r))
      BY <1>3, <1>5, <3>2, EncodeLow
    <3> QED
      BY <1>4, <3>1, <3>3
  <2> QED
    BY <2>1, <2>2
<1>8. Encoding'
  BY <1>4, <1>7 DEF Encoding
<1>9. CloakTypeOK'
  BY <1>1, <1>2, <1>4, <1>7, EncodeTypes DEF CloakTypeOK, Buffer
<1> QED
  BY <1>1, <1>2, <1>8, <1>9

LEMMA EncodeEndStep ==
  ASSUME CloakInv, NEW fits \in BOOLEAN, EncodeEnd(fits)
  PROVE  CloakInv'
<1> USE DEF CloakInv
<1>1. InEncode(txBuf, payload, 0, top, high) /\ txBuf \in Buffer /\ left = 0 /\ high = {}
  BY DEF EncodeEnd, Encoding, CloakTypeOK, Buffer, InEncode
<1>2. /\ [txBuf EXCEPT ![top] = START] \in Buffer
      /\ First([txBuf EXCEPT ![top] = START], Written(Len(payload))) = Coded(payload)
  BY <1>1, EncodeDone
<1>3. txBuf' = [txBuf EXCEPT ![top] = START]
  BY DEF EncodeEnd
<1>4. txBuf' \in Buffer /\ First(txBuf', Written(Len(payload))) = Coded(payload)
  BY <1>2, <1>3
<1>5. /\ [bytes |-> Coded(payload), of |-> payload] \in Carrier
      /\ Sent([bytes |-> Coded(payload), of |-> payload])
  BY <1>1, CarrierOf DEF InEncode
<1> PICK c \in Carrier : c = [bytes |-> Coded(payload), of |-> payload]
  BY <1>5
<1>6. wire' = IF fits THEN Append(wire, c) ELSE wire
  BY <1>4 DEF EncodeEnd
<1>7. /\ wire' \in Seq(Carrier) /\ OnWire'
      /\ wire # <<>> => wire' # <<>> /\ Head(wire') = Head(wire)
  <2>1. wire \in Seq(Carrier) /\ \A n \in DOMAIN wire : Sent(wire[n])
    BY DEF CloakTypeOK, OnWire
  <2> QED
    BY <1>5, <1>6, <2>1, AppendSent DEF OnWire
<1>8. /\ Decoding' /\ rx' \in {"idle", "decode", "overrun"} /\ rxBuf' \in [Indices -> Byte]
      /\ forged' \in Carrier /\ pos' \in Nat /\ acc' \in Byte /\ to' \in Nat
      /\ rx' = "decode" => wire' # <<>> /\ to' <= pos' /\ pos' + 1 \in Indices
  BY <1>7, DecodingKept DEF EncodeEnd
<1>9. /\ tx' = "idle" /\ payload' = None /\ top' = 0 /\ left' = 0 /\ high' = {}
      /\ count' \in 0..MaxMessages
  BY <1>1 DEF EncodeEnd, CloakTypeOK
<1>10. Encoding'
  BY <1>9 DEF Encoding
<1>11. CloakTypeOK'
  BY <1>4, <1>7, <1>8, <1>9, PayloadsAssumption DEF CloakTypeOK, Buffer, Byte
<1> QED
  BY <1>7, <1>8, <1>10, <1>11

LEMMA PlayStep ==
  ASSUME CloakInv, NEW m \in Others, Play(m)
  PROVE  CloakInv'
<1> USE DEF CloakInv
<1> PICK c : c = [bytes |-> m, of |-> None]
  OBVIOUS
<1>1. c \in Carrier /\ Sent(c)
  BY OthersAssumption DEF Carrier, Sent
<1>2. wire' = Append(wire, c)
  BY DEF Play
<1>3. /\ wire' \in Seq(Carrier) /\ OnWire'
      /\ wire # <<>> => wire' # <<>> /\ Head(wire') = Head(wire)
  <2>1. wire \in Seq(Carrier) /\ \A n \in DOMAIN wire : Sent(wire[n])
    BY DEF CloakTypeOK, OnWire
  <2> QED
    BY <1>1, <1>2, <2>1, AppendSent DEF OnWire
<1>4. /\ Decoding' /\ rx' \in {"idle", "decode", "overrun"} /\ rxBuf' \in [Indices -> Byte]
      /\ forged' \in Carrier /\ pos' \in Nat /\ acc' \in Byte /\ to' \in Nat
      /\ rx' = "decode" => wire' # <<>> /\ to' <= pos' /\ pos' + 1 \in Indices
  BY <1>3, DecodingKept DEF Play
<1>5. /\ Encoding' /\ tx' \in {"idle", "encode", "overrun"} /\ txBuf' \in [Indices -> Byte]
      /\ payload' \in Payloads \cup {None} /\ left' \in 0..BufSize /\ high' \in Byte /\ top' \in Nat
      /\ tx' = "encode" => top' \in Indices /\ (left' = 0 <=> top' = 0)
  BY EncodingKept DEF Play
<1>6. count' \in 0..MaxMessages
  BY BoundsAssumption DEF Play, CloakTypeOK
<1>7. CloakTypeOK'
  BY <1>3, <1>4, <1>5, <1>6 DEF CloakTypeOK
<1> QED
  BY <1>3, <1>4, <1>5, <1>7

LEMMA ReceiveStep ==
  ASSUME CloakInv, Receive
  PROVE  CloakInv'
<1> USE DEF CloakInv
<1>1. wire \in Seq(Carrier) /\ wire # <<>> /\ rxBuf \in Buffer /\ BufSize \in Nat
  BY PayloadsAssumption DEF Receive, CloakTypeOK, Buffer
<1>2. /\ Tail(wire) \in Seq(Carrier) /\ Head(wire) \in Carrier /\ Sent(Head(wire))
      /\ \A n \in DOMAIN Tail(wire) : Sent(Tail(wire)[n])
  BY <1>1, TailSent DEF OnWire
<1>3. /\ Encoding' /\ tx' \in {"idle", "encode", "overrun"} /\ txBuf' \in [Indices -> Byte]
      /\ payload' \in Payloads \cup {None} /\ left' \in 0..BufSize /\ high' \in Byte /\ top' \in Nat
      /\ tx' = "encode" => top' \in Indices /\ (left' = 0 <=> top' = 0)
  BY EncodingKept DEF Receive
<1>4. /\ pos = 0 /\ to = 0 /\ acc = {} /\ pos' = 0 /\ to' = 0 /\ acc' = {} /\ forged' = forged
      /\ count' \in 0..MaxMessages /\ forged \in Carrier
  BY DEF Receive, Decoding, CloakTypeOK
<1> PICK s : s = Head(wire).bytes
  OBVIOUS
<1>5. s \in Seq(Byte) /\ Len(s) \in Nat
  BY <1>2 DEF Carrier
<1>6. CASE Len(s) > BufSize
  <2>1. rx' = "overrun" /\ rxBuf' = rxBuf /\ wire' = wire
    BY <1>6 DEF Receive, Arrived
  <2>2. Decoding' /\ OnWire'
    BY <1>1, <1>4, <1>6, <2>1 DEF Decoding, OnWire
  <2>3. CloakTypeOK'
    BY <1>1, <1>3, <1>4, <2>1 DEF CloakTypeOK, Buffer, Byte
  <2> QED
    BY <1>3, <2>2, <2>3
<1>7. CASE ~(Len(s) > BufSize)
  <2>1. rxBuf' = Over(rxBuf, s)
    BY <1>7 DEF Receive, Arrived
  <2>2. rxBuf' \in Buffer
    BY <1>1, <1>5, <1>7, <2>1, OverType
  <2>3. CASE Cloaked(s)
    <3>1. rx' = "decode" /\ wire' = wire
      BY <1>7, <2>3 DEF Receive, Arrived
    <3>2. InDecode(rxBuf', Head(wire'), pos', to', acc')
      BY <1>1, <1>2, <1>4, <1>5, <1>7, <2>1, <2>3, <3>1, DecodeStart
    <3>3. Decoding' /\ OnWire'
      BY <1>1, <3>1, <3>2 DEF Decoding, OnWire
    <3>4. to' <= pos' /\ pos' + 1 \in Indices
      BY <3>2, DecodePlace
    <3>5. CloakTypeOK'
      BY <1>1, <1>3, <1>4, <2>2, <3>1, <3>4 DEF CloakTypeOK, Buffer, Byte
    <3> QED
      BY <1>3, <3>3, <3>5
  <2>4. CASE ~Cloaked(s)
    <3>1. rx' = "idle" /\ wire' = Tail(wire)
      BY <1>7, <2>4 DEF Receive, Arrived
    <3>2. Decoding' /\ OnWire'
      BY <1>2, <1>4, <3>1 DEF Decoding, OnWire
    <3>3. CloakTypeOK'
      BY <1>2, <1>3, <1>4, <2>2, <3>1 DEF CloakTypeOK, Buffer, Byte
    <3> QED
      BY <1>3, <3>2, <3>3
  <2> QED
    BY <2>3, <2>4
<1> QED
  BY <1>6, <1>7

LEMMA DecodeByteStep ==
  ASSUME CloakInv, DecodeByte
  PROVE  CloakInv'
<1> USE DEF CloakInv
<1>1. /\ wire \in Seq(Carrier) /\ wire # <<>> /\ rxBuf \in Buffer /\ BufSize \in Nat
      /\ InDecode(rxBuf, Head(wire), pos, to, acc) /\ pos < Len(Head(wire).bytes) - 2
  BY PayloadsAssumption DEF DecodeByte, CloakTypeOK, Buffer, Decoding, Arrived
<1>2. Head(wire) \in Carrier /\ Sent(Head(wire))
  BY <1>1, TailSent DEF OnWire
<1>3. /\ Encoding' /\ tx' \in {"idle", "encode", "overrun"} /\ txBuf' \in [Indices -> Byte]
      /\ payload' \in Payloads \cup {None} /\ left' \in 0..BufSize /\ high' \in Byte /\ top' \in Nat
      /\ tx' = "encode" => top' \in Indices /\ (left' = 0 <=> top' = 0)
  BY EncodingKept DEF DecodeByte
<1>4. /\ rx' = "decode" /\ pos' = pos + 1 /\ forged' = forged /\ wire' = wire
      /\ count' \in 0..MaxMessages /\ forged \in Carrier
  BY DEF DecodeByte, CloakTypeOK
<1>5. pos \in Nat /\ to \in Nat /\ to <= pos /\ pos + 1 \in Indices
  BY <1>1, DecodePlace
<1>6. PICK g \in Nat, r \in 0..7 : pos = 8 * g + r
  BY <1>5, Eights
<1>7. pos % 8 = r
  BY <1>6
<1>8. rxBuf' \in Buffer /\ InDecode(rxBuf', Head(wire'), pos', to', acc') /\ acc' \in Byte
  <2>1. CASE r = 0
    <3>1. acc' = rxBuf[pos + 1] /\ rxBuf' = rxBuf /\ to' = to
      BY <1>7, <2>1 DEF DecodeByte
    <3>2. pos = 8 * g
      BY <1>6, <2>1
    <3>3. InDecode(rxBuf, Head(wire), pos + 1, to, rxBuf[pos + 1])
      BY <1>1, <1>2, <3>2, DecodeHeader
    <3>4. rxBuf[pos + 1] \in Byte
      BY <1>1, <1>5 DEF Buffer
    <3> QED
      BY <1>1, <1>4, <3>1, <3>3, <3>4
  <2>2. CASE r # 0
    <3> PICK x : x = rxBuf[pos + 1] \cup (IF r - 1 \in acc THEN {High} ELSE {})
      OBVIOUS
    <3>1. rxBuf' = [rxBuf EXCEPT ![to] = x] /\ to' = to + 1 /\ acc' = acc
      BY <1>7, <2>2 DEF DecodeByte, Lower
    <3>2. r \in 1..7
      BY <2>2
    <3>3. /\ [rxBuf EXCEPT ![to] = x] \in Buffer
          /\ InDecode([rxBuf EXCEPT ![to] = x], Head(wire), pos + 1, to + 1, acc)
      BY <1>1, <1>2, <1>6, <3>2, DecodeLow
    <3> QED
      BY <1>4, <3>1, <3>3 DEF CloakTypeOK
  <2> QED
    BY <2>1, <2>2
<1>9. Decoding' /\ OnWire'
  BY <1>1, <1>4, <1>8 DEF Decoding, OnWire
<1>10. to' \in Nat /\ pos' \in Nat /\ to' <= pos' /\ pos' + 1 \in Indices
  BY <1>8, DecodePlace
<1>11. CloakTypeOK'
  BY <1>1, <1>3, <1>4, <1>8, <1>10 DEF CloakTypeOK, Buffer
<1> QED
  BY <1>3, <1>9, <1>11

LEMMA DecodeEndStep ==
  ASSUME CloakInv, DecodeEnd
  PROVE  CloakInv' /\ (forged' # forged /\ forged'.of # None => forged'.bytes = forged'.of)
<1> USE DEF CloakInv
<1>1. /\ wire \in Seq(Carrier) /\ wire # <<>> /\ rxBuf \in Buffer /\ BufSize \in Nat
      /\ InDecode(rxBuf, Head(wire), pos, to, acc) /\ pos >= Len(Head(wire).bytes) - 2
  BY PayloadsAssumption DEF DecodeEnd, CloakTypeOK, Buffer, Decoding, Arrived
<1>2. /\ Tail(wire) \in Seq(Carrier) /\ Head(wire) \in Carrier /\ Sent(Head(wire))
      /\ \A n \in DOMAIN Tail(wire) : Sent(Tail(wire)[n])
  BY <1>1, TailSent DEF OnWire
<1>3. /\ Encoding' /\ tx' \in {"idle", "encode", "overrun"} /\ txBuf' \in [Indices -> Byte]
      /\ payload' \in Payloads \cup {None} /\ left' \in 0..BufSize /\ high' \in Byte /\ top' \in Nat
      /\ tx' = "encode" => top' \in Indices /\ (left' = 0 <=> top' = 0)
  BY EncodingKept DEF DecodeEnd
<1>4. /\ rx' = "idle" /\ pos' = 0 /\ to' = 0 /\ acc' = {} /\ wire' = Tail(wire) /\ rxBuf' = rxBuf
      /\ count' \in 0..MaxMessages
  BY DEF DecodeEnd, CloakTypeOK
<1>5. /\ First(rxBuf, to) \in Seq(Byte)
      /\ Head(wire).of # None => First(rxBuf, to) = Head(wire).of
  BY <1>1, <1>2, DecodeDone
<1>6. Head(wire).of \in Payloads \cup {None}
  BY <1>2 DEF Carrier
<1> PICK c : c = [bytes |-> First(rxBuf, to), of |-> Head(wire).of]
  OBVIOUS
<1>7. c \in Carrier /\ (c.of # None => c.bytes = c.of)
  BY <1>5, <1>6 DEF Carrier
<1>8. forged' = c \/ forged' = forged
  BY DEF DecodeEnd
<1>9. forged' \in Carrier /\ (forged' # forged /\ forged'.of # None => forged'.bytes = forged'.of)
  BY <1>7, <1>8 DEF CloakTypeOK
<1>10. Decoding' /\ OnWire'
  BY <1>2, <1>4 DEF Decoding, OnWire
<1>11. CloakTypeOK'
  BY <1>1, <1>2, <1>3, <1>4, <1>9 DEF CloakTypeOK, Buffer, Byte
<1> QED
  BY <1>3, <1>9, <1>10, <1>11

LEMMA StutterStep ==
  ASSUME CloakInv, UNCHANGED cloakVars
  PROVE  CloakInv'
<1>1. UNCHANGED <<tx, rx, txBuf, rxBuf, payload, left, top, high, wire, pos, to, acc, forged, count>>
  BY DEF cloakVars, encodeVars, decodeVars
<1> QED
  BY <1>1 DEF CloakInv, CloakTypeOK, Encoding, OnWire, Decoding

LEMMA NextCloakInv ==
  ASSUME CloakInv, [CloakNext]_cloakVars
  PROVE  CloakInv'
<1>1. CASE \E p \in Payloads : WritePayload(p)
  BY <1>1, WriteStep
<1>2. CASE EncodeByte
  BY <1>2, EncodeByteStep
<1>3. CASE \E fits \in BOOLEAN : EncodeEnd(fits)
  BY <1>3, EncodeEndStep
<1>4. CASE \E m \in Others : Play(m)
  BY <1>4, PlayStep
<1>5. CASE Receive
  BY <1>5, ReceiveStep
<1>6. CASE DecodeByte
  BY <1>6, DecodeByteStep
<1>7. CASE DecodeEnd
  BY <1>7, DecodeEndStep
<1>8. CASE UNCHANGED cloakVars
  BY <1>8, StutterStep
<1> QED
  BY <1>1, <1>2, <1>3, <1>4, <1>5, <1>6, <1>7, <1>8 DEF CloakNext

LEMMA CloakInvariance == CloakSpec => []CloakInv
<1>1. CloakInit => CloakInv
  BY InitCloakInv
<1>2. CloakInv /\ [CloakNext]_cloakVars => CloakInv'
  BY NextCloakInv
<1> QED
  BY <1>1, <1>2, PTL DEF CloakSpec

-----------------------------------------------------------------------------
(* The theorems.                                                           *)

\* Both loops of eteroj_cloak.c store within the buffer, from the END of the
\* message down to its START, and the decoded bytes never behind what is read.
THEOREM CloakTypes == CloakSpec => []CloakTypeOK
<1>1. CloakInv => CloakTypeOK
  BY DEF CloakInv
<1> QED
  BY <1>1, CloakInvariance, PTL

\* Both loops work in the memory they read from, and what they have not read is
\* as it was: of any packet and of any message, whatever cloak it comes from.
THEOREM CloakInPlace == CloakSpec => []InPlace
<1>1. CloakInv => InPlace
  <2> SUFFICES ASSUME CloakInv PROVE InPlace
    OBVIOUS
  <2>1. tx = "encode" => \A a \in 0..(left - 1) : txBuf[a] = payload[a + 1]
    BY DEF CloakInv, Encoding, InEncode
  <2>2. rx = "decode" => \A a \in (pos + 1)..(Len(Arrived) - 1) : rxBuf[a] = Arrived[a + 1]
    BY DEF CloakInv, Decoding, InDecode, Arrived
  <2> QED
    BY <2>1, <2>2 DEF InPlace
<1> QED
  BY <1>1, CloakInvariance, PTL

\* Every packet comes out of the other cloak as it went into the one, whatever
\* its length and its bytes are and whatever is left in the buffers.
THEOREM CloakRestores == CloakSpec => []Restored
<1>1. CloakInit => Restored
  BY DEF CloakInit, Restored, Nothing
<1>2. CloakInv /\ Restored /\ [CloakNext]_cloakVars => Restored'
  <2> SUFFICES ASSUME CloakInv, Restored, [CloakNext]_cloakVars PROVE Restored'
    OBVIOUS
  <2>1. CASE DecodeEnd
    <3>1. forged' # forged /\ forged'.of # None => forged'.bytes = forged'.of
      BY <2>1, DecodeEndStep
    <3> QED
      BY <3>1 DEF Restored
  <2>2. CASE ~DecodeEnd
    <3>1. forged' = forged
      BY <2>2 DEF CloakNext, WritePayload, EncodeByte, EncodeEnd, Play, Receive, DecodeByte, cloakVars, decodeVars
    <3> QED
      BY <3>1 DEF Restored
  <2> QED
    BY <2>1, <2>2
<1> QED
  BY <1>1, <1>2, CloakInvariance, PTL DEF CloakSpec

\* What is sent has seven bits a byte between its ends; it overruns the sender's
\* buffer only for a packet that takes more than seven eighths of what is left
\* of it, and never the receiver's.
THEOREM CloakFits == CloakSpec => []MidiFits
<1>1. CloakInv => MidiFits
  <2> SUFFICES ASSUME CloakInv PROVE MidiFits
    OBVIOUS
  <2>1. ASSUME NEW n \in DOMAIN wire, wire[n].of # None,
               NEW k \in 2..(Len(wire[n].bytes) - 1)
        PROVE  High \notin wire[n].bytes[k]
    <3> PICK c : c = wire[n]
      OBVIOUS
    <3>1. Sent(c)
      BY DEF CloakInv, OnWire
    <3>2. /\ c.of \in Payloads /\ Len(c.bytes) = Written(Len(c.of)) /\ Len(c.bytes) \in Nat
          /\ \A m \in 0..(Len(c.bytes) - 1) : c.bytes[m + 1] = Code(c.of, m)
      BY <2>1, <3>1, SentByte
    <3>3. Len(c.of) \in Nat
      BY <3>2, PacketType
    <3> PICK l \in Nat : l = Len(c.bytes)
      BY <3>2
    <3>4. k - 1 \in 1..(l - 2) /\ k - 1 \in 0..(l - 1) /\ k - 1 + 1 = k
      BY <2>1
    <3>5. High \notin Code(c.of, k - 1)
      BY <3>2, <3>3, <3>4, CodeSeven
    <3>6. c.bytes[k] = Code(c.of, k - 1)
      BY <3>2, <3>4
    <3> QED
      BY <3>5, <3>6
  <2>2. ASSUME tx = "overrun"
        PROVE  8 * Len(payload) > 7 * (BufSize - 2)
    <3>1. payload \in Payloads /\ Written(Len(payload)) > BufSize
      BY <2>2 DEF CloakInv, Encoding
    <3> QED
      BY <3>1, PacketType, LargePacket
  <2>3. ASSUME rx = "overrun"
        PROVE  Head(wire).of = None
    <3>1. wire \in Seq(Carrier) /\ wire # <<>> /\ Len(Head(wire).bytes) > BufSize
      BY <2>3 DEF CloakInv, CloakTypeOK, Decoding
    <3>2. Sent(Head(wire))
      BY <3>1, TailSent DEF CloakInv, OnWire
    <3>3. Head(wire).of # None => Len(Head(wire).bytes) <= BufSize /\ Len(Head(wire).bytes) \in Nat
      BY <3>2, SentByte
    <3>4. BufSize \in Nat
      BY PayloadsAssumption
    <3> QED
      BY <3>1, <3>3, <3>4
  <2> QED
    BY <2>1, <2>2, <2>3 DEF MidiFits
<1> QED
  BY <1>1, CloakInvariance, PTL
=============================================================================
