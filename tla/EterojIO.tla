------------------------------ MODULE EterojIO ------------------------------
(***************************************************************************)
(* The io plugin (src/eteroj_io.c) between the host's two threads: run()   *)
(* sends each new URL to the worker (to_thread) and asks for one job a     *)
(* period; the job takes over the last URL, closes and opens the stream,   *)
(* runs it and responds with what happened; the response changes the       *)
(* status, which the next run() shows to the host.                         *)
(*                                                                         *)
(* Jobs are done one after the other by a thread of the host's, responses  *)
(* come back in their order.  A host does not activate or deactivate while *)
(* a job is being done, but jobs asked for before may be done later.       *)
(***************************************************************************)
EXTENDS Integers, Sequences

CONSTANTS Urls,       \* what eteroj:url is set to
          Long,       \* those a message of STR_LEN bytes does not hold
          NoUrl,      \* NULL
          Errors,     \* what may go wrong with a stream
          NoError,    \* ""
          RingSize,   \* how many URLs to_thread holds
          MaxSets,    \* bound: how often the URL is set
          MaxJobs     \* bound: jobs and responses under way

ASSUME UrlsAssumption == Long \subseteq Urls /\ NoUrl \notin Urls
ASSUME ErrorsAssumption == NoError \notin Errors
ASSUME SizeAssumption == RingSize \in Nat \ {0} /\ MaxSets \in Nat /\ MaxJobs \in Nat \ {0}

VARIABLES active,     \* the host has activated the plugin
          toThread,   \* the ring of URLs
          sets,       \* bound
          jobs,       \* jobs asked for
          responses,  \* their responses, for the real-time thread
          state,      \* plugstate_t: osc_error and osc_connected
          updated,    \* handle->status_updated
          worker,     \* what the worker is doing
          osc_url,    \* its local
          ev,         \* its local, the error only
          handleUrl,  \* handle->osc_url
          rolling,
          streams,    \* the URLs of the streams that are open
          wanted,     \* history: the last URL put into to_thread
          last,       \* history: the last response given
          shown,      \* history: the status the host knows
          missed      \* history: the last try to show it did not fit

rtVars == <<active, sets, state, updated, wanted, shown, missed>>
workerVars == <<worker, osc_url, ev, handleUrl, rolling, streams, last>>
vars == <<toThread, jobs, responses, rtVars, workerVars>>

Status == [error : Errors \cup {NoError}, connected : BOOLEAN]
Fine == [error |-> NoError, connected |-> FALSE]

Init ==
  /\ active = FALSE
  /\ toThread = <<>> /\ jobs = 0 /\ responses = <<>> /\ sets = 0
  /\ state = Fine /\ updated = FALSE
  /\ worker = "idle" /\ osc_url = NoUrl /\ ev = NoError
  /\ handleUrl = NoUrl /\ rolling = FALSE /\ streams = <<>>
  /\ wanted = NoUrl /\ last = Fine /\ shown = Fine /\ missed = FALSE

-----------------------------------------------------------------------------
(* Opening and closing the stream.                                         *)

\* Mutant of Open: it does not matter whether a stream is open.
OpenAgain(url, error) ==
  IF url # NoUrl
  THEN /\ rolling' = (error = NoError)
       /\ streams' \in IF error = NoError THEN {Append(streams, url), streams}
                                          ELSE {streams}
  ELSE UNCHANGED <<rolling, streams>>

\* _activate: nothing to do when rolling, or without a URL; lv2_osc_stream_init
\* closes what it has opened when it fails.  It tells errors by errno, which a
\* name that is not resolved need not set: then it has failed with NoError, and
\* the plugin rolls without a stream.
Open(url, error) ==
  IF ~rolling /\ url # NoUrl
  THEN /\ rolling' = (error = NoError)
       /\ streams' \in IF error = NoError THEN {Append(streams, url), streams}
                                          ELSE {streams}
  ELSE UNCHANGED <<rolling, streams>>

\* _deactivate: closes what stream holds, if anything, when rolling.
Close == /\ rolling' = FALSE
         /\ streams' = IF rolling /\ streams # <<>>
                       THEN SubSeq(streams, 1, Len(streams) - 1)
                       ELSE streams

\* What may come of opening or running a stream.
Outcomes == Errors \cup {NoError}

\* activate(): opens the stream of an earlier URL; an error is not told, but
\* the next job tries again.
Activate(error) ==
  /\ ~active /\ worker = "idle"
  /\ active' = TRUE
  /\ Open(handleUrl, error)
  /\ UNCHANGED <<toThread, jobs, responses, sets, state, updated, wanted, shown,
                 missed, worker, osc_url, ev, handleUrl, last>>

\* deactivate()
Deactivate ==
  /\ active /\ worker = "idle"
  /\ active' = FALSE
  /\ Close
  /\ UNCHANGED <<toThread, jobs, responses, sets, state, updated, wanted, shown,
                 missed, worker, osc_url, ev, handleUrl, last>>

-----------------------------------------------------------------------------
(* The real-time thread.                                                   *)

\* Can the URL be sent?  It may be too long for the buffer it is written to,
\* or the ring may be full.
Sendable(u) == u \notin Long /\ Len(toThread) < RingSize

\* _url_change: eteroj:url has been set, or restored.
SetUrl(u) ==
  /\ active /\ sets < MaxSets
  /\ sets' = sets + 1
  /\ IF Sendable(u)
     THEN toThread' = Append(toThread, u) /\ wanted' = u
     ELSE UNCHANGED <<toThread, wanted>>
  /\ UNCHANGED <<active, jobs, responses, state, updated, shown, missed, workerVars>>

\* The rest of run(): it asks for a job, and shows the status if that has
\* changed and the output has room for it.  (Without room it is not shown,
\* but counts as shown.)
Run(fits) ==
  /\ active
  /\ jobs' = IF jobs < MaxJobs THEN jobs + 1 ELSE jobs
  /\ updated' = FALSE
  /\ IF updated
     THEN IF fits THEN shown' = state /\ missed' = FALSE
                  ELSE missed' = TRUE /\ UNCHANGED shown
     ELSE UNCHANGED <<shown, missed>>
  /\ UNCHANGED <<active, toThread, responses, sets, state, wanted, workerVars>>

\* Does a response change the status?
Changes(r) == state.error # r.error \/ state.connected # r.connected

\* Mutant of HandleEnum: the next response is to tell whether something is to
\* be shown.
HandleEnumOnly ==
  /\ active /\ responses # <<>>
  /\ state' = Head(responses)
  /\ updated' = Changes(Head(responses))
  /\ responses' = Tail(responses)
  /\ UNCHANGED <<active, toThread, jobs, sets, wanted, shown, missed, workerVars>>

\* _work_response, _handle_enum
HandleEnum ==
  /\ active /\ responses # <<>>
  /\ state' = Head(responses)
  /\ updated' = (updated \/ Changes(Head(responses)))
  /\ responses' = Tail(responses)
  /\ UNCHANGED <<active, toThread, jobs, sets, wanted, shown, missed, workerVars>>

-----------------------------------------------------------------------------
(* The worker: _work.                                                      *)

Work ==
  /\ worker = "idle" /\ jobs > 0
  /\ Len(responses) < MaxJobs    \* bound
  /\ jobs' = jobs - 1
  /\ worker' = "drain"
  /\ UNCHANGED <<toThread, responses, rtVars, osc_url, ev, handleUrl, rolling,
                 streams, last>>

\* Mutant of Kept: the first URL of several counts.
KeptFirst(url) == IF osc_url = NoUrl THEN url ELSE osc_url

\* Of several URLs, the last counts.
Kept(url) == url

Drain ==
  /\ worker = "drain" /\ toThread # <<>>
  /\ osc_url' = Kept(Head(toThread))
  /\ toThread' = Tail(toThread)
  /\ UNCHANGED <<jobs, responses, rtVars, worker, ev, handleUrl, rolling, streams, last>>

\* Mutant of Switch: the URL is taken over only when no stream is open.
SwitchClosed ==
  /\ worker = "drain" /\ toThread = <<>>
  /\ IF osc_url # NoUrl /\ ~rolling
     THEN handleUrl' = osc_url /\ Close
     ELSE UNCHANGED <<handleUrl, rolling, streams>>
  /\ osc_url' = NoUrl
  /\ worker' = "open"
  /\ UNCHANGED <<toThread, jobs, responses, rtVars, ev, last>>

\* A new URL: the stream is closed.
Switch ==
  /\ worker = "drain" /\ toThread = <<>>
  /\ IF osc_url # NoUrl
     THEN handleUrl' = osc_url /\ Close
     ELSE UNCHANGED <<handleUrl, rolling, streams>>
  /\ osc_url' = NoUrl
  /\ worker' = "open"
  /\ UNCHANGED <<toThread, jobs, responses, rtVars, ev, last>>

\* It is opened if it is not open.
Reopen(error) ==
  /\ worker = "open"
  /\ Open(handleUrl, error)
  /\ ev' = IF ~rolling /\ handleUrl # NoUrl THEN error ELSE NoError
  /\ worker' = "run"
  /\ UNCHANGED <<toThread, jobs, responses, rtVars, osc_url, handleUrl, last>>

\* The stream runs, if rolling, may find itself connected and may meet with an
\* error; a TCP client's run opens it where opening has failed before.  The
\* response is sent.
Respond(error, connected) ==
  /\ worker = "run"
  /\ LET r == IF rolling THEN [error |-> error, connected |-> connected]
                         ELSE [error |-> ev, connected |-> FALSE]
     IN  responses' = Append(responses, r) /\ last' = r
  /\ streams' \in IF rolling /\ streams = <<>> THEN {streams, <<handleUrl>>}
                                              ELSE {streams}
  /\ ev' = NoError
  /\ worker' = "idle"
  /\ UNCHANGED <<toThread, jobs, rtVars, osc_url, handleUrl, rolling>>

Host == \/ \E error \in Outcomes : Activate(error)
        \/ Deactivate
RealTime == \/ \E u \in Urls : SetUrl(u)
            \/ \E fits \in BOOLEAN : Run(fits)
            \/ HandleEnum
Job == \/ Drain \/ Switch
       \/ \E error \in Outcomes : Reopen(error)
       \/ \E error \in Outcomes, connected \in BOOLEAN : Respond(error, connected)

Next == Host \/ RealTime \/ Work \/ Job

Spec == Init /\ [][Next]_vars

\* As long as the plugin is active the host calls run() and hands responses
\* over; it does the jobs it was asked for.
FairSpec == /\ Spec
            /\ WF_vars(\E fits \in BOOLEAN : Run(fits)) /\ WF_vars(HandleEnum)
            /\ WF_vars(Work) /\ WF_vars(Job)

-----------------------------------------------------------------------------
(* What makes it correct.                                                  *)

\* The state has its types (eteroj_io.c:44-88).
TypeOK ==
  /\ active \in BOOLEAN /\ sets \in 0..MaxSets
  /\ toThread \in Seq(Urls) /\ Len(toThread) <= RingSize
  /\ jobs \in 0..MaxJobs
  /\ responses \in Seq(Status) /\ Len(responses) <= MaxJobs
  /\ {state, last, shown} \subseteq Status
  /\ updated \in BOOLEAN /\ missed \in BOOLEAN
  /\ worker \in {"idle", "drain", "open", "run"}
  /\ {osc_url, handleUrl, wanted} \subseteq Urls \cup {NoUrl}
  /\ ev \in Errors \cup {NoError}
  /\ rolling \in BOOLEAN /\ streams \in Seq(Urls)

\* At most one stream is ever open, and only while rolling (which promises no
\* more: opening may fail without an error), and it is that of the URL taken
\* over last, without which nothing rolls: opening clears the stream without
\* closing it (eteroj_io.c:610-627, 637-645, 705-714; stream.h:392-395, 664-677).
OneStream ==
  /\ rolling => handleUrl # NoUrl
  /\ streams \in IF rolling THEN {<<>>, <<handleUrl>>} ELSE {<<>>}

\* The last URL sent is on its way to the stream: it is the last of the ring,
\* or the ring is empty and the worker has it (eteroj_io.c:686-714).
UrlOnItsWay ==
  wanted = IF toThread # <<>> THEN toThread[Len(toThread)]
           ELSE IF osc_url # NoUrl THEN osc_url ELSE handleUrl

\* What the host knows is what the last job said, unless that is still on its
\* way, or did not fit into the output (eteroj_io.c:544-550, 562-608).
HostKnows == responses = <<>> /\ ~updated /\ ~missed => shown = last

\* The URL set last comes into use while the plugin is active.
UrlTaken ==
  \A u \in Urls : <>[](wanted = u /\ active) => <>[](handleUrl = u)

\* An answer of the worker's is not kept from the host for ever: what the host
\* knows catches up whenever the status stays as it is and the output has
\* room.
StatusShown ==
  \A s \in Status :
    <>[](active /\ last = s /\ ~missed) => <>[](shown = s)

\* Once nothing changes any more, both ends have what the other one had for it.
CatchesUp == UrlTaken /\ StatusShown
=============================================================================
