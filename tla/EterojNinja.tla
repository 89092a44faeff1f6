---------------------------- MODULE EterojNinja -----------------------------
(***************************************************************************)
(* The ninja plugin (src/eteroj_ninja.c): atoms go out as OSC messages     *)
(* /ninja with the serialized atom in them, and such messages come back as *)
(* atoms.  run() converts its input itself when the property synchronous   *)
(* is set; otherwise it moves it to the worker (to_worker) and puts out    *)
(* what the worker has ready (from_worker).                                *)
(*                                                                         *)
(* Both threads convert in the same buffer of the handle, with the same    *)
(* codec: an event is copied there, coded in place and copied to where the *)
(* thread forges.  The rings are queues here: that they are is what        *)
(* Varchunk shows.                                                         *)
(***************************************************************************)
EXTENDS Integers, Sequences, FiniteSets

CONSTANTS Inputs,      \* what run() may get: sequences of kinds of events
          RoomTo,      \* how many chunks to_worker holds
          RoomFrom,    \* how many chunks from_worker holds
          MaxEvents,   \* bound: how many events come in
          MaxJobs      \* bound: how many jobs the host takes at a time

\* An atom, one too long to be coded, a patch:Set of synchronous (an atom,
\* too), a message /ninja, another OSC message or bundle.
Kinds == {"atom", "long", "setTrue", "setFalse", "ninja", "osc"}

ASSUME InputsAssumption == Inputs \subseteq Seq(Kinds)
ASSUME RoomAssumption == RoomTo \in Nat \ {0} /\ RoomFrom \in Nat \ {0}
ASSUME BoundAssumption == MaxEvents \in Nat /\ MaxJobs \in Nat \ {0}

VARIABLES synchronous,  \* handle->state.synchronous
          buf,          \* handle->buf: whose content, in which form
          toWorker, fromWorker,
          jobs,         \* jobs asked for
          rt,           \* what run() is doing
          input,        \* handle->event_in
          worker,       \* what _work is doing
          todo,         \* _convert_seq: events to come, of each thread ...
          step,         \* ... what it does with the first of them ...
          forged,       \* ... and what it has forged
          came,         \* history: how many events have come in
          given,        \* history: what came out, and from whom
          gone,         \* history: events dropped or lost
          surprised     \* history: synchronous was set while the worker
                        \* had something to do

convertVars == <<buf, todo, step, forged>>
vars == <<synchronous, convertVars, toWorker, fromWorker, jobs, rt, input,
          worker, came, given, gone, surprised>>

Threads == {"rt", "worker"}
Ids(seq) == {seq[i].id : i \in 1..Len(seq)}

Init ==
  /\ synchronous = FALSE
  /\ buf = [id |-> 0, form |-> "none"]
  /\ toWorker = <<>> /\ fromWorker = <<>> /\ jobs = 0
  /\ rt = "idle" /\ input = <<>> /\ worker = "idle"
  /\ todo = [t \in Threads |-> <<>>]
  /\ step = [t \in Threads |-> "copy"]
  /\ forged = [t \in Threads |-> <<>>]
  /\ came = 0 /\ given = <<>> /\ gone = {} /\ surprised = FALSE

-----------------------------------------------------------------------------
(* _convert_seq, in either thread.                                         *)

Converts(t) == IF t = "rt" THEN rt = "convert" ELSE worker = "convert"

\* The form an event comes in, and the form it goes out in.
Given(e)  == IF e.kind = "ninja" THEN "net" ELSE "atom"
Wanted(e) == IF e.kind = "ninja" THEN "atom" ELSE "net"

\* netatom_serialize and netatom_deserialize: what is not in the form they
\* expect comes out in none.
Coded(e, form) == IF form = Given(e) THEN Wanted(e) ELSE "none"

\* Leaves the first event, having forged the results.
Leave(t, results) ==
  /\ todo' = [todo EXCEPT ![t] = Tail(@)]
  /\ step' = [step EXCEPT ![t] = "copy"]
  /\ forged' = [forged EXCEPT ![t] = @ \o results]

\* The event is copied to handle->buf; other OSC messages are left out.
Copy(t) ==
  /\ Converts(t) /\ todo[t] # <<>> /\ step[t] = "copy"
  /\ LET e == Head(todo[t])
     IN IF e.kind = "osc"
        THEN Leave(t, <<>>) /\ gone' = gone \cup {e.id} /\ UNCHANGED buf
        ELSE /\ buf' = [id |-> e.id, form |-> Given(e)]
             /\ step' = [step EXCEPT ![t] = "code"]
             /\ UNCHANGED <<todo, forged, gone>>
  /\ UNCHANGED <<synchronous, toWorker, fromWorker, jobs, rt, input, worker,
                 came, given, surprised>>

\* It is coded in place; what is too long for that is left out.
Code(t) ==
  /\ Converts(t) /\ step[t] = "code"
  /\ LET e == Head(todo[t])
     IN /\ buf' = [buf EXCEPT !.form = Coded(e, @)]
        /\ IF e.kind = "long"
           THEN Leave(t, <<>>) /\ gone' = gone \cup {e.id}
           ELSE /\ step' = [step EXCEPT ![t] = "forge"]
                /\ UNCHANGED <<todo, forged, gone>>
  /\ UNCHANGED <<synchronous, toWorker, fromWorker, jobs, rt, input, worker,
                 came, given, surprised>>

\* The result is copied to where the thread forges.
Forge(t) ==
  /\ Converts(t) /\ step[t] = "forge"
  /\ LET e == Head(todo[t])
     IN Leave(t, << [id |-> e.id, want |-> Wanted(e), got |-> buf] >>)
  /\ UNCHANGED <<synchronous, buf, toWorker, fromWorker, jobs, rt, input,
                 worker, came, given, gone, surprised>>

Convert(t) == Copy(t) \/ Code(t) \/ Forge(t)

-----------------------------------------------------------------------------
(* run()                                                                   *)

\* The last setting of synchronous among the events decides (props_advance).
Setting(seq, before) ==
  LET sets == {i \in 1..Len(seq) : seq[i].kind \in {"setTrue", "setFalse"}}
  IN IF sets = {} THEN before
     ELSE seq[CHOOSE i \in sets : \A j \in sets : j <= i].kind = "setTrue"

\* The period begins with new input.
RunBegin(kinds) ==
  /\ rt = "idle" /\ came + Len(kinds) <= MaxEvents
  /\ input' = [i \in 1..Len(kinds) |-> [id |-> came + i, kind |-> kinds[i]]]
  /\ came' = came + Len(kinds)
  /\ synchronous' = Setting(input', synchronous)
  /\ surprised' = \/ surprised
                   \/ /\ synchronous'
                      /\ (toWorker # <<>> \/ worker # "idle")
  /\ IF synchronous'
     THEN /\ rt' = "convert"
          /\ todo' = [todo EXCEPT !["rt"] = input']
     ELSE /\ rt' = IF input' # <<>> THEN "move" ELSE "take"
          /\ UNCHANGED todo
  /\ UNCHANGED <<buf, step, forged, toWorker, fromWorker, jobs, worker, given, gone>>

\* Mutant: what the worker has no room for is converted here.
MoveElseConvert ==
  /\ rt = "move"
  /\ IF Len(toWorker) < RoomTo
     THEN toWorker' = Append(toWorker, input) /\ rt' = "schedule"
          /\ UNCHANGED todo
     ELSE rt' = "convert" /\ todo' = [todo EXCEPT !["rt"] = input]
          /\ UNCHANGED toWorker
  /\ UNCHANGED <<synchronous, buf, step, forged, fromWorker, jobs, input,
                 worker, came, given, gone, surprised>>

\* The input is moved to the worker, if there is room.
Move ==
  /\ rt = "move"
  /\ IF Len(toWorker) < RoomTo
     THEN toWorker' = Append(toWorker, input) /\ rt' = "schedule"
          /\ UNCHANGED gone
     ELSE rt' = "take" /\ gone' = gone \cup Ids(input)
          /\ UNCHANGED toWorker
  /\ UNCHANGED <<synchronous, convertVars, fromWorker, jobs, input, worker,
                 came, given, surprised>>

\* schedule_work: a host that has no room for a job refuses it, which nobody
\* looks at.
Schedule ==
  /\ rt = "schedule"
  /\ jobs' = IF jobs < MaxJobs THEN jobs + 1 ELSE jobs
  /\ rt' = "take"
  /\ UNCHANGED <<synchronous, convertVars, toWorker, fromWorker, input, worker,
                 came, given, gone, surprised>>

\* Mutant: the chunk that was put out is not dropped from the ring.
TakeKeeps ==
  /\ rt = "take"
  /\ IF fromWorker # <<>>
     THEN forged' = [forged EXCEPT !["rt"] = Head(fromWorker)]
     ELSE UNCHANGED forged
  /\ rt' = "end"
  /\ UNCHANGED <<synchronous, buf, todo, step, toWorker, fromWorker, jobs, input,
                 worker, came, given, gone, surprised>>

\* Mutant: only a period with input takes something out.
TakeBusy ==
  /\ rt = "take"
  /\ IF fromWorker # <<>> /\ input # <<>>
     THEN /\ forged' = [forged EXCEPT !["rt"] = Head(fromWorker)]
          /\ fromWorker' = Tail(fromWorker)
     ELSE UNCHANGED <<forged, fromWorker>>
  /\ rt' = "end"
  /\ UNCHANGED <<synchronous, buf, todo, step, toWorker, jobs, input, worker,
                 came, given, gone, surprised>>

\* One chunk of what the worker has ready is put out.
Take ==
  /\ rt = "take"
  /\ IF fromWorker # <<>>
     THEN /\ forged' = [forged EXCEPT !["rt"] = Head(fromWorker)]
          /\ fromWorker' = Tail(fromWorker)
     ELSE UNCHANGED <<forged, fromWorker>>
  /\ rt' = "end"
  /\ UNCHANGED <<synchronous, buf, todo, step, toWorker, jobs, input, worker,
                 came, given, gone, surprised>>

\* The period ends: the output is the host's, or all of it is cleared when
\* it did not fit.
RunEnd(fits) ==
  /\ \/ rt = "end"
     \/ rt = "convert" /\ todo["rt"] = <<>>
  /\ LET out == forged["rt"]
         by  == IF rt = "end" THEN "worker" ELSE "rt"
     IN IF fits
        THEN /\ given' = given \o [i \in 1..Len(out) |-> [result |-> out[i], by |-> by]]
             /\ UNCHANGED gone
        ELSE gone' = gone \cup Ids(out) /\ UNCHANGED given
  /\ forged' = [forged EXCEPT !["rt"] = <<>>]
  /\ rt' = "idle" /\ input' = <<>>
  /\ UNCHANGED <<synchronous, buf, todo, step, toWorker, fromWorker, jobs,
                 worker, came, surprised>>

RunStep == Convert("rt") \/ Move \/ Schedule \/ Take \/ \E fits \in BOOLEAN : RunEnd(fits)

-----------------------------------------------------------------------------
(* _work()                                                                 *)

\* The host does a job.
WorkBegin ==
  /\ worker = "idle" /\ jobs > 0
  /\ jobs' = jobs - 1 /\ worker' = "next"
  /\ UNCHANGED <<synchronous, convertVars, toWorker, fromWorker, rt, input,
                 came, given, gone, surprised>>

\* Mutant: what was forged of the chunk before is still there.
WorkNextOffset ==
  /\ worker = "next"
  /\ IF toWorker # <<>>
     THEN /\ worker' = "convert"
          /\ todo' = [todo EXCEPT !["worker"] = Head(toWorker)]
     ELSE worker' = "idle" /\ UNCHANGED todo
  /\ UNCHANGED <<synchronous, buf, step, forged, toWorker, fromWorker, jobs, rt,
                 input, came, given, gone, surprised>>

\* The next chunk; ser.offset = 0.
WorkNext ==
  /\ worker = "next"
  /\ IF toWorker # <<>>
     THEN /\ worker' = "convert"
          /\ todo' = [todo EXCEPT !["worker"] = Head(toWorker)]
          /\ forged' = [forged EXCEPT !["worker"] = <<>>]
     ELSE worker' = "idle" /\ UNCHANGED <<todo, forged>>
  /\ UNCHANGED <<synchronous, buf, step, toWorker, fromWorker, jobs, rt, input,
                 came, given, gone, surprised>>

\* What has come of it goes back, if there is room.
WorkWrite ==
  /\ worker = "convert" /\ todo["worker"] = <<>>
  /\ IF Len(fromWorker) < RoomFrom
     THEN /\ fromWorker' = IF forged["worker"] # <<>>
                           THEN Append(fromWorker, forged["worker"]) ELSE fromWorker
          /\ UNCHANGED gone
     ELSE gone' = gone \cup Ids(forged["worker"]) /\ UNCHANGED fromWorker
  /\ worker' = "advance"
  /\ UNCHANGED <<synchronous, convertVars, toWorker, jobs, rt, input, came, given,
                 surprised>>

\* Mutant: one chunk a job.
WorkAdvanceReturns ==
  /\ worker = "advance"
  /\ toWorker' = Tail(toWorker)
  /\ worker' = "idle"
  /\ UNCHANGED <<synchronous, convertVars, fromWorker, jobs, rt, input, came,
                 given, gone, surprised>>

\* The chunk is done, and the next is looked for.
WorkAdvance ==
  /\ worker = "advance"
  /\ toWorker' = Tail(toWorker)
  /\ worker' = "next"
  /\ UNCHANGED <<synchronous, convertVars, fromWorker, jobs, rt, input, came,
                 given, gone, surprised>>

WorkStep == WorkNext \/ Convert("worker") \/ WorkWrite \/ WorkAdvance

Next == (\E kinds \in Inputs : RunBegin(kinds)) \/ RunStep \/ WorkBegin \/ WorkStep

Spec == Init /\ [][Next]_vars

\* The host goes on calling run(), with or without input, and does the jobs it
\* has taken; neither function is left in the middle.
Fairness == /\ WF_vars(RunBegin(<<>>)) /\ WF_vars(RunStep)
            /\ WF_vars(WorkBegin) /\ WF_vars(WorkStep)

FairSpec == Spec /\ Fairness

-----------------------------------------------------------------------------
(* What makes it correct.                                                  *)

Event == [id : 1..MaxEvents, kind : Kinds]
Form == {"none", "atom", "net"}
Result == [id : 1..MaxEvents, want : Form, got : [id : 0..MaxEvents, form : Form]]

\* The state has its types, and a thread's place in a conversion is one it can
\* be at (eteroj_ninja.c:49-79).
TypeOK ==
  /\ synchronous \in BOOLEAN /\ surprised \in BOOLEAN
  /\ buf \in [id : 0..MaxEvents, form : Form]
  /\ toWorker \in Seq(Seq(Event)) /\ Len(toWorker) <= RoomTo
  /\ fromWorker \in Seq(Seq(Result)) /\ Len(fromWorker) <= RoomFrom
  /\ jobs \in 0..MaxJobs
  /\ rt \in {"idle", "convert", "move", "schedule", "take", "end"}
  /\ worker \in {"idle", "next", "convert", "advance"}
  /\ input \in Seq(Event)
  /\ todo \in [Threads -> Seq(Event)] /\ forged \in [Threads -> Seq(Result)]
  /\ step \in [Threads -> {"copy", "code", "forge"}]
  /\ \A t \in Threads : step[t] # "copy" => Converts(t) /\ todo[t] # <<>>
  /\ came \in 0..MaxEvents /\ gone \subseteq 1..MaxEvents
  /\ given \in Seq([result : Result, by : Threads])

\* Is a result what its event should have become?
Right(r) == r.got.id = r.id /\ r.got.form = r.want

\* Nothing comes out that is not the conversion of an event that came in,
\* as long as synchronous is only ever set while the worker is done with
\* everything: then the two threads do not meet in handle->buf
\* (eteroj_ninja.c:238-241, 276-279, 315-333).
OwnConversion ==
  surprised \/ \A i \in 1..Len(given) : Right(given[i].result)

\* Of two events that took the same way, through the worker or not, the
\* earlier comes out earlier, and none comes twice (eteroj_ninja.c:344, 399,
\* 433).  Those that overtake are synchronous ones: they do not wait for what
\* the worker still has.
OutputOrdered ==
  \A i, j \in 1..Len(given) :
    i < j => /\ given[i].result.id # given[j].result.id
             /\ given[i].by = given[j].by => given[i].result.id < given[j].result.id

\* Where an event may be.
IdsOf(chunks) == UNION {Ids(chunks[i]) : i \in 1..Len(chunks)}
Hands == [ moving  |-> IF rt = "move" THEN Ids(input) ELSE {},
           queued  |-> IF worker \in {"convert", "advance"}
                       THEN IdsOf(Tail(toWorker)) ELSE IdsOf(toWorker),
           worked  |-> IF worker = "convert"
                       THEN Ids(todo["worker"]) \cup Ids(forged["worker"]) ELSE {},
           ready   |-> IdsOf(fromWorker),
           putting |-> Ids(todo["rt"]) \cup Ids(forged["rt"]),
           out     |-> {given[i].result.id : i \in 1..Len(given)},
           nowhere |-> gone ]

\* Every event that came in is in one place, and in one only: none vanishes
\* between the threads, and none is handed on and kept (eteroj_ninja.c:322-353,
\* 399-434).
InOnePlace ==
  \A e \in 1..came : \E p \in DOMAIN Hands :
    e \in Hands[p] /\ \A q \in DOMAIN Hands : e \in Hands[q] => q = p

\* What waits for the worker is looked for, though a host may refuse jobs: a
\* job is due, or is being done, or run() is about to ask for it
\* (eteroj_ninja.c:329-332, 399: a job goes on until there is nothing left).
WorkIsScheduled == toWorker # <<>> => jobs > 0 \/ worker # "idle" \/ rt = "schedule"

\* What the worker has ready comes out, one chunk a period, unless run() ends
\* up synchronous: then it stays where it is (eteroj_ninja.c:319, 340-355).
Delivered == <>[](~synchronous) => (fromWorker # <<>> ~> fromWorker = <<>>)
=============================================================================
