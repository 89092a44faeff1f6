--------------------------- MODULE BundleSchedule ---------------------------
(***************************************************************************)
(* How the io plugin (src/eteroj_io.c) hands received OSC packets to the   *)
(* host: run() empties the ring the worker fills; a message, or a bundle   *)
(* for immediate dispatch, goes out at frame 0 of the period, any other    *)
(* bundle is put on a list of fixed size, sorted by time, and goes out in  *)
(* the period its time falls into.                                         *)
(*                                                                         *)
(* The host tells the frames from the beginning of the period to a         *)
(* bundle's time (osc2frames); its clock may run a little off the periods. *)
(* A packet is named by the number of its arrival.                         *)
(***************************************************************************)
EXTENDS Integers, FiniteSets, SequencesExt

CONSTANTS ListSize,    \* LIST_SIZE
          Period,      \* nsamples
          Drifts,      \* by how much a period may be off the clock
          Room,        \* how many packets the host's output buffer holds
          Immediate,   \* LV2_OSC_IMMEDIATE, or no bundle
          Packets,     \* what may arrive
          MaxPackets,  \* bound: how many of them
          Horizon      \* bound: when the clock stops

ASSUME SizeAssumption == ListSize \in Nat \ {0} /\ Room \in Nat
ASSUME PeriodAssumption ==
  Period \in Nat \ {0} /\ \A d \in Drifts : d \in Int /\ Period + d >= 0
ASSUME PacketsAssumption ==
  /\ Immediate \notin Int
  /\ Packets \subseteq [time : Nat \cup {Immediate}, long : BOOLEAN]
ASSUME BoundsAssumption == MaxPackets \in Nat /\ Horizon \in Nat

VARIABLES now,        \* the host's clock at the beginning of the period
          arrived,    \* the packets the worker has put into from_worker ...
          read,       \* ... and how many of them were taken out again
          list, nlist,
          rt,         \* where run() is
          before,     \* its local nlist
          l,          \* the index its loop is at
          deleted,    \* its local deleted
          out,        \* what it was to forge, packets and frames
          ref,        \* handle->ref: no output has failed
          delivered,  \* history: what the host got, packet and clock
          dropped     \* history: packets that were not sent on

runVars == <<before, l, deleted>>
vars == <<now, arrived, read, list, nlist, rt, runVars, out, ref, delivered,
          dropped>>

Cells == 1..ListSize
Ids == 1..MaxPackets

\* A cell of the list; a size of zero means that it is free.
Free == [id |-> 0, frames |-> 0]
IsFree(cell) == cell.id = 0

Init ==
  /\ now = 0 /\ arrived = <<>> /\ read = 0
  /\ list = [i \in Cells |-> Free] /\ nlist = 0
  /\ rt = "idle" /\ before = 0 /\ l = 1 /\ deleted = 0
  /\ out = <<>> /\ ref = TRUE
  /\ delivered = <<>> /\ dropped = {}

\* osc2frames: how far ahead is packet number id, at time t?
Frames(id, t) == arrived[id].time - t

\* Mutant: the order is reversed.
PrecedesLater(a, b) == IF IsFree(a) THEN IsFree(b)
                       ELSE IsFree(b) \/ a.frames >= b.frames

\* _cmp(a, b) <= 0
Precedes(a, b) == IF IsFree(a) THEN IsFree(b)
                  ELSE IsFree(b) \/ a.frames <= b.frames

\* What qsort may make of the first n cells: it need not be stable.
SortedLists(cells, n) ==
  {[i \in Cells |-> IF i <= n THEN cells[p[i]] ELSE cells[i]] :
     p \in {q \in Bijection(1..n, 1..n) :
              \A i, j \in 1..n : i < j => Precedes(cells[q[i]], cells[q[j]])}}

-----------------------------------------------------------------------------
(* The worker puts what the stream receives into from_worker.              *)

Arrive(p) ==
  /\ Len(arrived) < MaxPackets
  /\ arrived' = Append(arrived, p)
  /\ UNCHANGED <<now, read, list, nlist, rt, runVars, out, ref, delivered, dropped>>

-----------------------------------------------------------------------------
(* run()                                                                   *)

\* Mutant of Rescheduled: the distance of the last period is kept.
RescheduledNot(t) == list

\* The list with all distances taken anew, for a period that begins at t.
Rescheduled(t) ==
  LET ahead(id) == IF Frames(id, t) < 0 THEN 0 ELSE Frames(id, t)
  IN  [i \in Cells |-> IF IsFree(list[i]) THEN list[i]
                       ELSE [list[i] EXCEPT !.frames = ahead(list[i].id)]]

\* The loop over the list has no other end than a free cell: with none, it
\* goes on behind the list, and nothing is known of what follows.
Overrun ==
  /\ \/ rt = "idle" /\ \A i \in Cells : ~IsFree(list[i])
     \/ rt = "dispatch" /\ l > ListSize
  /\ rt' = "overrun"
  /\ UNCHANGED <<now, arrived, read, list, nlist, runVars, out, ref, delivered, dropped>>

\* A period begins: the list is scheduled again.
Begin(d) ==
  /\ rt = "idle" /\ \E i \in Cells : IsFree(list[i])
  /\ now' = IF now >= Horizon THEN now ELSE now + Period + d
  /\ list' = Rescheduled(now')
  /\ before' = nlist
  /\ rt' = "read"
  /\ UNCHANGED <<arrived, read, nlist, l, deleted, out, ref, delivered, dropped>>

\* _parse: packet id is to be forged at a frame, which fails when the buffer is
\* full, and from then on.
Parse(id, frame) ==
  /\ out' = Append(out, [id |-> id, frame |-> frame])
  /\ ref' = (ref /\ Len(out) < Room)

\* _add_list
Fits == nlist < ListSize

Taken == arrived[read + 1]

\* _unroll of a message, or a bundle for immediate dispatch.
ReadImmediate ==
  /\ rt = "read" /\ read < Len(arrived)
  /\ Taken.time = Immediate
  /\ Parse(read + 1, 0)
  /\ read' = read + 1
  /\ UNCHANGED <<now, arrived, list, nlist, rt, runVars, delivered, dropped>>

\* _unroll of a bundle the list has room for.  The bundles that arrive here
\* have a first item that can be read: _unroll looks at it unasked; what comes
\* of one without is in Carriage.
ReadScheduled ==
  /\ rt = "read" /\ read < Len(arrived)
  /\ Taken.time # Immediate /\ ~Taken.long /\ Fits
  /\ list' = [list EXCEPT ![nlist + 1] =
                 [id |-> read + 1, frames |-> Frames(read + 1, now)]]
  /\ nlist' = nlist + 1
  /\ read' = read + 1
  /\ UNCHANGED <<now, arrived, rt, runVars, out, ref, delivered, dropped>>

\* _unroll of a bundle longer than a cell, or one too many.
ReadDropped ==
  /\ rt = "read" /\ read < Len(arrived)
  /\ Taken.time # Immediate /\ (Taken.long \/ ~Fits)
  /\ dropped' = dropped \cup {read + 1}
  /\ read' = read + 1
  /\ UNCHANGED <<now, arrived, list, nlist, rt, runVars, out, ref, delivered>>

\* Mutant: the list is not sorted.
ReadDoneUnsorted ==
  /\ rt = "read" /\ read = Len(arrived)
  /\ rt' = "dispatch" /\ l' = 1 /\ deleted' = 0
  /\ UNCHANGED <<now, arrived, read, list, nlist, before, out, ref, delivered, dropped>>

\* The ring is empty; the list is sorted when it has grown.
ReadDone ==
  /\ rt = "read" /\ read = Len(arrived)
  /\ IF nlist # before THEN list' \in SortedLists(list, nlist) ELSE UNCHANGED list
  /\ rt' = "dispatch" /\ l' = 1 /\ deleted' = 0
  /\ UNCHANGED <<now, arrived, read, nlist, before, out, ref, delivered, dropped>>

\* Does it fall into this period?
Due(cell) == ~IsFree(cell) /\ cell.frames < Period

\* Mutant of Punctual: the negative distance of a late bundle is its frame.
PunctualNot(frames) == frames

\* A late bundle is dispatched as early as possible.
Punctual(frames) == IF frames < 0 THEN 0 ELSE frames

\* Mutant: the cell stays in use.
DispatchKept ==
  /\ rt = "dispatch" /\ l <= ListSize
  /\ Due(list[l])
  /\ Parse(list[l].id, Punctual(list[l].frames))
  /\ l' = l + 1 /\ deleted' = deleted + 1
  /\ UNCHANGED <<now, arrived, read, list, nlist, rt, before, delivered, dropped>>

\* The next bundle of the list is due.
Dispatch ==
  /\ rt = "dispatch" /\ l <= ListSize
  /\ Due(list[l])
  /\ Parse(list[l].id, Punctual(list[l].frames))
  /\ list' = [list EXCEPT ![l] = Free]
  /\ l' = l + 1 /\ deleted' = deleted + 1
  /\ UNCHANGED <<now, arrived, read, nlist, rt, before, delivered, dropped>>

\* Mutant: the cells that were given back are still counted.
RemainingAll == nlist

\* What is left of the list.
Remaining == nlist - deleted

\* No more is due: the free cells go to the end of the list, and the host
\* gets the output, all of it or, when it did not fit, nothing.
End ==
  /\ rt = "dispatch" /\ l <= ListSize
  /\ ~Due(list[l])
  /\ IF deleted > 0 THEN list' \in SortedLists(list, nlist) ELSE UNCHANGED list
  /\ nlist' = Remaining
  /\ IF ref
     THEN /\ delivered' = delivered \o [i \in DOMAIN out |->
                            [id |-> out[i].id, when |-> now + out[i].frame]]
          /\ UNCHANGED dropped
     ELSE /\ dropped' = dropped \cup {o.id : o \in ToSet(out)}
          /\ UNCHANGED delivered
  /\ out' = <<>> /\ ref' = TRUE
  /\ rt' = "idle" /\ l' = 1 /\ deleted' = 0 /\ before' = 0
  /\ UNCHANGED <<now, arrived, read>>

Run == \/ Overrun \/ \E d \in Drifts : Begin(d)
       \/ ReadImmediate \/ ReadScheduled \/ ReadDropped \/ ReadDone
       \/ Dispatch \/ End

Next == Run \/ \E p \in Packets : Arrive(p)

Spec == Init /\ [][Next]_vars

\* The host calls run() once per period, for as long as the plugin is active.
FairSpec == Spec /\ WF_vars(Run)

-----------------------------------------------------------------------------
(* What makes it correct.                                                  *)

\* The state has its types (eteroj_io.c:38-42, 75-77).
TypeOK ==
  /\ now \in Nat
  /\ arrived \in Seq(Packets) /\ read \in 0..Len(arrived)
  /\ list \in [Cells -> [id : 0..MaxPackets, frames : Int]]
  /\ nlist \in 0..ListSize /\ before \in 0..ListSize
  /\ rt \in {"idle", "read", "dispatch", "overrun"}
  /\ l \in 1..(ListSize + 1) /\ deleted \in 0..ListSize
  /\ out \in Seq([id : Ids, frame : 0..(Period - 1)]) /\ ref \in BOOLEAN
  /\ delivered \in Seq([id : Ids, when : Nat])
  /\ dropped \subseteq Ids

\* The loops over the list, which end at a free cell, go on behind it only when
\* all cells were in use at once (eteroj_io.c:478, 516).
InsideUnlessFull == rt = "overrun" => nlist = ListSize

\* Between two periods nlist counts the cells in use, and these come first:
\* that is where the next bundle goes, and where the loops end, unless the list
\* is full (eteroj_io.c:311-320, 538-542).
Counted ==
  /\ rt = "idle" => \A i \in Cells : IsFree(list[i]) <=> i > nlist
  /\ InsideUnlessFull

\* The cells that hold packet id, and its places in a sequence.
Holding(id) == {i \in Cells : list[i].id = id}
Places(id, s) == {i \in DOMAIN s : s[i].id = id}

\* A packet that was taken out of the ring is in exactly one place: on the
\* list, in the output, with the host or among those dropped.  None is sent
\* twice and none is forgotten (eteroj_io.c:379-420, 494-559).
InOnePlace ==
  \A id \in 1..read :
    Cardinality(Holding(id)) + Cardinality(Places(id, out))
      + Cardinality(Places(id, delivered)) + Cardinality({id} \cap dropped) = 1

\* No bundle goes out before its time, and none that is due stays on the list
\* (eteroj_io.c:475-536).  The loop stops at the first that is not due.
OnTime ==
  /\ \A i \in DOMAIN delivered :
       LET t == arrived[delivered[i].id].time
       IN  t # Immediate => delivered[i].when >= t
  /\ rt = "idle" => \A i \in Cells :
       ~IsFree(list[i]) => arrived[list[i].id].time >= now + Period

\* The packets of a period go out in the order of their frames, as an LV2
\* sequence wants it: first those without a time, then the list
\* (eteroj_io.c:496-536).
OutputOrdered ==
  \A i, j \in DOMAIN out : i < j => out[i].frame <= out[j].frame

\* Bundles that have waited together go out in the order of their times,
\* although the list is only sorted when a bundle comes or goes, not when the
\* distances change; only those that are late when the period begins, for the
\* clock has run ahead, go out as they come (eteroj_io.c:475-511, 538-542).
ListOrdered ==
  rt \in {"idle", "dispatch"} =>
    \A i, j \in 1..nlist :
      i < j /\ ~IsFree(list[i]) /\ ~IsFree(list[j]) =>
        LET s == arrived[list[i].id].time
        IN  s <= arrived[list[j].id].time \/ (rt = "dispatch" /\ s <= now)

\* Whatever arrives is delivered or dropped, when the list is never full.
Served ==
  \A id \in Ids :
    id <= Len(arrived) ~>
      \/ rt = "overrun" \/ id \in dropped
      \/ id \in {o.id : o \in ToSet(delivered)}

\* The packets that are on the list or in the output.
Waiting == ({list[i].id : i \in Cells} \cup {o.id : o \in ToSet(out)}) \ {0}

Agenda == INSTANCE Calendar
          WITH clock <- now, came <- arrived, seen <- read, waiting <- Waiting,
               played <- delivered, lost <- dropped

\* Whatever list, sorting and distances do, the host sees a calendar: in each
\* period all that is due and nothing else, each packet at its very time, those
\* that are late at the beginning, in order; or, when the output is too small,
\* nothing of it (eteroj_io.c:379-559).
ImplementsCalendar == Agenda!Spec
=============================================================================
