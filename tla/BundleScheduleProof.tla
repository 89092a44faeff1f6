------------------------ MODULE BundleScheduleProof -------------------------
(***************************************************************************)
(* What the io plugin does with bundles, for a list of any size, periods   *)
(* of any length and any packets, at any times: the cells in use are those *)
(* that are counted, the loops over the list stay inside it unless it is   *)
(* full, nothing goes out before its time or is left when its time has     *)
(* come, what goes out in a period is in order, every packet is in one     *)
(* place, and all of it together implements the calendar.                  *)
(***************************************************************************)
EXTENDS BundleSchedule, SequenceTheorems, FiniteSetTheorems, TLAPS

Cell == [id : 0..MaxPackets, frames : Int]

\* The cells in use: counted between two periods, and counted off by l while
\* the list is dispatched.
Filled ==
  /\ rt \in {"idle", "read"} => \A i \in Cells : IsFree(list[i]) <=> i > nlist
  /\ rt = "dispatch" =>
       /\ deleted = l - 1 /\ l <= nlist + 1
       /\ \A i \in Cells : IsFree(list[i]) <=> i < l \/ i > nlist

\* A cell in use has a bundle that was read, and how far ahead it is, if it is.
Known(c) ==
  ~IsFree(c) =>
    /\ c.id \in 1..read /\ arrived[c.id].time \in Nat
    /\ \/ c.frames = Frames(c.id, now)
       \/ c.frames = 0 /\ Frames(c.id, now) < 0

\* It is not due before the next period.
Waits(c) == ~IsFree(c) => c.frames >= Period

\* Of two cells in use, the first is not later.
Sorted == \A i, j \in Cells :
            i < j /\ ~IsFree(list[i]) /\ ~IsFree(list[j]) => list[i].frames <= list[j].frames

ListOK ==
  /\ \A i \in Cells : Known(list[i])
  /\ rt = "idle" => Sorted /\ \A i \in Cells : Waits(list[i])
  /\ rt = "read" =>
       /\ before <= nlist
       /\ \A i, j \in 1..before : i < j => list[i].frames <= list[j].frames
  /\ rt = "dispatch" => Sorted

\* The output: packets that were read, none before its time, none after what
\* is still on the list.
OutOK ==
  /\ rt = "idle" => out = <<>>
  /\ \A o \in DOMAIN out :
       /\ out[o].id \in 1..read
       /\ LET t == arrived[out[o].id].time IN t # Immediate => now + out[o].frame >= t
  /\ rt = "read" => \A o \in DOMAIN out : out[o].frame = 0
  /\ rt = "dispatch" =>
       \A o \in DOMAIN out, i \in Cells :
         ~IsFree(list[i]) => out[o].frame <= Punctual(list[i].frames)

DeliveredOK ==
  \A d \in DOMAIN delivered :
    /\ delivered[d].id \in 1..read
    /\ LET t == arrived[delivered[d].id].time IN t # Immediate => delivered[d].when >= t

\* The inductive invariant.
Bounded == Len(arrived) <= MaxPackets
IInv == /\ TypeOK /\ Bounded
        /\ Filled /\ InsideUnlessFull
        /\ ListOK /\ OutOK /\ OutputOrdered /\ DeliveredOK

-----------------------------------------------------------------------------
(* Sorting.                                                                *)

\* When the cells in use are sorted before the free ones, as many come first as
\* there are: they were those after the k-th.
LEMMA Gathered ==
  ASSUME NEW n \in Nat, NEW p \in Bijection(1..n, 1..n), NEW k \in 0..n,
         \A i, j \in 1..n : i < j /\ p[j] > k => p[i] > k
  PROVE  \A i \in 1..n : p[i] > k <=> i <= n - k
<1> DEFINE U == {i \in 1..n : p[i] > k}
           V == (k + 1)..n
           g == [i \in U |-> p[i]]
<1>1. p \in [1..n -> 1..n] /\ IsInjective(p) /\ \A t \in 1..n : \E s \in 1..n : p[s] = t
  BY DEF Bijection, Injection, Surjection
<1>2. g \in Bijection(U, V)
  <2>1. g \in [U -> V]
    BY <1>1
  <2>2. IsInjective(g)
    BY <1>1 DEF IsInjective
  <2>3. ASSUME NEW t \in V PROVE \E s \in U : g[s] = t
    <3>0. t \in 1..n /\ t > k
      OBVIOUS
    <3>1. PICK s \in 1..n : p[s] = t
      BY <1>1, <3>0
    <3>2. s \in U
      BY <3>0, <3>1
    <3> QED
      BY <3>1, <3>2
  <2> QED
    BY <2>1, <2>2, <2>3 DEF Bijection, Injection, Surjection
<1>3. IsFiniteSet(U) /\ Cardinality(U) = n - k
  <2>1. IsFiniteSet(1..n) /\ IsFiniteSet(V) /\ Cardinality(V) = n - k
    BY FS_Interval
  <2>2. IsFiniteSet(U)
    BY <2>1, FS_Subset
  <2>3. ExistsBijection(U, V)
    BY <1>2 DEF ExistsBijection
  <2> HIDE DEF U, V
  <2> QED
    BY <2>1, <2>2, <2>3, FS_Bijection
<1>4. U \subseteq 1..(n - k)
  <2> SUFFICES ASSUME NEW j \in U, j > n - k PROVE FALSE
    OBVIOUS
  <2>1. 1..(n - k + 1) \subseteq U
    <3> SUFFICES ASSUME NEW i \in 1..(n - k + 1) PROVE i \in U
      OBVIOUS
    <3>1. i \in 1..n /\ (i < j \/ i = j)
      OBVIOUS
    <3> QED
      BY <3>1
  <2>2. Cardinality(1..(n - k + 1)) = n - k + 1
    BY FS_Interval
  <2>3. Cardinality(1..(n - k + 1)) <= Cardinality(U)
    <3> HIDE DEF U
    <3> QED
      BY <1>3, <2>1, FS_Subset
  <2> HIDE DEF U
  <2> QED
    BY <1>3, <2>2, <2>3
<1>5. U = 1..(n - k)
  <2>1. IsFiniteSet(1..(n - k)) /\ Cardinality(1..(n - k)) = n - k
    BY FS_Interval
  <2> HIDE DEF U
  <2> QED
    BY <1>3, <1>4, <2>1, FS_Subset
<1> QED
  BY <1>5

\* Sorting moves cells within the first n, and puts them in order.
LEMMA SortingMoves ==
  ASSUME NEW cells \in [Cells -> Cell], NEW n \in 0..ListSize,
         NEW new \in SortedLists(cells, n)
  PROVE  \E p \in Bijection(1..n, 1..n) :
           /\ p \in [1..n -> 1..n]
           /\ new \in [Cells -> Cell]
           /\ \A i \in 1..n : new[i] = cells[p[i]]
           /\ \A i \in Cells : i > n => new[i] = cells[i]
           /\ \A i, j \in 1..n : i < j => Precedes(new[i], new[j])
<1> USE SizeAssumption DEF Cells
<1>1. PICK p \in Bijection(1..n, 1..n) :
        /\ \A i, j \in 1..n : i < j => Precedes(cells[p[i]], cells[p[j]])
        /\ new = [i \in Cells |-> IF i <= n THEN cells[p[i]] ELSE cells[i]]
  BY Zenon DEF SortedLists
<1>2. p \in [1..n -> 1..n]
  BY DEF Bijection, Injection
<1>3. \A i \in 1..n : i \in Cells /\ p[i] \in Cells /\ new[i] = cells[p[i]]
  BY <1>1, <1>2
<1>4. ASSUME NEW i \in Cells
      PROVE  (i > n => new[i] = cells[i]) /\ new[i] \in Cell
  <2>1. CASE i <= n
    BY <1>3, <2>1
  <2>2. CASE i > n
    BY <1>1, <2>2
  <2> QED
    BY <2>1, <2>2
<1>5. new \in [Cells -> Cell]
  BY <1>1, <1>4
<1>6. \A i, j \in 1..n : i < j => Precedes(new[i], new[j])
  BY <1>1, <1>3
<1> QED
  BY <1>1, <1>2, <1>3, <1>4, <1>5, <1>6

-----------------------------------------------------------------------------
(* The initial states.                                                     *)

LEMMA InitIInv == Init => IInv
<1> SUFFICES ASSUME Init PROVE IInv
  OBVIOUS
<1> USE SizeAssumption, PeriodAssumption, BoundsAssumption DEF Init
<1>1. arrived \in Seq(Packets) /\ Len(arrived) = 0
  BY EmptySeq
<1>2. list \in [Cells -> Cell] /\ \A i \in Cells : IsFree(list[i])
  BY DEF Free, IsFree, Cell
<1>3. TypeOK
  <2>1. out \in Seq([id : Ids, frame : 0..(Period - 1)])
    BY EmptySeq
  <2>2. delivered \in Seq([id : Ids, when : Nat])
    BY EmptySeq
  <2> QED
    BY <1>1, <1>2, <2>1, <2>2 DEF TypeOK, Cell
<1>4. DOMAIN out = {} /\ DOMAIN delivered = {}
  OBVIOUS
<1>5. Filled /\ ListOK
  BY <1>2 DEF Filled, ListOK, Known, Waits, Sorted, Cells
<1>6. OutOK /\ OutputOrdered /\ DeliveredOK /\ InsideUnlessFull /\ Bounded
  BY <1>1, <1>4 DEF OutOK, OutputOrdered, DeliveredOK, InsideUnlessFull, Bounded
<1> QED
  BY <1>3, <1>5, <1>6 DEF IInv

-----------------------------------------------------------------------------
(* The worker, and the beginning of a period.                              *)

LEMMA ArriveKeeps ==
  ASSUME IInv, NEW p \in Packets, Arrive(p)
  PROVE  IInv'
<1>1. /\ arrived' \in Seq(Packets) /\ Len(arrived') = Len(arrived) + 1
      /\ \A i \in 1..Len(arrived) : arrived'[i] = arrived[i]
  BY AppendProperties DEF IInv, TypeOK, Arrive
<1>2. UNCHANGED <<now, read, list, nlist, rt, runVars, out, ref, delivered, dropped>>
  BY DEF Arrive
<1>3. Len(arrived) \in Nat /\ read \in 0..Len(arrived) /\ Len(arrived') <= MaxPackets
  BY <1>1, BoundsAssumption DEF IInv, TypeOK, Arrive
<1>4. \A id \in 1..read : arrived'[id] = arrived[id]
  BY <1>1, <1>3
<1>5. TypeOK' /\ Bounded'
  BY <1>1, <1>2, <1>3 DEF IInv, TypeOK, Bounded, runVars
<1>6. Filled' /\ InsideUnlessFull'
  BY <1>2 DEF IInv, Filled, InsideUnlessFull, runVars
<1>7. ListOK'
  BY <1>2, <1>4 DEF IInv, ListOK, Known, Frames, Waits, Sorted, runVars
<1>8. OutOK' /\ OutputOrdered'
  BY <1>2, <1>4 DEF IInv, OutOK, OutputOrdered
<1>9. DeliveredOK'
  BY <1>2, <1>4 DEF IInv, DeliveredOK
<1> QED
  BY <1>5, <1>6, <1>7, <1>8, <1>9 DEF IInv

LEMMA OverrunKeeps ==
  ASSUME IInv, Overrun
  PROVE  IInv'
<1>1. rt' = "overrun"
  BY DEF Overrun
<1>2. UNCHANGED <<now, arrived, read, list, nlist, runVars, out, ref, delivered, dropped>>
  BY DEF Overrun
<1>3. nlist = ListSize
  <2>1. nlist \in 0..ListSize /\ ListSize \in Nat \ {0} /\ ListSize \in Cells
    BY SizeAssumption DEF IInv, TypeOK, Cells
  <2>2. CASE rt = "idle" /\ \A i \in Cells : ~IsFree(list[i])
    BY <2>1, <2>2 DEF IInv, Filled
  <2>3. CASE rt = "dispatch" /\ l > ListSize
    BY <2>1, <2>3 DEF IInv, Filled, TypeOK
  <2> QED
    BY <2>2, <2>3 DEF Overrun
<1>4. TypeOK' /\ Bounded'
  BY <1>1, <1>2 DEF IInv, TypeOK, Bounded, runVars
<1>5. Filled' /\ InsideUnlessFull'
  BY <1>1, <1>2, <1>3 DEF Filled, InsideUnlessFull
<1>6. ListOK' /\ OutOK'
  BY <1>1, <1>2 DEF IInv, ListOK, OutOK, Known, Frames
<1>7. OutputOrdered' /\ DeliveredOK'
  BY <1>2 DEF IInv, OutputOrdered, DeliveredOK
<1> QED
  BY <1>4, <1>5, <1>6, <1>7 DEF IInv

\* Of two times, the later is not less far ahead.
LEMMA AheadOrdered ==
  ASSUME NEW s \in Nat, NEW t \in Nat, s <= t, NEW n \in Nat
  PROVE  (IF s - n < 0 THEN 0 ELSE s - n) <= (IF t - n < 0 THEN 0 ELSE t - n)
<1>1. CASE s - n < 0 /\ t - n < 0
  BY <1>1
<1>2. CASE s - n < 0 /\ ~(t - n < 0)
  BY <1>2
<1>3. CASE ~(s - n < 0)
  <2>1. ~(t - n < 0) /\ s - n <= t - n
    BY <1>3
  <2> QED
    BY <1>3, <2>1
<1> QED
  BY <1>1, <1>2, <1>3

\* The distances taken anew keep the order of those before, which are what they
\* are ahead: none has been due.
LEMMA BeginKeeps ==
  ASSUME IInv, NEW d \in Drifts, Begin(d)
  PROVE  IInv'
<1> USE SizeAssumption, PeriodAssumption
<1>1. /\ rt = "idle" /\ rt' = "read" /\ before' = nlist /\ list' = Rescheduled(now')
      /\ UNCHANGED <<arrived, read, nlist, l, deleted, out, ref, delivered, dropped>>
  BY DEF Begin
<1>2. now \in Nat /\ now' \in Nat /\ now' >= now
  BY DEF Begin, IInv, TypeOK
<1>n. nlist \in 0..ListSize /\ list \in [Cells -> Cell]
  BY DEF IInv, TypeOK, Cell
<1>3. ASSUME NEW i \in Cells
      PROVE  /\ list'[i] \in Cell /\ (IsFree(list'[i]) <=> IsFree(list[i]))
             /\ ~IsFree(list[i]) =>
                  /\ list'[i].id = list[i].id
                  /\ list'[i].frames = IF Frames(list[i].id, now') < 0 THEN 0
                                       ELSE Frames(list[i].id, now')
                  /\ list[i].id \in 1..read /\ arrived[list[i].id].time \in Nat
                  /\ list[i].frames = Frames(list[i].id, now)
  <2>1. list[i] \in Cell
    BY <1>n
  <2>2. CASE IsFree(list[i])
    BY <1>1, <2>1, <2>2 DEF Rescheduled
  <2>3. CASE ~IsFree(list[i])
    <3>0. Known(list[i]) /\ Waits(list[i])
      BY <1>1 DEF IInv, ListOK
    <3>1. /\ list[i].id \in 1..read /\ arrived[list[i].id].time \in Nat
          /\ list[i].frames = Frames(list[i].id, now)
      BY <2>3, <3>0 DEF Known, Waits
    <3>2. Frames(list[i].id, now') \in Int
      BY <1>2, <3>1 DEF Frames
    <3>3. list'[i] = [list[i] EXCEPT !.frames = IF Frames(list[i].id, now') < 0 THEN 0
                                                ELSE Frames(list[i].id, now')]
      BY <1>1, <2>3 DEF Rescheduled
    <3> QED
      BY <2>1, <2>3, <3>1, <3>2, <3>3 DEF Cell, IsFree
  <2> QED
    BY <2>2, <2>3
<1>4. list' \in [Cells -> Cell]
  <2>1. DOMAIN list' = Cells /\ list' = [i \in Cells |-> list'[i]]
    BY <1>1 DEF Rescheduled
  <2> QED
    BY <1>3, <2>1
<1>5. TypeOK' /\ Bounded'
  BY <1>1, <1>2, <1>4 DEF IInv, TypeOK, Bounded, Cell
<1>6. Filled' /\ InsideUnlessFull'
  BY <1>1, <1>3 DEF IInv, Filled, InsideUnlessFull
<1>7. ListOK'
  <2>1. ASSUME NEW i \in Cells
        PROVE  Known(list[i])'
    <3>1. CASE IsFree(list[i])
      BY <1>3, <3>1 DEF Known
    <3>2. CASE ~IsFree(list[i])
      <4>1. /\ list'[i].id \in 1..read /\ arrived[list'[i].id].time \in Nat
            /\ list'[i].frames = IF Frames(list'[i].id, now') < 0 THEN 0
                                 ELSE Frames(list'[i].id, now')
        BY <1>3, <3>2
      <4> QED
        BY <1>1, <4>1 DEF Known, Frames
    <3> QED
      BY <3>1, <3>2
  <2>2. ASSUME NEW i \in 1..nlist, NEW j \in 1..nlist, i < j
        PROVE  list'[i].frames <= list'[j].frames
    <3>0. i \in Cells /\ j \in Cells /\ ~(i > nlist) /\ ~(j > nlist)
      BY <1>n DEF Cells
    <3>1. ~IsFree(list[i]) /\ ~IsFree(list[j])
      BY <1>1, <3>0 DEF IInv, Filled
    <3>2. list[i].frames <= list[j].frames
      BY <1>1, <2>2, <3>0, <3>1 DEF IInv, ListOK, Sorted
    <3> DEFINE s == arrived[list[i].id].time
               t == arrived[list[j].id].time
    <3>3. /\ s \in Nat /\ t \in Nat
          /\ list[i].frames = s - now /\ list[j].frames = t - now
          /\ list'[i].frames = (IF s - now' < 0 THEN 0 ELSE s - now')
          /\ list'[j].frames = (IF t - now' < 0 THEN 0 ELSE t - now')
      BY <1>3, <3>0, <3>1 DEF Frames
    <3>4. s <= t
      BY <1>2, <3>2, <3>3
    <3>5. (IF s - now' < 0 THEN 0 ELSE s - now') <= (IF t - now' < 0 THEN 0 ELSE t - now')
      BY <1>2, <3>3, <3>4, AheadOrdered
    <3> HIDE DEF s, t
    <3> QED
      BY <3>3, <3>5
  <2> QED
    BY <1>1, <1>n, <2>1, <2>2 DEF ListOK
<1>8. OutOK' /\ OutputOrdered' /\ DeliveredOK'
  <2>1. out = <<>> /\ out' = <<>> /\ DOMAIN out' = {}
    BY <1>1 DEF IInv, OutOK
  <2>2. OutOK' /\ OutputOrdered'
    BY <1>1, <2>1 DEF OutOK, OutputOrdered
  <2> QED
    BY <1>1, <2>2 DEF IInv, DeliveredOK
<1> QED
  BY <1>5, <1>6, <1>7, <1>8 DEF IInv

-----------------------------------------------------------------------------
(* The rest of a period.                                                   *)

LEMMA ReadImmediateKeeps ==
  ASSUME IInv, ReadImmediate
  PROVE  IInv'
<1> USE SizeAssumption, PeriodAssumption
<1>1. /\ rt = "read" /\ read' = read + 1 /\ arrived[read + 1].time = Immediate
      /\ out' = Append(out, [id |-> read + 1, frame |-> 0])
      /\ UNCHANGED <<now, arrived, list, nlist, rt, runVars, delivered, dropped>>
  BY DEF ReadImmediate, Parse, Taken
<1>2. /\ read \in Nat /\ read + 1 \in 1..Len(arrived) /\ read + 1 \in Ids
      /\ now \in Nat /\ ref' \in BOOLEAN
  BY BoundsAssumption DEF IInv, TypeOK, Bounded, ReadImmediate, Ids, Parse
<1>3. /\ out' \in Seq([id : Ids, frame : 0..(Period - 1)])
      /\ DOMAIN out' = 1..(Len(out) + 1) /\ DOMAIN out = 1..Len(out) /\ Len(out) \in Nat
      /\ \A o \in DOMAIN out : out'[o] = out[o]
      /\ out'[Len(out) + 1] = [id |-> read + 1, frame |-> 0]
  <2>1. [id |-> read + 1, frame |-> 0] \in [id : Ids, frame : 0..(Period - 1)]
    BY <1>2
  <2>2. out \in Seq([id : Ids, frame : 0..(Period - 1)])
    BY DEF IInv, TypeOK
  <2> QED
    BY <1>1, <2>1, <2>2, AppendProperties
<1>4. TypeOK' /\ Bounded'
  BY <1>1, <1>2, <1>3 DEF IInv, TypeOK, Bounded, runVars
<1>5. Filled' /\ InsideUnlessFull'
  BY <1>1 DEF IInv, Filled, InsideUnlessFull, runVars
<1>6. ListOK'
  <2>1. \A i \in Cells : Known(list[i])'
    BY <1>1, <1>2 DEF IInv, ListOK, Known, Frames
  <2> QED
    BY <1>1, <2>1 DEF IInv, ListOK, runVars
<1>7. \A o \in DOMAIN out' : out'[o].frame = 0
  BY <1>1, <1>3 DEF IInv, OutOK
<1>8. OutOK'
  <2>1. ASSUME NEW o \in DOMAIN out'
        PROVE  /\ out'[o].id \in 1..read'
               /\ LET t == arrived'[out'[o].id].time IN t # Immediate => now' + out'[o].frame >= t
    <3>1. CASE o \in DOMAIN out
      BY <1>1, <1>2, <1>3, <3>1 DEF IInv, OutOK
    <3>2. CASE o = Len(out) + 1
      BY <1>1, <1>2, <1>3, <3>2
    <3> QED
      BY <1>3, <3>1, <3>2
  <2> QED
    BY <1>1, <1>7, <2>1 DEF OutOK
<1>9. OutputOrdered'
  BY <1>7 DEF OutputOrdered
<1>10. DeliveredOK'
  BY <1>1, <1>2 DEF IInv, DeliveredOK
<1> QED
  BY <1>4, <1>5, <1>6, <1>8, <1>9, <1>10 DEF IInv

LEMMA ReadScheduledKeeps ==
  ASSUME IInv, ReadScheduled
  PROVE  IInv'
<1> USE SizeAssumption, PeriodAssumption
<1> DEFINE id == read + 1
           new == [id |-> id, frames |-> Frames(id, now)]
<1>1. /\ rt = "read" /\ read' = id /\ nlist' = nlist + 1
      /\ arrived[id].time # Immediate /\ nlist < ListSize
      /\ list' = [list EXCEPT ![nlist + 1] = new]
      /\ UNCHANGED <<now, arrived, rt, runVars, out, ref, delivered, dropped>>
  BY DEF ReadScheduled, Taken, Fits
<1>2. /\ read \in Nat /\ id \in 1..Len(arrived) /\ id \in 1..MaxPackets
      /\ now \in Nat /\ nlist \in 0..ListSize /\ nlist + 1 \in Cells
      /\ list \in [Cells -> Cell] /\ before <= nlist /\ before \in 0..ListSize
  BY <1>1, BoundsAssumption DEF IInv, TypeOK, Bounded, ReadScheduled, Cells, Cell, ListOK
<1>3. arrived[id].time \in Nat /\ Frames(id, now) \in Int
  <2>1. arrived[id] \in [time : Nat \cup {Immediate}, long : BOOLEAN]
    BY <1>2, PacketsAssumption DEF IInv, TypeOK
  <2> QED
    BY <1>1, <1>2, <2>1 DEF Frames
<1>4. new \in Cell /\ ~IsFree(new)
  BY <1>2, <1>3 DEF Cell, IsFree
<1>5. /\ list' \in [Cells -> Cell] /\ list'[nlist + 1] = new
      /\ \A i \in Cells : i # nlist + 1 => list'[i] = list[i]
  BY <1>1, <1>2, <1>4
<1>6. TypeOK' /\ Bounded'
  <2>1. /\ read' \in 0..Len(arrived) /\ nlist' \in 0..ListSize
        /\ list' \in [Cells -> [id : 0..MaxPackets, frames : Int]]
    <3> HIDE DEF new
    <3> QED
      BY <1>1, <1>2, <1>5 DEF Cell
  <2> QED
    BY <1>1, <2>1 DEF IInv, TypeOK, Bounded, runVars
<1>7. Filled'
  <2>1. \A i \in Cells : IsFree(list'[i]) <=> i > nlist + 1
    <3>1. \A i \in Cells : IsFree(list[i]) <=> i > nlist
      BY <1>1 DEF IInv, Filled
    <3> HIDE DEF new
    <3> QED
      BY <1>2, <1>4, <1>5, <3>1 DEF Cells
  <2> QED
    BY <1>1, <2>1 DEF Filled
<1>8. InsideUnlessFull'
  BY <1>1 DEF InsideUnlessFull
<1>9. ListOK'
  <2>1. ASSUME NEW i \in Cells PROVE Known(list[i])'
    <3>1. CASE i # nlist + 1
      <4>1. Known(list[i])
        BY DEF IInv, ListOK
      <4> QED
        BY <1>1, <1>2, <1>5, <3>1, <4>1 DEF Known, Frames
    <3>2. CASE i = nlist + 1
      BY <1>1, <1>2, <1>3, <1>5, <3>2 DEF Known, Frames
    <3> QED
      BY <3>1, <3>2
  <2>2. ASSUME NEW i \in 1..before, NEW j \in 1..before, i < j
        PROVE  list'[i].frames <= list'[j].frames
    <3>1. i \in Cells /\ j \in Cells /\ i # nlist + 1 /\ j # nlist + 1
      BY <1>2 DEF Cells
    <3>2. list[i].frames <= list[j].frames
      BY <1>1, <2>2 DEF IInv, ListOK
    <3> QED
      BY <1>5, <3>1, <3>2
  <2> QED
    BY <1>1, <1>2, <2>1, <2>2 DEF ListOK, runVars
<1>10. OutOK' /\ OutputOrdered'
  BY <1>1, <1>2 DEF IInv, OutOK, OutputOrdered
<1>11. DeliveredOK'
  BY <1>1, <1>2 DEF IInv, DeliveredOK
<1> QED
  BY <1>6, <1>7, <1>8, <1>9, <1>10, <1>11 DEF IInv

LEMMA ReadDroppedKeeps ==
  ASSUME IInv, ReadDropped
  PROVE  IInv'
<1>1. /\ rt = "read" /\ read' = read + 1 /\ dropped' = dropped \cup {read + 1}
      /\ UNCHANGED <<now, arrived, list, nlist, rt, runVars, out, ref, delivered>>
  BY DEF ReadDropped
<1>2. read \in Nat /\ read + 1 \in 1..Len(arrived) /\ read + 1 \in Ids
  BY BoundsAssumption DEF IInv, TypeOK, Bounded, ReadDropped, Ids
<1>3. TypeOK' /\ Bounded'
  BY <1>1, <1>2 DEF IInv, TypeOK, Bounded, runVars
<1>4. Filled' /\ InsideUnlessFull'
  BY <1>1 DEF IInv, Filled, InsideUnlessFull, runVars
<1>5. ListOK'
  <2>1. \A i \in Cells : Known(list[i])'
    BY <1>1, <1>2 DEF IInv, ListOK, Known, Frames
  <2> QED
    BY <1>1, <2>1 DEF IInv, ListOK, runVars
<1>6. OutOK' /\ OutputOrdered'
  BY <1>1, <1>2 DEF IInv, OutOK, OutputOrdered
<1>7. DeliveredOK'
  BY <1>1, <1>2 DEF IInv, DeliveredOK
<1> QED
  BY <1>3, <1>4, <1>5, <1>6, <1>7 DEF IInv

LEMMA ReadDoneKeeps ==
  ASSUME IInv, ReadDone
  PROVE  IInv'
<1> USE SizeAssumption, PeriodAssumption
<1>1. /\ rt = "read" /\ rt' = "dispatch" /\ l' = 1 /\ deleted' = 0
      /\ IF nlist # before THEN list' \in SortedLists(list, nlist) ELSE list' = list
      /\ UNCHANGED <<now, arrived, read, nlist, before, out, ref, delivered, dropped>>
  BY DEF ReadDone
<1>2. /\ nlist \in 0..ListSize /\ before \in 0..ListSize /\ list \in [Cells -> Cell]
      /\ \A i \in Cells : Known(list[i]) /\ (IsFree(list[i]) <=> i > nlist)
  BY <1>1 DEF IInv, TypeOK, Cell, ListOK, Filled
<1>3. /\ list' \in [Cells -> Cell]
      /\ \A i \in Cells : (IsFree(list'[i]) <=> i > nlist) /\ \E j \in Cells : list'[i] = list[j]
      /\ \A i, j \in 1..nlist : i < j => list'[i].frames <= list'[j].frames
  <2>1. CASE nlist = before
    BY <1>1, <1>2, <2>1 DEF IInv, ListOK
  <2>2. CASE nlist # before
    <3>1. PICK p \in Bijection(1..nlist, 1..nlist) :
            /\ p \in [1..nlist -> 1..nlist]
            /\ list' \in [Cells -> Cell]
            /\ \A i \in 1..nlist : list'[i] = list[p[i]]
            /\ \A i \in Cells : i > nlist => list'[i] = list[i]
            /\ \A i, j \in 1..nlist : i < j => Precedes(list'[i], list'[j])
      BY <1>1, <1>2, <2>2, SortingMoves
    <3>2. \A i \in 1..nlist : p[i] \in 1..nlist /\ p[i] \in Cells /\ ~IsFree(list'[i])
      BY <1>2, <3>1 DEF Cells
    <3>3. ASSUME NEW i \in Cells
          PROVE  (IsFree(list'[i]) <=> i > nlist) /\ \E j \in Cells : list'[i] = list[j]
      <4>1. CASE i > nlist
        BY <1>2, <3>1, <4>1
      <4>2. CASE i <= nlist
        BY <1>2, <3>1, <3>2, <4>2 DEF Cells
      <4> QED
        BY <1>2, <4>1, <4>2 DEF Cells
    <3> QED
      BY <3>1, <3>2, <3>3 DEF Precedes
  <2> QED
    BY <2>1, <2>2
<1>4. TypeOK' /\ Bounded'
  <2>1. l' \in 1..(ListSize + 1) /\ deleted' \in 0..ListSize
    BY <1>1
  <2>2. list' \in [Cells -> [id : 0..MaxPackets, frames : Int]]
    BY <1>3 DEF Cell
  <2> QED
    BY <1>1, <2>1, <2>2 DEF IInv, TypeOK, Bounded
<1>5. Filled' /\ InsideUnlessFull'
  <2>1. ASSUME NEW i \in Cells
        PROVE  IsFree(list'[i]) <=> i < 1 \/ i > nlist
    BY <1>3 DEF Cells
  <2>2. nlist' = nlist /\ nlist \in Nat
    BY <1>1, <1>2
  <2> QED
    BY <1>1, <2>1, <2>2 DEF Filled, InsideUnlessFull
<1>6. ListOK'
  <2>1. \A i \in Cells : Known(list[i])'
    BY <1>1, <1>2, <1>3 DEF Known, Frames
  <2>2. Sorted'
    BY <1>2, <1>3 DEF Sorted, Cells
  <2> QED
    BY <1>1, <2>1, <2>2 DEF ListOK
<1>7. OutOK'
  <2>1. ASSUME NEW o \in DOMAIN out, NEW i \in Cells
        PROVE  out[o].frame <= Punctual(list'[i].frames)
    <3>1. out[o].frame = 0 /\ list'[i].frames \in Int
      BY <1>1, <1>3 DEF IInv, OutOK, Cell
    <3> QED
      BY <3>1 DEF Punctual
  <2> QED
    BY <1>1, <2>1 DEF IInv, OutOK
<1>8. OutputOrdered' /\ DeliveredOK'
  BY <1>1 DEF IInv, OutputOrdered, DeliveredOK
<1> QED
  BY <1>4, <1>5, <1>6, <1>7, <1>8 DEF IInv

LEMMA DispatchKeeps ==
  ASSUME IInv, Dispatch
  PROVE  IInv'
<1> USE SizeAssumption, PeriodAssumption
<1> DEFINE c == list[l]
           o1 == [id |-> c.id, frame |-> Punctual(c.frames)]
<1>1. /\ rt = "dispatch" /\ l <= ListSize /\ ~IsFree(c) /\ c.frames < Period
      /\ out' = Append(out, o1) /\ list' = [list EXCEPT ![l] = Free]
      /\ l' = l + 1 /\ deleted' = deleted + 1
      /\ UNCHANGED <<now, arrived, read, nlist, rt, before, delivered, dropped>>
  BY DEF Dispatch, Due, Parse
<1>2. /\ l \in Cells /\ nlist \in 0..ListSize /\ deleted = l - 1 /\ now \in Nat
      /\ list \in [Cells -> Cell] /\ ref' \in BOOLEAN /\ read \in 0..Len(arrived)
      /\ \A i \in Cells : Known(list[i]) /\ (IsFree(list[i]) <=> i < l \/ i > nlist)
  BY <1>1 DEF IInv, TypeOK, Cell, Cells, ListOK, Filled, Dispatch, Parse
<1>3. l <= nlist
  BY <1>1, <1>2 DEF Cells
<1>4. /\ c.id \in 1..read /\ c.frames \in Int /\ Punctual(c.frames) \in 0..(Period - 1)
      /\ now + Punctual(c.frames) >= arrived[c.id].time
  <2>1. Known(c) /\ c \in Cell
    BY <1>2
  <2>2. /\ c.id \in 1..read /\ arrived[c.id].time \in Nat
        /\ \/ c.frames = arrived[c.id].time - now
           \/ c.frames = 0 /\ arrived[c.id].time - now < 0
    BY <1>1, <2>1 DEF Known, Frames
  <2> DEFINE f == c.frames
             t == arrived[c.id].time
  <2>3. /\ f \in Int /\ t \in Nat /\ f < Period
        /\ f = t - now \/ (f = 0 /\ t - now < 0)
    <3>1. f \in Int
      BY <2>1 DEF Cell
    <3>2. f < Period
      BY <1>1
    <3> HIDE DEF c
    <3> QED
      BY <2>2, <3>1, <3>2
  <2>4. Punctual(f) \in 0..(Period - 1) /\ now + Punctual(f) >= t
    <3> HIDE DEF f, t
    <3>1. CASE f < 0
      BY <1>2, <2>3, <3>1 DEF Punctual
    <3>2. CASE ~(f < 0)
      BY <1>2, <2>3, <3>2 DEF Punctual
    <3> QED
      BY <3>1, <3>2
  <2> QED
    BY <2>2, <2>3, <2>4
<1>5. /\ Free \in Cell /\ IsFree(Free)
      /\ list' \in [Cells -> Cell] /\ list'[l] = Free
      /\ \A i \in Cells : i # l => list'[i] = list[i]
  BY <1>1, <1>2, BoundsAssumption DEF Free, Cell, IsFree
<1>6. /\ out' \in Seq([id : Ids, frame : 0..(Period - 1)])
      /\ DOMAIN out' = 1..(Len(out) + 1) /\ DOMAIN out = 1..Len(out) /\ Len(out) \in Nat
      /\ \A o \in DOMAIN out : out'[o] = out[o] /\ out[o].frame \in Int
      /\ out'[Len(out) + 1] = o1
  <2>1. o1 \in [id : Ids, frame : 0..(Period - 1)]
    BY <1>2, <1>4, BoundsAssumption DEF IInv, TypeOK, Bounded, Ids
  <2>2. out \in Seq([id : Ids, frame : 0..(Period - 1)])
    BY DEF IInv, TypeOK
  <2>3. \A o \in DOMAIN out : out[o] \in [id : Ids, frame : 0..(Period - 1)]
    BY <2>2, LenProperties, ElementOfSeq
  <2> HIDE DEF o1
  <2> QED
    BY <1>1, <2>1, <2>2, <2>3, LenProperties, AppendProperties
<1>c. c = list[l] /\ o1.id = c.id /\ o1.frame = Punctual(c.frames)
  OBVIOUS
<1> HIDE DEF c, o1
<1>o. \A o \in DOMAIN out' : o \in DOMAIN out \/ o = Len(out) + 1
  BY <1>6
<1>7. TypeOK' /\ Bounded'
  <2>1. l' \in 1..(ListSize + 1) /\ deleted' \in 0..ListSize
    BY <1>1, <1>2 DEF Cells
  <2> QED
    BY <1>1, <1>2, <1>5, <1>6, <2>1 DEF IInv, TypeOK, Bounded, Cell
<1>8. Filled' /\ InsideUnlessFull'
  BY <1>1, <1>2, <1>3, <1>5 DEF Filled, InsideUnlessFull, Cells
<1>9. ListOK'
  <2>1. ASSUME NEW i \in Cells PROVE Known(list[i])'
    BY <1>1, <1>2, <1>5 DEF Known, Frames
  <2>2. Sorted'
    BY <1>1, <1>5 DEF IInv, ListOK, Sorted
  <2> QED
    BY <1>1, <2>1, <2>2 DEF ListOK
<1>10. \A o \in DOMAIN out : out[o].frame <= Punctual(c.frames)
  BY <1>1, <1>2, <1>c DEF IInv, OutOK
<1>11. ASSUME NEW i \in Cells, ~IsFree(list'[i])
       PROVE  ~IsFree(list[i]) /\ list'[i] = list[i]
              /\ Punctual(c.frames) <= Punctual(list[i].frames)
  <2>1. i # l /\ ~IsFree(list[i]) /\ list'[i] = list[i]
    BY <1>5, <1>11
  <2>2. l < i /\ list[i].frames \in Int
    BY <1>2, <2>1 DEF Cells, Cell
  <2>3. c.frames <= list[i].frames
    BY <1>1, <1>2, <1>c, <2>1, <2>2 DEF IInv, ListOK, Sorted
  <2> QED
    BY <1>4, <2>1, <2>2, <2>3 DEF Punctual
<1>12. OutOK'
  <2>1. ASSUME NEW o \in DOMAIN out'
        PROVE  /\ out'[o].id \in 1..read
               /\ LET t == arrived[out'[o].id].time IN t # Immediate => now + out'[o].frame >= t
    <3>1. CASE o \in DOMAIN out
      BY <1>6, <3>1 DEF IInv, OutOK
    <3>2. CASE o = Len(out) + 1
      BY <1>4, <1>6, <1>c, <3>2
    <3> QED
      BY <1>o, <3>1, <3>2
  <2>2. ASSUME NEW o \in DOMAIN out', NEW i \in Cells, ~IsFree(list'[i])
        PROVE  out'[o].frame <= Punctual(list'[i].frames)
    <3>1. CASE o \in DOMAIN out
      BY <1>1, <1>6, <1>11, <2>2, <3>1 DEF IInv, OutOK
    <3>2. CASE o = Len(out) + 1
      BY <1>6, <1>11, <1>c, <2>2, <3>2
    <3> QED
      BY <1>o, <3>1, <3>2
  <2> QED
    BY <1>1, <2>1, <2>2 DEF OutOK
<1>13. OutputOrdered'
  <2> SUFFICES ASSUME NEW i \in DOMAIN out', NEW j \in DOMAIN out', i < j
               PROVE  out'[i].frame <= out'[j].frame
    BY DEF OutputOrdered
  <2>1. i \in DOMAIN out
    BY <1>6
  <2>2. CASE j \in DOMAIN out
    BY <1>6, <2>1, <2>2 DEF IInv, OutputOrdered
  <2>3. CASE j = Len(out) + 1
    BY <1>6, <1>10, <1>c, <2>1, <2>3
  <2> QED
    BY <1>o, <2>2, <2>3
<1>14. DeliveredOK'
  BY <1>1 DEF IInv, DeliveredOK
<1> QED
  BY <1>7, <1>8, <1>9, <1>12, <1>13, <1>14 DEF IInv

\* The list is sorted, so that with the first that is not due none is.
LEMMA StayWait ==
  ASSUME IInv, rt = "dispatch", l <= ListSize, ~Due(list[l])
  PROVE  \A i \in Cells : Waits(list[i])
<1> SUFFICES ASSUME NEW i \in Cells, ~IsFree(list[i])
             PROVE  list[i].frames >= Period
  BY DEF Waits
<1>1. /\ l \in Cells /\ nlist \in 0..ListSize /\ list \in [Cells -> Cell]
      /\ \A k \in Cells : IsFree(list[k]) <=> k < l \/ k > nlist
  BY SizeAssumption DEF IInv, TypeOK, Cell, Cells, Filled
<1>2. l <= i /\ i <= nlist /\ ~IsFree(list[l])
  BY <1>1, SizeAssumption DEF Cells
<1>3. list[l].frames >= Period /\ list[l].frames \in Int /\ list[i].frames \in Int
  BY <1>1, <1>2, PeriodAssumption DEF Due, Cell
<1>4. list[l].frames <= list[i].frames
  BY <1>1, <1>2, <1>3 DEF IInv, ListOK, Sorted, Cells
<1> QED
  BY <1>3, <1>4, PeriodAssumption

\* What stays on the list is not due before the next period.
LEMMA EndKeeps ==
  ASSUME IInv, End
  PROVE  IInv'
<1> USE SizeAssumption, PeriodAssumption
<1>1. /\ rt = "dispatch" /\ l <= ListSize /\ ~Due(list[l])
      /\ IF deleted > 0 THEN list' \in SortedLists(list, nlist) ELSE list' = list
      /\ nlist' = nlist - deleted
      /\ out' = <<>> /\ ref' = TRUE /\ rt' = "idle" /\ l' = 1 /\ deleted' = 0 /\ before' = 0
      /\ UNCHANGED <<now, arrived, read>>
  BY DEF End, Remaining
<1>2. /\ l \in Cells /\ nlist \in 0..ListSize /\ deleted = l - 1 /\ l - 1 \in 0..nlist
      /\ list \in [Cells -> Cell]
      /\ \A i \in Cells : Known(list[i]) /\ (IsFree(list[i]) <=> i < l \/ i > nlist)
  BY <1>1 DEF IInv, TypeOK, Cell, Cells, ListOK, Filled
<1>3. \A i \in Cells : Waits(list[i])
  BY <1>1, StayWait
<1>4. /\ list' \in [Cells -> Cell] /\ nlist' = nlist - (l - 1)
      /\ \A i \in Cells : (IsFree(list'[i]) <=> i > nlist') /\ \E j \in Cells : list'[i] = list[j]
      /\ Sorted'
  <2>1. CASE deleted = 0
    <3>1. l = 1 /\ list' = list /\ nlist' = nlist
      BY <1>1, <1>2, <2>1 DEF Cells
    <3>2. \A i \in Cells : (IsFree(list[i]) <=> i > nlist)
      BY <1>2, <3>1 DEF Cells
    <3>3. Sorted'
      BY <1>1, <3>1 DEF IInv, ListOK, Sorted
    <3> QED
      BY <1>2, <3>1, <3>2, <3>3
  <2>2. CASE deleted > 0
    <3>1. PICK p \in Bijection(1..nlist, 1..nlist) :
            /\ p \in [1..nlist -> 1..nlist]
            /\ list' \in [Cells -> Cell]
            /\ \A i \in 1..nlist : list'[i] = list[p[i]]
            /\ \A i \in Cells : i > nlist => list'[i] = list[i]
            /\ \A i, j \in 1..nlist : i < j => Precedes(list'[i], list'[j])
      BY <1>1, <1>2, <2>2, SortingMoves
    <3>2. \A i \in 1..nlist : p[i] \in 1..nlist /\ p[i] \in Cells /\ i \in Cells
                               /\ (~IsFree(list'[i]) <=> p[i] > l - 1)
      BY <1>2, <3>1 DEF Cells
    <3>3. \A i \in 1..nlist : p[i] > l - 1 <=> i <= nlist - (l - 1)
      <4>1. \A i, j \in 1..nlist : i < j /\ p[j] > l - 1 => p[i] > l - 1
        BY <3>1, <3>2 DEF Precedes
      <4> QED
        BY <1>2, <4>1, Gathered
    <3>4. ASSUME NEW i \in Cells
          PROVE  (IsFree(list'[i]) <=> i > nlist') /\ \E j \in Cells : list'[i] = list[j]
      <4>1. CASE i > nlist
        BY <1>1, <1>2, <3>1, <4>1 DEF Cells
      <4>2. CASE i \in 1..nlist
        BY <1>1, <1>2, <3>1, <3>2, <3>3, <4>2 DEF Cells
      <4> QED
        BY <1>2, <4>1, <4>2 DEF Cells
    <3>5. Sorted'
      <4> SUFFICES ASSUME NEW i \in Cells, NEW j \in Cells, i < j,
                          ~IsFree(list'[i]), ~IsFree(list'[j])
                   PROVE  list'[i].frames <= list'[j].frames
        BY DEF Sorted
      <4>1. i \in 1..nlist /\ j \in 1..nlist
        BY <1>1, <1>2, <3>4 DEF Cells
      <4> QED
        BY <3>1, <4>1 DEF Precedes
    <3> QED
      BY <1>1, <1>2, <3>1, <3>4, <3>5
  <2>3. deleted = 0 \/ deleted > 0
    BY <1>2 DEF Cells
  <2> QED
    BY <2>1, <2>2, <2>3
<1>5. /\ delivered' \in Seq([id : Ids, when : Nat]) /\ dropped' \subseteq Ids
      /\ DeliveredOK'
  <2> DEFINE s == [i \in DOMAIN out |-> [id |-> out[i].id, when |-> now + out[i].frame]]
             D == [id : Ids, when : Nat]
  <2>0. delivered \in Seq(D) /\ DOMAIN delivered = 1..Len(delivered)
        /\ Len(delivered) \in Nat /\ dropped \subseteq Ids /\ now \in Nat
    BY LenProperties DEF IInv, TypeOK
  <2>1. /\ Len(out) \in Nat /\ DOMAIN out = 1..Len(out)
        /\ \A o \in DOMAIN out : out[o].id \in Ids /\ out[o].frame \in Nat
    <3>1. out \in Seq([id : Ids, frame : 0..(Period - 1)])
      BY DEF IInv, TypeOK
    <3>2. Len(out) \in Nat /\ DOMAIN out = 1..Len(out)
      BY <3>1, LenProperties
    <3>3. \A o \in 1..Len(out) : out[o] \in [id : Ids, frame : 0..(Period - 1)]
      BY <3>1, ElementOfSeq
    <3> QED
      BY <3>2, <3>3
  <2>2. CASE ref
    <3>1. delivered' = delivered \o s /\ dropped' = dropped
      BY <2>2 DEF End
    <3>2. s \in [1..Len(out) -> D]
      BY <2>0, <2>1
    <3>3. s \in Seq(D) /\ Len(s) = Len(out)
      BY <2>1, <3>2
    <3>s. \A o \in DOMAIN out : s[o].id = out[o].id /\ s[o].when = now + out[o].frame
      OBVIOUS
    <3> HIDE DEF s, D
    <3>4. /\ delivered' \in Seq(D)
          /\ Len(delivered') = Len(delivered) + Len(out)
          /\ \A i \in 1..(Len(delivered) + Len(out)) :
               /\ i <= Len(delivered) => delivered'[i] = delivered[i]
               /\ ~(i <= Len(delivered)) => delivered'[i] = s[i - Len(delivered)]
      <4>1. /\ delivered \o s \in Seq(D)
            /\ Len(delivered \o s) = Len(delivered) + Len(s)
            /\ \A i \in 1..(Len(delivered) + Len(s)) :
                 (delivered \o s)[i] = IF i <= Len(delivered) THEN delivered[i]
                                       ELSE s[i - Len(delivered)]
        BY <2>0, <3>3, ConcatProperties
      <4> QED
        BY <3>1, <3>3, <4>1
    <3>5. DOMAIN delivered' = 1..(Len(delivered) + Len(out))
      BY <3>4, LenProperties
    <3>6. ASSUME NEW i \in DOMAIN delivered'
          PROVE  /\ delivered'[i].id \in 1..read
                 /\ LET t == arrived[delivered'[i].id].time
                    IN t # Immediate => delivered'[i].when >= t
      <4>1. CASE i <= Len(delivered)
        <5>1. i \in DOMAIN delivered /\ delivered'[i] = delivered[i]
          BY <2>0, <2>1, <3>4, <3>5, <4>1
        <5> QED
          BY <5>1 DEF IInv, DeliveredOK
      <4>2. CASE ~(i <= Len(delivered))
        <5> DEFINE o == i - Len(delivered)
        <5>1. o \in DOMAIN out /\ delivered'[i] = s[o]
          BY <2>0, <2>1, <3>4, <3>5, <4>2
        <5>2. delivered'[i].id = out[o].id /\ delivered'[i].when = now + out[o].frame
          BY <3>s, <5>1
        <5> HIDE DEF o
        <5> QED
          BY <5>1, <5>2 DEF IInv, OutOK
      <4> QED
        BY <4>1, <4>2
    <3>7. DeliveredOK'
      BY <1>1, <3>6 DEF DeliveredOK
    <3> QED
      BY <2>0, <3>1, <3>4, <3>7 DEF D
  <2>3. CASE ~ref
    <3>1. delivered' = delivered /\ dropped' = dropped \cup {o.id : o \in ToSet(out)}
      BY <2>3 DEF End
    <3>2. dropped' \subseteq Ids
      BY <2>0, <2>1, <3>1 DEF ToSet
    <3>3. DeliveredOK'
      BY <1>1, <3>1 DEF IInv, DeliveredOK
    <3> QED
      BY <2>0, <3>1, <3>2, <3>3
  <2> QED
    BY <2>2, <2>3
<1>6. TypeOK' /\ Bounded'
  <2>1. l' \in 1..(ListSize + 1) /\ deleted' \in 0..ListSize /\ before' \in 0..ListSize
        /\ nlist' \in 0..ListSize
    BY <1>1, <1>2
  <2>2. list' \in [Cells -> [id : 0..MaxPackets, frames : Int]]
    BY <1>4 DEF Cell
  <2>3. out' \in Seq([id : Ids, frame : 0..(Period - 1)])
    BY <1>1, EmptySeq
  <2> QED
    BY <1>1, <1>5, <2>1, <2>2, <2>3 DEF IInv, TypeOK, Bounded
<1>7. Filled' /\ InsideUnlessFull'
  BY <1>1, <1>4 DEF Filled, InsideUnlessFull
<1>8. ListOK'
  <2>1. \A i \in Cells : Known(list[i])'
    BY <1>1, <1>2, <1>4 DEF Known, Frames
  <2>2. \A i \in Cells : Waits(list[i])'
    BY <1>3, <1>4 DEF Waits
  <2> QED
    BY <1>1, <1>4, <2>1, <2>2 DEF ListOK
<1>9. OutOK' /\ OutputOrdered'
  <2>1. DOMAIN out' = {}
    BY <1>1
  <2> QED
    BY <1>1, <2>1 DEF OutOK, OutputOrdered
<1> QED
  BY <1>5, <1>6, <1>7, <1>8, <1>9 DEF IInv

-----------------------------------------------------------------------------
(* The theorems.                                                           *)

LEMMA Inductive == IInv /\ [Next]_vars => IInv'
<1> SUFFICES ASSUME IInv, [Next]_vars PROVE IInv'
  OBVIOUS
<1>1. CASE \E p \in Packets : Arrive(p)
  BY <1>1, ArriveKeeps
<1>2. CASE Overrun
  BY <1>2, OverrunKeeps
<1>3. CASE \E d \in Drifts : Begin(d)
  BY <1>3, BeginKeeps
<1>4. CASE ReadImmediate
  BY <1>4, ReadImmediateKeeps
<1>5. CASE ReadScheduled
  BY <1>5, ReadScheduledKeeps
<1>6. CASE ReadDropped
  BY <1>6, ReadDroppedKeeps
<1>7. CASE ReadDone
  BY <1>7, ReadDoneKeeps
<1>8. CASE Dispatch
  BY <1>8, DispatchKeeps
<1>9. CASE End
  BY <1>9, EndKeeps
<1>10. CASE UNCHANGED vars
  BY <1>10 DEF vars, runVars, IInv, TypeOK, Bounded, Filled, InsideUnlessFull, ListOK,
               Known, Frames, Waits, Sorted, OutOK, OutputOrdered, DeliveredOK
<1> QED
  BY <1>1, <1>2, <1>3, <1>4, <1>5, <1>6, <1>7, <1>8, <1>9, <1>10 DEF Next, Run

LEMMA Invariant == Spec => []IInv
BY InitIInv, Inductive, PTL DEF Spec

\* In every state the variables of the schedule have their types; the counter of
\* the list stays within it (eteroj_io.c:38-42, 75-77).
THEOREM TypeCorrect == Spec => []TypeOK
<1>1. IInv => TypeOK
  BY DEF IInv
<1> QED
  BY <1>1, Invariant, PTL

\* nlist counts the cells in use between two periods, and these come first, so
\* that _add_list writes into a free one; only a full list can make the loops go
\* on behind it (eteroj_io.c:311-320, 478, 516, 538-542).
THEOREM CountedSafe == Spec => []Counted
<1>1. IInv => Counted
  BY DEF IInv, Filled, Counted, InsideUnlessFull
<1> QED
  BY <1>1, Invariant, PTL

\* Nothing goes out before its time, and nothing that is due stays on the list,
\* although a loop that sees the first bundle that is not due looks no further
\* (eteroj_io.c:475-536).
THEOREM OnTimeSafe == Spec => []OnTime
<1>1. IInv => OnTime
  <2> SUFFICES ASSUME IInv PROVE OnTime
    OBVIOUS
  <2>1. ASSUME rt = "idle", NEW i \in Cells, ~IsFree(list[i])
        PROVE  arrived[list[i].id].time >= now + Period
    <3>1. Known(list[i]) /\ Waits(list[i]) /\ now \in Nat /\ Period \in Nat \ {0}
      BY <2>1, PeriodAssumption DEF IInv, ListOK, TypeOK
    <3> QED
      BY <2>1, <3>1 DEF Known, Waits, Frames
  <2> QED
    BY <2>1 DEF IInv, DeliveredOK, OnTime
<1> QED
  BY <1>1, Invariant, PTL

\* What goes out in a period is in the order of the frames
\* (eteroj_io.c:496-536).
THEOREM OrderedSafe == Spec => []OutputOrdered
<1>1. IInv => OutputOrdered
  BY DEF IInv
<1> QED
  BY <1>1, Invariant, PTL

\* Bundles that wait stay in the order of their times, but for those that are
\* late already: distances that are not negative are ordered as the times are
\* (eteroj_io.c:475-511, 538-542).
THEOREM ListOrderedSafe == Spec => []ListOrdered
<1>1. IInv => ListOrdered
  <2> SUFFICES ASSUME IInv, rt \in {"idle", "dispatch"},
                      NEW i \in 1..nlist, NEW j \in 1..nlist, i < j,
                      ~IsFree(list[i]), ~IsFree(list[j])
               PROVE  \/ arrived[list[i].id].time <= arrived[list[j].id].time
                      \/ rt = "dispatch" /\ arrived[list[i].id].time <= now
    BY DEF ListOrdered
  <2> DEFINE s == arrived[list[i].id].time
             t == arrived[list[j].id].time
             f == list[i].frames
             g == list[j].frames
  <2>1. i \in Cells /\ j \in Cells /\ now \in Nat /\ Period \in Nat \ {0}
    BY SizeAssumption, PeriodAssumption DEF IInv, TypeOK, Cells
  <2>2. /\ s \in Nat /\ t \in Nat
        /\ (f = s - now) \/ (f = 0 /\ s - now < 0)
        /\ (g = t - now) \/ (g = 0 /\ t - now < 0)
    BY <2>1 DEF IInv, ListOK, Known, Frames
  <2>3. f <= g /\ (rt = "idle" => f >= Period /\ g >= Period)
    BY <2>1 DEF IInv, ListOK, Sorted, Waits
  <2>4. s <= t \/ (rt = "dispatch" /\ s <= now)
    <3> HIDE DEF s, t, f, g
    <3>1. CASE rt = "idle"
      BY <2>1, <2>2, <2>3, <3>1
    <3>2. CASE rt = "dispatch"
      BY <2>1, <2>2, <2>3, <3>2
    <3> QED
      BY <3>1, <3>2
  <2> QED
    BY <2>4
<1> QED
  BY <1>1, Invariant, PTL

-----------------------------------------------------------------------------
(* Where packets are.                                                      *)

\* The packets on the list, in the output, and with the host.
Used == {i \in Cells : ~IsFree(list[i])}
Listed == {list[i].id : i \in Used}
Forged == {out[o].id : o \in DOMAIN out}
Sent == {delivered[d].id : d \in DOMAIN delivered}

\* Each place has a packet of its own.
Distinct ==
  /\ \A i, j \in Used : list[i].id = list[j].id => i = j
  /\ \A o, q \in DOMAIN out : out[o].id = out[q].id => o = q
  /\ \A d, e \in DOMAIN delivered : delivered[d].id = delivered[e].id => d = e

\* The packets taken out of the ring are in one kind of place each.
Parted ==
  /\ Listed \cup Forged \cup Sent \cup dropped = 1..read
  /\ Listed \cap Forged = {} /\ Listed \cap Sent = {} /\ Listed \cap dropped = {}
  /\ Forged \cap Sent = {} /\ Forged \cap dropped = {} /\ Sent \cap dropped = {}

\* The inductive invariant, added to IInv.
Placed == Distinct /\ Parted

LEMMA PlaceFacts ==
  ASSUME IInv
  PROVE  /\ list \in [Cells -> Cell] /\ nlist \in 0..ListSize /\ read \in Nat
         /\ Len(out) \in Nat /\ DOMAIN out = 1..Len(out)
         /\ Len(delivered) \in Nat /\ DOMAIN delivered = 1..Len(delivered)
         /\ 0 \notin Listed
<1>1. /\ list \in [Cells -> Cell] /\ nlist \in 0..ListSize /\ read \in 0..Len(arrived)
      /\ arrived \in Seq(Packets)
      /\ out \in Seq([id : Ids, frame : 0..(Period - 1)])
      /\ delivered \in Seq([id : Ids, when : Nat])
  BY DEF IInv, TypeOK, Cell
<1>2. /\ Len(out) \in Nat /\ DOMAIN out = 1..Len(out)
      /\ Len(delivered) \in Nat /\ DOMAIN delivered = 1..Len(delivered)
      /\ Len(arrived) \in Nat
  BY <1>1, LenProperties
<1>3. 0 \notin Listed
  BY DEF Listed, Used, IsFree
<1> QED
  BY <1>1, <1>2, <1>3

\* Where nothing is moved, everything stays in its place.
LEMMA SamePlaces ==
  ASSUME Placed, UNCHANGED <<read, list, out, delivered, dropped>>
  PROVE  Placed'
<1>1. /\ Used' = Used /\ Listed' = Listed /\ Forged' = Forged /\ Sent' = Sent
  BY DEF Used, IsFree, Listed, Forged, Sent
<1> QED
  BY <1>1 DEF Placed, Distinct, Parted

\* Sorting keeps the packets of the list, one to a cell.
LEMMA SortedPlaces ==
  ASSUME IInv, Placed, NEW n \in 0..ListSize, list' \in SortedLists(list, n)
  PROVE  /\ Listed' = Listed
         /\ \A i, j \in Used' : list'[i].id = list'[j].id => i = j
<1>1. PICK p \in Bijection(1..n, 1..n) :
        /\ p \in [1..n -> 1..n]
        /\ \A i \in 1..n : list'[i] = list[p[i]]
        /\ \A i \in Cells : i > n => list'[i] = list[i]
  <2>1. list \in [Cells -> Cell]
    BY PlaceFacts
  <2> QED
    BY <2>1, SortingMoves
<1>2. /\ \A i, j \in 1..n : p[i] = p[j] => i = j
      /\ \A t \in 1..n : \E s \in 1..n : p[s] = t
  BY DEF Bijection, Injection, IsInjective, Surjection
<1>3. ListSize \in Nat /\ \A i \in Cells : i \in 1..n \/ i > n
  BY SizeAssumption DEF Cells
<1>4. (1..n) \subseteq Cells
  BY <1>3 DEF Cells
<1> DEFINE q == [i \in Cells |-> IF i \in 1..n THEN p[i] ELSE i]
<1>5. /\ \A i \in Cells : q[i] \in Cells /\ list'[i] = list[q[i]]
      /\ \A i, j \in Cells : q[i] = q[j] => i = j
      /\ \A t \in Cells : \E s \in Cells : q[s] = t
  <2>1. ASSUME NEW i \in Cells
        PROVE  /\ i \in 1..n => q[i] = p[i] /\ q[i] \in 1..n /\ list'[i] = list[p[i]]
               /\ i \notin 1..n => q[i] = i /\ q[i] \notin 1..n /\ list'[i] = list[i]
    BY <1>1, <1>3
  <2> HIDE DEF q
  <2>2. ASSUME NEW i \in Cells, NEW j \in Cells, q[i] = q[j] PROVE i = j
    <3>1. CASE i \in 1..n /\ j \in 1..n
      <4>1. p[i] = p[j]
        BY <2>1, <2>2, <3>1
      <4> QED
        BY <1>2, <3>1, <4>1
    <3>2. CASE i \notin 1..n /\ j \notin 1..n
      <4>1. q[i] = i /\ q[j] = j
        BY <2>1, <3>2
      <4> QED
        BY <2>2, <4>1
    <3>3. CASE i \in 1..n /\ j \notin 1..n
      <4>1. q[i] \in 1..n /\ q[j] \notin 1..n
        BY <2>1, <3>3
      <4> QED
        BY <2>2, <4>1
    <3>4. CASE i \notin 1..n /\ j \in 1..n
      <4>1. q[i] \notin 1..n /\ q[j] \in 1..n
        BY <2>1, <3>4
      <4> QED
        BY <2>2, <4>1
    <3> QED
      BY <3>1, <3>2, <3>3, <3>4
  <2>3. ASSUME NEW t \in Cells PROVE \E s \in Cells : q[s] = t
    BY <1>2, <1>4, <2>1
  <2>4. ASSUME NEW i \in Cells PROVE q[i] \in Cells /\ list'[i] = list[q[i]]
    BY <1>4, <2>1
  <2> QED
    BY <2>2, <2>3, <2>4
<1> HIDE DEF q
<1>6. \A i \in Cells : i \in Used' <=> q[i] \in Used
  BY <1>5 DEF Used, IsFree
<1>7. ASSUME NEW i \in Used', NEW j \in Used', list'[i].id = list'[j].id PROVE i = j
  <2>1. i \in Cells /\ j \in Cells
    BY DEF Used
  <2> QED
    BY <1>5, <1>6, <1>7, <2>1 DEF Placed, Distinct
<1>8. Listed' \subseteq Listed
  <2>1. ASSUME NEW i \in Used' PROVE list'[i].id \in Listed
    <3>1. i \in Cells
      BY DEF Used
    <3> QED
      BY <1>5, <1>6, <3>1 DEF Listed
  <2> QED
    BY <2>1 DEF Listed
<1>9. Listed \subseteq Listed'
  <2>1. ASSUME NEW t \in Used PROVE list[t].id \in Listed'
    <3>1. PICK s \in Cells : q[s] = t
      BY <1>5 DEF Used
    <3>2. s \in Used' /\ list'[s].id = list[t].id
      BY <1>5, <1>6, <3>1
    <3> QED
      BY <3>2 DEF Listed
  <2> QED
    BY <2>1 DEF Listed
<1> QED
  BY <1>7, <1>8, <1>9

\* A packet that goes out is in the output, behind the others.
LEMMA ForgedMore ==
  ASSUME IInv, Placed, NEW id \in Ids, NEW frame \in 0..(Period - 1),
         out' = Append(out, [id |-> id, frame |-> frame]), id \notin Forged
  PROVE  /\ Forged' = Forged \cup {id}
         /\ \A o, q \in DOMAIN out' : out'[o].id = out'[q].id => o = q
<1> DEFINE e == [id |-> id, frame |-> frame]
<1>1. e \in [id : Ids, frame : 0..(Period - 1)] /\ e.id = id /\ out' = Append(out, e)
  OBVIOUS
<1> HIDE DEF e
<1>2. out \in Seq([id : Ids, frame : 0..(Period - 1)])
  BY DEF IInv, TypeOK
<1>3. PICK n \in Nat : n = Len(out)
  BY <1>2, LenProperties
<1>4. /\ DOMAIN out = 1..n /\ DOMAIN out' = 1..(n + 1)
      /\ \A o \in 1..n : out'[o] = out[o] /\ out[o].id # id
      /\ out'[n + 1].id = id
  <2>1. /\ Append(out, e) \in Seq([id : Ids, frame : 0..(Period - 1)])
        /\ Len(Append(out, e)) = n + 1
        /\ \A o \in 1..n : Append(out, e)[o] = out[o]
        /\ Append(out, e)[n + 1] = e
    BY <1>1, <1>2, <1>3, AppendProperties
  <2>2. DOMAIN out = 1..n /\ DOMAIN out' = 1..(n + 1)
    BY <1>1, <1>2, <1>3, <2>1, LenProperties
  <2>3. \A o \in 1..n : out[o].id # id
    BY <2>2 DEF Forged
  <2> QED
    BY <1>1, <2>1, <2>2, <2>3
<1>5. 1..(n + 1) = (1..n) \cup {n + 1}
  OBVIOUS
<1>6. Forged' = {out'[o].id : o \in 1..(n + 1)} /\ Forged = {out[o].id : o \in 1..n}
  BY <1>4 DEF Forged
<1>7. Forged' = Forged \cup {id}
  BY <1>4, <1>5, <1>6
<1>8. ASSUME NEW o \in 1..(n + 1), NEW q \in 1..(n + 1), out'[o].id = out'[q].id PROVE o = q
  <2>1. CASE o \in 1..n /\ q \in 1..n
    BY <1>4, <1>8, <2>1 DEF Placed, Distinct
  <2>2. CASE ~(o \in 1..n /\ q \in 1..n)
    BY <1>4, <1>5, <1>8, <2>2
  <2> QED
    BY <2>1, <2>2
<1> QED
  BY <1>4, <1>7, <1>8

-----------------------------------------------------------------------------
(* Packets move from place to place.                                       *)

LEMMA BeginPlaces ==
  ASSUME IInv, Placed, NEW d \in Drifts, Begin(d)
  PROVE  Placed'
<1>1. list' = Rescheduled(now') /\ UNCHANGED <<read, out, delivered, dropped>>
  BY DEF Begin
<1>2. list \in [Cells -> Cell]
  BY PlaceFacts
<1>3. \A i \in Cells : list'[i].id = list[i].id
  BY <1>1, <1>2 DEF Rescheduled, Cell
<1>4. Used' = Used /\ Used \subseteq Cells
  BY <1>3 DEF Used, IsFree
<1>5. Listed' = Listed /\ Forged' = Forged /\ Sent' = Sent
  BY <1>1, <1>3, <1>4 DEF Listed, Forged, Sent
<1> QED
  BY <1>1, <1>3, <1>4, <1>5 DEF Placed, Distinct, Parted

LEMMA ReadImmediatePlaces ==
  ASSUME IInv, Placed, ReadImmediate
  PROVE  Placed'
<1>1. /\ read' = read + 1 /\ out' = Append(out, [id |-> read + 1, frame |-> 0])
      /\ UNCHANGED <<list, delivered, dropped>>
  BY DEF ReadImmediate, Parse
<1>2. read \in Nat /\ read + 1 \in Ids /\ 0 \in 0..(Period - 1)
  BY BoundsAssumption, PeriodAssumption
     DEF IInv, TypeOK, Bounded, ReadImmediate, Ids
<1>3. /\ read + 1 \notin Listed /\ read + 1 \notin Forged
      /\ read + 1 \notin Sent /\ read + 1 \notin dropped
      /\ 1..(read + 1) = (1..read) \cup {read + 1}
  <2>1. read + 1 \notin 1..read /\ 1..(read + 1) = (1..read) \cup {read + 1}
    BY <1>2
  <2> QED
    BY <2>1 DEF Placed, Parted
<1>4. /\ Forged' = Forged \cup {read + 1}
      /\ \A o, q \in DOMAIN out' : out'[o].id = out'[q].id => o = q
  BY <1>1, <1>2, <1>3, ForgedMore
<1>5. Used' = Used /\ Listed' = Listed /\ Sent' = Sent
  BY <1>1 DEF Used, IsFree, Listed, Sent
<1>6. Distinct'
  BY <1>1, <1>4, <1>5 DEF Placed, Distinct
<1>7. Parted'
  BY <1>1, <1>3, <1>4, <1>5 DEF Placed, Parted
<1> QED
  BY <1>6, <1>7 DEF Placed

LEMMA ReadScheduledPlaces ==
  ASSUME IInv, Placed, ReadScheduled
  PROVE  Placed'
<1> DEFINE new == [id |-> read + 1, frames |-> Frames(read + 1, now)]
<1>1. /\ read' = read + 1 /\ list' = [list EXCEPT ![nlist + 1] = new]
      /\ new.id = read + 1 /\ nlist < ListSize /\ rt = "read"
      /\ UNCHANGED <<out, delivered, dropped>>
  BY DEF ReadScheduled, Fits
<1> HIDE DEF new
<1>2. /\ list \in [Cells -> Cell] /\ read \in Nat /\ nlist + 1 \in Cells
      /\ IsFree(list[nlist + 1])
  <2>1. list \in [Cells -> Cell] /\ read \in Nat /\ nlist \in 0..ListSize
    BY PlaceFacts
  <2>2. nlist + 1 \in Cells /\ nlist + 1 > nlist
    BY <1>1, <2>1, SizeAssumption DEF Cells
  <2> QED
    BY <1>1, <2>1, <2>2 DEF IInv, Filled
<1>3. /\ read + 1 \notin Listed /\ read + 1 \notin Forged
      /\ read + 1 \notin Sent /\ read + 1 \notin dropped
      /\ 1..(read + 1) = (1..read) \cup {read + 1}
  <2>1. read + 1 \notin 1..read /\ 1..(read + 1) = (1..read) \cup {read + 1}
    BY <1>2
  <2> QED
    BY <2>1 DEF Placed, Parted
<1>4. PICK k \in Cells : k = nlist + 1
  BY <1>2
<1>5. /\ list'[k].id = read + 1 /\ \A i \in Cells : i # k => list'[i] = list[i]
      /\ k \notin Used
  BY <1>1, <1>2, <1>4 DEF Used
<1>6. Used' = Used \cup {k}
  BY <1>2, <1>5 DEF Used, IsFree
<1>7. Listed' = Listed \cup {read + 1}
  <2>1. \A i \in Used : list'[i] = list[i]
    BY <1>5 DEF Used
  <2> QED
    BY <1>5, <1>6, <2>1 DEF Listed
<1>8. Forged' = Forged /\ Sent' = Sent
  BY <1>1 DEF Forged, Sent
<1>9. Distinct'
  <2>1. ASSUME NEW i \in Used', NEW j \in Used', list'[i].id = list'[j].id PROVE i = j
    <3>1. \A u \in Used : list'[u].id = list[u].id /\ list[u].id # read + 1
      BY <1>3, <1>5 DEF Used, Listed
    <3> QED
      BY <1>5, <1>6, <2>1, <3>1 DEF Placed, Distinct
  <2> QED
    BY <1>1, <2>1 DEF Placed, Distinct
<1>10. Parted'
  BY <1>1, <1>3, <1>7, <1>8 DEF Placed, Parted
<1> QED
  BY <1>9, <1>10 DEF Placed

LEMMA ReadDroppedPlaces ==
  ASSUME IInv, Placed, ReadDropped
  PROVE  Placed'
<1>1. /\ read' = read + 1 /\ dropped' = dropped \cup {read + 1}
      /\ UNCHANGED <<list, out, delivered>>
  BY DEF ReadDropped
<1>2. /\ read + 1 \notin 1..read /\ 1..(read + 1) = (1..read) \cup {read + 1}
  BY PlaceFacts
<1>3. Used' = Used /\ Listed' = Listed /\ Forged' = Forged /\ Sent' = Sent
  BY <1>1 DEF Used, IsFree, Listed, Forged, Sent
<1>4. Distinct'
  BY <1>1, <1>3 DEF Placed, Distinct
<1>5. Parted'
  BY <1>1, <1>2, <1>3 DEF Placed, Parted
<1> QED
  BY <1>4, <1>5 DEF Placed

LEMMA ReadDonePlaces ==
  ASSUME IInv, Placed, ReadDone
  PROVE  Placed'
<1>1. /\ list' \in SortedLists(list, nlist) \/ list' = list
      /\ UNCHANGED <<read, out, delivered, dropped>>
  BY DEF ReadDone
<1>2. CASE list' = list
  BY <1>1, <1>2, SamePlaces
<1>3. CASE list' \in SortedLists(list, nlist)
  <2>1. /\ Listed' = Listed
        /\ \A i, j \in Used' : list'[i].id = list'[j].id => i = j
    BY <1>3, PlaceFacts, SortedPlaces
  <2>2. Forged' = Forged /\ Sent' = Sent
    BY <1>1 DEF Forged, Sent
  <2> QED
    BY <1>1, <2>1, <2>2 DEF Placed, Distinct, Parted
<1> QED
  BY <1>1, <1>2, <1>3

LEMMA DispatchPlaces ==
  ASSUME IInv, Placed, Dispatch
  PROVE  Placed'
<1>1. /\ l <= ListSize /\ ~IsFree(list[l]) /\ list[l].frames < Period
      /\ out' = Append(out, [id |-> list[l].id, frame |-> Punctual(list[l].frames)])
      /\ list' = [list EXCEPT ![l] = Free]
      /\ UNCHANGED <<read, delivered, dropped>>
  BY DEF Dispatch, Due, Parse
<1>2. PICK k \in Cells : k = l
  BY <1>1, SizeAssumption DEF IInv, TypeOK, Cells
<1>3. list \in [Cells -> Cell] /\ list[k] \in Cell
  BY PlaceFacts
<1>4. k \in Used /\ list[k].id \in Ids /\ list[k].id \in Listed
  <2>1. list[k].id \in 0..MaxPackets /\ list[k].id # 0
    BY <1>1, <1>2, <1>3 DEF Cell, IsFree
  <2> QED
    BY <1>1, <1>2, <2>1, BoundsAssumption DEF Used, Listed, Ids
<1>5. Punctual(list[k].frames) \in 0..(Period - 1)
  <2>1. list[k].frames \in Int /\ list[k].frames < Period
    BY <1>1, <1>2, <1>3 DEF Cell
  <2> QED
    BY <2>1, PeriodAssumption DEF Punctual
<1>6. /\ Forged' = Forged \cup {list[k].id}
      /\ \A o, q \in DOMAIN out' : out'[o].id = out'[q].id => o = q
  <2>1. list[k].id \notin Forged
    BY <1>4 DEF Placed, Parted
  <2>2. out' = Append(out, [id |-> list[k].id, frame |-> Punctual(list[k].frames)])
    BY <1>1, <1>2
  <2> QED
    BY <1>4, <1>5, <2>1, <2>2, ForgedMore
<1>7. /\ list'[k] = Free /\ \A i \in Cells : i # k => list'[i] = list[i]
  BY <1>1, <1>2, <1>3
<1>8. Used' = Used \ {k}
  BY <1>7 DEF Used, IsFree, Free
<1>9. Listed' = Listed \ {list[k].id}
  <2>1. \A i \in Used \ {k} : list'[i].id = list[i].id /\ list[i].id # list[k].id
    BY <1>4, <1>7 DEF Used, Placed, Distinct
  <2> QED
    BY <1>4, <1>8, <2>1 DEF Listed
<1>10. Sent' = Sent
  BY <1>1 DEF Sent
<1>11. Distinct'
  <2>1. ASSUME NEW i \in Used', NEW j \in Used', list'[i].id = list'[j].id PROVE i = j
    BY <1>7, <1>8, <2>1 DEF Used, Placed, Distinct
  <2> QED
    BY <1>1, <1>6, <2>1 DEF Placed, Distinct
<1>12. Parted'
  BY <1>1, <1>4, <1>6, <1>9, <1>10 DEF Placed, Parted
<1> QED
  BY <1>11, <1>12 DEF Placed

\* The host gets all of the output, or nothing.
LEMMA EndPlaces ==
  ASSUME IInv, Placed, End
  PROVE  Placed'
<1>1. /\ list' \in SortedLists(list, nlist) \/ list' = list
      /\ out' = <<>> /\ UNCHANGED read
      /\ \/ /\ ~ref /\ delivered' = delivered /\ dropped' = dropped \cup {o.id : o \in ToSet(out)}
         \/ /\ dropped' = dropped
            /\ delivered' = delivered \o [i \in DOMAIN out |->
                                            [id |-> out[i].id, when |-> now + out[i].frame]]
  BY DEF End
<1>2. /\ Listed' = Listed
      /\ \A i, j \in Used' : list'[i].id = list'[j].id => i = j
  <2>1. CASE list' = list
    BY <2>1 DEF Used, IsFree, Listed, Placed, Distinct
  <2>2. CASE list' \in SortedLists(list, nlist)
    BY <2>2, PlaceFacts, SortedPlaces
  <2> QED
    BY <1>1, <2>1, <2>2
<1>3. DOMAIN out' = {} /\ Forged' = {}
  BY <1>1 DEF Forged
<1>4. CASE delivered' = delivered /\ dropped' = dropped \cup {o.id : o \in ToSet(out)}
  <2>1. dropped' = dropped \cup Forged /\ Sent' = Sent
    BY <1>4 DEF ToSet, Forged, Sent
  <2>2. Distinct'
    BY <1>2, <1>3, <1>4 DEF Placed, Distinct
  <2>3. Parted'
    BY <1>1, <1>2, <1>3, <2>1 DEF Placed, Parted
  <2> QED
    BY <2>2, <2>3 DEF Placed
<1>5. CASE /\ dropped' = dropped
           /\ delivered' = delivered \o [i \in DOMAIN out |->
                                           [id |-> out[i].id, when |-> now + out[i].frame]]
  <2> DEFINE s == [i \in DOMAIN out |-> [id |-> out[i].id, when |-> now + out[i].frame]]
             D == [id : Ids, when : Nat]
  <2>1. PICK n \in Nat, m \in Nat : n = Len(delivered) /\ m = Len(out)
    BY PlaceFacts
  <2>2. /\ DOMAIN out = 1..m /\ DOMAIN delivered = 1..n
        /\ \A o \in 1..m : s[o].id = out[o].id
    BY <2>1, PlaceFacts
  <2>3. delivered \in Seq(D) /\ s \in Seq(D) /\ Len(s) = m
    <3>1. \A o \in 1..m : out[o] \in [id : Ids, frame : 0..(Period - 1)]
      <4>1. out \in Seq([id : Ids, frame : 0..(Period - 1)])
        BY DEF IInv, TypeOK
      <4> QED
        BY <2>1, <4>1, ElementOfSeq
    <3>2. now \in Nat
      BY DEF IInv, TypeOK
    <3>3. \A o \in 1..m : [id |-> out[o].id, when |-> now + out[o].frame] \in D
      BY <3>1, <3>2
    <3>4. s \in [1..m -> D]
      BY <2>2, <3>3
    <3>5. delivered \in Seq(D)
      BY DEF IInv, TypeOK
    <3> QED
      BY <3>4, <3>5
  <2>4. delivered' = delivered \o s
    BY <1>5
  <2> HIDE DEF s, D
  <2>5. /\ DOMAIN delivered' = 1..(n + m)
        /\ \A i \in 1..(n + m) : delivered'[i] = IF i <= n THEN delivered[i] ELSE s[i - n]
    <3>1. /\ delivered \o s \in Seq(D) /\ Len(delivered \o s) = n + m
          /\ \A i \in 1..(n + m) : (delivered \o s)[i] = IF i <= n THEN delivered[i] ELSE s[i - n]
      <4>1. /\ delivered \o s \in Seq(D) /\ Len(delivered \o s) = Len(delivered) + Len(s)
            /\ \A i \in 1..(Len(delivered) + Len(s)) :
                 (delivered \o s)[i] = IF i <= Len(delivered) THEN delivered[i]
                                       ELSE s[i - Len(delivered)]
        BY <2>3, ConcatProperties
      <4> QED
        BY <2>1, <2>3, <4>1
    <3> QED
      BY <2>4, <3>1, LenProperties
  <2>6. ASSUME NEW i \in 1..(n + m)
        PROVE  \/ i \in 1..n /\ delivered'[i] = delivered[i]
               \/ i - n \in 1..m /\ delivered'[i].id = out[i - n].id
    BY <2>2, <2>5
  <2>7. \A i \in 1..n : i \in 1..(n + m) /\ delivered'[i] = delivered[i]
    BY <2>5
  <2>8. ASSUME NEW o \in 1..m PROVE n + o \in 1..(n + m) /\ delivered'[n + o].id = out[o].id
    <3>1. n + o \in 1..(n + m) /\ ~(n + o <= n) /\ (n + o) - n = o
      OBVIOUS
    <3> QED
      BY <2>2, <2>5, <3>1
  <2>9. /\ Sent' = {delivered'[i].id : i \in 1..(n + m)}
        /\ Sent = {delivered[i].id : i \in 1..n} /\ Forged = {out[o].id : o \in 1..m}
    BY <2>2, <2>5 DEF Sent, Forged
  <2>10. Sent' = Sent \cup Forged
    <3>1. Sent' \subseteq Sent \cup Forged
      BY <2>6, <2>9
    <3>2. Sent \cup Forged \subseteq Sent'
      BY <2>7, <2>8, <2>9
    <3> QED
      BY <3>1, <3>2
  <2>11. ASSUME NEW d \in 1..(n + m), NEW e \in 1..(n + m), delivered'[d].id = delivered'[e].id
         PROVE  d = e
    <3>0. \A i \in 1..n, o \in 1..m : delivered[i].id # out[o].id
      BY <2>9 DEF Placed, Parted
    <3>1. CASE d \in 1..n /\ e \in 1..n
      BY <2>2, <2>7, <2>11, <3>1 DEF Placed, Distinct
    <3>2. CASE d \notin 1..n /\ e \notin 1..n
      <4>1. /\ d - n \in 1..m /\ e - n \in 1..m
            /\ out[d - n].id = out[e - n].id
        BY <2>6, <2>11, <3>2
      <4>2. d - n = e - n
        BY <2>2, <4>1 DEF Placed, Distinct
      <4> QED
        BY <4>2
    <3>3. CASE d \in 1..n /\ e \notin 1..n
      BY <2>6, <2>7, <2>11, <3>0, <3>3
    <3>4. CASE d \notin 1..n /\ e \in 1..n
      BY <2>6, <2>7, <2>11, <3>0, <3>4
    <3> QED
      BY <3>1, <3>2, <3>3, <3>4
  <2>12. Distinct'
    BY <1>2, <1>3, <2>5, <2>11 DEF Distinct
  <2>13. Parted'
    BY <1>1, <1>2, <1>3, <1>5, <2>10 DEF Placed, Parted
  <2> QED
    BY <2>12, <2>13 DEF Placed
<1> QED
  BY <1>1, <1>4, <1>5

LEMMA InitPlaced == Init => Placed
<1> SUFFICES ASSUME Init PROVE Placed
  OBVIOUS
<1>1. /\ DOMAIN out = {} /\ DOMAIN delivered = {} /\ read = 0 /\ dropped = {}
      /\ \A i \in Cells : IsFree(list[i])
  BY DEF Init, IsFree, Free
<1>2. Used = {} /\ Listed = {} /\ Forged = {} /\ Sent = {} /\ 1..read = {}
  BY <1>1 DEF Used, Listed, Forged, Sent
<1> QED
  BY <1>1, <1>2 DEF Placed, Distinct, Parted

LEMMA PlacedInductive == IInv /\ Placed /\ [Next]_vars => Placed'
<1> SUFFICES ASSUME IInv, Placed, [Next]_vars PROVE Placed'
  OBVIOUS
<1>1. CASE (\E p \in Packets : Arrive(p)) \/ Overrun \/ UNCHANGED vars
  <2>1. UNCHANGED <<read, list, out, delivered, dropped>>
    BY <1>1 DEF Arrive, Overrun, vars
  <2> QED
    BY <2>1, SamePlaces
<1>2. CASE \E d \in Drifts : Begin(d)
  BY <1>2, BeginPlaces
<1>3. CASE ReadImmediate
  BY <1>3, ReadImmediatePlaces
<1>4. CASE ReadScheduled
  BY <1>4, ReadScheduledPlaces
<1>5. CASE ReadDropped
  BY <1>5, ReadDroppedPlaces
<1>6. CASE ReadDone
  BY <1>6, ReadDonePlaces
<1>7. CASE Dispatch
  BY <1>7, DispatchPlaces
<1>8. CASE End
  BY <1>8, EndPlaces
<1> QED
  BY <1>1, <1>2, <1>3, <1>4, <1>5, <1>6, <1>7, <1>8 DEF Next, Run

\* A set of at most one element.
LEMMA AtMostOne ==
  ASSUME NEW S, \A x, y \in S : x = y
  PROVE  Cardinality(S) = IF S = {} THEN 0 ELSE 1
<1>1. CASE S = {}
  BY <1>1, FS_EmptySet
<1>2. CASE S # {}
  <2>1. PICK x : S = {x}
    BY <1>2
  <2> QED
    BY <1>2, <2>1, FS_Singleton
<1> QED
  BY <1>1, <1>2

LEMMA PlacedAlways == Spec => []Placed
BY InitPlaced, PlacedInductive, Invariant, PTL DEF Spec

\* A packet that was taken out of the ring is in exactly one place: on the
\* list, in the output, with the host or among those dropped; the cells that are
\* given back, the sorting and an output that does not fit neither lose nor
\* double any (eteroj_io.c:379-420, 494-559).
THEOREM InOnePlaceSafe == Spec => []InOnePlace
<1>1. IInv /\ Placed => InOnePlace
  <2> SUFFICES ASSUME IInv, Placed, NEW id \in 1..read
               PROVE  Cardinality(Holding(id)) + Cardinality(Places(id, out))
                        + Cardinality(Places(id, delivered)) + Cardinality({id} \cap dropped) = 1
    BY DEF InOnePlace
  <2>1. Cardinality(Holding(id)) = IF id \in Listed THEN 1 ELSE 0
    <3>1. id # 0
      BY PlaceFacts
    <3>2. Holding(id) = {i \in Used : list[i].id = id}
      BY <3>1 DEF Holding, Used, IsFree
    <3>3. /\ \A x, y \in Holding(id) : x = y
          /\ Holding(id) = {} <=> id \notin Listed
      BY <3>2 DEF Listed, Placed, Distinct
    <3> QED
      BY <3>3, AtMostOne
  <2>2. Cardinality(Places(id, out)) = IF id \in Forged THEN 1 ELSE 0
    <3>1. /\ \A x, y \in Places(id, out) : x = y
          /\ Places(id, out) = {} <=> id \notin Forged
      BY DEF Places, Forged, Placed, Distinct
    <3> QED
      BY <3>1, AtMostOne
  <2>3. Cardinality(Places(id, delivered)) = IF id \in Sent THEN 1 ELSE 0
    <3>1. /\ \A x, y \in Places(id, delivered) : x = y
          /\ Places(id, delivered) = {} <=> id \notin Sent
      BY DEF Places, Sent, Placed, Distinct
    <3> QED
      BY <3>1, AtMostOne
  <2>4. Cardinality({id} \cap dropped) = IF id \in dropped THEN 1 ELSE 0
    <3>1. /\ \A x, y \in {id} \cap dropped : x = y
          /\ {id} \cap dropped = {} <=> id \notin dropped
      OBVIOUS
    <3> QED
      BY <3>1, AtMostOne
  <2>5. \/ id \in Listed /\ id \notin Forged /\ id \notin Sent /\ id \notin dropped
        \/ id \notin Listed /\ id \in Forged /\ id \notin Sent /\ id \notin dropped
        \/ id \notin Listed /\ id \notin Forged /\ id \in Sent /\ id \notin dropped
        \/ id \notin Listed /\ id \notin Forged /\ id \notin Sent /\ id \in dropped
    BY DEF Placed, Parted
  <2> QED
    BY <2>1, <2>2, <2>3, <2>4, <2>5
<1> QED
  BY <1>1, Invariant, PlacedAlways, PTL

-----------------------------------------------------------------------------
(* The calendar.                                                           *)

\* When packet p goes out, in a period that begins at time n.
At(p, n) == IF p.time = Immediate \/ p.time < n THEN n ELSE p.time

\* The inductive invariant, added to IInv and Placed: what is in the output has
\* the frame of its very moment.
Exact == \A o \in DOMAIN out : now + out[o].frame = At(arrived[out[o].id], now)

\* What goes out behind the others keeps their moments.
LEMMA ExactMore ==
  ASSUME IInv, Exact, UNCHANGED <<now, arrived>>,
         NEW id \in Ids, NEW frame \in 0..(Period - 1),
         out' = Append(out, [id |-> id, frame |-> frame]),
         now + frame = At(arrived[id], now)
  PROVE  Exact'
<1> DEFINE e == [id |-> id, frame |-> frame]
<1>1. e \in [id : Ids, frame : 0..(Period - 1)] /\ e.id = id /\ e.frame = frame
      /\ out' = Append(out, e)
  OBVIOUS
<1> HIDE DEF e
<1>2. out \in Seq([id : Ids, frame : 0..(Period - 1)])
  BY DEF IInv, TypeOK
<1>3. PICK n \in Nat : n = Len(out)
  BY <1>2, LenProperties
<1>4. /\ DOMAIN out = 1..n /\ DOMAIN out' = 1..(n + 1)
      /\ \A o \in 1..n : out'[o] = out[o]
      /\ out'[n + 1] = e
  <2>1. /\ Append(out, e) \in Seq([id : Ids, frame : 0..(Period - 1)])
        /\ Len(Append(out, e)) = n + 1
        /\ \A o \in 1..n : Append(out, e)[o] = out[o]
        /\ Append(out, e)[n + 1] = e
    BY <1>1, <1>2, <1>3, AppendProperties
  <2>2. DOMAIN out = 1..n /\ DOMAIN out' = 1..(n + 1)
    BY <1>1, <1>2, <1>3, <2>1, LenProperties
  <2> QED
    BY <1>1, <2>1, <2>2
<1> SUFFICES ASSUME NEW o \in 1..(n + 1)
             PROVE  now' + out'[o].frame = At(arrived'[out'[o].id], now')
  BY <1>4 DEF Exact
<1>5. CASE o \in 1..n
  <2>1. now + out[o].frame = At(arrived[out[o].id], now)
    BY <1>4, <1>5 DEF Exact
  <2> QED
    BY <1>4, <1>5, <2>1
<1>6. CASE o = n + 1
  <2>1. out'[o].frame = frame /\ out'[o].id = id
    BY <1>1, <1>4, <1>6
  <2> QED
    BY <2>1
<1>7. o \in 1..n \/ o = n + 1
  OBVIOUS
<1> QED
  BY <1>5, <1>6, <1>7

LEMMA ExactInductive == IInv /\ Exact /\ [Next]_vars => Exact'
<1> SUFFICES ASSUME IInv, Exact, [Next]_vars PROVE Exact'
  OBVIOUS
<1> USE SizeAssumption, PeriodAssumption, BoundsAssumption
<1>1. ASSUME UNCHANGED <<now, arrived, out>> PROVE Exact'
  BY <1>1 DEF Exact
<1>2. ASSUME NEW p \in Packets, Arrive(p) PROVE Exact'
  <2>1. UNCHANGED <<now, out>> /\ arrived' = Append(arrived, p)
    BY <1>2 DEF Arrive
  <2>2. \A o \in DOMAIN out : out[o].id \in 1..read
    BY DEF IInv, OutOK
  <2>3. arrived \in Seq(Packets) /\ Len(arrived) \in Nat /\ read \in 0..Len(arrived)
    BY LenProperties DEF IInv, TypeOK
  <2>4. \A id \in 1..read : arrived'[id] = arrived[id]
    BY <2>1, <2>3, AppendProperties
  <2> SUFFICES ASSUME NEW o \in DOMAIN out
               PROVE  now' + out'[o].frame = At(arrived'[out'[o].id], now')
    BY <2>1 DEF Exact
  <2>5. arrived'[out[o].id] = arrived[out[o].id]
    BY <2>2, <2>4
  <2> QED
    BY <2>1, <2>5 DEF Exact
<1>3. ASSUME NEW d \in Drifts, Begin(d) PROVE Exact'
  <2>1. out' = <<>> /\ DOMAIN out' = {}
    BY <1>3 DEF Begin, IInv, OutOK
  <2> QED
    BY <2>1 DEF Exact
<1>4. CASE ReadImmediate
  <2>1. /\ arrived[read + 1].time = Immediate /\ UNCHANGED <<now, arrived>>
        /\ out' = Append(out, [id |-> read + 1, frame |-> 0])
    BY <1>4 DEF ReadImmediate, Parse, Taken
  <2>2. read + 1 \in Ids /\ 0 \in 0..(Period - 1) /\ now \in Nat
    BY <1>4 DEF IInv, TypeOK, Bounded, ReadImmediate, Ids
  <2>3. now + 0 = At(arrived[read + 1], now)
    BY <2>1, <2>2 DEF At
  <2> QED
    BY <2>1, <2>2, <2>3, ExactMore
<1>5. CASE Dispatch
  <2>1. /\ rt = "dispatch" /\ l <= ListSize /\ ~IsFree(list[l]) /\ list[l].frames < Period
        /\ out' = Append(out, [id |-> list[l].id, frame |-> Punctual(list[l].frames)])
        /\ UNCHANGED <<now, arrived>>
    BY <1>5 DEF Dispatch, Due, Parse
  <2>2. PICK c \in Cell : c = list[l] /\ Known(c)
    <3>1. l \in Cells /\ list \in [Cells -> Cell]
      BY <2>1 DEF IInv, TypeOK, Cells, Cell
    <3> QED
      BY <3>1 DEF IInv, ListOK
  <2>3. PICK f \in Int : f = c.frames
    BY <2>2 DEF Cell
  <2>4. PICK t \in Nat : t = arrived[c.id].time
    BY <2>1, <2>2 DEF Known
  <2>5. /\ c.id \in 1..read /\ f < Period /\ now \in Nat
        /\ f = t - now \/ (f = 0 /\ t - now < 0)
    BY <2>1, <2>2, <2>3, <2>4 DEF Known, Frames, IInv, TypeOK
  <2>6. c.id \in Ids
    <3>1. Len(arrived) \in Nat /\ read \in 0..Len(arrived) /\ Len(arrived) <= MaxPackets
      BY LenProperties DEF IInv, TypeOK, Bounded
    <3> QED
      BY <2>5, <3>1 DEF Ids
  <2>7. Punctual(f) \in 0..(Period - 1)
        /\ now + Punctual(f) = IF t < now THEN now ELSE t
    BY ONLY <2>5, <2>3, <2>4, PeriodAssumption DEF Punctual
  <2>8. now + Punctual(f) = At(arrived[c.id], now)
    <3>1. t # Immediate
      BY <2>4, PacketsAssumption
    <3> QED
      BY <2>4, <2>7, <3>1 DEF At
  <2>9. out' = Append(out, [id |-> c.id, frame |-> Punctual(f)])
    BY <2>1, <2>2, <2>3
  <2> QED
    BY <2>1, <2>6, <2>7, <2>8, <2>9, ExactMore
<1>6. CASE End
  <2>1. DOMAIN out' = {}
    BY <1>6 DEF End
  <2> QED
    BY <2>1 DEF Exact
<1> QED
  <2>1. CASE Overrun \/ ReadScheduled \/ ReadDropped \/ ReadDone \/ UNCHANGED vars
    <3>1. UNCHANGED <<now, arrived, out>>
      BY <2>1 DEF Overrun, ReadScheduled, ReadDropped, ReadDone, vars
    <3> QED
      BY <1>1, <3>1
  <2> QED
    BY <1>2, <1>3, <1>4, <1>5, <1>6, <2>1 DEF Next, Run

\* What waits is on the list or in the output: all that was read but what was
\* sent or dropped.
AllWait == /\ Waiting = Listed \cup Forged
           /\ Waiting = (1..read) \ (Sent \cup dropped)

LEMMA WaitingIs == IInv /\ Placed => AllWait
<1> SUFFICES ASSUME IInv, Placed PROVE AllWait
  OBVIOUS
<1>1. {list[i].id : i \in Cells} \ {0} = Listed
  BY DEF Listed, Used, IsFree
<1>2. {o.id : o \in ToSet(out)} = Forged
  BY DEF ToSet, Forged
<1>3. 0 \notin Forged
  <2>1. 0 \notin 1..read
    BY PlaceFacts
  <2> QED
    BY <2>1 DEF Placed, Parted
<1>4. Waiting = Listed \cup Forged
  BY <1>1, <1>2, <1>3 DEF Waiting
<1> QED
  BY <1>4 DEF Placed, Parted, AllWait

LEMMA WaitingNext == IInv' /\ Placed' => AllWait'
BY WaitingIs, PTL

\* A packet that is taken out of the ring waits, or is lost.
LEMMA SeenWaits ==
  ASSUME IInv, Placed, IInv', Placed', read' = read + 1, delivered' = delivered
  PROVE  /\ dropped' = dropped => Waiting' = Waiting \cup {read + 1}
         /\ dropped' = dropped \cup {read + 1} => Waiting' = Waiting
<1>1. Sent' = Sent
  BY DEF Sent
<1>2. /\ read + 1 \notin 1..read /\ 1..(read + 1) = (1..read) \cup {read + 1}
  BY PlaceFacts
<1>3. Sent \cup dropped \subseteq 1..read
  BY DEF Placed, Parted
<1>4. /\ Waiting = (1..read) \ (Sent \cup dropped)
      /\ Waiting' = (1..read') \ (Sent' \cup dropped')
  BY WaitingIs, WaitingNext DEF AllWait
<1> QED
  BY <1>1, <1>2, <1>3, <1>4

LEMMA StillWaits ==
  ASSUME IInv, Placed, IInv', Placed', UNCHANGED <<read, delivered, dropped>>
  PROVE  Waiting' = Waiting
<1>1. Sent' = Sent
  BY DEF Sent
<1> QED
  BY <1>1, WaitingIs, WaitingNext DEF AllWait

\* At the end of a period what is due is what is in the output: the list has
\* nothing that is.
LEMMA DueForged ==
  ASSUME IInv, Placed, Exact, rt = "dispatch", l <= ListSize, ~Due(list[l])
  PROVE  Agenda!Due = Forged
<1> USE PeriodAssumption
<1>1. Agenda!Due = {id \in Waiting : At(arrived[id], now) < now + Period}
  BY DEF Agenda!Due, Agenda!Moment, At
<1>2. ASSUME NEW i \in Used
      PROVE  ~(At(arrived[list[i].id], now) < now + Period)
  <2>1. PICK c \in Cell : c = list[i] /\ Known(c) /\ ~IsFree(c) /\ Waits(c)
    <3>1. i \in Cells /\ list[i] \in Cell
      BY PlaceFacts DEF Used
    <3> QED
      BY <3>1, StayWait DEF Used, IInv, ListOK
  <2>2. PICK t \in Nat : t = arrived[c.id].time
    BY <2>1 DEF Known
  <2>3. PICK f \in Int : f = c.frames
    BY <2>1 DEF Cell
  <2>4. now \in Nat /\ f >= Period /\ (f = t - now \/ f = 0)
    BY <2>1, <2>2, <2>3 DEF Known, Frames, Waits, IInv, TypeOK
  <2>5. ~(t < now) /\ ~(t < now + Period)
    BY ONLY <2>4, <2>2, <2>3, PeriodAssumption
  <2>6. t # Immediate
    BY <2>2, PacketsAssumption
  <2> QED
    BY <2>1, <2>2, <2>5, <2>6 DEF At
<1>3. ASSUME NEW o \in DOMAIN out
      PROVE  At(arrived[out[o].id], now) < now + Period
  <2>1. out[o] \in [id : Ids, frame : 0..(Period - 1)]
    <3>1. out \in Seq([id : Ids, frame : 0..(Period - 1)])
      BY DEF IInv, TypeOK
    <3> QED
      BY <3>1, LenProperties, ElementOfSeq
  <2>2. PICK f \in 0..(Period - 1) : f = out[o].frame
    BY <2>1
  <2>3. now + f = At(arrived[out[o].id], now)
    BY <2>2 DEF Exact
  <2>4. now + f < now + Period
    <3>1. now \in Nat /\ Period \in Nat
      BY DEF IInv, TypeOK
    <3> QED
      BY ONLY <3>1, f \in 0..(Period - 1)
  <2> QED
    BY <2>3, <2>4
<1>4. Waiting = Listed \cup Forged
  BY WaitingIs DEF AllWait
<1> QED
  BY <1>1, <1>2, <1>3, <1>4 DEF Listed, Forged

LEMMA InitCalendar == Init => Agenda!Begins
<1> SUFFICES ASSUME Init PROVE Agenda!Begins
  OBVIOUS
<1>1. \A i \in Cells : list[i].id = 0
  BY DEF Init, Free
<1>2. ToSet(out) = {}
  BY DEF Init, ToSet
<1>3. Waiting = {}
  BY <1>1, <1>2 DEF Waiting
<1> QED
  BY <1>3 DEF Init, Agenda!Begins

\* The numbers of the packets in the output are what is due, in a row, whose
\* moments come one after the other.
LEMMA ForgedRow ==
  ASSUME IInv, Placed, Exact, Agenda!Due = Forged
  PROVE  [o \in DOMAIN out |-> out[o].id] \in Agenda!Rows
<1> DEFINE s == [o \in DOMAIN out |-> out[o].id]
<1>1. PICK m \in Nat : m = Len(out) /\ DOMAIN out = 1..m
  BY PlaceFacts
<1>2. s \in Bijection(1..m, Forged)
  <2>1. s \in [1..m -> Forged]
    BY <1>1 DEF Forged
  <2>2. IsInjective(s)
    BY <1>1 DEF IsInjective, Placed, Distinct
  <2>3. \A id \in Forged : \E o \in 1..m : s[o] = id
    BY <1>1 DEF Forged
  <2> HIDE DEF s
  <2> QED
    BY <2>1, <2>2, <2>3 DEF Bijection, Injection, Surjection
<1>3. Cardinality(Forged) = m
  <2>1. IsFiniteSet(1..m) /\ Cardinality(1..m) = m
    BY FS_Interval
  <2>2. ExistsBijection(1..m, Forged)
    BY <1>2 DEF ExistsBijection
  <2> QED
    BY <2>1, <2>2, FS_Bijection
<1>4. ASSUME NEW i \in DOMAIN s, NEW j \in DOMAIN s, i < j
      PROVE  Agenda!Moment(s[i]) <= Agenda!Moment(s[j])
  <2>1. /\ Agenda!Moment(s[i]) = now + out[i].frame
        /\ Agenda!Moment(s[j]) = now + out[j].frame
    BY DEF Exact, Agenda!Moment, At
  <2>2. out[i].frame <= out[j].frame
    BY <1>4 DEF IInv, OutputOrdered
  <2>3. now \in Nat /\ out[i].frame \in Nat /\ out[j].frame \in Nat
    <3>1. out \in Seq([id : Ids, frame : 0..(Period - 1)]) /\ now \in Nat
      BY DEF IInv, TypeOK
    <3>2. \A o \in 1..m : out[o] \in [id : Ids, frame : 0..(Period - 1)]
      BY <1>1, <3>1, ElementOfSeq
    <3>3. \A o \in 1..m : out[o].frame \in Nat
      BY <3>2, PeriodAssumption
    <3> QED
      BY <1>1, <3>1, <3>3
  <2> QED
    BY <2>1, <2>2, <2>3
<1> HIDE DEF s
<1>5. s \in Agenda!Rows
  <2>1. Agenda!Cardinality(Agenda!Due) = m
    BY <1>3 DEF Agenda!Cardinality, Cardinality
  <2>2. s \in Agenda!Bijection(1..m, Agenda!Due)
    BY <1>2 DEF Bijection, Injection, Surjection, IsInjective,
                Agenda!Bijection, Agenda!Injection, Agenda!Surjection, Agenda!IsInjective
  <2> QED
    BY <1>4, <2>1, <2>2 DEF Agenda!Rows
<1> QED
  BY <1>5 DEF s

\* The host gets what is due, at its moments; or, when the output was too small
\* for all of it, nothing.
LEMMA EndPlays ==
  ASSUME IInv, Placed, Exact, IInv', Placed', End
  PROVE  Agenda!Play \/ Agenda!Lose
<1>1. /\ rt = "dispatch" /\ l <= ListSize /\ ~Due(list[l])
      /\ list' \in SortedLists(list, nlist) \/ list' = list
      /\ out' = <<>> /\ UNCHANGED <<now, arrived, read>>
  BY DEF End
<1>2. Agenda!Due = Forged
  BY <1>1, DueForged
<1>3. Waiting' = Waiting \ Agenda!Due
  <2>1. Listed' = Listed
    <3>1. CASE list' = list
      BY <3>1 DEF Used, IsFree, Listed
    <3>2. CASE list' \in SortedLists(list, nlist)
      BY <3>2, PlaceFacts, SortedPlaces
    <3> QED
      BY <1>1, <3>1, <3>2
  <2>2. Forged' = {}
    BY <1>1 DEF Forged
  <2>3. Listed \cap Forged = {}
    BY DEF Placed, Parted
  <2> QED
    BY <1>2, <2>1, <2>2, <2>3, WaitingIs, WaitingNext DEF AllWait
<1>4. CASE ref
  <2> DEFINE s == [o \in DOMAIN out |-> out[o].id]
  <2>1. s \in Agenda!Rows
    BY <1>2, ForgedRow
  <2>2. [o \in DOMAIN s |-> [id |-> s[o], when |-> Agenda!Moment(s[o])]]
          = [o \in DOMAIN out |-> [id |-> out[o].id, when |-> now + out[o].frame]]
    <3>1. \A o \in DOMAIN out : Agenda!Moment(out[o].id) = now + out[o].frame
      BY DEF Exact, Agenda!Moment, At
    <3> QED
      BY <3>1
  <2>3. /\ delivered' = delivered \o [o \in DOMAIN out |->
                                        [id |-> out[o].id, when |-> now + out[o].frame]]
        /\ dropped' = dropped
    BY <1>4 DEF End
  <2>4. delivered' = delivered \o [o \in DOMAIN s |->
                                     [id |-> s[o], when |-> Agenda!Moment(s[o])]]
    BY <2>2, <2>3
  <2> HIDE DEF s
  <2>5. Agenda!Play
    BY <1>1, <1>3, <2>1, <2>3, <2>4 DEF Agenda!Play
  <2> QED
    BY <2>5
<1>5. CASE ~ref
  <2>1. dropped' = dropped \cup Forged /\ delivered' = delivered
    BY <1>5 DEF End, ToSet, Forged
  <2> QED
    BY <1>1, <1>2, <1>3, <2>1 DEF Agenda!Lose
<1> QED
  BY <1>4, <1>5

LEMMA StepCalendar ==
  IInv /\ Placed /\ Exact /\ IInv' /\ Placed' /\ [Next]_vars
    => [Agenda!Proceeds]_(Agenda!calendar)
<1> SUFFICES ASSUME IInv, Placed, Exact, IInv', Placed', [Next]_vars
             PROVE  Agenda!Proceeds \/ UNCHANGED Agenda!calendar
  OBVIOUS
<1>1. ASSUME UNCHANGED <<now, arrived, read, delivered, dropped>>
      PROVE  UNCHANGED Agenda!calendar
  BY <1>1, StillWaits DEF Agenda!calendar
<1>2. ASSUME NEW p \in Packets, Arrive(p) PROVE Agenda!Come
  <2>1. arrived' = Append(arrived, p) /\ UNCHANGED <<now, read, delivered, dropped>>
    BY <1>2 DEF Arrive
  <2> QED
    BY <2>1, StillWaits DEF Agenda!Come
<1>3. ASSUME NEW d \in Drifts, Begin(d) PROVE Agenda!Advance
  <2>1. UNCHANGED <<arrived, read, delivered, dropped>>
    BY <1>3 DEF Begin
  <2>2. now' \in Nat /\ now' >= now
    <3>1. now \in Nat /\ (now' = now \/ now' = now + Period + d)
      BY <1>3 DEF Begin, IInv, TypeOK
    <3>2. d \in Int /\ Period + d >= 0 /\ Period \in Nat
      BY PeriodAssumption
    <3> QED
      BY ONLY <3>1, <3>2
  <2> QED
    BY <2>1, <2>2, StillWaits DEF Agenda!Advance
<1>4. ASSUME ReadImmediate \/ ReadScheduled PROVE Agenda!See
  <2>1. /\ read < Len(arrived) /\ read' = read + 1
        /\ UNCHANGED <<now, arrived, delivered, dropped>>
    BY <1>4 DEF ReadImmediate, ReadScheduled
  <2> QED
    BY <2>1, SeenWaits DEF Agenda!See
<1>5. ASSUME ReadDropped PROVE Agenda!See
  <2>1. /\ read < Len(arrived) /\ read' = read + 1 /\ dropped' = dropped \cup {read + 1}
        /\ UNCHANGED <<now, arrived, delivered>>
    BY <1>5 DEF ReadDropped
  <2> QED
    BY <2>1, SeenWaits DEF Agenda!See
<1>6. ASSUME End PROVE Agenda!Play \/ Agenda!Lose
  BY <1>6, EndPlays
<1> QED
  <2>1. CASE Overrun \/ ReadDone \/ Dispatch \/ UNCHANGED vars
    <3>1. UNCHANGED <<now, arrived, read, delivered, dropped>>
      BY <2>1 DEF Overrun, ReadDone, Dispatch, vars
    <3> QED
      BY <1>1, <3>1
  <2> QED
    BY <1>2, <1>3, <1>4, <1>5, <1>6, <2>1 DEF Next, Run, Agenda!Proceeds

\* The list, the distances that are taken anew, the sorting and the cells that
\* are given back make a calendar: what is due in a period goes out in it, all of
\* it and nothing else, each packet at its moment and the earlier first, or none
\* of it (eteroj_io.c:379-559).
THEOREM CalendarKept == Spec => ImplementsCalendar
<1>1. Init => Exact
  BY DEF Init, Exact
<1>2. Spec => []Exact
  BY <1>1, ExactInductive, Invariant, PTL DEF Spec
<1> QED
  BY <1>2, PlacedAlways, InitCalendar, StepCalendar, Invariant, PTL
     DEF Spec, ImplementsCalendar, Agenda!Spec
=============================================================================
