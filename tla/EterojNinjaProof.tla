-------------------------- MODULE EterojNinjaProof --------------------------
(***************************************************************************)
(* What the ninja plugin does with the buffer its two threads share, for   *)
(* any input, rings of any size and any host that drops jobs: as long as   *)
(* synchronous is only set while the worker has nothing to do, the threads *)
(* take turns, and what comes out is the conversion of what came in.  And, *)
(* whenever synchronous is set: every event is in one place, and those     *)
(* that take the same way come out in order.                               *)
(***************************************************************************)
EXTENDS EterojNinja, SequenceTheorems, TLAPS

\* What a thread that is in the middle of an event has put into the buffer.
Own(t) ==
  step[t] # "copy" =>
    /\ buf.id = Head(todo[t]).id
    /\ step[t] = "code"  => buf.form = Given(Head(todo[t]))
    /\ step[t] = "forge" => buf.form = Wanted(Head(todo[t]))

\* The threads do not convert at the same time: when run() does, the worker has
\* nothing to find.
Alone == rt = "convert" => toWorker = <<>> /\ worker \in {"idle", "next"}

AllRight(results) == \A i \in 1..Len(results) : Right(results[i])

Clean ==
  /\ Alone
  /\ \A t \in Threads : Own(t) /\ AllRight(forged[t])
  /\ \A i \in 1..Len(fromWorker) : AllRight(fromWorker[i])
  /\ \A i \in 1..Len(given) : Right(given[i].result)

\* The worker's chunk is in the ring until it is done with.
Busy == worker \in {"convert", "advance"} => toWorker # <<>>

\* The inductive invariant.
IInv == TypeOK /\ WorkIsScheduled /\ Busy /\ (~surprised => Clean)

-----------------------------------------------------------------------------
(* Sequences.                                                              *)

LEMMA HeadTail ==
  ASSUME NEW S, NEW s \in Seq(S), s # <<>>
  PROVE  /\ Head(s) \in S /\ Tail(s) \in Seq(S) /\ Len(Tail(s)) = Len(s) - 1
         /\ Len(s) \in Nat /\ Len(s) > 0
         /\ Head(s) = s[1] /\ \A i \in 1..Len(Tail(s)) : Tail(s)[i] = s[i + 1]
BY HeadTailProperties, EmptySeq, LenProperties

LEMMA Concat ==
  ASSUME NEW S, NEW s \in Seq(S), NEW r \in Seq(S), NEW P,
         \A i \in 1..Len(s) : s[i] \in P, \A i \in 1..Len(r) : r[i] \in P
  PROVE  s \o r \in Seq(S) /\ \A i \in 1..Len(s \o r) : (s \o r)[i] \in P
<1>1. /\ s \o r \in Seq(S) /\ Len(s \o r) = Len(s) + Len(r)
      /\ \A i \in 1..(Len(s) + Len(r)) :
           (s \o r)[i] = IF i <= Len(s) THEN s[i] ELSE r[i - Len(s)]
      /\ Len(s) \in Nat /\ Len(r) \in Nat
  BY ConcatProperties, LenProperties
<1>2. ASSUME NEW i \in 1..(Len(s) + Len(r)) PROVE (s \o r)[i] \in P
  <2>1. CASE i <= Len(s)
    BY <1>1, <2>1
  <2>2. CASE ~(i <= Len(s))
    BY <1>1, <2>2
  <2> QED
    BY <2>1, <2>2
<1> QED
  BY <1>1, <1>2

-----------------------------------------------------------------------------
LEMMA InitIInv == Init => IInv
<1> SUFFICES ASSUME Init PROVE IInv
  OBVIOUS
<1> USE RoomAssumption, BoundAssumption DEF Init
<1>1. /\ <<>> \in Seq(Event) /\ <<>> \in Seq(Result) /\ <<>> \in Seq(Seq(Event))
      /\ <<>> \in Seq(Seq(Result)) /\ <<>> \in Seq([result : Result, by : Threads])
      /\ Len(<<>>) = 0
  BY EmptySeq
<1>2. TypeOK
  <2> HIDE DEF Init
  <2>0. synchronous \in BOOLEAN /\ surprised \in BOOLEAN
    BY DEF Init
  <2>1. /\ jobs \in 0..MaxJobs
        /\ rt \in {"idle", "convert", "move", "schedule", "take", "end"}
        /\ worker \in {"idle", "next", "convert", "advance"}
        /\ came \in 0..MaxEvents /\ gone \subseteq 1..MaxEvents
    BY DEF Init
  <2>2. buf \in [id : 0..MaxEvents, form : Form]
    BY DEF Init, Form
  <2>3. /\ toWorker \in Seq(Seq(Event)) /\ Len(toWorker) <= RoomTo
        /\ fromWorker \in Seq(Seq(Result)) /\ Len(fromWorker) <= RoomFrom
        /\ input \in Seq(Event) /\ given \in Seq([result : Result, by : Threads])
    BY <1>1 DEF Init
  <2>4. /\ todo \in [Threads -> Seq(Event)] /\ forged \in [Threads -> Seq(Result)]
        /\ step \in [Threads -> {"copy", "code", "forge"}]
        /\ \A t \in Threads : step[t] = "copy"
    BY <1>1 DEF Init
  <2> QED
    BY <2>0, <2>1, <2>2, <2>3, <2>4 DEF TypeOK
<1>3. WorkIsScheduled /\ Busy /\ Clean
  BY <1>1 DEF WorkIsScheduled, Busy, Clean, Alone, Own, AllRight
<1> QED
  BY <1>2, <1>3 DEF IInv

-----------------------------------------------------------------------------
(* _convert_seq.                                                           *)

\* While one thread converts, the other has no event in the buffer.
LEMMA OneConverts ==
  ASSUME IInv, ~surprised, NEW t \in Threads, Converts(t),
         NEW u \in Threads, u # t
  PROVE  step[u] = "copy" /\ ~Converts(u)
<1>1. Alone
  BY DEF IInv, Clean
<1>2. ~Converts(u)
  BY <1>1 DEF Alone, Converts, Threads
<1> QED
  BY <1>2 DEF IInv, TypeOK

\* The state of _convert_seq has its types after any step of it.
ConvertTypes ==
  /\ buf \in [id : 0..MaxEvents, form : Form]
  /\ todo \in [Threads -> Seq(Event)] /\ forged \in [Threads -> Seq(Result)]
  /\ step \in [Threads -> {"copy", "code", "forge"}]
  /\ \A t \in Threads : step[t] # "copy" => Converts(t) /\ todo[t] # <<>>
  /\ gone \subseteq 1..MaxEvents

ConvertRight == \A t \in Threads : Own(t) /\ AllRight(forged[t])

\* Nothing else is concerned by such a step.
LEMMA ConvertSuffices ==
  ASSUME IInv, ConvertTypes', ~surprised => ConvertRight',
         UNCHANGED <<synchronous, toWorker, fromWorker, jobs, rt, input, worker,
                     came, given, surprised>>
  PROVE  IInv'
<1>1. TypeOK'
  BY DEF IInv, TypeOK, ConvertTypes, Converts
<1>2. WorkIsScheduled' /\ Busy'
  BY DEF IInv, WorkIsScheduled, Busy
<1>3. ~surprised' => Clean'
  BY DEF IInv, Clean, Alone, ConvertRight
<1> QED
  BY <1>1, <1>2, <1>3 DEF IInv

LEMMA LeaveResult ==
  ASSUME TypeOK, NEW t \in Threads, todo[t] # <<>>,
         NEW results \in Seq(Result), Leave(t, results)
  PROVE  /\ todo' \in [Threads -> Seq(Event)] /\ forged' \in [Threads -> Seq(Result)]
         /\ step' \in [Threads -> {"copy", "code", "forge"}]
         /\ step'[t] = "copy"
         /\ \A u \in Threads : u # t => /\ todo'[u] = todo[u] /\ forged'[u] = forged[u]
                                        /\ step'[u] = step[u]
         /\ AllRight(forged[t]) /\ AllRight(results) => AllRight(forged'[t])
<1>1. /\ todo \in [Threads -> Seq(Event)] /\ forged \in [Threads -> Seq(Result)]
      /\ step \in [Threads -> {"copy", "code", "forge"}]
  BY DEF TypeOK
<1>2. Tail(todo[t]) \in Seq(Event)
  BY <1>1, HeadTail
<1>3. forged[t] \o results \in Seq(Result)
  BY <1>1, ConcatProperties
<1>4. /\ todo' = [todo EXCEPT ![t] = Tail(todo[t])] /\ step' = [step EXCEPT ![t] = "copy"]
      /\ forged' = [forged EXCEPT ![t] = forged[t] \o results]
  BY DEF Leave
<1>5. ASSUME AllRight(forged[t]), AllRight(results)
      PROVE  AllRight(forged'[t])
  <2> DEFINE P == {r \in Result : Right(r)}
  <2>1. \A i \in 1..Len(forged[t]) : forged[t][i] \in P
    BY <1>1, <1>5, ElementOfSeq DEF AllRight
  <2>2. \A i \in 1..Len(results) : results[i] \in P
    BY <1>5, ElementOfSeq DEF AllRight
  <2>3. \A i \in 1..Len(forged[t] \o results) : (forged[t] \o results)[i] \in P
    <3> HIDE DEF P
    <3> QED
      BY <1>1, <2>1, <2>2, Concat
  <2>4. forged'[t] = forged[t] \o results
    BY <1>1, <1>4
  <2> QED
    BY <2>3, <2>4 DEF AllRight
<1> QED
  BY <1>1, <1>2, <1>3, <1>4, <1>5

LEMMA CopyKeeps ==
  ASSUME IInv, NEW t \in Threads, Copy(t)
  PROVE  IInv'
<1> DEFINE e == Head(todo[t])
<1>0. TypeOK
  BY DEF IInv
<1>1. /\ Converts(t) /\ todo[t] # <<>> /\ step[t] = "copy"
      /\ UNCHANGED <<synchronous, toWorker, fromWorker, jobs, rt, input, worker,
                     came, given, surprised>>
  BY DEF Copy
<1>2. e \in Event /\ e.id \in 1..MaxEvents /\ e.kind \in Kinds
  <2>1. todo[t] \in Seq(Event)
    BY <1>0 DEF TypeOK
  <2>2. e \in Event
    BY <1>1, <2>1, HeadTail
  <2> HIDE DEF e
  <2> QED
    BY <2>2 DEF Event
<1>3. \A u \in Threads : Converts(u)' = Converts(u)
  BY <1>1 DEF Converts
<1>4. CASE e.kind = "osc"
  <2>1. Leave(t, <<>>) /\ gone' = gone \cup {e.id} /\ buf' = buf
    BY <1>4 DEF Copy
  <2>2. <<>> \in Seq(Result) /\ AllRight(<<>>)
    BY EmptySeq DEF AllRight
  <2> HIDE DEF e
  <2>3. /\ todo' \in [Threads -> Seq(Event)] /\ forged' \in [Threads -> Seq(Result)]
        /\ step' \in [Threads -> {"copy", "code", "forge"}]
        /\ step'[t] = "copy"
        /\ \A u \in Threads : u # t => /\ todo'[u] = todo[u] /\ forged'[u] = forged[u]
                                       /\ step'[u] = step[u]
        /\ AllRight(forged[t]) => AllRight(forged'[t])
    BY <1>0, <1>1, <2>1, <2>2, LeaveResult
  <2>4. ConvertTypes'
    BY <1>0, <1>2, <1>3, <2>1, <2>3 DEF TypeOK, ConvertTypes
  <2>5. ~surprised => ConvertRight'
    BY <2>1, <2>3 DEF IInv, Clean, ConvertRight, Own
  <2> QED
    BY <1>1, <2>4, <2>5, ConvertSuffices
<1>5. CASE e.kind # "osc"
  <2>1. /\ buf' = [id |-> e.id, form |-> Given(e)]
        /\ step' = [step EXCEPT ![t] = "code"]
        /\ UNCHANGED <<todo, forged, gone>>
    BY <1>5 DEF Copy
  <2>2. Given(e) \in Form
    BY DEF Given, Form
  <2>3. /\ step' \in [Threads -> {"copy", "code", "forge"}] /\ step'[t] = "code"
        /\ \A u \in Threads : u # t => step'[u] = step[u]
    BY <1>0, <2>1 DEF TypeOK
  <2>4. ConvertTypes'
    <3> HIDE DEF e
    <3> QED
      BY <1>0, <1>1, <1>2, <1>3, <2>1, <2>2, <2>3 DEF TypeOK, ConvertTypes
  <2>5. ASSUME ~surprised PROVE ConvertRight'
    <3>1. Own(t)'
      BY <2>1, <2>3 DEF Own
    <3>2. ASSUME NEW u \in Threads, u # t PROVE Own(u)'
      BY <1>1, <2>3, <2>5, <3>2, OneConverts DEF Own
    <3>3. \A u \in Threads : AllRight(forged'[u])
      BY <2>1, <2>5 DEF IInv, Clean
    <3> QED
      BY <3>1, <3>2, <3>3 DEF ConvertRight
  <2> QED
    BY <1>1, <2>4, <2>5, ConvertSuffices
<1> QED
  BY <1>4, <1>5

LEMMA CodeKeeps ==
  ASSUME IInv, NEW t \in Threads, Code(t)
  PROVE  IInv'
<1> DEFINE e == Head(todo[t])
           form == Coded(e, buf.form)
<1>0. TypeOK
  BY DEF IInv
<1>1. /\ Converts(t) /\ step[t] = "code" /\ todo[t] # <<>>
      /\ buf' = [buf EXCEPT !.form = form]
      /\ UNCHANGED <<synchronous, toWorker, fromWorker, jobs, rt, input, worker,
                     came, given, surprised>>
  BY <1>0 DEF Code, TypeOK
<1>2. e \in Event /\ e.id \in 1..MaxEvents
  <2>1. todo[t] \in Seq(Event)
    BY <1>0 DEF TypeOK
  <2>2. e \in Event
    BY <1>1, <2>1, HeadTail
  <2> HIDE DEF e
  <2> QED
    BY <2>2 DEF Event
<1>3. \A u \in Threads : Converts(u)' = Converts(u)
  BY <1>1 DEF Converts
<1>4. form \in Form /\ buf' \in [id : 0..MaxEvents, form : Form] /\ buf'.id = buf.id
      /\ buf'.form = form
  <2>1. form \in Form
    BY DEF Coded, Wanted, Form
  <2>2. buf \in [id : 0..MaxEvents, form : Form]
    BY <1>0 DEF TypeOK
  <2> HIDE DEF form
  <2> QED
    BY <1>1, <2>1, <2>2
<1>5. ASSUME ~surprised
      PROVE  /\ buf'.id = e.id /\ buf'.form = Wanted(e)
             /\ \A u \in Threads : u # t => step[u] = "copy"
             /\ \A u \in Threads : AllRight(forged[u])
  <2>1. Own(t) /\ \A u \in Threads : AllRight(forged[u])
    BY <1>5 DEF IInv, Clean
  <2>2. buf.id = e.id /\ buf.form = Given(e)
    BY <1>1, <2>1 DEF Own
  <2>3. form = Wanted(e)
    BY <2>2 DEF Coded
  <2> QED
    BY <1>1, <1>4, <1>5, <2>1, <2>2, <2>3, OneConverts
<1>6. CASE e.kind = "long"
  <2>1. Leave(t, <<>>) /\ gone' = gone \cup {e.id}
    BY <1>6 DEF Code
  <2>2. <<>> \in Seq(Result) /\ AllRight(<<>>)
    BY EmptySeq DEF AllRight
  <2> HIDE DEF e, form
  <2>3. /\ todo' \in [Threads -> Seq(Event)] /\ forged' \in [Threads -> Seq(Result)]
        /\ step' \in [Threads -> {"copy", "code", "forge"}]
        /\ step'[t] = "copy"
        /\ \A u \in Threads : u # t => /\ todo'[u] = todo[u] /\ forged'[u] = forged[u]
                                       /\ step'[u] = step[u]
        /\ AllRight(forged[t]) => AllRight(forged'[t])
    BY <1>0, <1>1, <2>1, <2>2, LeaveResult
  <2>4. ConvertTypes'
    BY <1>0, <1>2, <1>3, <1>4, <2>1, <2>3 DEF TypeOK, ConvertTypes
  <2>5. ~surprised => ConvertRight'
    BY <1>5, <2>3 DEF ConvertRight, Own
  <2> QED
    BY <1>1, <2>4, <2>5, ConvertSuffices
<1>7. CASE e.kind # "long"
  <2>1. step' = [step EXCEPT ![t] = "forge"] /\ UNCHANGED <<todo, forged, gone>>
    BY <1>7 DEF Code
  <2>2. /\ step' \in [Threads -> {"copy", "code", "forge"}] /\ step'[t] = "forge"
        /\ \A u \in Threads : u # t => step'[u] = step[u]
    BY <1>0, <2>1 DEF TypeOK
  <2>3. ConvertTypes'
    BY <1>0, <1>1, <1>3, <1>4, <2>1, <2>2 DEF TypeOK, ConvertTypes
  <2>4. ASSUME ~surprised PROVE ConvertRight'
    <3>1. Own(t)'
      BY <1>5, <2>1, <2>2, <2>4 DEF Own
    <3>2. ASSUME NEW u \in Threads, u # t PROVE Own(u)'
      BY <1>5, <2>2, <2>4, <3>2 DEF Own
    <3> QED
      BY <1>5, <2>1, <2>4, <3>1, <3>2 DEF ConvertRight
  <2> QED
    BY <1>1, <2>3, <2>4, ConvertSuffices
<1> QED
  BY <1>6, <1>7

LEMMA ForgeKeeps ==
  ASSUME IInv, NEW t \in Threads, Forge(t)
  PROVE  IInv'
<1> DEFINE e == Head(todo[t])
           r == [id |-> e.id, want |-> Wanted(e), got |-> buf]
<1>0. TypeOK
  BY DEF IInv
<1>1. /\ Converts(t) /\ step[t] = "forge" /\ todo[t] # <<>>
      /\ Leave(t, <<r>>)
      /\ UNCHANGED <<synchronous, buf, toWorker, fromWorker, jobs, rt, input, worker,
                     came, given, gone, surprised>>
  BY <1>0 DEF Forge, TypeOK
<1>2. e \in Event /\ e.id \in 1..MaxEvents
  <2>1. todo[t] \in Seq(Event)
    BY <1>0 DEF TypeOK
  <2>2. e \in Event
    BY <1>1, <2>1, HeadTail
  <2> HIDE DEF e
  <2> QED
    BY <2>2 DEF Event
<1>3. \A u \in Threads : Converts(u)' = Converts(u)
  BY <1>1 DEF Converts
<1>4. r \in Result
  <2>1. buf \in [id : 0..MaxEvents, form : Form] /\ Wanted(e) \in Form
    BY <1>0 DEF TypeOK, Wanted, Form
  <2> HIDE DEF e
  <2> QED
    BY <1>2, <2>1 DEF Result
<1>5. ~surprised => AllRight(<<r>>) /\ ConvertRight
  <2> SUFFICES ASSUME ~surprised PROVE AllRight(<<r>>) /\ ConvertRight
    OBVIOUS
  <2>1. ConvertRight
    BY DEF IInv, Clean, ConvertRight
  <2>2. buf.id = e.id /\ buf.form = Wanted(e)
    BY <1>1, <2>1 DEF ConvertRight, Own
  <2>3. Right(r)
    BY <2>2 DEF Right
  <2> HIDE DEF r
  <2> QED
    BY <2>1, <2>3 DEF AllRight
<1>6. <<r>> \in Seq(Result)
  <2> HIDE DEF r
  <2> QED
    BY <1>4
<1> HIDE DEF r, e
<1>7. /\ todo' \in [Threads -> Seq(Event)] /\ forged' \in [Threads -> Seq(Result)]
      /\ step' \in [Threads -> {"copy", "code", "forge"}]
      /\ step'[t] = "copy"
      /\ \A u \in Threads : u # t => /\ todo'[u] = todo[u] /\ forged'[u] = forged[u]
                                     /\ step'[u] = step[u]
      /\ AllRight(forged[t]) /\ AllRight(<<r>>) => AllRight(forged'[t])
  BY <1>0, <1>1, <1>6, LeaveResult
<1>8. ConvertTypes'
  BY <1>0, <1>1, <1>3, <1>7 DEF TypeOK, ConvertTypes
<1>9. ~surprised => ConvertRight'
  BY <1>1, <1>5, <1>7 DEF ConvertRight, Own
<1> QED
  BY <1>1, <1>8, <1>9, ConvertSuffices

-----------------------------------------------------------------------------
(* run()                                                                   *)

LEMMA RunBeginKeeps ==
  ASSUME IInv, NEW kinds \in Inputs, RunBegin(kinds)
  PROVE  IInv'
<1>0. TypeOK
  BY DEF IInv
<1>1. /\ rt = "idle" /\ came + Len(kinds) <= MaxEvents
      /\ came' = came + Len(kinds)
      /\ input' = [i \in 1..Len(kinds) |-> [id |-> came + i, kind |-> kinds[i]]]
      /\ synchronous' = Setting(input', synchronous)
      /\ UNCHANGED <<buf, step, forged, toWorker, fromWorker, jobs, worker, given, gone>>
  BY DEF RunBegin
<1>2. kinds \in Seq(Kinds) /\ Len(kinds) \in Nat /\ \A i \in 1..Len(kinds) : kinds[i] \in Kinds
  BY InputsAssumption, LenProperties, ElementOfSeq
<1>3. came \in Nat /\ came' \in 0..MaxEvents
  BY <1>0, <1>1, <1>2, BoundAssumption DEF TypeOK
<1>4. input' \in Seq(Event)
  <2>1. \A i \in 1..Len(kinds) : [id |-> came + i, kind |-> kinds[i]] \in Event
    BY <1>1, <1>2, <1>3, BoundAssumption DEF Event
  <2>2. input' \in [1..Len(kinds) -> Event]
    BY <1>1, <2>1
  <2> QED
    BY <1>2, <2>2
<1>5. synchronous' \in BOOLEAN
  <2>1. synchronous \in BOOLEAN
    BY <1>0 DEF TypeOK
  <2> QED
    BY <1>1, <2>1, Zenon DEF Setting
<1>6. surprised' = (surprised \/ (synchronous' /\ (toWorker # <<>> \/ worker # "idle")))
  BY Zenon DEF RunBegin
<1>7. surprised' \in BOOLEAN
  BY <1>6
<1>8. step["rt"] = "copy"
  BY <1>0, <1>1 DEF TypeOK, Converts, Threads
<1>9. /\ todo' \in [Threads -> Seq(Event)] /\ todo'["worker"] = todo["worker"]
      /\ rt' \in {"convert", "move", "take"}
      /\ rt' = "convert" => synchronous'
  <2>1. todo \in [Threads -> Seq(Event)]
    BY <1>0 DEF TypeOK
  <2>2. CASE synchronous'
    <3>1. rt' = "convert" /\ todo' = [todo EXCEPT !["rt"] = input']
      BY <2>2 DEF RunBegin
    <3> QED
      BY <1>4, <2>1, <2>2, <3>1 DEF Threads
  <2>3. CASE ~synchronous'
    <3>1. rt' \in {"move", "take"} /\ todo' = todo
      BY <2>3 DEF RunBegin
    <3> QED
      BY <2>1, <3>1
  <2> QED
    BY <2>2, <2>3
<1>10. \A t \in Threads : step[t] # "copy" => t = "worker" /\ Converts(t)' /\ todo'[t] # <<>>
  BY <1>0, <1>1, <1>8, <1>9 DEF TypeOK, Converts, Threads
<1>11. TypeOK'
  BY <1>0, <1>1, <1>3, <1>4, <1>5, <1>7, <1>9, <1>10 DEF TypeOK
<1>12. WorkIsScheduled' /\ Busy'
  BY <1>1 DEF IInv, WorkIsScheduled, Busy
<1>13. ASSUME ~surprised' PROVE Clean'
  <2>1. ~surprised /\ Clean
    BY <1>6, <1>13 DEF IInv
  <2>2. Alone'
    BY <1>1, <1>6, <1>9, <1>13 DEF Alone
  <2>3. \A t \in Threads : Own(t)'
    BY <1>1, <1>9, <1>10, <2>1 DEF Clean, Own
  <2> QED
    BY <1>1, <2>1, <2>2, <2>3 DEF Clean
<1> QED
  BY <1>11, <1>12, <1>13 DEF IInv

LEMMA MoveKeeps ==
  ASSUME IInv, Move
  PROVE  IInv'
<1>0. TypeOK
  BY DEF IInv
<1>1. /\ rt = "move" /\ rt' \in {"schedule", "take"}
      /\ UNCHANGED <<synchronous, convertVars, fromWorker, jobs, input, worker,
                     came, given, surprised>>
  BY DEF Move
<1>2. /\ toWorker \in Seq(Seq(Event)) /\ input \in Seq(Event) /\ Len(toWorker) \in Nat
      /\ RoomTo \in Nat
  BY <1>0, LenProperties, RoomAssumption DEF TypeOK
<1>3. /\ toWorker' \in Seq(Seq(Event)) /\ Len(toWorker') <= RoomTo
      /\ toWorker # <<>> => toWorker' # <<>>
      /\ toWorker' # toWorker => rt' = "schedule"
      /\ gone' \subseteq 1..MaxEvents
  <2>1. CASE Len(toWorker) < RoomTo
    <3>1. toWorker' = Append(toWorker, input) /\ rt' = "schedule" /\ gone' = gone
      BY <2>1 DEF Move
    <3>2. /\ Append(toWorker, input) \in Seq(Seq(Event))
          /\ Append(toWorker, input) # <<>>
          /\ Len(Append(toWorker, input)) = Len(toWorker) + 1
      BY <1>2, AppendProperties
    <3> QED
      BY <1>0, <1>2, <2>1, <3>1, <3>2 DEF TypeOK
  <2>2. CASE ~(Len(toWorker) < RoomTo)
    <3>1. toWorker' = toWorker /\ gone' = gone \cup Ids(input)
      BY <2>2 DEF Move
    <3>2. Ids(input) \subseteq 1..MaxEvents
      <4>1. \A i \in 1..Len(input) : input[i] \in Event
        BY <1>2, ElementOfSeq
      <4> QED
        BY <4>1 DEF Ids, Event
    <3> QED
      BY <1>0, <3>1, <3>2 DEF TypeOK
  <2> QED
    BY <2>1, <2>2
<1>4. \A t \in Threads : Converts(t) => Converts(t)'
  BY <1>1 DEF Converts
<1>5. TypeOK'
  BY <1>0, <1>1, <1>3, <1>4 DEF TypeOK, convertVars
<1>6. WorkIsScheduled' /\ Busy'
  BY <1>1, <1>3 DEF IInv, WorkIsScheduled, Busy
<1>7. ~surprised' => Clean'
  BY <1>1 DEF IInv, Clean, Alone, Own, convertVars
<1> QED
  BY <1>5, <1>6, <1>7 DEF IInv

LEMMA ScheduleKeeps ==
  ASSUME IInv, Schedule
  PROVE  IInv'
<1>1. /\ rt = "schedule" /\ rt' = "take" /\ jobs' = IF jobs < MaxJobs THEN jobs + 1 ELSE jobs
      /\ UNCHANGED <<synchronous, convertVars, toWorker, fromWorker, input, worker,
                     came, given, gone, surprised>>
  BY DEF Schedule
<1>2. jobs' \in 0..MaxJobs /\ jobs' > 0
  BY <1>1, BoundAssumption DEF IInv, TypeOK
<1>3. \A t \in Threads : Converts(t) => Converts(t)'
  BY <1>1 DEF Converts
<1>4. TypeOK'
  BY <1>1, <1>2, <1>3 DEF IInv, TypeOK, convertVars
<1>5. WorkIsScheduled' /\ Busy'
  BY <1>1, <1>2 DEF IInv, WorkIsScheduled, Busy
<1>6. ~surprised' => Clean'
  BY <1>1 DEF IInv, Clean, Alone, Own, convertVars
<1> QED
  BY <1>4, <1>5, <1>6 DEF IInv

LEMMA TakeOneKeeps ==
  ASSUME IInv, Take
  PROVE  IInv'
<1>0. TypeOK
  BY DEF IInv
<1>1. /\ rt = "take" /\ rt' = "end"
      /\ UNCHANGED <<synchronous, buf, todo, step, toWorker, jobs, input, worker,
                     came, given, gone, surprised>>
  BY DEF Take
<1>2. /\ forged \in [Threads -> Seq(Result)] /\ fromWorker \in Seq(Seq(Result))
      /\ Len(fromWorker) \in Nat /\ Len(fromWorker) <= RoomFrom /\ RoomFrom \in Nat
  BY <1>0, LenProperties, RoomAssumption DEF TypeOK
<1>3. /\ forged' \in [Threads -> Seq(Result)] /\ fromWorker' \in Seq(Seq(Result))
      /\ Len(fromWorker') <= RoomFrom
      /\ Clean => /\ \A t \in Threads : AllRight(forged'[t])
                  /\ \A i \in 1..Len(fromWorker') : AllRight(fromWorker'[i])
  <2>1. CASE fromWorker # <<>>
    <3>1. /\ forged' = [forged EXCEPT !["rt"] = Head(fromWorker)]
          /\ fromWorker' = Tail(fromWorker)
      BY <2>1 DEF Take
    <3>2. /\ Head(fromWorker) \in Seq(Result) /\ Head(fromWorker) = fromWorker[1]
          /\ Tail(fromWorker) \in Seq(Seq(Result))
          /\ Len(Tail(fromWorker)) = Len(fromWorker) - 1 /\ Len(fromWorker) > 0
          /\ \A i \in 1..Len(Tail(fromWorker)) : Tail(fromWorker)[i] = fromWorker[i + 1]
      BY <1>2, <2>1, HeadTail
    <3>3. ASSUME Clean
          PROVE  /\ \A t \in Threads : AllRight(forged'[t])
                 /\ \A i \in 1..Len(fromWorker') : AllRight(fromWorker'[i])
      <4>1. \A i \in 1..Len(fromWorker) : AllRight(fromWorker[i])
        BY <3>3 DEF Clean
      <4>2. AllRight(Head(fromWorker))
        BY <1>2, <3>2, <4>1
      <4>3. \A t \in Threads : AllRight(forged'[t])
        BY <1>2, <3>1, <3>3, <4>2 DEF Clean
      <4>4. ASSUME NEW i \in 1..Len(fromWorker') PROVE AllRight(fromWorker'[i])
        <5>1. i + 1 \in 1..Len(fromWorker) /\ fromWorker'[i] = fromWorker[i + 1]
          BY <1>2, <3>1, <3>2
        <5> QED
          BY <4>1, <5>1
      <4> QED
        BY <4>3, <4>4
    <3>4. forged' \in [Threads -> Seq(Result)]
      BY <1>2, <3>1, <3>2
    <3>5. fromWorker' \in Seq(Seq(Result)) /\ Len(fromWorker') <= RoomFrom
      BY <1>2, <3>1, <3>2
    <3> QED
      BY <3>3, <3>4, <3>5
  <2>2. CASE fromWorker = <<>>
    <3>1. UNCHANGED <<forged, fromWorker>>
      BY <2>2 DEF Take
    <3> QED
      BY <1>2, <3>1 DEF Clean
  <2> QED
    BY <2>1, <2>2
<1>4. \A t \in Threads : Converts(t) => Converts(t)'
  BY <1>1 DEF Converts
<1>5. TypeOK'
  BY <1>0, <1>1, <1>3, <1>4 DEF TypeOK
<1>6. WorkIsScheduled' /\ Busy'
  BY <1>1 DEF IInv, WorkIsScheduled, Busy
<1>7. ~surprised' => Clean'
  BY <1>1, <1>3 DEF IInv, Clean, Alone, Own
<1> QED
  BY <1>5, <1>6, <1>7 DEF IInv

LEMMA RunEndKeeps ==
  ASSUME IInv, NEW fits \in BOOLEAN, RunEnd(fits)
  PROVE  IInv'
<1>0. TypeOK
  BY DEF IInv
<1> DEFINE out == forged["rt"]
           by == IF rt = "end" THEN "worker" ELSE "rt"
           s == [i \in 1..Len(out) |-> [result |-> out[i], by |-> by]]
           G == [result : Result, by : Threads]
<1>1. /\ (rt = "end" \/ (rt = "convert" /\ todo["rt"] = <<>>)) /\ rt' = "idle" /\ input' = <<>>
      /\ forged' = [forged EXCEPT !["rt"] = <<>>]
      /\ UNCHANGED <<synchronous, buf, todo, step, toWorker, fromWorker, jobs,
                     worker, came, surprised>>
  BY DEF RunEnd
<1>2. /\ forged \in [Threads -> Seq(Result)] /\ out \in Seq(Result) /\ Len(out) \in Nat
      /\ given \in Seq(G) /\ \A i \in 1..Len(out) : out[i] \in Result
  <2>1. forged \in [Threads -> Seq(Result)] /\ given \in Seq(G)
    BY <1>0 DEF TypeOK
  <2>2. out \in Seq(Result)
    BY <2>1 DEF Threads
  <2> HIDE DEF out, G
  <2> QED
    BY <2>1, <2>2, LenProperties, ElementOfSeq
<1>3. step["rt"] = "copy"
  BY <1>0, <1>1 DEF TypeOK, Converts, Threads
<1>4. /\ given' \in Seq(G) /\ gone' \subseteq 1..MaxEvents
      /\ Clean => \A i \in 1..Len(given') : Right(given'[i].result)
  <2>1. CASE fits
    <3>1. given' = given \o s /\ gone' = gone
      BY <2>1 DEF RunEnd
    <3>2. by \in Threads
      BY DEF Threads
    <3>3. s \in [1..Len(out) -> G]
      <4> HIDE DEF by, out
      <4> QED
        BY <1>2, <3>2
    <3>4. s \in Seq(G) /\ Len(s) = Len(out)
      <4> HIDE DEF out, G
      <4> QED
        BY <1>2, <3>3
    <3>5. given \o s \in Seq(G)
      <4> HIDE DEF s, G
      <4> QED
        BY <1>2, <3>4, ConcatProperties
    <3>6. ASSUME Clean PROVE \A i \in 1..Len(given') : Right(given'[i].result)
      <4> DEFINE P == {g \in G : Right(g.result)}
      <4>1. \A i \in 1..Len(given) : given[i] \in P
        <5>1. \A i \in 1..Len(given) : given[i] \in G
          <6> HIDE DEF G
          <6> QED
            BY <1>2, ElementOfSeq
        <5> QED
          BY <3>6, <5>1 DEF Clean
      <4>2. \A i \in 1..Len(s) : s[i] \in P
        <5>1. AllRight(out)
          BY <3>6 DEF Clean, Threads
        <5>2. \A i \in 1..Len(out) : s[i] \in G /\ s[i].result = out[i]
          BY <3>3
        <5> HIDE DEF s, out, G
        <5> QED
          BY <3>4, <5>1, <5>2 DEF AllRight
      <4>3. \A i \in 1..Len(given \o s) : (given \o s)[i] \in P
        <5> HIDE DEF P, s, G
        <5> QED
          BY <1>2, <3>4, <4>1, <4>2, Concat
      <4> HIDE DEF s, G
      <4> QED
        BY <3>1, <4>3
    <3> QED
      BY <1>0, <3>1, <3>5, <3>6 DEF TypeOK
  <2>2. CASE ~fits
    <3>1. given' = given /\ gone' = gone \cup Ids(out)
      BY <2>2 DEF RunEnd
    <3>2. Ids(out) \subseteq 1..MaxEvents
      <4> HIDE DEF out
      <4> QED
        BY <1>2 DEF Ids, Result
    <3> QED
      BY <1>0, <1>2, <3>1, <3>2 DEF TypeOK, Clean
  <2> QED
    BY <2>1, <2>2
<1>5. \A t \in Threads : step[t] # "copy" => Converts(t)'
  BY <1>0, <1>1, <1>3 DEF TypeOK, Converts, Threads
<1>6. <<>> \in Seq(Event) /\ <<>> \in Seq(Result) /\ AllRight(<<>>)
  BY EmptySeq DEF AllRight
<1>7. forged' \in [Threads -> Seq(Result)]
      /\ (Clean => \A t \in Threads : AllRight(forged'[t]))
  BY <1>1, <1>2, <1>6 DEF Clean
<1>8. TypeOK'
  BY <1>0, <1>1, <1>4, <1>5, <1>6, <1>7 DEF TypeOK
<1>9. WorkIsScheduled' /\ Busy'
  BY <1>1 DEF IInv, WorkIsScheduled, Busy
<1>10. ~surprised' => Clean'
  BY <1>1, <1>4, <1>7 DEF IInv, Clean, Alone, Own
<1> QED
  BY <1>8, <1>9, <1>10 DEF IInv

-----------------------------------------------------------------------------
(* _work()                                                                 *)

LEMMA WorkBeginKeeps ==
  ASSUME IInv, WorkBegin
  PROVE  IInv'
<1>1. /\ worker = "idle" /\ worker' = "next" /\ jobs > 0 /\ jobs' = jobs - 1
      /\ UNCHANGED <<synchronous, convertVars, toWorker, fromWorker, rt, input,
                     came, given, gone, surprised>>
  BY DEF WorkBegin
<1>2. jobs' \in 0..MaxJobs
  BY <1>1, BoundAssumption DEF IInv, TypeOK
<1>3. \A t \in Threads : Converts(t) => Converts(t)'
  BY <1>1 DEF Converts
<1>4. TypeOK'
  BY <1>1, <1>2, <1>3 DEF IInv, TypeOK, convertVars
<1>5. WorkIsScheduled' /\ Busy'
  BY <1>1 DEF WorkIsScheduled, Busy
<1>6. ~surprised' => Clean'
  BY <1>1 DEF IInv, Clean, Alone, Own, convertVars
<1> QED
  BY <1>4, <1>5, <1>6 DEF IInv

LEMMA WorkNextKeeps ==
  ASSUME IInv, WorkNext
  PROVE  IInv'
<1>0. TypeOK
  BY DEF IInv
<1>1. /\ worker = "next"
      /\ UNCHANGED <<synchronous, buf, step, toWorker, fromWorker, jobs, rt, input,
                     came, given, gone, surprised>>
  BY DEF WorkNext
<1>2. CASE toWorker # <<>>
  <2>1. /\ worker' = "convert"
        /\ todo' = [todo EXCEPT !["worker"] = Head(toWorker)]
        /\ forged' = [forged EXCEPT !["worker"] = <<>>]
    BY <1>2 DEF WorkNext
  <2>2. /\ Head(toWorker) \in Seq(Event) /\ <<>> \in Seq(Result) /\ AllRight(<<>>)
    <3>1. toWorker \in Seq(Seq(Event))
      BY <1>0 DEF TypeOK
    <3> QED
      BY <1>2, <3>1, HeadTail, EmptySeq DEF AllRight
  <2>3. /\ todo' \in [Threads -> Seq(Event)] /\ forged' \in [Threads -> Seq(Result)]
        /\ todo'["rt"] = todo["rt"]
        /\ Clean => \A t \in Threads : AllRight(forged'[t])
    BY <1>0, <2>1, <2>2 DEF TypeOK, Clean, Threads
  <2>4. \A t \in Threads : step[t] # "copy" => t = "rt" /\ Converts(t)' /\ todo'[t] # <<>>
    BY <1>0, <1>1, <2>3 DEF TypeOK, Converts, Threads
  <2>5. TypeOK'
    BY <1>0, <1>1, <2>1, <2>3, <2>4 DEF TypeOK
  <2>6. WorkIsScheduled' /\ Busy'
    BY <1>1, <1>2, <2>1 DEF WorkIsScheduled, Busy
  <2>7. ASSUME ~surprised PROVE Clean'
    <3>1. Clean
      BY <2>7 DEF IInv
    <3>2. Alone'
      BY <1>1, <1>2, <3>1 DEF Clean, Alone
    <3>3. \A t \in Threads : Own(t)'
      BY <1>1, <2>3, <2>4, <3>1 DEF Clean, Own
    <3> QED
      BY <1>1, <2>3, <3>1, <3>2, <3>3 DEF Clean
  <2> QED
    BY <1>1, <2>5, <2>6, <2>7 DEF IInv
<1>3. CASE toWorker = <<>>
  <2>1. worker' = "idle" /\ UNCHANGED <<todo, forged>>
    BY <1>3 DEF WorkNext
  <2>2. \A t \in Threads : Converts(t) => Converts(t)'
    BY <1>1, <2>1 DEF Converts
  <2>3. TypeOK'
    BY <1>0, <1>1, <2>1, <2>2 DEF TypeOK
  <2>4. WorkIsScheduled' /\ Busy'
    BY <1>1, <1>3, <2>1 DEF WorkIsScheduled, Busy
  <2>5. ~surprised' => Clean'
    BY <1>1, <2>1 DEF IInv, Clean, Alone, Own
  <2> QED
    BY <2>3, <2>4, <2>5 DEF IInv
<1> QED
  BY <1>2, <1>3

LEMMA WorkWriteKeeps ==
  ASSUME IInv, WorkWrite
  PROVE  IInv'
<1>0. TypeOK
  BY DEF IInv
<1> DEFINE new == forged["worker"]
<1>1. /\ worker = "convert" /\ worker' = "advance" /\ todo["worker"] = <<>>
      /\ UNCHANGED <<synchronous, convertVars, toWorker, jobs, rt, input, came, given,
                     surprised>>
  BY DEF WorkWrite
<1>2. /\ fromWorker \in Seq(Seq(Result)) /\ new \in Seq(Result)
      /\ Len(fromWorker) \in Nat /\ Len(fromWorker) <= RoomFrom /\ RoomFrom \in Nat
      /\ \A i \in 1..Len(new) : new[i] \in Result
  <2>1. fromWorker \in Seq(Seq(Result)) /\ new \in Seq(Result) /\ Len(fromWorker) <= RoomFrom
    BY <1>0 DEF TypeOK, Threads
  <2> HIDE DEF new
  <2> QED
    BY <2>1, LenProperties, ElementOfSeq, RoomAssumption
<1>3. /\ fromWorker' \in Seq(Seq(Result)) /\ Len(fromWorker') <= RoomFrom
      /\ gone' \subseteq 1..MaxEvents
      /\ Clean => \A i \in 1..Len(fromWorker') : AllRight(fromWorker'[i])
  <2>0. gone \subseteq 1..MaxEvents
    BY <1>0 DEF TypeOK
  <2>1. CASE Len(fromWorker) < RoomFrom
    <3>1. gone' = gone /\ fromWorker' = IF new # <<>> THEN Append(fromWorker, new) ELSE fromWorker
      BY <2>1 DEF WorkWrite
    <3>2. CASE new # <<>>
      <4>1. Clean => AllRight(new) /\ \A i \in 1..Len(fromWorker) : AllRight(fromWorker[i])
        BY DEF Clean, Threads
      <4> HIDE DEF new
      <4>2. /\ fromWorker' \in Seq(Seq(Result)) /\ Len(fromWorker') = Len(fromWorker) + 1
            /\ \A i \in 1..Len(fromWorker) : fromWorker'[i] = fromWorker[i]
            /\ fromWorker'[Len(fromWorker) + 1] = new
        BY <1>2, <3>1, <3>2, AppendProperties
      <4>3. ASSUME Clean, NEW i \in 1..Len(fromWorker') PROVE AllRight(fromWorker'[i])
        <5>1. i \in 1..Len(fromWorker) \/ i = Len(fromWorker) + 1
          BY <1>2, <4>2
        <5> QED
          BY <4>1, <4>2, <4>3, <5>1
      <4> QED
        BY <1>2, <2>0, <2>1, <3>1, <4>2, <4>3
    <3>3. CASE new = <<>>
      BY <1>2, <2>0, <3>1, <3>3 DEF Clean
    <3> QED
      BY <3>2, <3>3
  <2>2. CASE ~(Len(fromWorker) < RoomFrom)
    <3>1. fromWorker' = fromWorker /\ gone' = gone \cup Ids(new)
      BY <2>2 DEF WorkWrite
    <3>2. Ids(new) \subseteq 1..MaxEvents
      <4> HIDE DEF new
      <4> QED
        BY <1>2 DEF Ids, Result
    <3> QED
      BY <1>2, <2>0, <3>1, <3>2 DEF Clean
  <2> QED
    BY <2>1, <2>2
<1>4. \A t \in Threads : step[t] # "copy" => Converts(t)'
  BY <1>0, <1>1 DEF TypeOK, Converts, Threads
<1>5. TypeOK'
  BY <1>0, <1>1, <1>3, <1>4 DEF TypeOK, convertVars
<1>6. WorkIsScheduled' /\ Busy'
  BY <1>1 DEF IInv, WorkIsScheduled, Busy
<1>7. ASSUME ~surprised PROVE Clean'
  <2>1. Clean
    BY <1>7 DEF IInv
  <2>2. rt # "convert"
    BY <1>1, <2>1 DEF Clean, Alone
  <2> QED
    BY <1>1, <1>3, <2>1, <2>2 DEF Clean, Alone, Own, convertVars
<1> QED
  BY <1>1, <1>5, <1>6, <1>7 DEF IInv

LEMMA WorkAdvanceKeeps ==
  ASSUME IInv, WorkAdvance
  PROVE  IInv'
<1>0. TypeOK
  BY DEF IInv
<1>1. /\ worker = "advance" /\ worker' = "next" /\ toWorker' = Tail(toWorker)
      /\ UNCHANGED <<synchronous, convertVars, fromWorker, jobs, rt, input, came,
                     given, gone, surprised>>
  BY DEF WorkAdvance
<1>2. toWorker' \in Seq(Seq(Event)) /\ Len(toWorker') <= RoomTo
  <2>1. toWorker \in Seq(Seq(Event)) /\ toWorker # <<>> /\ Len(toWorker) <= RoomTo
    BY <1>1 DEF IInv, TypeOK, Busy
  <2>2. /\ Tail(toWorker) \in Seq(Seq(Event)) /\ Len(Tail(toWorker)) = Len(toWorker) - 1
        /\ Len(toWorker) \in Nat
    BY <2>1, HeadTail
  <2> QED
    BY <1>1, <2>1, <2>2, RoomAssumption
<1>3. \A t \in Threads : Converts(t) => Converts(t)'
  BY <1>1 DEF Converts
<1>4. TypeOK'
  BY <1>0, <1>1, <1>2, <1>3 DEF TypeOK, convertVars
<1>5. WorkIsScheduled' /\ Busy'
  BY <1>1 DEF WorkIsScheduled, Busy
<1>6. ~surprised' => Clean'
  BY <1>1 DEF IInv, Clean, Alone, Own, convertVars
<1> QED
  BY <1>4, <1>5, <1>6 DEF IInv

-----------------------------------------------------------------------------
(* The theorems.                                                           *)

LEMMA Inductive == IInv /\ [Next]_vars => IInv'
<1> SUFFICES ASSUME IInv, [Next]_vars PROVE IInv'
  OBVIOUS
<1>1. CASE \E kinds \in Inputs : RunBegin(kinds)
  BY <1>1, RunBeginKeeps
<1>2. ASSUME NEW t \in Threads, Convert(t) PROVE IInv'
  BY <1>2, CopyKeeps, CodeKeeps, ForgeKeeps DEF Convert
<1>3. CASE Move
  BY <1>3, MoveKeeps
<1>4. CASE Schedule
  BY <1>4, ScheduleKeeps
<1>5. CASE Take
  BY <1>5, TakeOneKeeps
<1>6. CASE \E fits \in BOOLEAN : RunEnd(fits)
  BY <1>6, RunEndKeeps
<1>7. CASE WorkBegin
  BY <1>7, WorkBeginKeeps
<1>8. CASE WorkNext
  BY <1>8, WorkNextKeeps
<1>9. CASE WorkWrite
  BY <1>9, WorkWriteKeeps
<1>10. CASE WorkAdvance
  BY <1>10, WorkAdvanceKeeps
<1>11. CASE UNCHANGED vars
  BY <1>11 DEF vars, convertVars, IInv, TypeOK, Converts, WorkIsScheduled, Busy, Clean,
               Alone, Own
<1> QED
  BY <1>1, <1>2, <1>3, <1>4, <1>5, <1>6, <1>7, <1>8, <1>9, <1>10, <1>11
     DEF Next, RunStep, WorkStep, Threads

LEMMA Invariant == Spec => []IInv
BY InitIInv, Inductive, PTL DEF Spec

\* In every state the variables have their types, and a thread that is in the
\* middle of an event has one (eteroj_ninja.c:49-79).
THEOREM TypeCorrect == Spec => []TypeOK
<1>1. IInv => TypeOK
  BY DEF IInv
<1> QED
  BY <1>1, Invariant, PTL

\* As long as synchronous is only set while the worker is done with everything,
\* run() and the worker never meet in the buffer they share, and all that comes
\* out is the conversion of its own event (eteroj_ninja.c:238-241, 276-279,
\* 315-333).
THEOREM OwnConversionSafe == Spec => []OwnConversion
<1>1. IInv => OwnConversion
  BY DEF IInv, Clean, OwnConversion
<1> QED
  BY <1>1, Invariant, PTL

\* What run() has moved to the worker is never forgotten, though the host may
\* refuse a job (eteroj_ninja.c:329-332, 399).
THEOREM WorkScheduledSafe == Spec => []WorkIsScheduled
<1>1. IInv => WorkIsScheduled
  BY DEF IInv
<1> QED
  BY <1>1, Invariant, PTL

-----------------------------------------------------------------------------
(* The order of events.  An event takes one of two ways: through the       *)
(* worker, or by run() alone.  The places of a way are numbered from the   *)
(* host's output back; the last stands for the events that are to come.    *)

Before(S, T) == \A a \in S, b \in T : a < b
Rises(s) == \A i, j \in 1..Len(s) : i < j => s[i].id < s[j].id
ChunksRise(c) ==
  /\ \A i \in 1..Len(c) : Rises(c[i])
  /\ \A i, j \in 1..Len(c) : i < j => Before(Ids(c[i]), Ids(c[j]))

\* The chunks the worker has not begun with.
Queue == IF worker \in {"convert", "advance"} THEN Tail(toWorker) ELSE toWorker

Out(by) == {given[i].result.id : i \in {k \in 1..Len(given) : given[k].by = by}}
ToCome == {n \in Nat : n > came}

WorkerWay == << Out("worker"),
                IF rt = "end" THEN Ids(forged["rt"]) ELSE {},
                IdsOf(fromWorker),
                IF worker = "convert" THEN Ids(forged["worker"]) ELSE {},
                IF worker = "convert" THEN Ids(todo["worker"]) ELSE {},
                IdsOf(Queue),
                IF rt = "move" THEN Ids(input) ELSE {},
                ToCome >>

RunWay == << Out("rt"),
             IF rt # "end" THEN Ids(forged["rt"]) ELSE {},
             Ids(todo["rt"]),
             ToCome >>

\* On a way of n places, those ahead are earlier.
InLine(A, n) == \A j, k \in 1..n : j < k => Before(A[j], A[k])
On(A, n) == {e \in Nat : \E k \in 1..(n - 1) : e \in A[k]}

\* run() has nothing in its hands but when it should.
HandsFree ==
  /\ rt # "convert" => todo["rt"] = <<>>
  /\ rt \notin {"convert", "end"} => forged["rt"] = <<>>

Rising ==
  /\ Rises(input) /\ \A t \in Threads : Rises(todo[t]) /\ Rises(forged[t])
  /\ ChunksRise(Queue) /\ ChunksRise(fromWorker)

Shared == /\ On(WorkerWay, 8) \cup On(RunWay, 4) \cup gone = 1..came
          /\ On(WorkerWay, 8) \cap On(RunWay, 4) = {}
          /\ On(WorkerWay, 8) \cap gone = {} /\ On(RunWay, 4) \cap gone = {}

\* The inductive invariant, added to IInv.
OInv == /\ HandsFree /\ Rising /\ OutputOrdered
        /\ InLine(WorkerWay, 8) /\ InLine(RunWay, 4) /\ Shared

-----------------------------------------------------------------------------
(* Sequences of events, and of chunks of events.                           *)

LEMMA NoIds ==
  /\ Ids(<<>>) = {} /\ IdsOf(<<>>) = {} /\ Rises(<<>>) /\ ChunksRise(<<>>)
<1>1. Len(<<>>) = 0 /\ 1..0 = {}
  OBVIOUS
<1>2. Ids(<<>>) = {} /\ IdsOf(<<>>) = {}
  BY <1>1 DEF Ids, IdsOf
<1>3. Rises(<<>>) /\ ChunksRise(<<>>)
  BY <1>1 DEF Rises, ChunksRise
<1> QED
  BY <1>2, <1>3

LEMMA IdsTail ==
  ASSUME NEW S, \A x \in S : x.id \in Nat,
         NEW s \in Seq(S), s # <<>>, Rises(s)
  PROVE  /\ Head(s).id \in Ids(s) /\ Rises(Tail(s))
         /\ Ids(Tail(s)) = Ids(s) \ {Head(s).id}
         /\ Before({Head(s).id}, Ids(Tail(s)))
<1> DEFINE r == Tail(s)
<1>1. PICK n \in Nat : n = Len(s)
  BY LenProperties
<1>2. /\ n > 0 /\ Len(r) = n - 1 /\ Head(s) = s[1]
      /\ \A i \in 1..(n - 1) : r[i] = s[i + 1]
      /\ \A i \in 1..n : s[i].id \in Nat
  BY <1>1, HeadTail, ElementOfSeq
<1> HIDE DEF r
<1>3. \A i, j \in 1..n : i < j => s[i].id < s[j].id
  BY <1>1 DEF Rises
<1>4. Ids(s) = {s[i].id : i \in 1..n} /\ Ids(r) = {r[i].id : i \in 1..(n - 1)}
  BY <1>1, <1>2 DEF Ids
<1>5. \A i \in 1..(n - 1) : i + 1 \in 1..n /\ r[i].id = s[i + 1].id
  BY <1>2
<1>6. Rises(r)
  BY <1>2, <1>3, <1>5 DEF Rises
<1>7. ASSUME NEW i \in 1..(n - 1) PROVE r[i].id \in Ids(s) /\ s[1].id < r[i].id
  BY <1>2, <1>3, <1>4, <1>5
<1>8. ASSUME NEW i \in 1..n, s[i].id # s[1].id PROVE s[i].id \in Ids(r)
  <2>1. i - 1 \in 1..(n - 1) /\ (i - 1) + 1 = i
    BY <1>8
  <2> QED
    BY <1>4, <1>5, <2>1
<1>9. s[1].id \in Ids(s) /\ s[1].id \in Nat
  BY <1>2, <1>4
<1>10. Ids(r) = Ids(s) \ {s[1].id}
  <2>1. ASSUME NEW x \in Ids(r) PROVE x \in Ids(s) /\ x # s[1].id
    <3>1. PICK i \in 1..(n - 1) : x = r[i].id
      BY <1>4
    <3>2. i + 1 \in 1..n /\ x = s[i + 1].id /\ x \in Nat
      BY <1>2, <1>5, <3>1
    <3>3. x \in Ids(s) /\ s[1].id < x
      BY <1>7, <3>1
    <3> QED
      BY <1>9, <3>2, <3>3
  <2>2. ASSUME NEW x \in Ids(s), x # s[1].id PROVE x \in Ids(r)
    BY <1>4, <1>8, <2>2
  <2> QED
    BY <2>1, <2>2
<1>11. Before({s[1].id}, Ids(r))
  BY <1>4, <1>7 DEF Before
<1> QED
  BY <1>2, <1>6, <1>9, <1>10, <1>11 DEF r

LEMMA IdsJoin ==
  ASSUME NEW S, NEW s \in Seq(S), NEW r \in Seq(S),
         Rises(s), Rises(r), Before(Ids(s), Ids(r))
  PROVE  Rises(s \o r) /\ Ids(s \o r) = Ids(s) \cup Ids(r)
<1> DEFINE q == s \o r
<1>1. PICK n \in Nat : n = Len(s)
  BY LenProperties
<1>2. PICK m \in Nat : m = Len(r)
  BY LenProperties
<1>3. /\ Len(q) = n + m
      /\ \A i \in 1..(n + m) : q[i] = IF i <= n THEN s[i] ELSE r[i - n]
  BY <1>1, <1>2, ConcatProperties
<1> HIDE DEF q
<1>4. /\ \A i \in 1..n : i \in 1..(n + m) /\ q[i] = s[i]
      /\ \A i \in (n + 1)..(n + m) : i \in 1..(n + m) /\ i - n \in 1..m /\ q[i] = r[i - n]
  BY <1>3
<1>5. \A i \in 1..(n + m) : i \in 1..n \/ i \in (n + 1)..(n + m)
  OBVIOUS
<1>6. /\ Ids(s) = {s[i].id : i \in 1..n} /\ Ids(r) = {r[i].id : i \in 1..m}
      /\ Ids(q) = {q[i].id : i \in 1..(n + m)}
  BY <1>1, <1>2, <1>3 DEF Ids
<1>7. ASSUME NEW i \in 1..(n + m), NEW j \in 1..(n + m), i < j PROVE q[i].id < q[j].id
  <2>1. CASE i \in 1..n /\ j \in 1..n
    BY <1>1, <1>4, <1>7, <2>1 DEF Rises
  <2>2. CASE i \in 1..n /\ j \in (n + 1)..(n + m)
    <3>1. q[i].id \in Ids(s) /\ q[j].id \in Ids(r)
      BY <1>4, <1>6, <2>2
    <3> QED
      BY <3>1 DEF Before
  <2>3. CASE i \in (n + 1)..(n + m) /\ j \in (n + 1)..(n + m)
    <3>1. i - n \in 1..m /\ j - n \in 1..m /\ i - n < j - n
      BY <1>7, <2>3
    <3>2. r[i - n].id < r[j - n].id
      BY <1>2, <3>1 DEF Rises
    <3> QED
      BY <1>4, <2>3, <3>2
  <2> QED
    BY <1>5, <1>7, <2>1, <2>2, <2>3
<1>8. \A i \in 1..m : i + n \in (n + 1)..(n + m) /\ (i + n) - n = i
  OBVIOUS
<1>9. Ids(q) = Ids(s) \cup Ids(r)
  <2>1. ASSUME NEW x \in Ids(q) PROVE x \in Ids(s) \cup Ids(r)
    BY <1>4, <1>5, <1>6
  <2>2. ASSUME NEW x \in Ids(s) PROVE x \in Ids(q)
    BY <1>4, <1>6
  <2>3. ASSUME NEW x \in Ids(r) PROVE x \in Ids(q)
    <3>1. PICK i \in 1..m : x = r[i].id
      BY <1>6
    <3>2. i + n \in 1..(n + m) /\ q[i + n].id = x
      BY <1>4, <1>8, <3>1
    <3> QED
      BY <1>6, <3>2
  <2> QED
    BY <2>1, <2>2, <2>3
<1> QED
  BY <1>3, <1>7, <1>9 DEF Rises, q

LEMMA ChunkTail ==
  ASSUME NEW S, \A x \in S : x.id \in Nat,
         NEW c \in Seq(Seq(S)), c # <<>>, ChunksRise(c)
  PROVE  /\ Ids(Head(c)) \subseteq IdsOf(c) /\ Rises(Head(c)) /\ ChunksRise(Tail(c))
         /\ IdsOf(Tail(c)) = IdsOf(c) \ Ids(Head(c))
         /\ Before(Ids(Head(c)), IdsOf(Tail(c)))
<1> DEFINE d == Tail(c)
<1>1. PICK n \in Nat : n = Len(c)
  BY LenProperties
<1>2. /\ n > 0 /\ Len(d) = n - 1 /\ Head(c) = c[1]
      /\ \A i \in 1..(n - 1) : d[i] = c[i + 1]
  BY <1>1, HeadTail
<1> HIDE DEF d
<1>3. \A i \in 1..(n - 1) : i + 1 \in 1..n /\ d[i] = c[i + 1] /\ 1 < i + 1
  BY <1>2
<1>4. /\ \A i \in 1..n : Rises(c[i])
      /\ \A i, j \in 1..n : i < j => Before(Ids(c[i]), Ids(c[j]))
  BY <1>1 DEF ChunksRise
<1>5. /\ \A x : x \in IdsOf(c) <=> \E i \in 1..n : x \in Ids(c[i])
      /\ \A x : x \in IdsOf(d) <=> \E i \in 1..(n - 1) : x \in Ids(d[i])
  BY <1>1, <1>2 DEF IdsOf
<1>6. \A i \in 1..n : \A x \in Ids(c[i]) : x \in Nat
  <2> SUFFICES ASSUME NEW i \in 1..n, NEW x \in Ids(c[i]) PROVE x \in Nat
    OBVIOUS
  <2>1. c[i] \in Seq(S)
    BY <1>1, ElementOfSeq
  <2>2. PICK k \in 1..Len(c[i]) : x = c[i][k].id
    BY DEF Ids
  <2>3. c[i][k] \in S
    BY <2>1, <2>2, ElementOfSeq
  <2> QED
    BY <2>2, <2>3
<1>7. ChunksRise(d)
  <2>1. ASSUME NEW i \in 1..(n - 1) PROVE Rises(d[i])
    BY <1>3, <1>4
  <2>2. ASSUME NEW i \in 1..(n - 1), NEW j \in 1..(n - 1), i < j
        PROVE  Before(Ids(d[i]), Ids(d[j]))
    <3>1. i + 1 \in 1..n /\ j + 1 \in 1..n /\ i + 1 < j + 1
      BY <2>2
    <3>2. d[i] = c[i + 1] /\ d[j] = c[j + 1]
      BY <1>3
    <3> QED
      BY <1>4, <3>1, <3>2
  <2> QED
    BY <1>2, <2>1, <2>2 DEF ChunksRise
<1>8. Before(Ids(c[1]), IdsOf(d))
  <2> SUFFICES ASSUME NEW a \in Ids(c[1]), NEW b \in IdsOf(d) PROVE a < b
    BY DEF Before
  <2>1. PICK i \in 1..(n - 1) : b \in Ids(d[i])
    BY <1>5
  <2>2. i + 1 \in 1..n /\ 1 \in 1..n /\ 1 < i + 1 /\ b \in Ids(c[i + 1])
    BY <1>2, <1>3, <2>1
  <2>3. Before(Ids(c[1]), Ids(c[i + 1]))
    BY <1>4, <2>2
  <2> QED
    BY <2>2, <2>3 DEF Before
<1>9. 1 \in 1..n /\ Ids(c[1]) \subseteq IdsOf(c)
  BY <1>2, <1>5
<1>10. ASSUME NEW x \in IdsOf(d) PROVE x \in IdsOf(c) /\ x \notin Ids(c[1])
  <2>1. PICK i \in 1..(n - 1) : x \in Ids(d[i])
    BY <1>5
  <2>2. i + 1 \in 1..n /\ x \in Ids(c[i + 1])
    BY <1>3, <2>1
  <2>3. x \in IdsOf(c) /\ x \in Nat
    BY <1>5, <1>6, <2>2
  <2>4. ASSUME x \in Ids(c[1]) PROVE FALSE
    <3>1. x < x
      BY <1>8, <2>4 DEF Before
    <3> QED
      BY <2>3, <3>1
  <2> QED
    BY <2>3, <2>4
<1>11. ASSUME NEW x \in IdsOf(c), x \notin Ids(c[1]) PROVE x \in IdsOf(d)
  <2>1. PICK i \in 1..n : x \in Ids(c[i])
    BY <1>5
  <2>2. i # 1
    BY <1>11, <2>1
  <2>3. i - 1 \in 1..(n - 1) /\ (i - 1) + 1 = i
    BY <2>2
  <2>4. d[i - 1] = c[i]
    BY <1>2, <2>3
  <2> QED
    BY <1>5, <2>1, <2>3, <2>4
<1>12. IdsOf(d) = IdsOf(c) \ Ids(c[1])
  BY <1>10, <1>11
<1> QED
  BY <1>2, <1>4, <1>7, <1>8, <1>9, <1>12 DEF d

LEMMA ChunkAppend ==
  ASSUME NEW S, NEW c \in Seq(Seq(S)), NEW s \in Seq(S),
         ChunksRise(c), Rises(s), Before(IdsOf(c), Ids(s))
  PROVE  ChunksRise(Append(c, s)) /\ IdsOf(Append(c, s)) = IdsOf(c) \cup Ids(s)
<1> DEFINE d == Append(c, s)
<1>1. PICK n \in Nat : n = Len(c)
  BY LenProperties
<1>2. /\ Len(d) = n + 1 /\ d[n + 1] = s
      /\ \A i \in 1..n : d[i] = c[i]
  BY <1>1, AppendProperties
<1> HIDE DEF d
<1>3. \A i \in 1..(n + 1) : i \in 1..n \/ i = n + 1
  OBVIOUS
<1>4. /\ \A i \in 1..n : Rises(c[i])
      /\ \A i, j \in 1..n : i < j => Before(Ids(c[i]), Ids(c[j]))
  BY <1>1 DEF ChunksRise
<1>5. /\ \A x : x \in IdsOf(c) <=> \E i \in 1..n : x \in Ids(c[i])
      /\ \A x : x \in IdsOf(d) <=> \E i \in 1..(n + 1) : x \in Ids(d[i])
  BY <1>1, <1>2 DEF IdsOf
<1>6. ASSUME NEW i \in 1..(n + 1) PROVE Rises(d[i])
  BY <1>2, <1>3, <1>4
<1>7. ASSUME NEW i \in 1..(n + 1), NEW j \in 1..(n + 1), i < j
      PROVE  Before(Ids(d[i]), Ids(d[j]))
  <2>1. i \in 1..n
    BY <1>7
  <2>2. CASE j \in 1..n
    BY <1>2, <1>4, <1>7, <2>1, <2>2
  <2>3. CASE j = n + 1
    <3>1. Ids(d[i]) \subseteq IdsOf(c) /\ d[j] = s
      BY <1>2, <1>5, <2>1, <2>3
    <3> QED
      BY <3>1 DEF Before
  <2> QED
    BY <1>3, <2>2, <2>3
<1>8. ASSUME NEW x PROVE x \in IdsOf(d) <=> x \in IdsOf(c) \/ x \in Ids(s)
  <2>1. ASSUME x \in IdsOf(d) PROVE x \in IdsOf(c) \/ x \in Ids(s)
    BY <1>2, <1>3, <1>5, <2>1
  <2>2. ASSUME x \in IdsOf(c) PROVE x \in IdsOf(d)
    <3>1. PICK i \in 1..n : x \in Ids(c[i])
      BY <1>5, <2>2
    <3>2. i \in 1..(n + 1) /\ x \in Ids(d[i])
      BY <1>2, <3>1
    <3> QED
      BY <1>5, <3>2
  <2>3. ASSUME x \in Ids(s) PROVE x \in IdsOf(d)
    <3>1. n + 1 \in 1..(n + 1) /\ x \in Ids(d[n + 1])
      BY <1>2, <2>3
    <3> QED
      BY <1>5, <3>1
  <2> QED
    BY <2>1, <2>2, <2>3
<1> QED
  BY <1>2, <1>6, <1>7, <1>8 DEF ChunksRise, d

-----------------------------------------------------------------------------
(* Ways.                                                                   *)

\* Those ahead at place s, X, go on to the next place ...
Pass(A, B, n, s, X) ==
  /\ X \subseteq A[s] /\ Before(X, B[s])
  /\ B[s] = A[s] \ X /\ B[s - 1] = A[s - 1] \cup X
  /\ \A k \in 1..n : k # s /\ k # s - 1 => B[k] = A[k]

\* ... or are lost there.
Lose(A, B, n, s, X) ==
  /\ X \subseteq A[s] /\ B[s] = A[s] \ X
  /\ \A k \in 1..n : k # s => B[k] = A[k]

LEMMA PassInLine ==
  ASSUME NEW A, NEW B, NEW n \in Nat, NEW s \in 2..n, NEW X,
         InLine(A, n), Pass(A, B, n, s, X)
  PROVE  /\ InLine(B, n)
         /\ s < n => On(B, n) = On(A, n)
         /\ s = n /\ X \subseteq Nat => On(B, n) = On(A, n) \cup X
<1>0. s - 1 \in 1..(n - 1) /\ s \in 1..n
  OBVIOUS
<1>1. /\ X \subseteq A[s] /\ \A a \in X, b \in B[s] : a < b
      /\ B[s] = A[s] \ X /\ B[s - 1] = A[s - 1] \cup X
      /\ \A k \in 1..n : k # s /\ k # s - 1 => B[k] = A[k]
  BY DEF Pass, Before
<1>2. ASSUME NEW j \in 1..n, NEW k \in 1..n, j < k, NEW a \in A[j], NEW b \in A[k]
      PROVE  a < b
  BY <1>2 DEF InLine, Before
<1>3. ASSUME NEW j \in 1..n, NEW k \in 1..n, j < k, NEW a \in B[j], NEW b \in B[k]
      PROVE  a < b
  <2>1. a \in A[j] \/ (j = s - 1 /\ a \in X)
    BY <1>1
  <2>2. b \in A[k] \/ (k = s - 1 /\ b \in X)
    BY <1>1
  <2>3. CASE a \in A[j] /\ b \in A[k]
    BY <1>2, <1>3, <2>3
  <2>4. CASE k = s - 1 /\ b \in X
    <3>1. b \in A[s] /\ j < s /\ a \in A[j]
      BY <1>0, <1>1, <1>3, <2>1, <2>4
    <3> QED
      BY <1>0, <1>2, <3>1
  <2>5. CASE j = s - 1 /\ a \in X
    <3>1. k = s \/ k > s
      BY <1>3, <2>5
    <3>2. CASE k = s
      BY <1>1, <2>5, <3>2
    <3>3. CASE k > s
      <4>1. b \in A[k] /\ a \in A[s] /\ s < k
        BY <1>1, <2>2, <2>5, <3>3
      <4> QED
        BY <1>0, <1>2, <4>1
    <3> QED
      BY <3>1, <3>2, <3>3
  <2> QED
    BY <2>1, <2>2, <2>3, <2>4, <2>5
<1>4. InLine(B, n)
  BY <1>3 DEF InLine, Before
<1>5. ASSUME NEW x \in Nat, NEW k \in 1..(n - 1), x \in B[k]
      PROVE  x \in X \/ x \in A[k]
  BY <1>1, <1>5
<1>6. ASSUME NEW x \in Nat, NEW k \in 1..(n - 1), x \in A[k]
      PROVE  \E i \in 1..(n - 1) : x \in B[i]
  <2>1. k \in 1..n
    OBVIOUS
  <2>2. CASE k # s
    BY <1>1, <1>6, <2>1, <2>2
  <2>3. CASE k = s
    BY <1>0, <1>1, <1>6, <2>3
  <2> QED
    BY <2>2, <2>3
<1>7. \A x \in X : x \in B[s - 1]
  BY <1>1
<1>8. ASSUME s < n PROVE On(B, n) = On(A, n)
  <2>1. s \in 1..(n - 1)
    BY <1>8
  <2> QED
    BY <1>1, <1>5, <1>6, <2>1 DEF On
<1>9. ASSUME X \subseteq Nat PROVE On(B, n) \subseteq On(A, n) \cup X /\ On(A, n) \cup X \subseteq On(B, n)
  BY <1>0, <1>5, <1>6, <1>7, <1>9 DEF On
<1> QED
  BY <1>4, <1>8, <1>9

\* Inside a way, none is lost or comes in.
LEMMA PassInside ==
  ASSUME NEW A, NEW B, NEW n \in Nat, NEW s \in 2..(n - 1), NEW X,
         InLine(A, n), Pass(A, B, n, s, X)
  PROVE  InLine(B, n) /\ On(B, n) = On(A, n)
<1>1. s \in 2..n /\ s < n
  OBVIOUS
<1> QED
  BY <1>1, PassInLine

LEMMA LoseInLine ==
  ASSUME NEW A, NEW B, NEW n \in Nat, NEW s \in 1..(n - 1), NEW X,
         \A k \in 1..n : A[k] \subseteq Nat,
         InLine(A, n), Lose(A, B, n, s, X)
  PROVE  InLine(B, n) /\ On(B, n) = On(A, n) \ X /\ X \subseteq On(A, n)
<1>0. s \in 1..n
  OBVIOUS
<1>1. /\ X \subseteq A[s] /\ B[s] = A[s] \ X
      /\ \A k \in 1..n : k # s => B[k] = A[k]
  BY DEF Lose
<1>2. \A k \in 1..n : B[k] \subseteq A[k]
  BY <1>0, <1>1
<1>3. InLine(B, n)
  BY <1>2 DEF InLine, Before
<1>4. ASSUME NEW k \in 1..(n - 1), NEW x \in A[k], k # s PROVE x \notin X
  <2>1. k \in 1..n /\ (k < s \/ s < k)
    BY <1>4
  <2>2. SUFFICES ASSUME x \in A[s] PROVE FALSE
    BY <1>1
  <2>3. x \in Nat
    BY <2>1
  <2>4. x < x
    BY <1>0, <2>1, <2>2 DEF InLine, Before
  <2> QED
    BY <2>3, <2>4
<1>5. ASSUME NEW x \in Nat, NEW k \in 1..(n - 1), x \in B[k]
      PROVE  x \in A[k] /\ x \notin X
  <2>1. k \in 1..n
    OBVIOUS
  <2> QED
    BY <1>1, <1>2, <1>4, <1>5, <2>1
<1>6. ASSUME NEW x \in Nat, NEW k \in 1..(n - 1), x \in A[k], x \notin X
      PROVE  x \in B[k]
  <2>1. k \in 1..n
    OBVIOUS
  <2> QED
    BY <1>1, <1>6, <2>1
<1>7. \A x \in X : x \in Nat /\ x \in A[s]
  BY <1>0, <1>1
<1> QED
  BY <1>3, <1>5, <1>6, <1>7 DEF On

LEMMA IdsNat ==
  ASSUME NEW S, \A x \in S : x.id \in Nat
  PROVE  /\ \A s \in Seq(S) : Ids(s) \subseteq Nat
         /\ \A c \in Seq(Seq(S)) : IdsOf(c) \subseteq Nat
<1>1. ASSUME NEW s \in Seq(S), NEW x \in Ids(s) PROVE x \in Nat
  <2>1. PICK k \in 1..Len(s) : x = s[k].id
    BY DEF Ids
  <2>2. s[k] \in S
    BY <2>1, ElementOfSeq
  <2> QED
    BY <2>1, <2>2
<1>2. ASSUME NEW c \in Seq(Seq(S)), NEW x \in IdsOf(c) PROVE x \in Nat
  <2>1. PICK k \in 1..Len(c) : x \in Ids(c[k])
    BY DEF IdsOf
  <2>2. c[k] \in Seq(S)
    BY <2>1, ElementOfSeq
  <2> QED
    BY <1>1, <2>1, <2>2
<1> QED
  BY <1>1, <1>2

LEMMA EventIds == (\A e \in Event : e.id \in Nat) /\ (\A r \in Result : r.id \in Nat)
BY BoundAssumption DEF Event, Result

LEMMA Eight == \A k \in 1..8 : k = 1 \/ k = 2 \/ k = 3 \/ k = 4 \/ k = 5 \/ k = 6 \/ k = 7 \/ k = 8
OBVIOUS

LEMMA Four == \A k \in 1..4 : k = 1 \/ k = 2 \/ k = 3 \/ k = 4
OBVIOUS

LEMMA WorkerPlaces ==
  /\ WorkerWay[1] = Out("worker")
  /\ WorkerWay[2] = IF rt = "end" THEN Ids(forged["rt"]) ELSE {}
  /\ WorkerWay[3] = IdsOf(fromWorker)
  /\ WorkerWay[4] = IF worker = "convert" THEN Ids(forged["worker"]) ELSE {}
  /\ WorkerWay[5] = IF worker = "convert" THEN Ids(todo["worker"]) ELSE {}
  /\ WorkerWay[6] = IdsOf(Queue)
  /\ WorkerWay[7] = IF rt = "move" THEN Ids(input) ELSE {}
  /\ WorkerWay[8] = ToCome
BY DEF WorkerWay

LEMMA WorkerPlacesNext ==
  /\ WorkerWay'[1] = Out("worker")'
  /\ WorkerWay'[2] = IF rt' = "end" THEN Ids(forged'["rt"]) ELSE {}
  /\ WorkerWay'[3] = IdsOf(fromWorker')
  /\ WorkerWay'[4] = IF worker' = "convert" THEN Ids(forged'["worker"]) ELSE {}
  /\ WorkerWay'[5] = IF worker' = "convert" THEN Ids(todo'["worker"]) ELSE {}
  /\ WorkerWay'[6] = IdsOf(Queue')
  /\ WorkerWay'[7] = IF rt' = "move" THEN Ids(input') ELSE {}
  /\ WorkerWay'[8] = ToCome'
BY DEF WorkerWay

LEMMA RunPlaces ==
  /\ RunWay[1] = Out("rt") /\ RunWay[3] = Ids(todo["rt"]) /\ RunWay[4] = ToCome
  /\ RunWay[2] = IF rt # "end" THEN Ids(forged["rt"]) ELSE {}
  /\ RunWay'[1] = Out("rt")' /\ RunWay'[3] = Ids(todo'["rt"]) /\ RunWay'[4] = ToCome'
  /\ RunWay'[2] = IF rt' # "end" THEN Ids(forged'["rt"]) ELSE {}
BY DEF RunWay

\* All places hold numbers of events.
LEMMA PlacesNat ==
  ASSUME IInv
  PROVE  /\ \A k \in 1..8 : WorkerWay[k] \subseteq Nat
         /\ \A k \in 1..4 : RunWay[k] \subseteq Nat
         /\ Queue \in Seq(Seq(Event))
<1>1. TypeOK
  BY DEF IInv
<1>2. /\ forged["rt"] \in Seq(Result) /\ forged["worker"] \in Seq(Result)
      /\ todo["rt"] \in Seq(Event) /\ todo["worker"] \in Seq(Event)
      /\ input \in Seq(Event) /\ fromWorker \in Seq(Seq(Result))
  BY <1>1 DEF TypeOK, Threads
<1>3. Queue \in Seq(Seq(Event))
  <2>1. toWorker \in Seq(Seq(Event))
    BY <1>1 DEF TypeOK
  <2>2. CASE worker \in {"convert", "advance"}
    <3>1. toWorker # <<>>
      BY <2>2 DEF IInv, Busy
    <3> QED
      BY <2>1, <2>2, <3>1, HeadTail DEF Queue
  <2>3. CASE worker \notin {"convert", "advance"}
    BY <2>1, <2>3 DEF Queue
  <2> QED
    BY <2>2, <2>3
<1>4. /\ Ids(forged["rt"]) \subseteq Nat /\ Ids(forged["worker"]) \subseteq Nat
      /\ Ids(todo["rt"]) \subseteq Nat /\ Ids(todo["worker"]) \subseteq Nat
      /\ Ids(input) \subseteq Nat /\ IdsOf(fromWorker) \subseteq Nat
      /\ IdsOf(Queue) \subseteq Nat
  BY <1>2, <1>3, EventIds, IdsNat
<1>5. ASSUME NEW by PROVE Out(by) \subseteq Nat
  <2>1. \A i \in 1..Len(given) : given[i].result.id \in Nat
    <3>1. \A i \in 1..Len(given) : given[i] \in [result : Result, by : Threads]
      <4>1. given \in Seq([result : Result, by : Threads])
        BY <1>1 DEF TypeOK
      <4> QED
        BY <4>1, ElementOfSeq
    <3> QED
      BY <3>1, EventIds
  <2> QED
    BY <2>1 DEF Out
<1>6. ToCome \subseteq Nat
  BY DEF ToCome
<1>7. ASSUME NEW k \in 1..8 PROVE WorkerWay[k] \subseteq Nat
  BY <1>4, <1>5, <1>6, WorkerPlaces, Eight
<1>8. ASSUME NEW k \in 1..4 PROVE RunWay[k] \subseteq Nat
  BY <1>4, <1>5, <1>6, RunPlaces, Four
<1> QED
  BY <1>3, <1>7, <1>8

LEMMA WorkerPasses ==
  ASSUME IInv, OInv, NEW s \in 2..7, NEW X, Pass(WorkerWay, WorkerWay', 8, s, X),
         RunWay' = RunWay, gone' = gone, came' = came,
         HandsFree', Rising', OutputOrdered'
  PROVE  OInv'
<1>1. InLine(WorkerWay', 8) /\ On(WorkerWay', 8) = On(WorkerWay, 8)
  <2>1. s \in 2..(8 - 1) /\ 8 \in Nat
    OBVIOUS
  <2> QED
    BY <2>1, PassInside DEF OInv
<1>2. InLine(RunWay', 4) /\ On(RunWay', 4) = On(RunWay, 4)
  BY DEF OInv
<1>3. On(WorkerWay, 8)' = On(WorkerWay', 8) /\ On(RunWay, 4)' = On(RunWay', 4)
      /\ InLine(WorkerWay, 8)' = InLine(WorkerWay', 8) /\ InLine(RunWay, 4)' = InLine(RunWay', 4)
  BY DEF On, InLine, Before
<1> QED
  BY <1>1, <1>2, <1>3 DEF OInv, Shared

LEMMA WorkerLoses ==
  ASSUME IInv, OInv, NEW s \in 1..7, NEW X, Lose(WorkerWay, WorkerWay', 8, s, X),
         RunWay' = RunWay, gone' = gone \cup X, came' = came,
         HandsFree', Rising', OutputOrdered'
  PROVE  OInv'
<1>1. /\ InLine(WorkerWay', 8) /\ On(WorkerWay', 8) = On(WorkerWay, 8) \ X
      /\ X \subseteq On(WorkerWay, 8)
  <2>1. s \in 1..(8 - 1) /\ 8 \in Nat
    OBVIOUS
  <2> QED
    BY <2>1, LoseInLine, PlacesNat DEF OInv
<1>2. InLine(RunWay', 4) /\ On(RunWay', 4) = On(RunWay, 4)
  BY DEF OInv
<1>3. On(WorkerWay, 8)' = On(WorkerWay', 8) /\ On(RunWay, 4)' = On(RunWay', 4)
      /\ InLine(WorkerWay, 8)' = InLine(WorkerWay', 8) /\ InLine(RunWay, 4)' = InLine(RunWay', 4)
  BY DEF On, InLine, Before
<1>4. Shared'
  BY <1>1, <1>2, <1>3 DEF OInv, Shared
<1> QED
  BY <1>1, <1>2, <1>3, <1>4 DEF OInv

LEMMA RunPasses ==
  ASSUME IInv, OInv, NEW s \in 2..3, NEW X, Pass(RunWay, RunWay', 4, s, X),
         WorkerWay' = WorkerWay, gone' = gone, came' = came,
         HandsFree', Rising', OutputOrdered'
  PROVE  OInv'
<1>1. InLine(RunWay', 4) /\ On(RunWay', 4) = On(RunWay, 4)
  <2>1. s \in 2..(4 - 1) /\ 4 \in Nat
    OBVIOUS
  <2> QED
    BY <2>1, PassInside DEF OInv
<1>2. InLine(WorkerWay', 8) /\ On(WorkerWay', 8) = On(WorkerWay, 8)
  BY DEF OInv
<1>3. On(WorkerWay, 8)' = On(WorkerWay', 8) /\ On(RunWay, 4)' = On(RunWay', 4)
      /\ InLine(WorkerWay, 8)' = InLine(WorkerWay', 8) /\ InLine(RunWay, 4)' = InLine(RunWay', 4)
  BY DEF On, InLine, Before
<1> QED
  BY <1>1, <1>2, <1>3 DEF OInv, Shared

LEMMA RunLoses ==
  ASSUME IInv, OInv, NEW s \in 1..3, NEW X, Lose(RunWay, RunWay', 4, s, X),
         WorkerWay' = WorkerWay, gone' = gone \cup X, came' = came,
         HandsFree', Rising', OutputOrdered'
  PROVE  OInv'
<1>1. /\ InLine(RunWay', 4) /\ On(RunWay', 4) = On(RunWay, 4) \ X
      /\ X \subseteq On(RunWay, 4)
  <2>1. s \in 1..(4 - 1) /\ 4 \in Nat
    OBVIOUS
  <2> QED
    BY <2>1, LoseInLine, PlacesNat DEF OInv
<1>2. InLine(WorkerWay', 8) /\ On(WorkerWay', 8) = On(WorkerWay, 8)
  BY DEF OInv
<1>3. On(WorkerWay, 8)' = On(WorkerWay', 8) /\ On(RunWay, 4)' = On(RunWay', 4)
      /\ InLine(WorkerWay, 8)' = InLine(WorkerWay', 8) /\ InLine(RunWay, 4)' = InLine(RunWay', 4)
  BY DEF On, InLine, Before
<1>4. Shared'
  BY <1>1, <1>2, <1>3 DEF OInv, Shared
<1> QED
  BY <1>1, <1>2, <1>3, <1>4 DEF OInv

\* Where events stay where they are, so do their places.
LEMMA SameWays ==
  ASSUME OInv, WorkerWay' = WorkerWay, RunWay' = RunWay, gone' = gone, came' = came,
         HandsFree', Rising', OutputOrdered'
  PROVE  OInv'
<1>1. On(WorkerWay, 8)' = On(WorkerWay', 8) /\ On(RunWay, 4)' = On(RunWay', 4)
      /\ InLine(WorkerWay, 8)' = InLine(WorkerWay', 8) /\ InLine(RunWay, 4)' = InLine(RunWay', 4)
  BY DEF On, InLine, Before
<1> QED
  BY <1>1 DEF OInv, Shared

-----------------------------------------------------------------------------
(* _convert_seq: the first event goes on to what was forged, or is lost.   *)

\* The places of the thread that converts.
LEMMA ConvertPlaces ==
  ASSUME IInv, OInv, NEW t \in Threads, Converts(t)
  PROVE  Before(Ids(forged[t]), Ids(todo[t]))
<1>1. CASE t = "worker"
  <2>1. worker = "convert"
    BY <1>1 DEF Converts
  <2>2. Before(WorkerWay[4], WorkerWay[5])
    <3>1. 4 \in 1..8 /\ 5 \in 1..8 /\ 4 < 5
      OBVIOUS
    <3> QED
      BY <3>1 DEF OInv, InLine
  <2> QED
    BY <1>1, <2>1, <2>2, WorkerPlaces
<1>2. CASE t = "rt"
  <2>1. rt = "convert"
    BY <1>2 DEF Converts
  <2>2. Before(RunWay[2], RunWay[3])
    <3>1. 2 \in 1..4 /\ 3 \in 1..4 /\ 2 < 3
      OBVIOUS
    <3> QED
      BY <3>1 DEF OInv, InLine
  <2> QED
    BY <1>2, <2>1, <2>2, RunPlaces
<1> QED
  BY <1>1, <1>2 DEF Threads

LEMMA LeaveMoves ==
  ASSUME IInv, OInv, NEW t \in Threads, Converts(t), todo[t] # <<>>,
         NEW results \in Seq(Result), Leave(t, results),
         Rises(results), Ids(results) \subseteq {Head(todo[t]).id}
  PROVE  /\ \A u \in Threads : Rises(todo'[u]) /\ Rises(forged'[u])
         /\ \A u \in Threads : u # t => todo'[u] = todo[u] /\ forged'[u] = forged[u]
         /\ Head(todo[t]).id \in Ids(todo[t])
         /\ Ids(todo'[t]) = Ids(todo[t]) \ {Head(todo[t]).id}
         /\ Before({Head(todo[t]).id}, Ids(todo'[t]))
         /\ Ids(forged'[t]) = Ids(forged[t]) \cup Ids(results)
<1>1. todo \in [Threads -> Seq(Event)] /\ forged \in [Threads -> Seq(Result)]
  BY DEF IInv, TypeOK
<1>2. todo' = [todo EXCEPT ![t] = Tail(todo[t])] /\ forged' = [forged EXCEPT ![t] = forged[t] \o results]
  BY DEF Leave
<1>3. /\ todo'[t] = Tail(todo[t]) /\ forged'[t] = forged[t] \o results
      /\ \A u \in Threads : u # t => todo'[u] = todo[u] /\ forged'[u] = forged[u]
  BY <1>1, <1>2
<1>4. \A u \in Threads : Rises(todo[u]) /\ Rises(forged[u])
  BY DEF OInv, Rising
<1>5. /\ Head(todo[t]).id \in Ids(todo[t]) /\ Rises(Tail(todo[t]))
      /\ Ids(Tail(todo[t])) = Ids(todo[t]) \ {Head(todo[t]).id}
      /\ Before({Head(todo[t]).id}, Ids(Tail(todo[t])))
  <2>1. todo[t] \in Seq(Event) /\ Rises(todo[t])
    BY <1>1, <1>4
  <2> QED
    BY <2>1, IdsTail, EventIds
<1>6. Before(Ids(forged[t]), Ids(results))
  BY <1>5, ConvertPlaces DEF Before
<1>7. Rises(forged[t] \o results) /\ Ids(forged[t] \o results) = Ids(forged[t]) \cup Ids(results)
  <2>1. forged[t] \in Seq(Result) /\ Rises(forged[t])
    BY <1>1, <1>4
  <2> QED
    BY <1>6, <2>1, IdsJoin
<1> QED
  BY <1>3, <1>4, <1>5, <1>7

\* Neither the ways nor anything else is concerned but for the thread's places.
LEMMA LeaveKeepsOrder ==
  ASSUME IInv, OInv, NEW t \in Threads, Converts(t), todo[t] # <<>>,
         NEW results \in Seq(Result), Leave(t, results), Rises(results),
         \/ Ids(results) = {} /\ gone' = gone \cup {Head(todo[t]).id}
         \/ Ids(results) = {Head(todo[t]).id} /\ gone' = gone,
         UNCHANGED <<toWorker, fromWorker, rt, input, worker, came, given>>
  PROVE  OInv'
<1> DEFINE x == Head(todo[t]).id
<1>1. /\ \A u \in Threads : Rises(todo'[u]) /\ Rises(forged'[u])
      /\ \A u \in Threads : u # t => todo'[u] = todo[u] /\ forged'[u] = forged[u]
      /\ x \in Ids(todo[t]) /\ Ids(todo'[t]) = Ids(todo[t]) \ {x}
      /\ Before({x}, Ids(todo'[t])) /\ Ids(forged'[t]) = Ids(forged[t]) \cup Ids(results)
  BY LeaveMoves
<1>2. \/ Ids(results) = {} /\ gone' = gone \cup {x}
      \/ Ids(results) = {x} /\ gone' = gone
  OBVIOUS
<1> HIDE DEF x
<1>3. Queue' = Queue /\ ToCome' = ToCome /\ \A by : Out(by)' = Out(by)
  BY DEF Queue, ToCome, Out
<1>4. Rising'
  BY <1>1, <1>3 DEF OInv, Rising, ChunksRise, Before
<1>5. OutputOrdered'
  BY DEF OInv, OutputOrdered
<1>6. CASE t = "worker"
  <2>1. worker = "convert" /\ todo'["rt"] = todo["rt"] /\ forged'["rt"] = forged["rt"]
    BY <1>1, <1>6 DEF Converts, Threads
  <2>2. RunWay' = RunWay
    BY <1>3, <2>1 DEF RunWay
  <2>3. HandsFree'
    BY <2>1 DEF OInv, HandsFree
  <2>4. /\ \A k \in 1..8 : k # 5 /\ k # 4 => WorkerWay'[k] = WorkerWay[k]
        /\ WorkerWay[5] = Ids(todo[t]) /\ WorkerWay'[5] = WorkerWay[5] \ {x}
        /\ WorkerWay'[4] = WorkerWay[4] \cup Ids(results)
    BY <1>1, <1>3, <1>6, <2>1, WorkerPlaces, WorkerPlacesNext, Eight
  <2>5. CASE Ids(results) = {} /\ gone' = gone \cup {x}
    <3>1. Lose(WorkerWay, WorkerWay', 8, 5, {x})
      BY <1>1, <2>4, <2>5 DEF Lose
    <3> QED
      BY <1>4, <1>5, <2>2, <2>3, <2>5, <3>1, WorkerLoses
  <2>6. CASE Ids(results) = {x} /\ gone' = gone
    <3>1. Pass(WorkerWay, WorkerWay', 8, 5, {x})
      <4>1. Before({x}, WorkerWay'[5])
        BY <1>1, <2>4
      <4> QED
        BY <1>1, <2>4, <2>6, <4>1 DEF Pass
    <3> QED
      BY <1>4, <1>5, <2>2, <2>3, <2>6, <3>1, WorkerPasses
  <2> QED
    BY <1>2, <2>5, <2>6
<1>7. CASE t = "rt"
  <2>1. /\ rt = "convert" /\ todo'["worker"] = todo["worker"]
        /\ forged'["worker"] = forged["worker"]
    BY <1>1, <1>7 DEF Converts, Threads
  <2>2. WorkerWay' = WorkerWay
    BY <1>3, <2>1 DEF WorkerWay
  <2>3. HandsFree'
    BY <2>1 DEF OInv, HandsFree
  <2>4. /\ \A k \in 1..4 : k # 3 /\ k # 2 => RunWay'[k] = RunWay[k]
        /\ RunWay[3] = Ids(todo[t]) /\ RunWay'[3] = RunWay[3] \ {x}
        /\ RunWay'[2] = RunWay[2] \cup Ids(results)
    BY <1>1, <1>3, <1>7, <2>1, RunPlaces, Four
  <2>5. CASE Ids(results) = {} /\ gone' = gone \cup {x}
    <3>1. Lose(RunWay, RunWay', 4, 3, {x})
      BY <1>1, <2>4, <2>5 DEF Lose
    <3> QED
      BY <1>4, <1>5, <2>2, <2>3, <2>5, <3>1, RunLoses
  <2>6. CASE Ids(results) = {x} /\ gone' = gone
    <3>1. Pass(RunWay, RunWay', 4, 3, {x})
      <4>1. Before({x}, RunWay'[3])
        BY <1>1, <2>4
      <4> QED
        BY <1>1, <2>4, <2>6, <4>1 DEF Pass
    <3> QED
      BY <1>4, <1>5, <2>2, <2>3, <2>6, <3>1, RunPasses
  <2> QED
    BY <1>2, <2>5, <2>6
<1> QED
  BY <1>6, <1>7 DEF Threads

\* Where neither the queues nor what is in hand changes, nothing moves.
LEMMA NothingMoves ==
  ASSUME OInv,
         UNCHANGED <<todo, forged, toWorker, fromWorker, rt, input, worker, came, given, gone>>
  PROVE  OInv'
<1>1. Queue' = Queue /\ ToCome' = ToCome /\ \A by : Out(by)' = Out(by)
  BY DEF Queue, ToCome, Out
<1>2. WorkerWay' = WorkerWay /\ RunWay' = RunWay
  BY <1>1 DEF WorkerWay, RunWay
<1>3. HandsFree' /\ Rising' /\ OutputOrdered'
  BY <1>1 DEF OInv, HandsFree, Rising, ChunksRise, Before, OutputOrdered
<1> QED
  BY <1>2, <1>3, SameWays

LEMMA ConvertKeepsOrder ==
  ASSUME IInv, OInv, NEW t \in Threads, Convert(t)
  PROVE  OInv'
<1> DEFINE e == Head(todo[t])
<1>0. Converts(t) /\ UNCHANGED <<toWorker, fromWorker, rt, input, worker, came, given>>
  BY DEF Convert, Copy, Code, Forge
<1>1. todo[t] # <<>>
  BY DEF IInv, TypeOK, Convert, Copy, Code, Forge
<1>2. <<>> \in Seq(Result)
  BY EmptySeq
<1>3. ASSUME Leave(t, <<>>), gone' = gone \cup {e.id} PROVE OInv'
  BY <1>0, <1>1, <1>2, <1>3, NoIds, LeaveKeepsOrder
<1>4. CASE Copy(t)
  <2>1. CASE e.kind = "osc"
    BY <1>3, <1>4, <2>1 DEF Copy
  <2>2. CASE e.kind # "osc"
    <3>1. UNCHANGED <<todo, forged, gone>>
      BY <1>4, <2>2 DEF Copy
    <3> QED
      BY <1>0, <3>1, NothingMoves
  <2> QED
    BY <2>1, <2>2
<1>5. CASE Code(t)
  <2>1. CASE e.kind = "long"
    BY <1>3, <1>5, <2>1 DEF Code
  <2>2. CASE e.kind # "long"
    <3>1. UNCHANGED <<todo, forged, gone>>
      BY <1>5, <2>2 DEF Code
    <3> QED
      BY <1>0, <3>1, NothingMoves
  <2> QED
    BY <2>1, <2>2
<1>6. CASE Forge(t)
  <2> DEFINE r == [id |-> e.id, want |-> Wanted(e), got |-> buf]
  <2>1. Leave(t, <<r>>) /\ gone' = gone
    BY <1>6 DEF Forge
  <2>2. r \in Result
    <3>1. todo[t] \in Seq(Event)
      BY DEF IInv, TypeOK
    <3>2. e \in Event
      BY <1>1, <3>1, HeadTail
    <3>3. buf \in [id : 0..MaxEvents, form : Form] /\ Wanted(e) \in Form
      BY DEF IInv, TypeOK, Wanted, Form
    <3> HIDE DEF e
    <3> QED
      BY <3>2, <3>3 DEF Event, Result
  <2>3. r.id = e.id
    OBVIOUS
  <2> HIDE DEF r
  <2>4. <<r>> \in Seq(Result) /\ Len(<<r>>) = 1 /\ <<r>>[1] = r
    BY <2>2
  <2>5. Rises(<<r>>) /\ Ids(<<r>>) = {e.id}
    <3> HIDE DEF e
    <3> QED
      BY <2>3, <2>4 DEF Rises, Ids
  <2> QED
    BY <1>0, <1>1, <2>1, <2>4, <2>5, LeaveKeepsOrder
<1> QED
  BY <1>4, <1>5, <1>6 DEF Convert

-----------------------------------------------------------------------------
(* run()                                                                   *)

\* What comes in is behind everything that has come before.
LEMMA RunBeginKeepsOrder ==
  ASSUME IInv, OInv, NEW kinds \in Inputs, RunBegin(kinds)
  PROVE  OInv'
<1> DEFINE X == Ids(input')
<1>1. /\ rt = "idle" /\ came' = came + Len(kinds)
      /\ input' = [i \in 1..Len(kinds) |-> [id |-> came + i, kind |-> kinds[i]]]
      /\ UNCHANGED <<forged, toWorker, fromWorker, worker, given, gone>>
  BY DEF RunBegin
<1>2. PICK n \in Nat : n = Len(kinds)
  BY InputsAssumption, LenProperties
<1>3. came \in Nat
  BY BoundAssumption DEF IInv, TypeOK
<1>4. /\ Len(input') = n /\ \A i \in 1..n : input'[i].id = came + i
      /\ came' = came + n
  BY <1>1, <1>2
<1>5. Rises(input')
  BY <1>3, <1>4 DEF Rises
<1>6. X = (came + 1)..came'
  <2>1. X = {input'[i].id : i \in 1..n}
    BY <1>4 DEF Ids
  <2>2. ASSUME NEW x \in (came + 1)..came' PROVE x - came \in 1..n /\ came + (x - came) = x
    BY <1>3, <1>4
  <2>3. ASSUME NEW i \in 1..n PROVE came + i \in (came + 1)..came'
    BY <1>3, <1>4
  <2> HIDE DEF X
  <2>4. ASSUME NEW x \in X PROVE x \in (came + 1)..came'
    BY <1>4, <2>1, <2>3
  <2>5. ASSUME NEW x \in (came + 1)..came' PROVE x \in X
    <3>1. x - came \in 1..n /\ input'[x - came].id = x
      BY <1>4, <2>2
    <3> QED
      BY <2>1, <3>1
  <2> QED
    BY <2>4, <2>5
<1> HIDE DEF X
<1>7. /\ X \subseteq ToCome /\ X \subseteq Nat /\ ToCome' = ToCome \ X /\ Before(X, ToCome')
      /\ 1..came' = (1..came) \cup X
  BY <1>3, <1>4, <1>6 DEF ToCome, Before
<1>8. /\ todo'["worker"] = todo["worker"] /\ todo["rt"] = <<>> /\ forged["rt"] = <<>>
      /\ \/ rt' = "convert" /\ todo'["rt"] = input'
         \/ rt' = "move" /\ todo'["rt"] = <<>>
         \/ rt' = "take" /\ todo'["rt"] = <<>> /\ input' = <<>>
  <2>1. todo \in [Threads -> Seq(Event)]
    BY DEF IInv, TypeOK
  <2>2. todo["rt"] = <<>> /\ forged["rt"] = <<>>
    BY <1>1 DEF OInv, HandsFree
  <2>3. CASE synchronous'
    <3>1. rt' = "convert" /\ todo' = [todo EXCEPT !["rt"] = input']
      BY <2>3 DEF RunBegin
    <3> HIDE DEF RunBegin
    <3> QED
      BY <2>1, <2>2, <3>1 DEF Threads
  <2>4. CASE ~synchronous'
    <3>1. rt' = (IF input' # <<>> THEN "move" ELSE "take") /\ todo' = todo
      BY <2>4 DEF RunBegin
    <3> QED
      BY <2>2, <3>1
  <2> QED
    BY <2>3, <2>4
<1>9. Queue' = Queue /\ \A by : Out(by)' = Out(by)
  BY <1>1 DEF Queue, Out
<1>10. Rising'
  <2>1. \A t \in Threads : Rises(todo'[t]) /\ Rises(forged'[t])
    BY <1>1, <1>5, <1>8, NoIds DEF OInv, Rising, Threads
  <2> QED
    BY <1>1, <1>5, <1>9, <2>1 DEF OInv, Rising, ChunksRise, Before
<1>11. HandsFree' /\ OutputOrdered'
  BY <1>1, <1>8 DEF OInv, HandsFree, OutputOrdered
<1>12. /\ \A k \in 1..6 : WorkerWay'[k] = WorkerWay[k]
       /\ WorkerWay[7] = {} /\ WorkerWay[8] = ToCome /\ WorkerWay'[8] = ToCome'
       /\ WorkerWay'[7] = IF rt' = "move" THEN X ELSE {}
  <2>1. \A k \in 1..6 : k = 1 \/ k = 2 \/ k = 3 \/ k = 4 \/ k = 5 \/ k = 6
    OBVIOUS
  <2>2. rt # "end" /\ rt # "move" /\ rt' # "end"
    BY <1>1, <1>8
  <2> QED
    BY <1>1, <1>8, <1>9, <2>1, <2>2, WorkerPlaces, WorkerPlacesNext DEF X
<1>13. /\ RunWay'[1] = RunWay[1] /\ RunWay'[2] = RunWay[2]
       /\ RunWay[3] = {} /\ RunWay[4] = ToCome /\ RunWay'[4] = ToCome'
       /\ RunWay'[3] = IF rt' = "convert" THEN X ELSE {}
  <2>1. rt # "end" /\ rt' # "end"
    BY <1>1, <1>8
  <2> QED
    BY <1>1, <1>8, <1>9, <2>1, RunPlaces, NoIds DEF X
<1>14. X = {} \/ rt' = "convert" \/ rt' = "move"
  BY <1>8, NoIds DEF X
<1>15. /\ InLine(WorkerWay', 8)
       /\ On(WorkerWay', 8) = On(WorkerWay, 8) \cup (IF rt' = "move" THEN X ELSE {})
  <2>1. CASE rt' = "move"
    <3>1. Pass(WorkerWay, WorkerWay', 8, 8, X)
      <4>1. ASSUME NEW k \in 1..8, k # 8, k # 8 - 1 PROVE WorkerWay'[k] = WorkerWay[k]
        BY <1>12, <4>1
      <4>2. 8 - 1 = 7
        OBVIOUS
      <4> QED
        BY <1>7, <1>12, <2>1, <4>1, <4>2 DEF Pass
    <3>2. 8 \in 2..8 /\ 8 \in Nat
      OBVIOUS
    <3>3. InLine(WorkerWay, 8)
      BY DEF OInv
    <3>4. /\ InLine(WorkerWay', 8)
          /\ 8 = 8 /\ X \subseteq Nat => On(WorkerWay', 8) = On(WorkerWay, 8) \cup X
      BY <3>1, <3>2, <3>3, PassInLine
    <3> QED
      BY <1>7, <2>1, <3>4
  <2>2. CASE rt' # "move"
    <3>1. \A k \in 1..7 : WorkerWay'[k] = WorkerWay[k]
      BY <1>12, <2>2
    <3>2. \A k \in 1..8 : WorkerWay'[k] \subseteq WorkerWay[k]
      BY <1>7, <1>12, <3>1
    <3> QED
      BY <2>2, <3>1, <3>2 DEF OInv, InLine, Before, On
  <2> QED
    BY <2>1, <2>2
<1>16. /\ InLine(RunWay', 4)
       /\ On(RunWay', 4) = On(RunWay, 4) \cup (IF rt' = "convert" THEN X ELSE {})
  <2>1. CASE rt' = "convert"
    <3>1. Pass(RunWay, RunWay', 4, 4, X)
      <4>1. ASSUME NEW k \in 1..4, k # 4, k # 4 - 1 PROVE RunWay'[k] = RunWay[k]
        BY <1>13, <4>1
      <4>2. 4 - 1 = 3
        OBVIOUS
      <4> QED
        BY <1>7, <1>13, <2>1, <4>1, <4>2 DEF Pass
    <3>2. 4 \in 2..4 /\ 4 \in Nat
      OBVIOUS
    <3>3. InLine(RunWay, 4)
      BY DEF OInv
    <3>4. /\ InLine(RunWay', 4)
          /\ 4 = 4 /\ X \subseteq Nat => On(RunWay', 4) = On(RunWay, 4) \cup X
      BY <3>1, <3>2, <3>3, PassInLine
    <3> QED
      BY <1>7, <2>1, <3>4
  <2>2. CASE rt' # "convert"
    <3>1. \A k \in 1..3 : RunWay'[k] = RunWay[k]
      BY <1>13, <2>2
    <3>2. \A k \in 1..4 : RunWay'[k] \subseteq RunWay[k]
      BY <1>7, <1>13, <3>1
    <3> QED
      BY <2>2, <3>1, <3>2 DEF OInv, InLine, Before, On
  <2> QED
    BY <2>1, <2>2
<1>17. X \cap (1..came) = {}
  BY <1>3, <1>6
<1>18. Shared'
  <2>1. /\ On(WorkerWay', 8) \cup On(RunWay', 4) \cup gone' = 1..came'
        /\ On(WorkerWay', 8) \cap On(RunWay', 4) = {}
        /\ On(WorkerWay', 8) \cap gone' = {} /\ On(RunWay', 4) \cap gone' = {}
    BY <1>1, <1>7, <1>14, <1>15, <1>16, <1>17 DEF OInv, Shared
  <2>2. On(WorkerWay, 8)' = On(WorkerWay', 8) /\ On(RunWay, 4)' = On(RunWay', 4)
    BY DEF On
  <2> QED
    BY <2>1, <2>2 DEF Shared
<1> QED
  BY <1>10, <1>11, <1>15, <1>16, <1>18 DEF OInv, InLine, Before

LEMMA MoveKeepsOrder ==
  ASSUME IInv, OInv, Move
  PROVE  OInv'
<1>1. /\ rt = "move" /\ rt' \in {"schedule", "take"}
      /\ UNCHANGED <<todo, forged, fromWorker, input, worker, came, given>>
  BY DEF Move, convertVars
<1>2. \A by : Out(by)' = Out(by)
  BY <1>1 DEF Out
<1>3. HandsFree' /\ OutputOrdered' /\ ToCome' = ToCome
  BY <1>1 DEF OInv, HandsFree, OutputOrdered, ToCome
<1>4. RunWay' = RunWay
  <2>1. rt # "end" /\ rt' # "end"
    BY <1>1
  <2> QED
    BY <1>1, <1>2, <1>3, <2>1 DEF RunWay
<1>5. /\ \A k \in 1..8 : k # 6 /\ k # 7 => WorkerWay'[k] = WorkerWay[k]
      /\ WorkerWay[7] = Ids(input) /\ WorkerWay'[7] = {}
      /\ WorkerWay[6] = IdsOf(Queue) /\ WorkerWay'[6] = IdsOf(Queue')
  <2>1. rt # "end" /\ rt' # "end" /\ rt' # "move"
    BY <1>1
  <2> QED
    BY <1>1, <1>2, <1>3, <2>1, WorkerPlaces, WorkerPlacesNext, Eight
<1>6. CASE Len(toWorker) < RoomTo
  <2>1. toWorker' = Append(toWorker, input) /\ gone' = gone
    BY <1>6 DEF Move
  <2>2. Queue' = Append(Queue, input)
    <3>1. toWorker \in Seq(Seq(Event)) /\ input \in Seq(Event)
      BY DEF IInv, TypeOK
    <3>2. CASE worker \in {"convert", "advance"}
      <4>1. toWorker # <<>>
        BY <3>2 DEF IInv, Busy
      <4>2. Tail(Append(toWorker, input)) = Append(Tail(toWorker), input)
        BY <3>1, <4>1, HeadTailAppend
      <4> QED
        BY <1>1, <2>1, <3>2, <4>2 DEF Queue
    <3>3. CASE worker \notin {"convert", "advance"}
      BY <1>1, <2>1, <3>3 DEF Queue
    <3> QED
      BY <3>2, <3>3
  <2>3. Before(IdsOf(Queue), Ids(input))
    <3>1. 6 \in 1..8 /\ 7 \in 1..8 /\ 6 < 7
      OBVIOUS
    <3> QED
      BY <1>5, <3>1 DEF OInv, InLine
  <2>4. ChunksRise(Queue') /\ IdsOf(Queue') = IdsOf(Queue) \cup Ids(input)
    <3>1. Queue \in Seq(Seq(Event)) /\ input \in Seq(Event)
      BY PlacesNat DEF IInv, TypeOK
    <3>2. ChunksRise(Queue) /\ Rises(input)
      BY DEF OInv, Rising
    <3> QED
      BY <2>2, <2>3, <3>1, <3>2, ChunkAppend
  <2>5. Rising'
    <3>1. ChunksRise(Queue)'
      BY <2>4 DEF ChunksRise, Before
    <3> QED
      BY <1>1, <3>1 DEF OInv, Rising, ChunksRise, Before
  <2>6. Pass(WorkerWay, WorkerWay', 8, 7, Ids(input))
    <3>1. 7 - 1 = 6
      OBVIOUS
    <3> QED
      BY <1>5, <2>4, <3>1 DEF Pass, Before
  <2> QED
    BY <1>1, <1>3, <1>4, <2>1, <2>5, <2>6, WorkerPasses
<1>7. CASE ~(Len(toWorker) < RoomTo)
  <2>1. toWorker' = toWorker /\ gone' = gone \cup Ids(input)
    BY <1>7 DEF Move
  <2>2. Queue' = Queue
    BY <1>1, <2>1 DEF Queue
  <2>3. Rising'
    BY <1>1, <2>2 DEF OInv, Rising, ChunksRise, Before
  <2>4. Lose(WorkerWay, WorkerWay', 8, 7, Ids(input))
    BY <1>5, <2>2 DEF Lose
  <2> QED
    BY <1>1, <1>3, <1>4, <2>1, <2>3, <2>4, WorkerLoses
<1> QED
  BY <1>6, <1>7

\* Neither asking for a job nor doing one moves anything.
LEMMA ScheduleKeepsOrder ==
  ASSUME OInv, Schedule
  PROVE  OInv'
<1>1. /\ rt = "schedule" /\ rt' = "take"
      /\ UNCHANGED <<todo, forged, toWorker, fromWorker, input, worker, came, given, gone>>
  BY DEF Schedule, convertVars
<1>2. Queue' = Queue /\ ToCome' = ToCome /\ \A by : Out(by)' = Out(by)
  BY <1>1 DEF Queue, ToCome, Out
<1>3. WorkerWay' = WorkerWay /\ RunWay' = RunWay
  BY <1>1, <1>2 DEF WorkerWay, RunWay
<1>4. HandsFree' /\ Rising' /\ OutputOrdered'
  BY <1>1, <1>2 DEF OInv, HandsFree, Rising, ChunksRise, Before, OutputOrdered
<1> QED
  BY <1>1, <1>3, <1>4, SameWays

LEMMA TakeKeepsOrder ==
  ASSUME IInv, OInv, Take
  PROVE  OInv'
<1>1. /\ rt = "take" /\ rt' = "end"
      /\ UNCHANGED <<todo, toWorker, input, worker, came, given, gone>>
  BY DEF Take
<1>2. Queue' = Queue /\ ToCome' = ToCome /\ \A by : Out(by)' = Out(by)
  BY <1>1 DEF Queue, ToCome, Out
<1>3. todo["rt"] = <<>> /\ forged["rt"] = <<>>
  BY <1>1 DEF OInv, HandsFree
<1>4. forged \in [Threads -> Seq(Result)] /\ fromWorker \in Seq(Seq(Result))
  BY DEF IInv, TypeOK
<1>5. /\ forged'["worker"] = forged["worker"]
      /\ \/ /\ fromWorker # <<>> /\ fromWorker' = Tail(fromWorker)
            /\ forged'["rt"] = Head(fromWorker)
         \/ fromWorker = <<>> /\ fromWorker' = <<>> /\ forged'["rt"] = <<>>
  <2>1. CASE fromWorker # <<>>
    <3>1. forged' = [forged EXCEPT !["rt"] = Head(fromWorker)] /\ fromWorker' = Tail(fromWorker)
      BY <2>1 DEF Take
    <3> QED
      BY <1>4, <2>1, <3>1 DEF Threads
  <2>2. CASE fromWorker = <<>>
    <3>1. UNCHANGED <<forged, fromWorker>>
      BY <2>2 DEF Take
    <3> QED
      BY <1>3, <2>2, <3>1
  <2> QED
    BY <2>1, <2>2
<1> DEFINE X == Ids(forged'["rt"])
<1>6. /\ X \subseteq IdsOf(fromWorker) /\ IdsOf(fromWorker') = IdsOf(fromWorker) \ X
      /\ Before(X, IdsOf(fromWorker'))
      /\ Rises(forged'["rt"]) /\ ChunksRise(fromWorker')
  <2>1. CASE fromWorker # <<>>
    <3>1. ChunksRise(fromWorker)
      BY DEF OInv, Rising
    <3> QED
      BY <1>4, <1>5, <2>1, <3>1, ChunkTail, EventIds
  <2>2. CASE fromWorker = <<>>
    BY <1>5, <2>2, NoIds DEF Before
  <2> QED
    BY <2>1, <2>2
<1>7. Rising'
  <2>1. Rises(todo'["rt"]) /\ Rises(todo'["worker"]) /\ Rises(forged'["worker"])
    BY <1>1, <1>5 DEF OInv, Rising, Threads
  <2>2. \A t \in Threads : Rises(todo'[t]) /\ Rises(forged'[t])
    BY <1>6, <2>1 DEF Threads
  <2>3. ChunksRise(fromWorker)'
    BY <1>6 DEF ChunksRise, Before
  <2> QED
    BY <1>1, <1>2, <2>2, <2>3 DEF OInv, Rising, ChunksRise, Before
<1>8. HandsFree' /\ OutputOrdered'
  BY <1>1, <1>3 DEF OInv, HandsFree, OutputOrdered
<1>9. RunWay' = RunWay
  <2>1. /\ RunWay'[1] = RunWay[1] /\ RunWay'[2] = {} /\ RunWay[2] = {}
        /\ RunWay'[3] = RunWay[3] /\ RunWay'[4] = RunWay[4]
    BY <1>1, <1>2, <1>3, RunPlaces, NoIds
  <2> QED
    BY <2>1 DEF RunWay
<1>10. /\ \A k \in 1..8 : k # 2 /\ k # 3 => WorkerWay'[k] = WorkerWay[k]
       /\ WorkerWay[2] = {} /\ WorkerWay'[2] = X
       /\ WorkerWay[3] = IdsOf(fromWorker) /\ WorkerWay'[3] = IdsOf(fromWorker')
  <2>1. rt # "end" /\ rt # "move" /\ rt' = "end"
    BY <1>1
  <2> QED
    BY <1>1, <1>2, <1>5, <2>1, WorkerPlaces, WorkerPlacesNext, Eight
<1> HIDE DEF X
<1>11. Pass(WorkerWay, WorkerWay', 8, 3, X)
  <2>1. 3 - 1 = 2
    OBVIOUS
  <2> QED
    BY <1>6, <1>10, <2>1 DEF Pass
<1> QED
  BY <1>1, <1>7, <1>8, <1>9, <1>11, WorkerPasses

\* No event has two places on a way.
LEMMA OnePlaceOnWay ==
  ASSUME NEW A, NEW n \in Nat, InLine(A, n), \A k \in 1..n : A[k] \subseteq Nat,
         NEW j \in 1..n, NEW k \in 1..n, NEW x \in A[j], x \in A[k]
  PROVE  j = k
<1>1. x \in Nat
  OBVIOUS
<1>2. ~(j < k) /\ ~(k < j)
  <2>1. ~(x < x)
    BY <1>1
  <2> QED
    BY <2>1 DEF InLine, Before
<1> QED
  BY <1>2

\* What run() puts out is given behind what was given before.
LEMMA GivenMore ==
  ASSUME IInv, NEW out \in Seq(Result), NEW by \in Threads,
         given' = given \o [i \in 1..Len(out) |-> [result |-> out[i], by |-> by]],
         OutputOrdered, Rises(out), Before(Out(by), Ids(out)),
         \A x \in Ids(out) : \A b \in Threads : b # by => x \notin Out(b)
  PROVE  /\ Out(by)' = Out(by) \cup Ids(out)
         /\ \A b \in Threads : b # by => Out(b)' = Out(b)
         /\ OutputOrdered'
<1> DEFINE s == [i \in 1..Len(out) |-> [result |-> out[i], by |-> by]]
           G == [result : Result, by : Threads]
<1>1. PICK m \in Nat : m = Len(out)
  BY LenProperties
<1>2. PICK n \in Nat : n = Len(given)
  BY LenProperties DEF IInv, TypeOK
<1>0. PICK g : g = given'
  OBVIOUS
<1>3. given \in Seq(G) /\ \A i \in 1..n : given[i].by \in Threads /\ given[i].result.id \in Nat
  <2>1. given \in Seq(G)
    BY DEF IInv, TypeOK
  <2>2. \A i \in 1..n : given[i] \in G
    <3> HIDE DEF G
    <3> QED
      BY <1>2, <2>1, ElementOfSeq
  <2> QED
    BY <2>1, <2>2, EventIds
<1>4. \A i \in 1..m : out[i] \in Result /\ out[i].id \in Nat
  BY <1>1, ElementOfSeq, EventIds
<1>5. /\ s \in Seq(G) /\ Len(s) = m
      /\ \A i \in 1..m : s[i].result = out[i] /\ s[i].by = by
  <2>1. s \in [1..m -> G]
    BY <1>1, <1>4
  <2>2. \A i \in 1..m : s[i].result = out[i] /\ s[i].by = by
    BY <1>1
  <2> HIDE DEF s, G
  <2> QED
    BY <2>1, <2>2
<1> HIDE DEF s, G
<1>6. /\ Len(g) = n + m
      /\ \A i \in 1..(n + m) : g[i] = IF i <= n THEN given[i] ELSE s[i - n]
  <2>1. g = given \o s
    BY <1>0 DEF s
  <2>2. /\ Len(given \o s) = Len(given) + Len(s)
        /\ \A i \in 1..(Len(given) + Len(s)) :
             (given \o s)[i] = IF i <= Len(given) THEN given[i] ELSE s[i - Len(given)]
    BY <1>3, <1>5, ConcatProperties
  <2> QED
    BY <1>2, <1>5, <2>1, <2>2
<1>7. /\ \A i \in 1..n : i \in 1..(n + m) /\ g[i] = given[i]
      /\ \A i \in (n + 1)..(n + m) :
           /\ i \in 1..(n + m) /\ i - n \in 1..m
           /\ g[i].result = out[i - n] /\ g[i].by = by
  <2>1. ASSUME NEW i \in 1..n PROVE i \in 1..(n + m) /\ g[i] = given[i]
    BY <1>6
  <2>2. ASSUME NEW i \in (n + 1)..(n + m)
        PROVE  /\ i \in 1..(n + m) /\ i - n \in 1..m
               /\ g[i].result = out[i - n] /\ g[i].by = by
    <3>1. i \in 1..(n + m) /\ i - n \in 1..m /\ ~(i <= n)
      OBVIOUS
    <3>2. g[i] = s[i - n]
      BY <1>6, <3>1
    <3> QED
      BY <1>5, <3>1, <3>2
  <2> QED
    BY <2>1, <2>2
<1>8. \A i \in 1..(n + m) : i \in 1..n \/ i \in (n + 1)..(n + m)
  OBVIOUS
<1>9. \A x : x \in Ids(out) <=> \E i \in 1..m : x = out[i].id
  BY <1>1 DEF Ids
<1>10. \A b, x : x \in Out(b) <=> \E i \in 1..n : given[i].by = b /\ x = given[i].result.id
  BY <1>2 DEF Out
<1>11. ASSUME NEW b \in Threads, NEW x
       PROVE  x \in Out(b)' <=> x \in Out(b) \/ (b = by /\ x \in Ids(out))
  <2>0. x \in Out(b)' <=> \E i \in 1..(n + m) : g[i].by = b /\ x = g[i].result.id
    BY <1>0, <1>6 DEF Out
  <2>1. ASSUME x \in Out(b)' PROVE x \in Out(b) \/ (b = by /\ x \in Ids(out))
    <3>1. PICK i \in 1..(n + m) : g[i].by = b /\ x = g[i].result.id
      BY <2>0, <2>1
    <3>2. CASE i \in 1..n
      BY <1>7, <1>10, <3>1, <3>2
    <3>3. CASE i \in (n + 1)..(n + m)
      <4>1. i - n \in 1..m /\ x = out[i - n].id /\ b = by
        BY <1>7, <3>1, <3>3
      <4> QED
        BY <1>9, <4>1
    <3> QED
      BY <1>8, <3>2, <3>3
  <2>2. ASSUME x \in Out(b) PROVE x \in Out(b)'
    <3>1. PICK i \in 1..n : given[i].by = b /\ x = given[i].result.id
      BY <1>10, <2>2
    <3>2. i \in 1..(n + m) /\ g[i].by = b /\ x = g[i].result.id
      BY <1>7, <3>1
    <3> QED
      BY <2>0, <3>2
  <2>3. ASSUME b = by, x \in Ids(out) PROVE x \in Out(b)'
    <3>1. PICK i \in 1..m : x = out[i].id
      BY <1>9, <2>3
    <3>2. i + n \in (n + 1)..(n + m) /\ (i + n) - n = i
      OBVIOUS
    <3>3. i + n \in 1..(n + m) /\ g[i + n].by = b /\ x = g[i + n].result.id
      BY <1>7, <2>3, <3>1, <3>2
    <3> QED
      BY <2>0, <3>3
  <2> QED
    BY <2>1, <2>2, <2>3
<1>12. ASSUME NEW i \in 1..(n + m), NEW j \in 1..(n + m), i < j
       PROVE  /\ g[i].result.id # g[j].result.id
              /\ g[i].by = g[j].by => g[i].result.id < g[j].result.id
  <2>1. CASE i \in 1..n /\ j \in 1..n
    BY <1>2, <1>7, <1>12, <2>1 DEF OutputOrdered
  <2>2. CASE i \in 1..n /\ j \in (n + 1)..(n + m)
    <3>1. /\ j - n \in 1..m /\ g[j].result.id = out[j - n].id /\ g[j].by = by
          /\ g[i] = given[i]
      BY <1>7, <2>2
    <3>2. out[j - n].id \in Ids(out) /\ out[j - n].id \in Nat
      BY <1>4, <1>9, <3>1
    <3>3. given[i].result.id \in Out(given[i].by) /\ given[i].by \in Threads
          /\ given[i].result.id \in Nat
      BY <1>3, <1>10, <2>2
    <3>4. CASE given[i].by = by
      <4>1. given[i].result.id < out[j - n].id
        BY <3>2, <3>3, <3>4 DEF Before
      <4> QED
        BY <3>1, <3>2, <3>3, <4>1
    <3>5. CASE given[i].by # by
      <4>1. given[i].result.id # out[j - n].id
        BY <3>2, <3>3, <3>5
      <4> QED
        BY <3>1, <3>5, <4>1
    <3> QED
      BY <3>4, <3>5
  <2>3. CASE i \in (n + 1)..(n + m) /\ j \in (n + 1)..(n + m)
    <3>1. i - n \in 1..m /\ j - n \in 1..m /\ i - n < j - n
      BY <1>12, <2>3
    <3>2. /\ g[i].result.id = out[i - n].id /\ g[j].result.id = out[j - n].id
      BY <1>7, <2>3
    <3>3. out[i - n].id < out[j - n].id
      BY <1>1, <3>1 DEF Rises
    <3>4. out[i - n].id \in Nat /\ out[j - n].id \in Nat
      BY <1>4, <3>1
    <3> QED
      BY <3>2, <3>3, <3>4
  <2> QED
    BY <1>8, <1>12, <2>1, <2>2, <2>3
<1>13. OutputOrdered'
  <2>1. (1..(n + m)) = 1..Len(given')
    BY <1>0, <1>6
  <2>2. \A i, j \in 1..Len(given') :
          i < j => /\ given'[i].result.id # given'[j].result.id
                   /\ given'[i].by = given'[j].by => given'[i].result.id < given'[j].result.id
    <3> SUFFICES ASSUME NEW i \in 1..Len(given'), NEW j \in 1..Len(given'), i < j
                 PROVE  /\ given'[i].result.id # given'[j].result.id
                        /\ given'[i].by = given'[j].by =>
                             given'[i].result.id < given'[j].result.id
      OBVIOUS
    <3>1. i \in 1..(n + m) /\ j \in 1..(n + m)
      BY <2>1
    <3>2. given'[i] = g[i] /\ given'[j] = g[j]
      BY <1>0
    <3>3. /\ g[i].result.id # g[j].result.id
          /\ g[i].by = g[j].by => g[i].result.id < g[j].result.id
      BY <1>12, <3>1
    <3> QED
      BY <3>2, <3>3
  <2> QED
    BY <2>2 DEF OutputOrdered
<1>14. /\ Out(by)' = Out(by) \cup Ids(out)
       /\ \A b \in Threads : b # by => Out(b)' = Out(b)
  BY <1>11
<1> QED
  BY <1>13, <1>14

LEMMA RunEndKeepsOrder ==
  ASSUME IInv, OInv, NEW fits \in BOOLEAN, RunEnd(fits)
  PROVE  OInv'
<1> DEFINE out == forged["rt"]
           X == Ids(out)
<1>1. /\ rt = "end" \/ (rt = "convert" /\ todo["rt"] = <<>>)
      /\ rt' = "idle" /\ input' = <<>>
      /\ forged' = [forged EXCEPT !["rt"] = <<>>]
      /\ UNCHANGED <<todo, toWorker, fromWorker, worker, came>>
  BY DEF RunEnd
<1>2. PICK by \in Threads : by = IF rt = "end" THEN "worker" ELSE "rt"
  BY DEF Threads
<1>3. \/ /\ given' = given \o [i \in 1..Len(out) |-> [result |-> out[i], by |-> by]]
         /\ gone' = gone
      \/ given' = given /\ gone' = gone \cup X
  BY <1>2 DEF RunEnd
<1>4. out \in Seq(Result) /\ Rises(out)
  BY DEF IInv, TypeOK, OInv, Rising, Threads
<1>5. forged'["rt"] = <<>> /\ forged'["worker"] = forged["worker"]
  BY <1>1 DEF IInv, TypeOK, Threads
<1> HIDE DEF out
<1>6. Queue' = Queue /\ ToCome' = ToCome
  BY <1>1 DEF Queue, ToCome
<1>7. Rising' /\ HandsFree'
  <2>1. \A t \in Threads : Rises(todo'[t]) /\ Rises(forged'[t])
    BY <1>1, <1>5, NoIds DEF OInv, Rising, Threads
  <2>2. Rising'
    BY <1>1, <1>6, <2>1, NoIds DEF OInv, Rising, ChunksRise, Before
  <2>3. todo["rt"] = <<>>
    BY <1>1 DEF OInv, HandsFree
  <2> QED
    BY <1>1, <1>5, <2>2, <2>3 DEF HandsFree
<1>8. /\ \A k \in 3..8 : WorkerWay'[k] = WorkerWay[k]
      /\ WorkerWay[1] = Out("worker") /\ WorkerWay'[1] = Out("worker")'
      /\ WorkerWay'[2] = {} /\ WorkerWay[2] = IF by = "worker" THEN X ELSE {}
  <2>1. \A k \in 3..8 : k = 3 \/ k = 4 \/ k = 5 \/ k = 6 \/ k = 7 \/ k = 8
    OBVIOUS
  <2>2. rt # "move" /\ rt' # "move" /\ rt' # "end"
    BY <1>1
  <2> QED
    BY <1>1, <1>2, <1>5, <1>6, <2>1, <2>2, WorkerPlaces, WorkerPlacesNext DEF out
<1>9. /\ \A k \in 3..4 : RunWay'[k] = RunWay[k]
      /\ RunWay[1] = Out("rt") /\ RunWay'[1] = Out("rt")'
      /\ RunWay'[2] = {} /\ RunWay[2] = IF by = "rt" THEN X ELSE {}
  <2>1. \A k \in 3..4 : k = 3 \/ k = 4
    OBVIOUS
  <2>2. rt' # "end"
    BY <1>1
  <2> QED
    BY <1>1, <1>2, <1>5, <1>6, <2>1, <2>2, RunPlaces, NoIds DEF out
<1> HIDE DEF X
<1>10. /\ by = "worker" => Before(Out("worker"), X) /\ X \cap Out("rt") = {}
       /\ by = "rt" => Before(Out("rt"), X) /\ X \cap Out("worker") = {}
  <2>1. Before(WorkerWay[1], WorkerWay[2]) /\ Before(RunWay[1], RunWay[2])
    <3>1. 1 \in 1..8 /\ 2 \in 1..8 /\ 1 \in 1..4 /\ 2 \in 1..4 /\ 1 < 2
      OBVIOUS
    <3> QED
      BY <3>1 DEF OInv, InLine
  <2>2. /\ WorkerWay[1] \subseteq On(WorkerWay, 8) /\ WorkerWay[2] \subseteq On(WorkerWay, 8)
        /\ RunWay[1] \subseteq On(RunWay, 4) /\ RunWay[2] \subseteq On(RunWay, 4)
    <3>1. 1 \in 1..(8 - 1) /\ 2 \in 1..(8 - 1) /\ 1 \in 1..(4 - 1) /\ 2 \in 1..(4 - 1)
          /\ 1 \in 1..8 /\ 2 \in 1..8 /\ 1 \in 1..4 /\ 2 \in 1..4
      OBVIOUS
    <3> QED
      BY <3>1, PlacesNat DEF On
  <2>3. On(WorkerWay, 8) \cap On(RunWay, 4) = {}
    BY DEF OInv, Shared
  <2> QED
    BY <1>8, <1>9, <2>1, <2>2, <2>3
<1>11. CASE given' = given /\ gone' = gone \cup X
  <2>1. Out("worker")' = Out("worker") /\ Out("rt")' = Out("rt") /\ OutputOrdered'
    BY <1>11 DEF Out, OutputOrdered, OInv
  <2>2. CASE by = "worker"
    <3>1. Lose(WorkerWay, WorkerWay', 8, 2, X)
      <4>1. \A k \in 1..8 : k # 2 => WorkerWay'[k] = WorkerWay[k]
        BY <1>8, <2>1, Eight
      <4> QED
        BY <1>8, <2>2, <4>1 DEF Lose
    <3>2. RunWay' = RunWay
      <4>1. /\ RunWay'[1] = RunWay[1] /\ RunWay'[2] = RunWay[2]
            /\ RunWay'[3] = RunWay[3] /\ RunWay'[4] = RunWay[4]
        BY <1>9, <2>1, <2>2
      <4> QED
        BY <4>1 DEF RunWay
    <3> QED
      BY <1>1, <1>7, <1>11, <2>1, <3>1, <3>2, WorkerLoses
  <2>3. CASE by = "rt"
    <3>1. Lose(RunWay, RunWay', 4, 2, X)
      <4>1. \A k \in 1..4 : k # 2 => RunWay'[k] = RunWay[k]
        BY <1>9, <2>1, Four
      <4> QED
        BY <1>9, <2>3, <4>1 DEF Lose
    <3>2. WorkerWay' = WorkerWay
      <4>1. \A k \in 1..8 : WorkerWay'[k] = WorkerWay[k]
        BY <1>8, <2>1, <2>3, Eight
      <4> QED
        BY <4>1 DEF WorkerWay
    <3> QED
      BY <1>1, <1>7, <1>11, <2>1, <3>1, <3>2, RunLoses
  <2> QED
    BY <2>2, <2>3 DEF Threads
<1>12. CASE /\ given' = given \o [i \in 1..Len(out) |-> [result |-> out[i], by |-> by]]
            /\ gone' = gone
  <2>1. /\ Out(by)' = Out(by) \cup X
        /\ \A b \in Threads : b # by => Out(b)' = Out(b)
        /\ OutputOrdered'
    <3>1. OutputOrdered
      BY DEF OInv
    <3>2. Before(Out(by), Ids(out))
      BY <1>10 DEF X, Threads
    <3>3. \A x \in Ids(out) : \A b \in Threads : b # by => x \notin Out(b)
      BY <1>10 DEF X, Threads
    <3>4. given' = given \o [i \in 1..Len(out) |-> [result |-> out[i], by |-> by]]
      BY <1>12
    <3> QED
      BY <1>4, <3>1, <3>2, <3>3, <3>4, GivenMore DEF X
  <2>2. CASE by = "worker"
    <3>0. Out("worker")' = Out("worker") \cup X /\ Out("rt")' = Out("rt")
      BY <2>1, <2>2 DEF Threads
    <3>1. Pass(WorkerWay, WorkerWay', 8, 2, X)
      <4>1. \A k \in 1..8 : k # 2 /\ k # 2 - 1 => WorkerWay'[k] = WorkerWay[k]
        BY <1>8, Eight
      <4>2. 2 - 1 = 1
        OBVIOUS
      <4> QED
        BY <1>8, <2>2, <3>0, <4>1, <4>2 DEF Pass, Before
    <3>2. RunWay' = RunWay
      <4>1. /\ RunWay'[1] = RunWay[1] /\ RunWay'[2] = RunWay[2]
            /\ RunWay'[3] = RunWay[3] /\ RunWay'[4] = RunWay[4]
        BY <1>9, <2>2, <3>0
      <4> QED
        BY <4>1 DEF RunWay
    <3> QED
      BY <1>1, <1>7, <1>12, <2>1, <3>1, <3>2, WorkerPasses
  <2>3. CASE by = "rt"
    <3>0. Out("rt")' = Out("rt") \cup X /\ Out("worker")' = Out("worker")
      BY <2>1, <2>3 DEF Threads
    <3>1. Pass(RunWay, RunWay', 4, 2, X)
      <4>1. \A k \in 1..4 : k # 2 /\ k # 2 - 1 => RunWay'[k] = RunWay[k]
        BY <1>9, Four
      <4>2. 2 - 1 = 1
        OBVIOUS
      <4> QED
        BY <1>9, <2>3, <3>0, <4>1, <4>2 DEF Pass, Before
    <3>2. WorkerWay' = WorkerWay
      <4>1. \A k \in 1..8 : WorkerWay'[k] = WorkerWay[k]
        BY <1>8, <2>3, <3>0, Eight
      <4> QED
        BY <4>1 DEF WorkerWay
    <3> QED
      BY <1>1, <1>7, <1>12, <2>1, <3>1, <3>2, RunPasses
  <2> QED
    BY <2>2, <2>3 DEF Threads
<1> QED
  BY <1>3, <1>11, <1>12

-----------------------------------------------------------------------------
(* _work()                                                                 *)

LEMMA WorkBeginKeepsOrder ==
  ASSUME OInv, WorkBegin
  PROVE  OInv'
<1>1. /\ worker = "idle" /\ worker' = "next"
      /\ UNCHANGED <<todo, forged, toWorker, fromWorker, rt, input, came, given, gone>>
  BY DEF WorkBegin, convertVars
<1>2. Queue' = Queue /\ ToCome' = ToCome /\ \A by : Out(by)' = Out(by)
  BY <1>1 DEF Queue, ToCome, Out
<1>3. WorkerWay' = WorkerWay /\ RunWay' = RunWay
  BY <1>1, <1>2 DEF WorkerWay, RunWay
<1>4. HandsFree' /\ Rising' /\ OutputOrdered'
  BY <1>1, <1>2 DEF OInv, HandsFree, Rising, ChunksRise, Before, OutputOrdered
<1> QED
  BY <1>1, <1>3, <1>4, SameWays

LEMMA WorkNextKeepsOrder ==
  ASSUME IInv, OInv, WorkNext
  PROVE  OInv'
<1>1. /\ worker = "next"
      /\ UNCHANGED <<toWorker, fromWorker, rt, input, came, given, gone>>
  BY DEF WorkNext
<1>2. ToCome' = ToCome /\ \A by : Out(by)' = Out(by)
  BY <1>1 DEF ToCome, Out
<1>3. Queue = toWorker
  BY <1>1 DEF Queue
<1>4. CASE toWorker # <<>>
  <2> DEFINE X == Ids(Head(toWorker))
  <2>1. /\ worker' = "convert" /\ Queue' = Tail(toWorker)
        /\ todo'["worker"] = Head(toWorker) /\ todo'["rt"] = todo["rt"]
        /\ forged'["worker"] = <<>> /\ forged'["rt"] = forged["rt"]
    <3>1. /\ worker' = "convert"
          /\ todo' = [todo EXCEPT !["worker"] = Head(toWorker)]
          /\ forged' = [forged EXCEPT !["worker"] = <<>>]
      BY <1>4 DEF WorkNext
    <3>2. todo \in [Threads -> Seq(Event)] /\ forged \in [Threads -> Seq(Result)]
      BY DEF IInv, TypeOK
    <3>3. Queue' = Tail(toWorker)
      BY <1>1, <3>1 DEF Queue
    <3> QED
      BY <3>1, <3>2, <3>3 DEF Threads
  <2>2. /\ X \subseteq IdsOf(Queue) /\ Rises(Head(toWorker)) /\ ChunksRise(Queue')
        /\ IdsOf(Queue') = IdsOf(Queue) \ X /\ Before(X, IdsOf(Queue'))
    <3>1. ChunksRise(toWorker) /\ toWorker \in Seq(Seq(Event))
      BY <1>3 DEF OInv, Rising, IInv, TypeOK
    <3> QED
      BY <1>3, <1>4, <2>1, <3>1, ChunkTail, EventIds
  <2>3. Rising'
    <3>1. \A t \in Threads : Rises(todo'[t]) /\ Rises(forged'[t])
      BY <2>1, <2>2, NoIds DEF OInv, Rising, Threads
    <3>2. ChunksRise(Queue)'
      BY <2>2 DEF ChunksRise, Before
    <3> QED
      BY <1>1, <3>1, <3>2 DEF OInv, Rising, ChunksRise, Before
  <2>4. HandsFree' /\ OutputOrdered'
    BY <1>1, <2>1 DEF OInv, HandsFree, OutputOrdered
  <2>5. RunWay' = RunWay
    BY <1>1, <1>2, <2>1 DEF RunWay
  <2>6. /\ \A k \in 1..8 : k # 5 /\ k # 6 => WorkerWay'[k] = WorkerWay[k]
        /\ WorkerWay[5] = {} /\ WorkerWay'[5] = X
        /\ WorkerWay[6] = IdsOf(Queue) /\ WorkerWay'[6] = IdsOf(Queue')
    BY <1>1, <1>2, <2>1, WorkerPlaces, WorkerPlacesNext, Eight, NoIds
  <2> HIDE DEF X
  <2>7. Pass(WorkerWay, WorkerWay', 8, 6, X)
    <3>1. 6 - 1 = 5
      OBVIOUS
    <3> QED
      BY <2>2, <2>6, <3>1 DEF Pass
  <2> QED
    BY <1>1, <2>3, <2>4, <2>5, <2>7, WorkerPasses
<1>5. CASE toWorker = <<>>
  <2>1. worker' = "idle" /\ UNCHANGED <<todo, forged>>
    BY <1>5 DEF WorkNext
  <2>2. Queue' = Queue
    BY <1>1, <1>3, <2>1 DEF Queue
  <2>3. WorkerWay' = WorkerWay /\ RunWay' = RunWay
    BY <1>1, <1>2, <2>1, <2>2 DEF WorkerWay, RunWay
  <2>4. HandsFree' /\ Rising' /\ OutputOrdered'
    BY <1>1, <2>1, <2>2 DEF OInv, HandsFree, Rising, ChunksRise, Before, OutputOrdered
  <2> QED
    BY <1>1, <2>3, <2>4, SameWays
<1> QED
  BY <1>4, <1>5

LEMMA WorkWriteKeepsOrder ==
  ASSUME IInv, OInv, WorkWrite
  PROVE  OInv'
<1> DEFINE new == forged["worker"]
           X == Ids(new)
<1>1. /\ worker = "convert" /\ worker' = "advance" /\ todo["worker"] = <<>>
      /\ UNCHANGED <<todo, forged, toWorker, rt, input, came, given>>
  BY DEF WorkWrite, convertVars
<1>2. Queue' = Queue /\ ToCome' = ToCome /\ \A by : Out(by)' = Out(by)
  BY <1>1 DEF Queue, ToCome, Out
<1>3. RunWay' = RunWay
  BY <1>1, <1>2 DEF RunWay
<1>4. HandsFree' /\ OutputOrdered'
  BY <1>1 DEF OInv, HandsFree, OutputOrdered
<1>5. /\ \A k \in 1..8 : k # 3 /\ k # 4 => WorkerWay'[k] = WorkerWay[k]
      /\ WorkerWay[3] = IdsOf(fromWorker) /\ WorkerWay'[3] = IdsOf(fromWorker')
      /\ WorkerWay[4] = X /\ WorkerWay'[4] = {}
  BY <1>1, <1>2, WorkerPlaces, WorkerPlacesNext, Eight, NoIds
<1>6. fromWorker \in Seq(Seq(Result)) /\ new \in Seq(Result) /\ Rises(new) /\ ChunksRise(fromWorker)
  BY DEF IInv, TypeOK, OInv, Rising, Threads
<1>7. CASE fromWorker' = fromWorker /\ gone' = gone \cup X
  <2>1. Rising'
    BY <1>1, <1>2, <1>7 DEF OInv, Rising, ChunksRise, Before
  <2>2. Lose(WorkerWay, WorkerWay', 8, 4, X)
    BY <1>5, <1>7 DEF Lose
  <2> HIDE DEF X
  <2> QED
    BY <1>1, <1>3, <1>4, <1>7, <2>1, <2>2, WorkerLoses
<1>8. CASE fromWorker' = Append(fromWorker, new) /\ gone' = gone
  <2>1. Before(IdsOf(fromWorker), X)
    <3>1. 3 \in 1..8 /\ 4 \in 1..8 /\ 3 < 4
      OBVIOUS
    <3> QED
      BY <1>5, <3>1 DEF OInv, InLine
  <2>2. ChunksRise(fromWorker') /\ IdsOf(fromWorker') = IdsOf(fromWorker) \cup X
    <3> HIDE DEF new
    <3> QED
      BY <1>6, <1>8, <2>1, ChunkAppend
  <2>3. Rising'
    <3>1. ChunksRise(fromWorker)'
      BY <2>2 DEF ChunksRise, Before
    <3> QED
      BY <1>1, <1>2, <3>1 DEF OInv, Rising, ChunksRise, Before
  <2> HIDE DEF X
  <2>4. Pass(WorkerWay, WorkerWay', 8, 4, X)
    <3>1. 4 - 1 = 3
      OBVIOUS
    <3> QED
      BY <1>5, <2>2, <3>1 DEF Pass, Before
  <2> QED
    BY <1>1, <1>3, <1>4, <1>8, <2>3, <2>4, WorkerPasses
<1>9. CASE fromWorker' = fromWorker /\ gone' = gone /\ new = <<>>
  <2>1. X = {}
    BY <1>9, NoIds
  <2>2. gone' = gone \cup X
    BY <1>9, <2>1
  <2> QED
    BY <1>7, <1>9, <2>2
<1> QED
  BY <1>7, <1>8, <1>9 DEF WorkWrite

LEMMA WorkAdvanceKeepsOrder ==
  ASSUME OInv, WorkAdvance
  PROVE  OInv'
<1>1. /\ worker = "advance" /\ worker' = "next" /\ toWorker' = Tail(toWorker)
      /\ UNCHANGED <<todo, forged, fromWorker, rt, input, came, given, gone>>
  BY DEF WorkAdvance, convertVars
<1>2. Queue' = Queue /\ ToCome' = ToCome /\ \A by : Out(by)' = Out(by)
  BY <1>1 DEF Queue, ToCome, Out
<1>3. WorkerWay' = WorkerWay /\ RunWay' = RunWay
  BY <1>1, <1>2 DEF WorkerWay, RunWay
<1>4. HandsFree' /\ Rising' /\ OutputOrdered'
  BY <1>1, <1>2 DEF OInv, HandsFree, Rising, ChunksRise, Before, OutputOrdered
<1> QED
  BY <1>1, <1>3, <1>4, SameWays

-----------------------------------------------------------------------------
(* The theorems about order.                                               *)

LEMMA InitOrder == Init => OInv
<1> SUFFICES ASSUME Init PROVE OInv
  OBVIOUS
<1>1. /\ input = <<>> /\ toWorker = <<>> /\ fromWorker = <<>> /\ given = <<>>
      /\ came = 0 /\ gone = {} /\ rt = "idle" /\ worker = "idle"
      /\ \A t \in Threads : todo[t] = <<>> /\ forged[t] = <<>>
      /\ "rt" \in Threads /\ "worker" \in Threads
  BY DEF Init, Threads
<1>2. Queue = <<>>
  BY <1>1 DEF Queue
<1>3. HandsFree /\ Rising /\ OutputOrdered
  BY <1>1, <1>2, NoIds DEF HandsFree, Rising, OutputOrdered
<1>4. \A by : Out(by) = {}
  BY <1>1 DEF Out
<1>5. ASSUME NEW k \in 1..7 PROVE WorkerWay[k] = {}
  <2>1. k = 1 \/ k = 2 \/ k = 3 \/ k = 4 \/ k = 5 \/ k = 6 \/ k = 7
    OBVIOUS
  <2> QED
    BY <1>1, <1>2, <1>4, <2>1, NoIds, WorkerPlaces
<1>6. ASSUME NEW k \in 1..3 PROVE RunWay[k] = {}
  <2>1. k = 1 \/ k = 2 \/ k = 3
    OBVIOUS
  <2> QED
    BY <1>1, <1>4, <2>1, NoIds, RunPlaces
<1>7. InLine(WorkerWay, 8) /\ InLine(RunWay, 4)
  <2>1. ASSUME NEW j \in 1..8, NEW k \in 1..8, j < k PROVE j \in 1..7
    BY <2>1
  <2>2. ASSUME NEW j \in 1..4, NEW k \in 1..4, j < k PROVE j \in 1..3
    BY <2>2
  <2> QED
    BY <1>5, <1>6, <2>1, <2>2 DEF InLine, Before
<1>8. On(WorkerWay, 8) = {} /\ On(RunWay, 4) = {}
  BY <1>5, <1>6 DEF On
<1>9. Shared
  BY <1>1, <1>8 DEF Shared
<1> QED
  BY <1>3, <1>7, <1>9 DEF OInv

LEMMA OrderInductive == IInv /\ OInv /\ [Next]_vars => OInv'
<1> SUFFICES ASSUME IInv, OInv, [Next]_vars PROVE OInv'
  OBVIOUS
<1>1. CASE \E kinds \in Inputs : RunBegin(kinds)
  BY <1>1, RunBeginKeepsOrder
<1>2. ASSUME NEW t \in Threads, Convert(t) PROVE OInv'
  BY <1>2, ConvertKeepsOrder
<1>3. CASE Move
  BY <1>3, MoveKeepsOrder
<1>4. CASE Schedule
  BY <1>4, ScheduleKeepsOrder
<1>5. CASE Take
  BY <1>5, TakeKeepsOrder
<1>6. CASE \E fits \in BOOLEAN : RunEnd(fits)
  BY <1>6, RunEndKeepsOrder
<1>7. CASE WorkBegin
  BY <1>7, WorkBeginKeepsOrder
<1>8. CASE WorkNext
  BY <1>8, WorkNextKeepsOrder
<1>9. CASE WorkWrite
  BY <1>9, WorkWriteKeepsOrder
<1>10. CASE WorkAdvance
  BY <1>10, WorkAdvanceKeepsOrder
<1>11. CASE UNCHANGED vars
  BY <1>11, NothingMoves DEF vars, convertVars
<1> QED
  BY <1>1, <1>2, <1>3, <1>4, <1>5, <1>6, <1>7, <1>8, <1>9, <1>10, <1>11
     DEF Next, RunStep, WorkStep, Threads

LEMMA OrderInvariant == Spec => []OInv
<1>1. Init => IInv /\ OInv
  BY InitIInv, InitOrder
<1>2. (IInv /\ OInv) /\ [Next]_vars => (IInv /\ OInv)'
  BY Inductive, OrderInductive
<1> QED
  BY <1>1, <1>2, PTL DEF Spec

\* Events that take the same way come out in the order they came in, and none
\* comes out twice, whichever way it takes, whatever the host drops of the
\* output and whenever the threads run (eteroj_ninja.c:344, 399, 433).
THEOREM OutputOrderedSafe == Spec => []OutputOrdered
<1>1. OInv => OutputOrdered
  BY DEF OInv
<1> QED
  BY <1>1, OrderInvariant, PTL

\* Every event that came in is in one of the hands it may be in, and in one
\* only (eteroj_ninja.c:322-353, 399-434).
THEOREM InOnePlaceSafe == Spec => []InOnePlace
<1>1. IInv /\ OInv => InOnePlace
  <2> SUFFICES ASSUME IInv, OInv, NEW e \in 1..came
               PROVE  \E p \in DOMAIN Hands :
                        e \in Hands[p] /\ \A q \in DOMAIN Hands : e \in Hands[q] => q = p
    BY DEF InOnePlace
  <2>1. DOMAIN Hands = {"moving", "queued", "worked", "ready", "putting", "out", "nowhere"}
    BY DEF Hands
  <2>2. Out("worker") \cup Out("rt") = {given[i].result.id : i \in 1..Len(given)}
    <3>1. given \in Seq([result : Result, by : Threads])
      BY DEF IInv, TypeOK
    <3>2. \A i \in 1..Len(given) : given[i] \in [result : Result, by : Threads]
      BY <3>1, ElementOfSeq
    <3>3. \A i \in 1..Len(given) : given[i].by = "worker" \/ given[i].by = "rt"
      BY <3>2 DEF Threads
    <3> QED
      BY <3>3 DEF Out
  <2>3. /\ Hands["moving"] = WorkerWay[7] /\ Hands["queued"] = WorkerWay[6]
        /\ Hands["worked"] = WorkerWay[5] \cup WorkerWay[4]
        /\ Hands["ready"] = WorkerWay[3]
        /\ Hands["putting"] = WorkerWay[2] \cup RunWay[2] \cup RunWay[3]
        /\ Hands["out"] = WorkerWay[1] \cup RunWay[1]
        /\ Hands["nowhere"] = gone
    <3>1. IdsOf(Queue) = IF worker \in {"convert", "advance"}
                         THEN IdsOf(Tail(toWorker)) ELSE IdsOf(toWorker)
      BY DEF Queue
    <3>2. /\ Hands["moving"] = IF rt = "move" THEN Ids(input) ELSE {}
          /\ Hands["queued"] = IF worker \in {"convert", "advance"}
                               THEN IdsOf(Tail(toWorker)) ELSE IdsOf(toWorker)
          /\ Hands["worked"] = IF worker = "convert"
                               THEN Ids(todo["worker"]) \cup Ids(forged["worker"]) ELSE {}
          /\ Hands["ready"] = IdsOf(fromWorker)
          /\ Hands["putting"] = Ids(todo["rt"]) \cup Ids(forged["rt"])
          /\ Hands["out"] = {given[i].result.id : i \in 1..Len(given)}
          /\ Hands["nowhere"] = gone
      BY DEF Hands
    <3>3. WorkerWay[2] \cup RunWay[2] \cup RunWay[3] = Ids(todo["rt"]) \cup Ids(forged["rt"])
      BY WorkerPlaces, RunPlaces
    <3>4. WorkerWay[5] \cup WorkerWay[4] = Hands["worked"]
      BY <3>2, WorkerPlaces
    <3>5. WorkerWay[1] \cup RunWay[1] = Hands["out"]
      BY <2>2, <3>2, WorkerPlaces, RunPlaces
    <3> QED
      BY <3>1, <3>2, <3>3, <3>4, <3>5, WorkerPlaces
  <2>4. /\ e \in On(WorkerWay, 8) \/ e \in On(RunWay, 4) \/ e \in gone
        /\ ~(e \in On(WorkerWay, 8) /\ e \in On(RunWay, 4))
        /\ ~(e \in On(WorkerWay, 8) /\ e \in gone) /\ ~(e \in On(RunWay, 4) /\ e \in gone)
    BY DEF OInv, Shared
  <2>5. e \in Nat
    BY BoundAssumption DEF IInv, TypeOK
  <2>6. /\ e \in On(WorkerWay, 8) <=> \E k \in 1..7 : e \in WorkerWay[k]
        /\ e \in On(RunWay, 4) <=> \E k \in 1..3 : e \in RunWay[k]
    <3>1. 8 - 1 = 7 /\ 4 - 1 = 3
      OBVIOUS
    <3> QED
      BY <2>5, <3>1 DEF On
  <2>7. \A j, k \in 1..7 : e \in WorkerWay[j] /\ e \in WorkerWay[k] => j = k
    <3>1. InLine(WorkerWay, 8) /\ 8 \in Nat /\ \A k \in 1..7 : k \in 1..8
      BY DEF OInv
    <3> QED
      BY <3>1, PlacesNat, OnePlaceOnWay
  <2>8. \A j, k \in 1..3 : e \in RunWay[j] /\ e \in RunWay[k] => j = k
    <3>1. InLine(RunWay, 4) /\ 4 \in Nat /\ \A k \in 1..3 : k \in 1..4
      BY DEF OInv
    <3> QED
      BY <3>1, PlacesNat, OnePlaceOnWay
  <2>9. CASE e \in On(WorkerWay, 8)
    <3>1. PICK k \in 1..7 : e \in WorkerWay[k]
      BY <2>6, <2>9
    <3>2. /\ \A j \in 1..7 : e \in WorkerWay[j] => j = k
          /\ e \notin RunWay[1] /\ e \notin RunWay[2] /\ e \notin RunWay[3] /\ e \notin gone
      BY <2>4, <2>6, <2>7, <2>9, <3>1
    <3>3. \A j \in 1..7 : j = 1 \/ j = 2 \/ j = 3 \/ j = 4 \/ j = 5 \/ j = 6 \/ j = 7
      OBVIOUS
    <3>4. /\ 1 \in 1..7 /\ 2 \in 1..7 /\ 3 \in 1..7 /\ 4 \in 1..7
          /\ 5 \in 1..7 /\ 6 \in 1..7 /\ 7 \in 1..7
      OBVIOUS
    <3>5. CASE k = 1
      <4>1. e \in Hands["out"] /\ \A q \in DOMAIN Hands : e \in Hands[q] => q = "out"
        BY <2>1, <2>3, <3>1, <3>2, <3>4, <3>5
      <4> QED
        BY <2>1, <4>1
    <3>6. CASE k = 2
      <4>1. e \in Hands["putting"] /\ \A q \in DOMAIN Hands : e \in Hands[q] => q = "putting"
        BY <2>1, <2>3, <3>1, <3>2, <3>4, <3>6
      <4> QED
        BY <2>1, <4>1
    <3>7. CASE k = 3
      <4>1. e \in Hands["ready"] /\ \A q \in DOMAIN Hands : e \in Hands[q] => q = "ready"
        BY <2>1, <2>3, <3>1, <3>2, <3>4, <3>7
      <4> QED
        BY <2>1, <4>1
    <3>8. CASE k = 4 \/ k = 5
      <4>1. e \in Hands["worked"] /\ \A q \in DOMAIN Hands : e \in Hands[q] => q = "worked"
        BY <2>1, <2>3, <3>1, <3>2, <3>4, <3>8
      <4> QED
        BY <2>1, <4>1
    <3>9. CASE k = 6
      <4>1. e \in Hands["queued"] /\ \A q \in DOMAIN Hands : e \in Hands[q] => q = "queued"
        BY <2>1, <2>3, <3>1, <3>2, <3>4, <3>9
      <4> QED
        BY <2>1, <4>1
    <3>10. CASE k = 7
      <4>1. e \in Hands["moving"] /\ \A q \in DOMAIN Hands : e \in Hands[q] => q = "moving"
        BY <2>1, <2>3, <3>1, <3>2, <3>4, <3>10
      <4> QED
        BY <2>1, <4>1
    <3> QED
      BY <3>3, <3>5, <3>6, <3>7, <3>8, <3>9, <3>10
  <2>10. CASE e \in On(RunWay, 4)
    <3>1. PICK k \in 1..3 : e \in RunWay[k]
      BY <2>6, <2>10
    <3>2. /\ \A j \in 1..3 : e \in RunWay[j] => j = k
          /\ e \notin gone /\ \A j \in 1..7 : e \notin WorkerWay[j]
      BY <2>4, <2>6, <2>8, <2>10, <3>1
    <3>3. \A j \in 1..3 : j = 1 \/ j = 2 \/ j = 3
      OBVIOUS
    <3>4. /\ 1 \in 1..7 /\ 2 \in 1..7 /\ 3 \in 1..7 /\ 4 \in 1..7
          /\ 5 \in 1..7 /\ 6 \in 1..7 /\ 7 \in 1..7
          /\ 1 \in 1..3 /\ 2 \in 1..3 /\ 3 \in 1..3
      OBVIOUS
    <3>5. CASE k = 1
      <4>1. e \in Hands["out"] /\ \A q \in DOMAIN Hands : e \in Hands[q] => q = "out"
        BY <2>1, <2>3, <3>1, <3>2, <3>4, <3>5
      <4> QED
        BY <2>1, <4>1
    <3>6. CASE k = 2 \/ k = 3
      <4>1. e \in Hands["putting"] /\ \A q \in DOMAIN Hands : e \in Hands[q] => q = "putting"
        BY <2>1, <2>3, <3>1, <3>2, <3>4, <3>6
      <4> QED
        BY <2>1, <4>1
    <3> QED
      BY <3>3, <3>5, <3>6
  <2>11. CASE e \in gone
    <3>1. /\ \A j \in 1..7 : e \notin WorkerWay[j]
          /\ \A j \in 1..3 : e \notin RunWay[j]
      BY <2>4, <2>6, <2>11
    <3>2. /\ 1 \in 1..7 /\ 2 \in 1..7 /\ 3 \in 1..7 /\ 4 \in 1..7
          /\ 5 \in 1..7 /\ 6 \in 1..7 /\ 7 \in 1..7
          /\ 1 \in 1..3 /\ 2 \in 1..3 /\ 3 \in 1..3
      OBVIOUS
    <3>3. e \in Hands["nowhere"] /\ \A q \in DOMAIN Hands : e \in Hands[q] => q = "nowhere"
      BY <2>1, <2>3, <2>11, <3>1, <3>2
    <3> QED
      BY <2>1, <3>3
  <2> QED
    BY <2>4, <2>9, <2>10, <2>11
<1> QED
  BY <1>1, Invariant, OrderInvariant, PTL
=============================================================================
