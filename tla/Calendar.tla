------------------------------ MODULE Calendar ------------------------------
(***************************************************************************)
(* What src/eteroj_io.c promises of the packets it receives, free of list, *)
(* distances and output: a packet that is taken note of waits for the turn *)
(* its time falls into, or is lost.  In a turn all that is due goes out,   *)
(* each at its very time, the earlier first; or all of it is lost.         *)
(* A packet is named by the number of its arrival.                         *)
(***************************************************************************)
EXTENDS Integers, Sequences, FiniteSets, Functions

CONSTANTS Period,     \* how long a turn takes
          Immediate,  \* the time of what is due at once
          Packets     \* what may come, with its time

VARIABLES clock,      \* when the present turn begins
          came,       \* the packets that have come ...
          seen,       \* ... and how many of them were taken note of
          waiting,    \* those that wait
          played,     \* those that went out, with the time they did
          lost        \* those that never will

calendar == <<clock, came, seen, waiting, played, lost>>

Begins == /\ clock = 0 /\ came = <<>> /\ seen = 0
          /\ waiting = {} /\ played = <<>> /\ lost = {}

Come == /\ \E p \in Packets : came' = Append(came, p)
        /\ UNCHANGED <<clock, seen, waiting, played, lost>>

Advance == /\ clock' \in Nat /\ clock' >= clock
           /\ UNCHANGED <<came, seen, waiting, played, lost>>

\* The next packet is put down, or lost.
See == /\ seen < Len(came)
       /\ seen' = seen + 1
       /\ \/ waiting' = waiting \cup {seen'} /\ UNCHANGED lost
          \/ lost' = lost \cup {seen'} /\ UNCHANGED waiting
       /\ UNCHANGED <<clock, came, played>>

\* When a packet goes out, if it does in this turn; at once when it is late.
Moment(id) == IF came[id].time = Immediate \/ came[id].time < clock THEN clock
              ELSE came[id].time

Due == {id \in waiting : Moment(id) < clock + Period}

\* The ways to put those that are due in a row.
Rows == {s \in Bijection(1..Cardinality(Due), Due) :
           \A i, j \in DOMAIN s : i < j => Moment(s[i]) <= Moment(s[j])}

Play == /\ \E s \in Rows :
             played' = played \o [i \in DOMAIN s |-> [id |-> s[i], when |-> Moment(s[i])]]
        /\ waiting' = waiting \ Due
        /\ UNCHANGED <<clock, came, seen, lost>>

Lose == /\ waiting' = waiting \ Due
        /\ lost' = lost \cup Due
        /\ UNCHANGED <<clock, came, seen, played>>

Proceeds == Come \/ Advance \/ See \/ Play \/ Lose

Spec == Begins /\ [][Proceeds]_calendar
=============================================================================
