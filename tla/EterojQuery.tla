----------------------------- MODULE EterojQuery ----------------------------
(***************************************************************************)
(* The query plugin (src/eteroj_query.c) finds out what a remote OSC peer  *)
(* has to offer: it asks for the description of the root ("/!"), for that  *)
(* of each item an answer names, and shows the methods it finds to the     *)
(* host as properties.  Requests wait in a ring, of which run() sends one  *)
(* per period; what run() forges reaches the host as a whole or not at     *)
(* all.                                                                    *)
(*                                                                         *)
(* The peer and the network between are external: they answer, late, out   *)
(* of order or never.  Asking twice for the same gets the same answer, so  *)
(* that questions and answers under way are sets.                          *)
(***************************************************************************)
EXTENDS Integers, FiniteSets, SequencesExt

CONSTANTS Nodes,        \* the paths the peer knows
          Root,         \* "/"
          Items,        \* the items below each, in their order
          Methods,      \* the nodes that _add shows
          RbSize,       \* how many requests the ring holds
          MaxRefresh,   \* bound: how often the host asks for all
          MaxGets       \* bound: how often it asks for a value

ASSUME NodesAssumption ==
  Root \in Nodes /\ Methods \subseteq Nodes /\ Items \in [Nodes -> Seq(Nodes)]
ASSUME BoundsAssumption == RbSize \in Nat /\ MaxRefresh \in Nat /\ MaxGets \in Nat

\* The nodes from which m is found: the least set with m that has every node
\* with an item in it.
Above(m) ==
  LET closed(S) == \A n \in Nodes : (\E i \in DOMAIN Items[n] : Items[n][i] \in S) => n \in S
  IN  {n \in Nodes : \A S \in SUBSET Nodes : m \in S /\ closed(S) => n \in S}

ASSUME ReachableAssumption == \A m \in Methods : Root \in Above(m)

\* A request: for the description of a node, or for its value.
Request == [node : Nodes, desc : BOOLEAN]
Describe(n) == [node |-> n, desc |-> TRUE]
ValueOf(n) == [node |-> n, desc |-> FALSE]

\* What is forged for the host: all methods are gone, or there is this one.
Clear == "clear"
ASSUME ClearAssumption == Clear \notin Nodes

VARIABLES rt,        \* is run() under way?
          rb,        \* the ring of requests
          out, ref,  \* what run() has forged, and handle->ref
          known,     \* the methods the host shows
          asked,     \* requests under way to the peer ...
          answers,   \* ... and answers under way to the plugin
          refreshes, gets,   \* bounds
          spoiled    \* history: the nodes whose request, answer or method has
                     \* been lost since the last refresh

vars == <<rt, rb, out, ref, known, asked, answers, refreshes, gets, spoiled>>

Init ==
  /\ rt = "idle" /\ rb = <<>>
  /\ out = <<>> /\ ref = TRUE
  /\ known = {}
  /\ asked = {} /\ answers = {}
  /\ refreshes = 0 /\ gets = 0
  /\ spoiled = {}

\* run() begins.
Begin ==
  /\ rt = "idle"
  /\ rt' = "run" /\ out' = <<>> /\ ref' = TRUE
  /\ UNCHANGED <<rb, known, asked, answers, refreshes, gets, spoiled>>

-----------------------------------------------------------------------------
(* What the host asks for.                                                 *)

\* _refresh: the methods are cleared, and the root is asked for.
AskForAll ==
  /\ rt = "run" /\ refreshes < MaxRefresh
  /\ refreshes' = refreshes + 1
  /\ out' = Append(out, Clear)
  /\ IF Len(rb) < RbSize THEN rb' = Append(rb, Describe(Root)) /\ spoiled' = {}
                         ELSE spoiled' = {Root} /\ UNCHANGED rb
  /\ UNCHANGED <<rt, known, asked, answers, gets>>

\* A patch:Get without a property.
Refresh == AskForAll /\ UNCHANGED ref

\* A patch:Set of eteroj:query_refresh.  props_advance refreshes; but then, as
\* for any property, a message is forged to a path of the property's name.  A
\* URI is no path, so that fails, and all of the output with it.
Click == AskForAll /\ ref' = FALSE

\* A patch:Get of a property.
Get(m) ==
  /\ rt = "run" /\ gets < MaxGets
  /\ gets' = gets + 1
  /\ rb' = IF Len(rb) < RbSize THEN Append(rb, ValueOf(m)) ELSE rb
  /\ UNCHANGED <<rt, out, ref, known, asked, answers, refreshes, spoiled>>

-----------------------------------------------------------------------------
(* What the peer answers.                                                  *)

\* Mutant of Queued: the last item is not asked for.
QueuedBut(n) == LET room == RbSize - Len(rb)
                IN  SubSeq(Items[n], 1, IF Len(Items[n]) - 1 <= room
                                        THEN Len(Items[n]) - 1 ELSE room)

\* The items of a node there is room to ask for.
Queued(n) == LET room == RbSize - Len(rb)
             IN  SubSeq(Items[n], 1, IF Len(Items[n]) <= room THEN Len(Items[n])
                                                             ELSE room)

\* What cannot be asked for.
Overflowed(n) == LET room == RbSize - Len(rb)
                 IN  ToSet(SubSeq(Items[n], room + 1, Len(Items[n])))

\* _message_cb with the description of node n: its items are asked for, and a
\* method is shown, if it fits into the output.
Described(n, fits) ==
  /\ rt = "run" /\ Describe(n) \in answers
  /\ answers' = answers \ {Describe(n)}
  /\ LET asks == Queued(n)
     IN  rb' = rb \o [i \in DOMAIN asks |-> Describe(asks[i])]
  /\ n \notin Methods => fits
  /\ out' = IF n \in Methods /\ fits THEN Append(out, n) ELSE out
  /\ spoiled' = spoiled \cup Overflowed(n) \cup (IF fits THEN {} ELSE {n})
  /\ UNCHANGED <<rt, ref, known, asked, refreshes, gets>>

\* _message_cb with a value, which is shown, or an error, which is logged.
Valued(n) ==
  /\ rt = "run" /\ ValueOf(n) \in answers
  /\ answers' = answers \ {ValueOf(n)}
  /\ UNCHANGED <<rt, rb, out, ref, known, asked, refreshes, gets, spoiled>>

-----------------------------------------------------------------------------
(* run() ends.                                                             *)

\* What the host shows when it has got the output: what has been added since
\* it was cleared last.
Shown ==
  {m \in Methods :
     \/ m \in known /\ Clear \notin ToSet(out)
     \/ \E i \in DOMAIN out : out[i] = m /\ \A j \in i..Len(out) : out[j] # Clear}

\* Mutant of Rest: the request stays in the ring.
RestAll == rb

\* The ring without its first request.
Rest == IF rb = <<>> THEN rb ELSE Tail(rb)

\* One request is sent.  It is taken out of the ring whether or not it could be
\* forged; when it could not, the host and the peer get nothing.
End(fits) ==
  /\ rt = "run"
  /\ rb = <<>> => fits
  /\ rt' = "idle"
  /\ rb' = Rest
  /\ IF ref /\ fits
     THEN /\ known' = Shown
          /\ asked' = IF rb = <<>> THEN asked ELSE asked \cup {Head(rb)}
          /\ UNCHANGED spoiled
     ELSE /\ spoiled' = spoiled \cup (ToSet(out) \ {Clear})
                          \cup (IF rb = <<>> \/ ~Head(rb).desc THEN {}
                                ELSE {Head(rb).node})
          /\ UNCHANGED <<known, asked>>
  /\ out' = <<>> /\ ref' = TRUE
  /\ UNCHANGED <<answers, refreshes, gets>>

-----------------------------------------------------------------------------
(* The peer, and the network.                                              *)

Reply(q) ==
  /\ q \in asked
  /\ asked' = asked \ {q} /\ answers' = answers \cup {q}
  /\ UNCHANGED <<rt, rb, out, ref, known, refreshes, gets, spoiled>>

Lose(q) ==
  /\ \/ q \in asked /\ asked' = asked \ {q} /\ UNCHANGED answers
     \/ q \in answers /\ answers' = answers \ {q} /\ UNCHANGED asked
  /\ spoiled' = IF q.desc THEN spoiled \cup {q.node} ELSE spoiled
  /\ UNCHANGED <<rt, rb, out, ref, known, refreshes, gets>>

Answered(n) == Valued(n) \/ \E fits \in BOOLEAN : Described(n, fits)

Next ==
  \/ Begin \/ Refresh \/ Click
  \/ \E m \in Methods : Get(m)
  \/ \E n \in Nodes : Answered(n)
  \/ \E fits \in BOOLEAN : End(fits)
  \/ \E q \in Request : Reply(q) \/ Lose(q)

Spec == Init /\ [][Next]_vars

\* The host calls run() once per period and hands on what has come in; the
\* peer answers what reaches it.
FairSpec ==
  /\ Spec
  /\ WF_vars(Begin) /\ WF_vars(\E fits \in BOOLEAN : End(fits))
  /\ \A n \in Nodes : SF_vars(Answered(n))
  /\ \A q \in Request : WF_vars(Reply(q))

-----------------------------------------------------------------------------
(* What makes it correct.                                                  *)

\* The state has its types, and the ring is never overrun
\* (eteroj_query.c:25-84, 638-655).
TypeOK ==
  /\ rt \in {"idle", "run"} /\ ref \in BOOLEAN
  /\ rb \in Seq(Request) /\ Len(rb) <= RbSize
  /\ out \in Seq(Methods \cup {Clear}) /\ known \subseteq Methods
  /\ asked \subseteq Request /\ answers \subseteq Request
  /\ refreshes \in 0..MaxRefresh /\ gets \in 0..MaxGets
  /\ spoiled \subseteq Nodes

\* The nodes that are asked for, or will be.
Pending == {q.node : q \in {r \in ToSet(rb) \cup asked \cup answers : r.desc}}

\* Once the host has asked for all, every method of the peer's is shown, or
\* something it is found from is on its way, or one of these was lost
\* (eteroj_query.c:364-381, 580-769, 896-916): refreshing again in the middle,
\* answers to older requests, and an output given up leave no other gap.
NothingOverlooked ==
  refreshes > 0 =>
    \A m \in Methods :
      m \in Shown \/ Above(m) \cap (Pending \cup spoiled) # {}

\* When nothing is lost, all methods are found, with one request a period
\* (eteroj_query.c:897-909).
Discovered ==
  <>[](refreshes > 0 /\ spoiled = {}) => <>(known = Methods)
=============================================================================
