-------------------------- MODULE EterojQueryProof --------------------------
(***************************************************************************)
(* The discovery overlooks no method, for any peer whose methods can all be *)
(* found from the root, any ring and any losses.                           *)
(***************************************************************************)
EXTENDS EterojQuery, SequenceTheorems, TLAPS

\* Between two runs nothing is forged.
IInv == TypeOK /\ (rt = "idle" => out = <<>>) /\ NothingOverlooked

-----------------------------------------------------------------------------
(* Where methods are found from, and where requests are.                   *)

LEMMA AboveMethod ==
  ASSUME NEW m \in Methods
  PROVE  Above(m) \subseteq Nodes /\ m \in Above(m) /\ Root \in Above(m)
BY NodesAssumption, ReachableAssumption DEF Above

\* A method is found from a node by the node itself, or by one of its items.
LEMMA AboveItems ==
  ASSUME NEW m \in Methods, NEW n \in Above(m), n # m
  PROVE  \E i \in DOMAIN Items[n] : Items[n][i] \in Above(m)
<1> SUFFICES ASSUME \A i \in DOMAIN Items[n] : Items[n][i] \notin Above(m) PROVE FALSE
  OBVIOUS
<1> DEFINE S == Above(m) \ {n}
           Closed(T) == \A x \in Nodes : (\E i \in DOMAIN Items[x] : Items[x][i] \in T) => x \in T
<1>1. m \in S /\ S \in SUBSET Nodes
  BY AboveMethod
<1>2. ASSUME NEW x \in Nodes, NEW i \in DOMAIN Items[x], Items[x][i] \in S
      PROVE  x \in S
  <2>1. x # n
    BY <1>2
  <2>2. ASSUME NEW T \in SUBSET Nodes, m \in T, Closed(T) PROVE x \in T
    <3>1. Items[x][i] \in T
      BY <1>2, <2>2 DEF Above
    <3> QED
      BY <2>2, <3>1
  <2>3. x \in Above(m)
    BY <2>2 DEF Above
  <2> QED
    BY <2>1, <2>3
<1>3. Closed(S)
  BY <1>2
<1> QED
  BY <1>1, <1>3 DEF Above

\* The nodes of the requests in a sequence or set.
LEMMA PendingIs ==
  ASSUME NEW n
  PROVE  n \in Pending <=> \E q \in ToSet(rb) \cup asked \cup answers : q.desc /\ q.node = n
BY DEF Pending

LEMMA ToSetAppend ==
  ASSUME NEW S, NEW s \in Seq(S), NEW e \in S
  PROVE  ToSet(Append(s, e)) = ToSet(s) \cup {e}
<1>1. /\ Append(s, e) \in Seq(S) /\ Len(Append(s, e)) = Len(s) + 1 /\ Len(s) \in Nat
      /\ \A i \in 1..Len(s) : Append(s, e)[i] = s[i]
      /\ Append(s, e)[Len(s) + 1] = e
  BY AppendProperties, LenProperties
<1>2. DOMAIN Append(s, e) = 1..(Len(s) + 1) /\ DOMAIN s = 1..Len(s)
  BY <1>1, LenProperties
<1> HIDE DEF ToSet
<1>3. ASSUME NEW x \in ToSet(Append(s, e)) PROVE x \in ToSet(s) \cup {e}
  BY <1>1, <1>2 DEF ToSet
<1>4. ASSUME NEW x \in ToSet(s) \cup {e} PROVE x \in ToSet(Append(s, e))
  <2>1. CASE x = e
    <3>1. Len(s) + 1 \in DOMAIN Append(s, e)
      BY <1>1, <1>2
    <3> QED
      BY <1>1, <2>1, <3>1 DEF ToSet
  <2>2. CASE x \in ToSet(s)
    <3>1. PICK i \in DOMAIN s : x = s[i]
      BY <2>2 DEF ToSet
    <3>2. i \in DOMAIN Append(s, e) /\ Append(s, e)[i] = x
      BY <1>1, <1>2, <3>1
    <3> QED
      BY <3>2 DEF ToSet
  <2> QED
    BY <2>1, <2>2
<1> QED
  BY <1>3, <1>4

LEMMA ToSetTail ==
  ASSUME NEW S, NEW s \in Seq(S), s # <<>>
  PROVE  /\ Head(s) \in S /\ Tail(s) \in Seq(S) /\ Len(Tail(s)) = Len(s) - 1
         /\ Len(s) \in Nat
         /\ \A x \in ToSet(s) : x = Head(s) \/ x \in ToSet(Tail(s))
<1>1. /\ Head(s) \in S /\ Tail(s) \in Seq(S) /\ Len(Tail(s)) = Len(s) - 1
      /\ \A i \in 1..Len(Tail(s)) : Tail(s)[i] = s[i + 1]
      /\ Len(s) \in Nat /\ DOMAIN s = 1..Len(s) /\ Head(s) = s[1]
      /\ DOMAIN Tail(s) = 1..Len(Tail(s))
  BY HeadTailProperties, LenProperties
<1>2. ASSUME NEW i \in DOMAIN s, s[i] # Head(s) PROVE s[i] \in ToSet(Tail(s))
  <2>1. i - 1 \in DOMAIN Tail(s) /\ Tail(s)[i - 1] = s[i]
    BY <1>1, <1>2
  <2> QED
    BY <2>1 DEF ToSet
<1> QED
  BY <1>1, <1>2 DEF ToSet

\* What has been forged is seen at the end, unless it is cleared after.
LEMMA ShownMore ==
  ASSUME TypeOK, NEW n \in Methods, out' = Append(out, n), known' = known
  PROVE  n \in Shown' /\ Shown \subseteq Shown'
<1>1. /\ out \in Seq(Methods \cup {Clear}) /\ n # Clear
  BY NodesAssumption, ClearAssumption DEF TypeOK
<1>2. /\ Len(out) \in Nat /\ DOMAIN out = 1..Len(out) /\ out' \in Seq(Methods \cup {Clear})
      /\ Len(out') = Len(out) + 1 /\ DOMAIN out' = 1..(Len(out) + 1)
      /\ \A i \in 1..Len(out) : out'[i] = out[i]
      /\ out'[Len(out) + 1] = n
  BY <1>1, AppendProperties, LenProperties
<1>3. n \in Shown'
  <2>1. /\ Len(out) + 1 \in DOMAIN out' /\ out'[Len(out) + 1] = n
        /\ \A j \in (Len(out) + 1)..Len(out') : out'[j] # Clear
    BY <1>1, <1>2
  <2> QED
    BY <2>1 DEF Shown
<1>4. ASSUME NEW m \in Shown PROVE m \in Shown'
  <2>1. CASE m \in known /\ Clear \notin ToSet(out)
    <3>1. Clear \notin ToSet(out')
      BY <1>1, <2>1, ToSetAppend
    <3> QED
      BY <2>1, <3>1 DEF Shown
  <2>2. CASE \E i \in DOMAIN out : out[i] = m /\ \A j \in i..Len(out) : out[j] # Clear
    <3>1. PICK i \in DOMAIN out : out[i] = m /\ \A j \in i..Len(out) : out[j] # Clear
      BY <2>2
    <3>2. i \in DOMAIN out' /\ out'[i] = m
      BY <1>2, <3>1
    <3>3. ASSUME NEW j \in i..Len(out') PROVE out'[j] # Clear
      <4>1. j \in i..Len(out) \/ j = Len(out) + 1
        BY <1>2
      <4> QED
        BY <1>1, <1>2, <3>1, <4>1
    <3> QED
      BY <3>2, <3>3 DEF Shown
  <2> QED
    BY <2>1, <2>2 DEF Shown
<1> QED
  BY <1>3, <1>4

-----------------------------------------------------------------------------
LEMMA InitIInv == Init => IInv
<1> SUFFICES ASSUME Init PROVE IInv
  OBVIOUS
<1>1. <<>> \in Seq(Request) /\ <<>> \in Seq(Methods \cup {Clear}) /\ Len(<<>>) = 0
  BY EmptySeq
<1>2. TypeOK
  <2>1. ref \in BOOLEAN
    BY DEF Init
  <2> QED
    BY <1>1, <2>1, BoundsAssumption DEF Init, TypeOK
<1> QED
  BY <1>2, BoundsAssumption DEF Init, IInv, NothingOverlooked

\* Nothing is overlooked when what was shown, asked for or lost still is, or is
\* made up for, and no new search has begun.
LEMMA KeepsAll ==
  ASSUME NothingOverlooked, refreshes' = refreshes,
         \A m \in Methods : m \in Shown => m \in Shown' \/ Above(m) \cap (Pending' \cup spoiled') # {},
         Pending \subseteq Pending' \cup spoiled', spoiled \subseteq spoiled'
  PROVE  NothingOverlooked'
BY DEF NothingOverlooked

LEMMA BeginKeeps ==
  ASSUME IInv, Begin
  PROVE  IInv'
<1>1. /\ rt' = "run" /\ out = <<>> /\ out' = <<>> /\ ref' \in BOOLEAN
      /\ UNCHANGED <<rb, known, asked, answers, refreshes, gets, spoiled>>
  BY DEF Begin, IInv
<1>2. TypeOK'
  BY <1>1 DEF IInv, TypeOK
<1>3. Shown' = Shown /\ Pending' = Pending
  BY <1>1 DEF Shown, Pending
<1> QED
  BY <1>1, <1>2, <1>3 DEF IInv, NothingOverlooked

\* A new search: the root is on its way or lost, and all methods are found from
\* the root.
LEMMA AskForAllKeeps ==
  ASSUME IInv, AskForAll, ref' \in BOOLEAN
  PROVE  IInv'
<1>1. /\ rt = "run" /\ refreshes < MaxRefresh /\ refreshes' = refreshes + 1
      /\ out' = Append(out, Clear)
      /\ UNCHANGED <<rt, known, asked, answers, gets>>
      /\ IF Len(rb) < RbSize THEN rb' = Append(rb, Describe(Root)) /\ spoiled' = {}
                             ELSE spoiled' = {Root} /\ rb' = rb
  BY DEF AskForAll
<1>2. /\ rb \in Seq(Request) /\ Len(rb) \in Nat /\ Len(rb) <= RbSize /\ RbSize \in Nat
      /\ out \in Seq(Methods \cup {Clear})
      /\ Describe(Root) \in Request /\ Describe(Root).desc /\ Describe(Root).node = Root
      /\ Root \in Nodes
  BY LenProperties, BoundsAssumption, NodesAssumption DEF IInv, TypeOK, Describe, Request
<1>3. out' \in Seq(Methods \cup {Clear}) /\ refreshes' \in 0..MaxRefresh
  <2>1. out' \in Seq(Methods \cup {Clear})
    BY <1>1, <1>2, AppendProperties
  <2>2. refreshes' \in 0..MaxRefresh
    BY <1>1, BoundsAssumption DEF IInv, TypeOK
  <2> QED
    BY <2>1, <2>2
<1>4. /\ rb' \in Seq(Request) /\ Len(rb') <= RbSize
      /\ spoiled' \subseteq Nodes
      /\ Root \in Pending' \cup spoiled'
  <2>1. CASE Len(rb) < RbSize
    <3>1. rb' = Append(rb, Describe(Root)) /\ spoiled' = {}
      BY <1>1, <2>1
    <3>2. /\ rb' \in Seq(Request) /\ Len(rb') = Len(rb) + 1
          /\ Describe(Root) \in ToSet(rb')
      BY <1>2, <3>1, AppendProperties, ToSetAppend
    <3>3. Root \in Pending'
      BY <1>2, <3>2 DEF Pending
    <3> QED
      BY <1>2, <2>1, <3>1, <3>2, <3>3
  <2>2. CASE ~(Len(rb) < RbSize)
    BY <1>1, <1>2, <2>2
  <2> QED
    BY <2>1, <2>2
<1>5. TypeOK'
  BY <1>1, <1>3, <1>4 DEF IInv, TypeOK
<1>6. NothingOverlooked'
  BY <1>4, AboveMethod DEF NothingOverlooked
<1> QED
  BY <1>1, <1>5, <1>6 DEF IInv

LEMMA GetKeeps ==
  ASSUME IInv, NEW m \in Methods, Get(m)
  PROVE  IInv'
<1>1. /\ rt = "run" /\ gets < MaxGets /\ gets' = gets + 1
      /\ rb' = IF Len(rb) < RbSize THEN Append(rb, ValueOf(m)) ELSE rb
      /\ UNCHANGED <<rt, out, ref, known, asked, answers, refreshes, spoiled>>
  BY DEF Get
<1>2. /\ rb \in Seq(Request) /\ Len(rb) \in Nat /\ Len(rb) <= RbSize /\ RbSize \in Nat
      /\ ValueOf(m) \in Request
  BY LenProperties, BoundsAssumption, NodesAssumption DEF IInv, TypeOK, ValueOf, Request
<1>3. rb' \in Seq(Request) /\ Len(rb') <= RbSize /\ ToSet(rb) \subseteq ToSet(rb')
  <2>1. CASE Len(rb) < RbSize
    BY <1>1, <1>2, <2>1, AppendProperties, ToSetAppend
  <2>2. CASE ~(Len(rb) < RbSize)
    BY <1>1, <1>2, <2>2
  <2> QED
    BY <2>1, <2>2
<1>4. gets' \in 0..MaxGets
  BY <1>1, BoundsAssumption DEF IInv, TypeOK
<1>5. TypeOK'
  BY <1>1, <1>3, <1>4 DEF IInv, TypeOK
<1>6. NothingOverlooked'
  <2>1. Pending \subseteq Pending'
    BY <1>1, <1>3 DEF Pending
  <2>2. Shown' = Shown
    BY <1>1 DEF Shown
  <2> QED
    BY <1>1, <2>1, <2>2, KeepsAll DEF IInv
<1> QED
  BY <1>1, <1>5, <1>6 DEF IInv

LEMMA ValuedKeeps ==
  ASSUME IInv, NEW n \in Nodes, Valued(n)
  PROVE  IInv'
<1>1. /\ answers' = answers \ {ValueOf(n)} /\ rt = "run"
      /\ UNCHANGED <<rt, rb, out, ref, known, asked, refreshes, gets, spoiled>>
  BY DEF Valued
<1>2. TypeOK'
  BY <1>1 DEF IInv, TypeOK
<1>3. Pending \subseteq Pending' /\ Shown' = Shown
  BY <1>1 DEF Pending, Shown, ValueOf
<1> QED
  BY <1>1, <1>2, <1>3, KeepsAll DEF IInv

LEMMA ReplyKeeps ==
  ASSUME IInv, NEW q \in Request, Reply(q)
  PROVE  IInv'
<1>1. /\ asked' = asked \ {q} /\ answers' = answers \cup {q}
      /\ UNCHANGED <<rt, rb, out, ref, known, refreshes, gets, spoiled>>
  BY DEF Reply
<1>2. TypeOK'
  BY <1>1 DEF IInv, TypeOK
<1>3. Pending \subseteq Pending' /\ Shown' = Shown
  BY <1>1 DEF Pending, Shown
<1> QED
  BY <1>1, <1>2, <1>3, KeepsAll DEF IInv

LEMMA LoseKeeps ==
  ASSUME IInv, NEW q \in Request, Lose(q)
  PROVE  IInv'
<1>1. /\ asked \ {q} \subseteq asked' /\ asked' \subseteq asked
      /\ answers \ {q} \subseteq answers' /\ answers' \subseteq answers
      /\ spoiled' = IF q.desc THEN spoiled \cup {q.node} ELSE spoiled
      /\ UNCHANGED <<rt, rb, out, ref, known, refreshes, gets>>
  BY DEF Lose
<1>2. q.node \in Nodes
  BY DEF Request
<1>3. TypeOK'
  BY <1>1, <1>2 DEF IInv, TypeOK
<1>4. Pending \subseteq Pending' \cup spoiled' /\ Shown' = Shown /\ spoiled \subseteq spoiled'
  BY <1>1 DEF Pending, Shown
<1> QED
  BY <1>1, <1>3, <1>4, KeepsAll DEF IInv

\* Of the items of a node, those there is room for are asked for, and the
\* others are known to be lost.
LEMMA QueuedItems ==
  ASSUME TypeOK, NEW n \in Nodes
  PROVE  /\ Queued(n) \in Seq(Nodes) /\ Len(Queued(n)) + Len(rb) <= RbSize
         /\ Overflowed(n) \subseteq Nodes
         /\ \A i \in DOMAIN Items[n] : Items[n][i] \in ToSet(Queued(n)) \cup Overflowed(n)
<1> DEFINE s == Items[n]
           room == RbSize - Len(rb)
           k == IF Len(s) <= room THEN Len(s) ELSE room
           q == SubSeq(s, 1, k)
           o == SubSeq(s, room + 1, Len(s))
<1>1. /\ s \in Seq(Nodes) /\ Len(s) \in Nat /\ DOMAIN s = 1..Len(s)
      /\ \A i \in 1..Len(s) : s[i] \in Nodes
  <2>1. s \in Seq(Nodes)
    BY NodesAssumption
  <2> HIDE DEF s
  <2> QED
    BY <2>1, LenProperties, ElementOfSeq
<1>2. room \in Nat
  BY LenProperties, BoundsAssumption DEF TypeOK
<1>3. Queued(n) = q /\ Overflowed(n) = ToSet(o)
  <2>1. Queued(n) = q
    BY Zenon DEF Queued
  <2>2. Overflowed(n) = ToSet(o)
    BY Zenon DEF Overflowed
  <2> QED
    BY <2>1, <2>2
<1> HIDE DEF s, room
<1>l. Len(s) \in Nat
  BY <1>1
<1>4. k \in Nat /\ k <= Len(s) /\ k <= room /\ (k < Len(s) => k = room)
  <2>1. CASE Len(s) <= room
    <3>1. k = Len(s)
      BY <2>1
    <3> HIDE DEF k
    <3> QED
      BY <1>l, <1>2, <2>1, <3>1
  <2>2. CASE ~(Len(s) <= room)
    <3>1. k = room
      BY <2>2
    <3> HIDE DEF k
    <3> QED
      BY <1>l, <1>2, <2>2, <3>1
  <2> QED
    BY <2>1, <2>2
<1> HIDE DEF k
<1>5. /\ q \in Seq(Nodes) /\ Len(q) = k /\ DOMAIN q = 1..k
      /\ \A i \in 1..k : q[i] = s[i]
  <2>1. \A i \in 1..k : s[i] \in Nodes
    BY <1>1, <1>4
  <2>2. /\ q \in Seq(Nodes) /\ Len(q) = (IF 1 <= k THEN k - 1 + 1 ELSE 0)
        /\ \A i \in 1..(k - 1 + 1) : q[i] = s[1 + i - 1]
    BY <1>4, <2>1, SubSeqProperties
  <2> HIDE DEF q
  <2>3. Len(q) = k /\ DOMAIN q = 1..k
    BY <1>4, <2>2, LenProperties
  <2>4. ASSUME NEW i \in 1..k PROVE q[i] = s[i]
    <3>1. i \in 1..(k - 1 + 1) /\ 1 + i - 1 = i
      BY <1>4
    <3> QED
      BY <2>2, <3>1
  <2> QED
    BY <2>2, <2>3, <2>4
<1>6. /\ ToSet(o) \subseteq Nodes
      /\ \A i \in 1..Len(s) : i > room => s[i] \in ToSet(o)
  <2>1. \A i \in (room + 1)..Len(s) : s[i] \in Nodes
    BY <1>1, <1>2
  <2>2. /\ o \in Seq(Nodes)
        /\ Len(o) = (IF room + 1 <= Len(s) THEN Len(s) - (room + 1) + 1 ELSE 0)
        /\ \A i \in 1..(Len(s) - (room + 1) + 1) : o[i] = s[(room + 1) + i - 1]
    BY <1>1, <1>2, <2>1, SubSeqProperties
  <2> HIDE DEF o
  <2>3. \A i \in DOMAIN o : o[i] \in Nodes
    BY <2>2, LenProperties, ElementOfSeq
  <2>4. ASSUME NEW i \in 1..Len(s), i > room PROVE s[i] \in ToSet(o)
    <3>1. /\ i - room \in 1..(Len(s) - (room + 1) + 1) /\ i - room \in 1..Len(o)
          /\ (room + 1) + (i - room) - 1 = i
      <4>1. room + 1 <= Len(s) /\ i \in Nat /\ i >= room + 1 /\ i <= Len(s)
        BY <1>1, <1>2, <2>4
      <4>2. Len(o) = Len(s) - room
        BY <1>1, <1>2, <2>2, <4>1
      <4> QED
        BY <1>1, <1>2, <4>1, <4>2
    <3>2. o[i - room] = s[i] /\ i - room \in DOMAIN o
      BY <2>2, <3>1, LenProperties
    <3> QED
      BY <3>2 DEF ToSet
  <2> QED
    BY <2>3, <2>4 DEF ToSet
<1>7. ASSUME NEW i \in 1..Len(s) PROVE s[i] \in ToSet(q) \cup ToSet(o)
  <2>1. CASE i <= k
    BY <1>4, <1>5, <2>1 DEF ToSet
  <2>2. CASE ~(i <= k)
    BY <1>1, <1>2, <1>4, <1>6, <2>2
  <2> QED
    BY <2>1, <2>2
<1>8. Len(q) + Len(rb) <= RbSize
  BY <1>4, <1>5, LenProperties, BoundsAssumption DEF TypeOK, room
<1>9. Items[n] = s
  BY DEF s
<1> HIDE DEF q, o
<1> QED
  BY <1>1, <1>3, <1>5, <1>6, <1>7, <1>8, <1>9

\* A description: its node is not pending any more.  A method below it is found
\* from one of its items, and the method it is of, if any, is shown or lost.
LEMMA DescribedKeeps ==
  ASSUME IInv, NEW n \in Nodes, NEW fits \in BOOLEAN, Described(n, fits)
  PROVE  IInv'
<1> DEFINE asks == Queued(n)
           more == [i \in DOMAIN asks |-> Describe(asks[i])]
<1>0. TypeOK /\ NothingOverlooked
  BY DEF IInv
<1>1. /\ rt = "run" /\ answers' = answers \ {Describe(n)}
      /\ rb' = rb \o more
      /\ n \notin Methods => fits
      /\ out' = IF n \in Methods /\ fits THEN Append(out, n) ELSE out
      /\ spoiled' = spoiled \cup Overflowed(n) \cup (IF fits THEN {} ELSE {n})
      /\ UNCHANGED <<rt, ref, known, asked, refreshes, gets>>
  BY DEF Described
<1>2. /\ asks \in Seq(Nodes) /\ Len(asks) + Len(rb) <= RbSize
      /\ Overflowed(n) \subseteq Nodes
      /\ \A i \in DOMAIN Items[n] : Items[n][i] \in ToSet(asks) \cup Overflowed(n)
  BY <1>0, QueuedItems
<1>3. /\ Len(asks) \in Nat /\ DOMAIN asks = 1..Len(asks) /\ \A i \in 1..Len(asks) : asks[i] \in Nodes
      /\ rb \in Seq(Request) /\ Len(rb) \in Nat /\ DOMAIN rb = 1..Len(rb)
  <2>1. rb \in Seq(Request)
    BY <1>0 DEF TypeOK
  <2> HIDE DEF asks
  <2> QED
    BY <1>2, <2>1, LenProperties, ElementOfSeq
<1> HIDE DEF asks
<1>4. more \in Seq(Request) /\ Len(more) = Len(asks) /\ \A i \in 1..Len(asks) : more[i] = Describe(asks[i])
  <2>1. \A i \in 1..Len(asks) : Describe(asks[i]) \in Request
    BY <1>3 DEF Describe, Request
  <2>2. more \in [1..Len(asks) -> Request]
    BY <1>3, <2>1
  <2> QED
    BY <1>3, <2>2
<1> HIDE DEF more
<1>5. /\ rb' \in Seq(Request) /\ Len(rb') = Len(rb) + Len(asks)
      /\ DOMAIN rb' = 1..(Len(rb) + Len(asks))
      /\ \A i \in 1..(Len(rb) + Len(asks)) :
           rb'[i] = IF i <= Len(rb) THEN rb[i] ELSE more[i - Len(rb)]
  <2>1. /\ rb \o more \in Seq(Request) /\ Len(rb \o more) = Len(rb) + Len(more)
        /\ \A i \in 1..(Len(rb) + Len(more)) :
             (rb \o more)[i] = IF i <= Len(rb) THEN rb[i] ELSE more[i - Len(rb)]
    BY <1>3, <1>4, ConcatProperties
  <2> QED
    BY <1>1, <1>4, <2>1, LenProperties
<1>6. ToSet(rb) \subseteq ToSet(rb')
  BY <1>3, <1>5 DEF ToSet
<1>7. ASSUME NEW x \in ToSet(asks) PROVE x \in Pending'
  <2>1. PICK i \in 1..Len(asks) : asks[i] = x
    BY <1>3 DEF ToSet
  <2>2. Len(rb) + i \in DOMAIN rb' /\ rb'[Len(rb) + i] = more[i]
    <3>1. /\ Len(rb) + i \in 1..(Len(rb) + Len(asks))
          /\ ~(Len(rb) + i <= Len(rb)) /\ Len(rb) + i - Len(rb) = i
      BY <1>3
    <3> QED
      BY <1>5, <3>1
  <2>3. rb'[Len(rb) + i] = Describe(x) /\ Describe(x) \in ToSet(rb')
    BY <1>4, <2>1, <2>2 DEF ToSet
  <2> QED
    BY <2>3 DEF Pending, Describe
<1>8. out' \in Seq(Methods \cup {Clear})
  <2>1. out \in Seq(Methods \cup {Clear})
    BY <1>0 DEF TypeOK
  <2> QED
    BY <1>1, <2>1, AppendProperties
<1>9. TypeOK'
  BY <1>0, <1>1, <1>2, <1>5, <1>8 DEF TypeOK
<1>10. Pending \ {n} \subseteq Pending'
  BY <1>1, <1>6 DEF Pending, Describe
<1>11. Shown \subseteq Shown' /\ (n \in Methods => n \in Shown' \cup spoiled')
  <2>1. CASE n \in Methods /\ fits
    BY <1>0, <1>1, <2>1, ShownMore
  <2>2. CASE ~(n \in Methods /\ fits)
    <3>1. out' = out /\ known' = known
      BY <1>1, <2>2
    <3>2. Shown' = Shown
      BY <3>1 DEF Shown
    <3> QED
      BY <1>1, <2>2, <3>2
  <2> QED
    BY <2>1, <2>2
<1>12. NothingOverlooked'
  <2> SUFFICES ASSUME refreshes > 0, NEW m \in Methods, m \notin Shown'
               PROVE  Above(m) \cap (Pending' \cup spoiled') # {}
    BY <1>1 DEF NothingOverlooked
  <2>1. PICK a \in Above(m) : a \in Pending \cup spoiled
    BY <1>0, <1>11 DEF NothingOverlooked
  <2>2. CASE a # n \/ a \in spoiled
    BY <1>1, <1>10, <2>1, <2>2
  <2>3. CASE a = n /\ n = m
    BY <1>11, <2>1, <2>3
  <2>4. CASE a = n /\ n # m
    <3>1. PICK i \in DOMAIN Items[n] : Items[n][i] \in Above(m)
      BY <2>1, <2>4, AboveItems
    <3>2. Items[n][i] \in Pending' \cup spoiled'
      BY <1>1, <1>2, <1>7
    <3> QED
      BY <3>1, <3>2
  <2> QED
    BY <2>2, <2>3, <2>4
<1> QED
  BY <1>1, <1>9, <1>12 DEF IInv

\* What could not be put out is lost as a whole: the methods in it, and the
\* request.  What was to be cleared is shown on.
LEMMA EndKeeps ==
  ASSUME IInv, NEW fits \in BOOLEAN, End(fits)
  PROVE  IInv'
<1>0. TypeOK /\ NothingOverlooked
  BY DEF IInv
<1>1. /\ rt' = "idle" /\ rb' = Rest /\ out' = <<>> /\ ref' = TRUE
      /\ UNCHANGED <<answers, refreshes, gets>>
  BY DEF End
<1>2. /\ rb \in Seq(Request) /\ Len(rb) <= RbSize /\ RbSize \in Nat
      /\ out \in Seq(Methods \cup {Clear}) /\ asked \subseteq Request
      /\ known \subseteq Methods /\ spoiled \subseteq Nodes
  BY <1>0, BoundsAssumption DEF TypeOK
<1>3. /\ rb' \in Seq(Request) /\ Len(rb') <= RbSize
      /\ rb # <<>> => Head(rb) \in Request
      /\ \A q \in ToSet(rb) : rb # <<>> /\ (q = Head(rb) \/ q \in ToSet(rb'))
  <2>1. CASE rb = <<>>
    <3>1. rb' = rb /\ ToSet(rb) = {}
      BY <1>1, <2>1 DEF Rest, ToSet
    <3> QED
      BY <1>2, <2>1, <3>1
  <2>2. CASE rb # <<>>
    <3>1. rb' = Tail(rb)
      BY <1>1, <2>2 DEF Rest
    <3> QED
      BY <1>2, <2>2, <3>1, ToSetTail
  <2> QED
    BY <2>1, <2>2
<1>4. Shown' = known'
  <2>1. known' \subseteq Methods
    <3>1. Shown \subseteq Methods
      BY DEF Shown
    <3> QED
      BY <1>2, <3>1 DEF End
  <2>2. DOMAIN out' = {} /\ ToSet(out') = {}
    BY <1>1 DEF ToSet
  <2> QED
    BY <2>1, <2>2 DEF Shown
<1>5. ToSet(out) \ {Clear} \subseteq Methods
  BY <1>2, LenProperties, ElementOfSeq DEF ToSet
<1>6. /\ known' \subseteq Methods /\ asked' \subseteq Request /\ spoiled' \subseteq Nodes
      /\ spoiled \subseteq spoiled' /\ Pending \subseteq Pending' \cup spoiled'
      /\ \A m \in Shown : m \in known' \cup spoiled'
  <2>1. CASE ref /\ fits
    <3>1. /\ known' = Shown /\ spoiled' = spoiled
          /\ asked' = IF rb = <<>> THEN asked ELSE asked \cup {Head(rb)}
      BY <2>1 DEF End
    <3>2. Pending \subseteq Pending'
      BY <1>1, <1>3, <3>1 DEF Pending
    <3>3. Shown \subseteq Methods
      BY DEF Shown
    <3> QED
      BY <1>2, <1>3, <3>1, <3>2, <3>3
  <2>2. CASE ~(ref /\ fits)
    <3>1. /\ known' = known /\ asked' = asked
          /\ spoiled' = spoiled \cup (ToSet(out) \ {Clear})
                         \cup (IF rb = <<>> \/ ~Head(rb).desc THEN {} ELSE {Head(rb).node})
      BY <2>2 DEF End
    <3>2. Pending \subseteq Pending' \cup spoiled'
      BY <1>1, <1>3, <3>1 DEF Pending
    <3>3. ASSUME NEW m \in Shown PROVE m \in known \/ m \in ToSet(out) \ {Clear}
      <4>1. m # Clear
        BY NodesAssumption, ClearAssumption DEF Shown
      <4> QED
        BY <4>1 DEF Shown, ToSet
    <3>4. spoiled' \subseteq Nodes
      <4>1. rb # <<>> => Head(rb).node \in Nodes
        BY <1>3 DEF Request
      <4> QED
        BY <1>2, <1>5, <3>1, <4>1, NodesAssumption
    <3> QED
      BY <1>2, <3>1, <3>2, <3>3, <3>4
  <2> QED
    BY <2>1, <2>2
<1>7. TypeOK'
  <2>1. out' \in Seq(Methods \cup {Clear}) /\ ref' \in BOOLEAN
    BY <1>1, EmptySeq
  <2> QED
    BY <1>0, <1>1, <1>3, <1>6, <2>1 DEF TypeOK
<1>8. NothingOverlooked'
  <2>1. ASSUME NEW m \in Methods, m \in Shown
        PROVE  m \in Shown' \/ Above(m) \cap (Pending' \cup spoiled') # {}
    BY <1>4, <1>6, <2>1, AboveMethod
  <2> QED
    BY <1>0, <1>1, <1>6, <2>1, KeepsAll
<1> QED
  BY <1>1, <1>7, <1>8 DEF IInv

-----------------------------------------------------------------------------
(* The theorems.                                                           *)

LEMMA Inductive == IInv /\ [Next]_vars => IInv'
<1> SUFFICES ASSUME IInv, [Next]_vars PROVE IInv'
  OBVIOUS
<1>1. CASE Begin
  BY <1>1, BeginKeeps
<1>2. CASE Refresh
  <2>1. AskForAll /\ ref' \in BOOLEAN
    BY <1>2 DEF Refresh, IInv, TypeOK
  <2> QED
    BY <2>1, AskForAllKeeps
<1>3. CASE Click
  <2>1. AskForAll /\ ref' \in BOOLEAN
    BY <1>3 DEF Click
  <2> QED
    BY <2>1, AskForAllKeeps
<1>4. CASE \E m \in Methods : Get(m)
  BY <1>4, GetKeeps
<1>5. CASE \E n \in Nodes : Answered(n)
  BY <1>5, ValuedKeeps, DescribedKeeps DEF Answered
<1>6. CASE \E fits \in BOOLEAN : End(fits)
  BY <1>6, EndKeeps
<1>7. CASE \E q \in Request : Reply(q) \/ Lose(q)
  BY <1>7, ReplyKeeps, LoseKeeps
<1>8. CASE UNCHANGED vars
  BY <1>8 DEF vars, IInv, TypeOK, NothingOverlooked, Shown, Pending
<1> QED
  BY <1>1, <1>2, <1>3, <1>4, <1>5, <1>6, <1>7, <1>8 DEF Next

LEMMA Invariant == Spec => []IInv
BY InitIInv, Inductive, PTL DEF Spec

\* In every state the variables have their types, and the ring holds no more
\* requests than fit (eteroj_query.c:25-84, 638-655).
THEOREM TypeCorrect == Spec => []TypeOK
<1>1. IInv => TypeOK
  BY DEF IInv
<1> QED
  BY <1>1, Invariant, PTL

\* Every method that can be found from the root is shown, or something it is
\* found from is pending or was lost, for any peer
\* (eteroj_query.c:364-381, 580-769, 896-916).
THEOREM OverlooksNothing == Spec => []NothingOverlooked
<1>1. IInv => NothingOverlooked
  BY DEF IInv
<1> QED
  BY <1>1, Invariant, PTL
=============================================================================
