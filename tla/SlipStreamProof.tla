--------------------------- MODULE SlipStreamProof ---------------------------
(***************************************************************************)
(* The theorems of SlipStream, for every set of lines, every bound and     *)
(* every way the bytes are cut into calls.                                 *)
(*                                                                         *)
(* The encoder, the decoder and the receiver's loop are recursive          *)
(* functions over the bytes.  That these functions exist, and what they    *)
(* return, is proved by induction over sets of numbers (Induction,         *)
(* Downward), whose members are the lengths or the places for which it     *)
(* holds; both come from the least member of a set (Least).                *)
(*                                                                         *)
(* Two ideas carry the rest.  RoundTrip: wherever the bytes of an encoded  *)
(* packet stand, the decoding that begins there finds that packet, and     *)
(* ends at its last byte.  And closers: an END behind a byte that is       *)
(* neither END nor ESC ends whatever scan comes to it, so that what        *)
(* precedes it, a torn frame or noise, can be misread but cannot swallow   *)
(* the frame behind it.                                                    *)
(*                                                                         *)
(* The invariant of OnlySpoiledLost is SInv: a frame is spoiled, handed    *)
(* on, or kept, which means it still stands in the bytes under way right   *)
(* behind a closer or at their beginning, and there is a closer where the  *)
(* next frame will be put, unless that frame is spoiled already.  The      *)
(* invariant of OnlySent is CInv: on a line that may not split, tear or    *)
(* refuse, the receiver keeps no bytes, what is under way is whole frames  *)
(* in order, and all of them come behind what was handed on.               *)
(***************************************************************************)
EXTENDS SlipStream, SequenceTheorems, WellFoundedInduction, TLAPS

-----------------------------------------------------------------------------
(* Induction, as far as the provers can use it.                            *)

\* A set of naturals has a least member.
LEMMA Least ==
  ASSUME NEW T, T \subseteq Nat, T # {}
  PROVE  \E x \in T : \A y \in T : x <= y
<1> DEFINE R == OpToRel(<, Nat)
<1>1. IsWellFoundedOn(R, Nat)
  BY NatLessThanWellFounded
<1>2. \A x, y \in Nat : x < y => <<x, y>> \in R
  BY DEF OpToRel
<1> HIDE DEF R
<1>3. PICK x \in T : \A y \in T : ~(<<y, x>> \in R)
  BY <1>1, WFMin
<1>4. ASSUME NEW y \in T PROVE x <= y
  <2>1. x \in Nat /\ y \in Nat /\ ~(y < x)
    BY <1>2, <1>3
  <2> QED
    BY <2>1
<1> QED
  BY <1>4

\* What holds of 0 and goes on from n to n + 1 holds of all naturals.
LEMMA Induction ==
  ASSUME NEW T, 0 \in T, \A n \in Nat : n \in T => n + 1 \in T
  PROVE  \A n \in Nat : n \in T
<1> SUFFICES ASSUME NEW n \in Nat, n \notin T PROVE FALSE
  OBVIOUS
<1> DEFINE B == {k \in Nat : k \notin T}
<1>1. PICK x \in B : \A y \in B : x <= y
  <2>1. B \subseteq Nat /\ B # {}
    OBVIOUS
  <2> HIDE DEF B
  <2> QED
    BY <2>1, Least
<1>2. x # 0 /\ x \in Nat
  OBVIOUS
<1>3. x - 1 \in Nat /\ x - 1 \notin B
  BY <1>1, <1>2
<1> QED
  BY <1>2, <1>3

-----------------------------------------------------------------------------
(* What a scan finds.                                                      *)

\* One step of Scan, with g for the steps behind it.
ScanAt(m, g, i) ==
        IF i > Len(m) \/ (i = Len(m) /\ m[i].sym = ESC)
        THEN [out |-> <<>>, stop |-> 0]
        ELSE IF m[i].sym = END THEN [out |-> <<>>, stop |-> i]
        ELSE IF m[i].sym = ESC
        THEN [g[i + 2] EXCEPT !.out = Unstuffed(m[i + 1]) \o @]
        ELSE [g[i + 1] EXCEPT !.out = <<m[i]>> \o @]

\* The unescaped byte of a byte is one of the same frame.
Closed(B) == \A b \in B : Byte(END, b.of) \in B /\ Byte(ESC, b.of) \in B

\* What a scan may return.
Found(B) == [out : Seq(B), stop : Nat]

\* The second byte of an escape gives one byte, or none.
LEMMA UnstuffedType ==
  ASSUME NEW B, Closed(B), NEW b \in B
  PROVE  Unstuffed(b) \in Seq(B) /\ Len(Unstuffed(b)) \in 0..1
BY DEF Closed, Unstuffed

\* One step of the scan finds what it should if those behind it do.
LEMMA ScanAtType ==
  ASSUME NEW B, Closed(B), NEW m \in Seq(B), NEW g, NEW i \in 1..(Len(m) + 2),
         i <= Len(m) => g[i + 1] \in Found(B) /\ g[i + 2] \in Found(B)
  PROVE  ScanAt(m, g, i) \in Found(B)
<1>1. CASE i > Len(m) \/ (i = Len(m) /\ m[i].sym = ESC)
  BY <1>1 DEF ScanAt, Found
<1>2. CASE ~(i > Len(m) \/ (i = Len(m) /\ m[i].sym = ESC))
  <2>1. m[i] \in B /\ i <= Len(m)
    BY <1>2
  <2>2. CASE m[i].sym = END
    BY <1>2, <2>2 DEF ScanAt, Found
  <2>3. CASE m[i].sym = ESC
    <3>1. i + 1 \in 1..Len(m) /\ m[i].sym # END
      BY <1>2, <2>1, <2>3 DEF END, ESC
    <3>2. Unstuffed(m[i + 1]) \in Seq(B) /\ g[i + 2] \in Found(B)
      BY <2>1, <3>1, UnstuffedType
    <3>3. ScanAt(m, g, i) = [g[i + 2] EXCEPT !.out = Unstuffed(m[i + 1]) \o @]
      BY <1>2, <2>3, <3>1 DEF ScanAt
    <3>4. Unstuffed(m[i + 1]) \o g[i + 2].out \in Seq(B)
      BY <3>2 DEF Found
    <3> QED
      BY <3>2, <3>3, <3>4 DEF Found
  <2>4. CASE m[i].sym # END /\ m[i].sym # ESC
    <3>1. g[i + 1] \in Found(B)
      BY <2>1
    <3>2. ScanAt(m, g, i) = [g[i + 1] EXCEPT !.out = <<m[i]>> \o @]
      BY <1>2, <2>4 DEF ScanAt
    <3>3. <<m[i]>> \o g[i + 1].out \in Seq(B)
      BY <2>1, <3>1 DEF Found
    <3> QED
      BY <3>1, <3>2, <3>3 DEF Found
  <2> QED
    BY <2>2, <2>3, <2>4
<1> QED
  BY <1>1, <1>2

\* The function of Scan exists.
LEMMA ScanExists ==
  ASSUME NEW B, Closed(B), NEW m \in Seq(B)
  PROVE  \E g \in [1..(Len(m) + 2) -> Found(B)] :
            g = [i \in 1..(Len(m) + 2) |-> ScanAt(m, g, i)]
<1> DEFINE I == 1..(Len(m) + 2)
           Part(k, g) == /\ g \in [I -> Found(B)]
                         /\ \A i \in I : i + k > Len(m) + 2 => g[i] = ScanAt(m, g, i)
           T == {k \in Nat : \E g : Part(k, g)}
<1>0. Len(m) \in Nat /\ [out |-> <<>>, stop |-> 0] \in Found(B)
  BY DEF Found
<1>1. 0 \in T
  <2>1. Part(0, [i \in I |-> [out |-> <<>>, stop |-> 0]])
    BY <1>0
  <2> QED
    BY <2>1
<1>2. ASSUME NEW k \in Nat, k \in T PROVE k + 1 \in T
  <2>1. PICK g : Part(k, g)
    BY <1>2
  <2>2. CASE k >= Len(m) + 2
    <3>1. Part(k + 1, g)
      BY <1>0, <2>1, <2>2
    <3> QED
      BY <3>1
  <2>3. CASE k < Len(m) + 2
    <3> DEFINE j == Len(m) + 2 - k
               h == [g EXCEPT ![j] = ScanAt(m, g, j)]
    <3>1. j \in I /\ j + k = Len(m) + 2
      BY <1>0, <2>3
    <3>2. ScanAt(m, g, j) \in Found(B)
      <4>1. j <= Len(m) => j + 1 \in I /\ j + 2 \in I
        BY <1>0, <3>1
      <4>2. g \in [I -> Found(B)]
        BY <2>1
      <4>3. j <= Len(m) => g[j + 1] \in Found(B) /\ g[j + 2] \in Found(B)
        BY <4>1, <4>2
      <4> HIDE DEF j
      <4> QED
        BY <3>1, <4>3, ScanAtType
    <3>3. h \in [I -> Found(B)] /\ h[j] = ScanAt(m, g, j)
          /\ \A i \in I : i # j => h[i] = g[i]
      BY <2>1, <3>1, <3>2
    <3> HIDE DEF h, j
    <3>4. ASSUME NEW i \in I, i + (k + 1) > Len(m) + 2 PROVE h[i] = ScanAt(m, h, i)
      <4>1. i >= j
        BY <1>0, <3>1, <3>4
      <4>2. i <= Len(m) => i + 1 \in I /\ i + 2 \in I /\ i + 1 # j /\ i + 2 # j
        BY <1>0, <3>1, <4>1
      <4>3. i <= Len(m) => h[i + 1] = g[i + 1] /\ h[i + 2] = g[i + 2]
        BY <3>3, <4>2
      <4>4. ScanAt(m, h, i) = ScanAt(m, g, i)
        <5>1. CASE i > Len(m) \/ (i = Len(m) /\ m[i].sym = ESC)
          BY <5>1 DEF ScanAt
        <5>2. CASE i <= Len(m)
          <6>1. h[i + 1] = g[i + 1] /\ h[i + 2] = g[i + 2]
            BY <4>3, <5>2
          <6> QED
            BY <6>1 DEF ScanAt
        <5> QED
          BY <1>0, <5>1, <5>2
      <4>5. CASE i = j
        BY <3>3, <4>4, <4>5
      <4>6. CASE i # j
        <5>1. i + k > Len(m) + 2
          BY <1>0, <3>1, <4>1, <4>6
        <5>2. g[i] = ScanAt(m, g, i)
          BY <2>1, <5>1
        <5> QED
          BY <3>3, <4>4, <4>6, <5>2
      <4> QED
        BY <4>5, <4>6
    <3>5. Part(k + 1, h)
      BY <3>3, <3>4
    <3> QED
      BY <3>5
  <2> QED
    BY <1>0, <2>2, <2>3
<1>3. Len(m) + 2 \in T
  <2> HIDE DEF T
  <2> QED
    BY <1>0, <1>1, <1>2, Induction
<1>4. PICK g : Part(Len(m) + 2, g)
  BY <1>3
<1>5. \A i \in I : g[i] = ScanAt(m, g, i)
  BY <1>0, <1>4
<1>6. g \in [I -> Found(B)]
  BY <1>4
<1>7. g = [i \in I |-> ScanAt(m, g, i)]
  BY <1>5, <1>6
<1> QED
  BY <1>6, <1>7

\* What Scan does with the byte at p.
ScanStep(m, p) ==
  /\ p > Len(m) => Scan(m, p) = [out |-> <<>>, stop |-> 0]
  /\ p = Len(m) /\ m[p].sym = ESC => Scan(m, p) = [out |-> <<>>, stop |-> 0]
  /\ p <= Len(m) /\ m[p].sym = END => Scan(m, p) = [out |-> <<>>, stop |-> p]
  /\ p < Len(m) /\ m[p].sym = ESC =>
       /\ Scan(m, p).out = Unstuffed(m[p + 1]) \o Scan(m, p + 2).out
       /\ Scan(m, p).stop = Scan(m, p + 2).stop
  /\ p <= Len(m) /\ m[p].sym \notin {END, ESC} =>
       /\ Scan(m, p).out = <<m[p]>> \o Scan(m, p + 1).out
       /\ Scan(m, p).stop = Scan(m, p + 1).stop

\* The scan is typed, and does at p what its definition says.
LEMMA ScanSteps ==
  ASSUME NEW B, Closed(B), NEW m \in Seq(B), NEW p \in 1..(Len(m) + 2)
  PROVE  Scan(m, p) \in Found(B) /\ ScanStep(m, p)
<1> DEFINE f == CHOOSE g : g = [i \in 1..(Len(m) + 2) |-> ScanAt(m, g, i)]
<1>0. Len(m) \in Nat
  OBVIOUS
<1>1. f = [i \in 1..(Len(m) + 2) |-> ScanAt(m, f, i)]
  <2>1. PICK h : h = [i \in 1..(Len(m) + 2) |-> ScanAt(m, h, i)]
    BY ScanExists
  <2> QED
    BY <2>1
<1>2. ASSUME NEW q PROVE Scan(m, q) = f[q]
  BY Zenon DEF Scan, ScanAt
<1> HIDE DEF f
<1>3. \A i \in 1..(Len(m) + 2) : f[i] = ScanAt(m, f, i)
  BY <1>1
<1> DEFINE T == {k \in Nat : \A i \in 1..(Len(m) + 2) :
                                i + k >= Len(m) + 2 => f[i] \in Found(B)}
<1>4. \A k \in Nat : k \in T
  <2>1. 0 \in T
    <3>1. ASSUME NEW i \in 1..(Len(m) + 2), i + 0 >= Len(m) + 2 PROVE f[i] \in Found(B)
      BY <1>0, <1>3, <3>1, ScanAtType
    <3> QED
      BY <3>1
  <2>2. ASSUME NEW k \in Nat, k \in T PROVE k + 1 \in T
    <3>1. ASSUME NEW i \in 1..(Len(m) + 2), i + (k + 1) >= Len(m) + 2 PROVE f[i] \in Found(B)
      <4>1. i <= Len(m) => f[i + 1] \in Found(B) /\ f[i + 2] \in Found(B)
        <5> SUFFICES ASSUME i <= Len(m) PROVE f[i + 1] \in Found(B) /\ f[i + 2] \in Found(B)
          OBVIOUS
        <5>1. /\ i + 1 \in 1..(Len(m) + 2) /\ (i + 1) + k >= Len(m) + 2
              /\ i + 2 \in 1..(Len(m) + 2) /\ (i + 2) + k >= Len(m) + 2
          BY <1>0, <3>1
        <5> QED
          BY <2>2, <5>1
      <4> QED
        BY <1>3, <4>1, ScanAtType
    <3> QED
      BY <3>1
  <2> HIDE DEF T
  <2> QED
    BY <2>1, <2>2, Induction
<1>5. \A i \in 1..(Len(m) + 2) : f[i] \in Found(B)
  <2>1. Len(m) + 2 \in T
    <3> HIDE DEF T
    <3> QED
      BY <1>0, <1>4
  <2> QED
    BY <1>0, <2>1
<1>6. Scan(m, p) \in Found(B)
  BY <1>2, <1>5
<1>7. Scan(m, p) = ScanAt(m, f, p)
  BY <1>2, <1>3
<1>8. p <= Len(m) => Scan(m, p + 1) = f[p + 1] /\ Scan(m, p + 2) = f[p + 2]
                     /\ f[p + 1] \in Found(B) /\ f[p + 2] \in Found(B)
  <2>1. p <= Len(m) => p + 1 \in 1..(Len(m) + 2) /\ p + 2 \in 1..(Len(m) + 2)
    BY <1>0
  <2> QED
    BY <1>2, <1>5, <2>1
<1>9. /\ p > Len(m) => Scan(m, p) = [out |-> <<>>, stop |-> 0]
      /\ p = Len(m) /\ m[p].sym = ESC => Scan(m, p) = [out |-> <<>>, stop |-> 0]
      /\ p <= Len(m) /\ m[p].sym = END => Scan(m, p) = [out |-> <<>>, stop |-> p]
  BY <1>0, <1>7 DEF ScanAt, END, ESC
<1>10. ASSUME p < Len(m), m[p].sym = ESC
       PROVE  /\ Scan(m, p).out = Unstuffed(m[p + 1]) \o Scan(m, p + 2).out
              /\ Scan(m, p).stop = Scan(m, p + 2).stop
  <2>1. Scan(m, p) = [f[p + 2] EXCEPT !.out = Unstuffed(m[p + 1]) \o @]
    BY <1>0, <1>7, <1>10 DEF ScanAt, END, ESC
  <2>2. f[p + 2] \in Found(B) /\ Scan(m, p + 2) = f[p + 2]
    BY <1>0, <1>8, <1>10
  <2> QED
    BY <2>1, <2>2 DEF Found
<1>11. ASSUME p <= Len(m), m[p].sym \notin {END, ESC}
       PROVE  /\ Scan(m, p).out = <<m[p]>> \o Scan(m, p + 1).out
              /\ Scan(m, p).stop = Scan(m, p + 1).stop
  <2>1. Scan(m, p) = [f[p + 1] EXCEPT !.out = <<m[p]>> \o @]
    BY <1>0, <1>7, <1>11 DEF ScanAt
  <2>2. f[p + 1] \in Found(B) /\ Scan(m, p + 1) = f[p + 1]
    BY <1>0, <1>8, <1>11
  <2> QED
    BY <2>1, <2>2 DEF Found
<1> QED
  BY <1>6, <1>9, <1>10, <1>11 DEF ScanStep

\* What holds at p whenever it holds behind p holds everywhere.
LEMMA Downward ==
  ASSUME NEW L \in Nat, NEW T,
         \A p \in 1..(L + 1) : (\A q \in 1..(L + 1) : q > p => q \in T) => p \in T
  PROVE  \A p \in 1..(L + 1) : p \in T
<1> DEFINE U == {k \in Nat : \A p \in 1..(L + 1) : p + k > L => p \in T}
<1>1. 0 \in U
  <2>1. ASSUME NEW p \in 1..(L + 1), p + 0 > L PROVE p \in T
    <3>1. \A q \in 1..(L + 1) : ~(q > p)
      BY <2>1
    <3> QED
      BY <3>1
  <2> QED
    BY <2>1
<1>2. ASSUME NEW k \in Nat, k \in U PROVE k + 1 \in U
  <2>1. ASSUME NEW p \in 1..(L + 1), p + (k + 1) > L PROVE p \in T
    <3>1. ASSUME NEW q \in 1..(L + 1), q > p PROVE q \in T
      <4>1. q + k > L
        BY <2>1, <3>1
      <4> QED
        BY <1>2, <4>1
    <3> QED
      BY <3>1
  <2> QED
    BY <2>1
<1>3. L + 1 \in U
  <2> HIDE DEF U
  <2> QED
    BY <1>1, <1>2, Induction
<1> QED
  BY <1>3

\* One sequence behind another.
LEMMA ConcatFacts ==
  ASSUME NEW B, NEW s \in Seq(B), NEW t \in Seq(B)
  PROVE  /\ s \o t \in Seq(B) /\ Len(s \o t) = Len(s) + Len(t)
         /\ Len(s) \in Nat /\ Len(t) \in Nat
         /\ \A i \in 1..Len(s) : (s \o t)[i] = s[i]
         /\ \A i \in 1..Len(t) : (s \o t)[Len(s) + i] = t[i]
<1>1. Len(s) \in Nat /\ Len(t) \in Nat /\ Len(s \o t) = Len(s) + Len(t)
  OBVIOUS
<1>2. \A i \in 1..(Len(s) + Len(t)) :
        (s \o t)[i] = IF i <= Len(s) THEN s[i] ELSE t[i - Len(s)]
  BY ConcatProperties
<1>3. ASSUME NEW i \in 1..Len(s) PROVE (s \o t)[i] = s[i]
  BY <1>1, <1>2
<1>4. ASSUME NEW i \in 1..Len(t) PROVE (s \o t)[Len(s) + i] = t[i]
  <2>1. Len(s) + i \in 1..(Len(s) + Len(t)) /\ ~(Len(s) + i <= Len(s))
        /\ (Len(s) + i) - Len(s) = i
    BY <1>1
  <2> QED
    BY <1>2, <2>1
<1> QED
  BY <1>1, <1>3, <1>4

\* How far Scan gets from p, and how much it writes.
Bounded(m, p) ==
  LET d == Scan(m, p)
  IN  /\ d.stop = 0 => /\ Len(d.out) <= Len(m) - p + 1
                       /\ p <= Len(m) /\ Len(d.out) = Len(m) - p + 1
                            => d.out[Len(d.out)] = m[Len(m)]
      /\ d.stop # 0 => /\ d.stop \in p..Len(m) /\ m[d.stop].sym = END
                       /\ Len(d.out) <= d.stop - p

\* So it is at p if it is so behind p.
LEMMA BoundedStep ==
  ASSUME NEW B, Closed(B), NEW m \in Seq(B), NEW p \in 1..(Len(m) + 1),
         \A q \in 1..(Len(m) + 1) : q > p => Bounded(m, q)
  PROVE  Bounded(m, p)
<1>0. Len(m) \in Nat /\ Len(<<>>) = 0 /\ 1..0 = {}
  OBVIOUS
<1>1. Scan(m, p) \in Found(B) /\ ScanStep(m, p)
  BY ScanSteps
<1>2. CASE p > Len(m) \/ (p = Len(m) /\ m[p].sym = ESC)
  <2>1. Scan(m, p) = [out |-> <<>>, stop |-> 0]
    BY <1>1, <1>2 DEF ScanStep
  <2> QED
    BY <1>0, <1>2, <2>1 DEF Bounded
<1>3. CASE p <= Len(m) /\ m[p].sym = END
  <2>1. Scan(m, p) = [out |-> <<>>, stop |-> p]
    BY <1>1, <1>3 DEF ScanStep
  <2> QED
    BY <1>0, <1>3, <2>1 DEF Bounded
<1>4. CASE p < Len(m) /\ m[p].sym = ESC
  <2> DEFINE u == Unstuffed(m[p + 1])
             e == Scan(m, p + 2)
             d == Scan(m, p)
  <2>1. d.out = u \o e.out /\ d.stop = e.stop
    BY <1>0, <1>1, <1>4 DEF ScanStep
  <2>2. p + 2 \in 1..(Len(m) + 1) /\ p + 2 > p /\ m[p + 1] \in B
    BY <1>0, <1>4
  <2>3. Bounded(m, p + 2)
    BY <2>2
  <2>4. u \in Seq(B) /\ Len(u) \in 0..1
    BY <2>2, UnstuffedType
  <2>5. e.out \in Seq(B) /\ e.stop \in Nat
    BY <2>2, ScanSteps DEF Found
  <2>6. Len(d.out) = Len(u) + Len(e.out) /\ Len(e.out) \in Nat
    BY <2>1, <2>4, <2>5, ConcatFacts
  <2>7. /\ e.stop = 0 => Len(e.out) <= Len(m) - (p + 2) + 1
        /\ e.stop # 0 => /\ e.stop \in (p + 2)..Len(m) /\ m[e.stop].sym = END
                         /\ Len(e.out) <= e.stop - (p + 2)
    BY <2>3 DEF Bounded
  <2> HIDE DEF d, e, u
  <2>8. /\ d.stop = 0 => Len(d.out) < Len(m) - p + 1
        /\ d.stop # 0 => /\ d.stop \in p..Len(m) /\ m[d.stop].sym = END
                         /\ Len(d.out) <= d.stop - p
    <3> DEFINE a == Len(d.out)
               b == Len(e.out)
               c == Len(u)
               l == Len(m)
    <3>1. /\ a = c + b /\ b \in Nat /\ c \in 0..1 /\ p \in Int /\ l \in Nat
          /\ d.stop = e.stop /\ e.stop \in Nat
      BY <1>0, <2>1, <2>4, <2>5, <2>6
    <3>2. CASE e.stop = 0
      <4>1. b <= l - (p + 2) + 1
        BY <2>7, <3>2
      <4> HIDE DEF a, b, c, l
      <4>2. a < l - p + 1
        BY <3>1, <4>1
      <4> QED
        BY <3>1, <3>2, <4>2 DEF a, l
    <3>3. CASE e.stop # 0
      <4>1. e.stop \in (p + 2)..l /\ m[e.stop].sym = END /\ b <= e.stop - (p + 2)
        BY <2>7, <3>3
      <4> HIDE DEF a, b, c, l
      <4>2. a <= e.stop - p /\ e.stop \in p..l
        BY <3>1, <4>1
      <4> QED
        BY <3>1, <3>3, <4>1, <4>2 DEF a, l
    <3> QED
      BY <3>2, <3>3
  <2>9. Len(d.out) \in Nat
    BY <2>4, <2>6
  <2> QED
    BY <1>0, <2>8, <2>9 DEF Bounded, d
<1>5. CASE p <= Len(m) /\ m[p].sym \notin {END, ESC}
  <2> DEFINE u == <<m[p]>>
             e == Scan(m, p + 1)
             d == Scan(m, p)
  <2>1. d.out = u \o e.out /\ d.stop = e.stop
    BY <1>0, <1>1, <1>5 DEF ScanStep
  <2>2. p + 1 \in 1..(Len(m) + 1) /\ p + 1 > p /\ m[p] \in B
    BY <1>0, <1>5
  <2>3. Bounded(m, p + 1)
    BY <2>2
  <2>4. u \in Seq(B) /\ Len(u) = 1 /\ u[1] = m[p]
    BY <2>2
  <2>5. e.out \in Seq(B) /\ e.stop \in Nat
    BY <2>2, ScanSteps DEF Found
  <2>6. /\ Len(d.out) = 1 + Len(e.out) /\ Len(e.out) \in Nat
        /\ \A i \in 1..Len(e.out) : d.out[1 + i] = e.out[i]
        /\ d.out[1] = m[p]
    BY <2>1, <2>4, <2>5, ConcatFacts
  <2>7. /\ e.stop = 0 => /\ Len(e.out) <= Len(m) - (p + 1) + 1
                         /\ p + 1 <= Len(m) /\ Len(e.out) = Len(m) - (p + 1) + 1
                              => e.out[Len(e.out)] = m[Len(m)]
        /\ e.stop # 0 => /\ e.stop \in (p + 1)..Len(m) /\ m[e.stop].sym = END
                         /\ Len(e.out) <= e.stop - (p + 1)
    BY <2>3 DEF Bounded
  <2> HIDE DEF d, e, u
  <2>8. d.stop # 0 => /\ d.stop \in p..Len(m) /\ m[d.stop].sym = END
                      /\ Len(d.out) <= d.stop - p
    BY <1>0, <2>1, <2>5, <2>6, <2>7
  <2>9. ASSUME d.stop = 0
        PROVE  /\ Len(d.out) <= Len(m) - p + 1
               /\ Len(d.out) = Len(m) - p + 1 => d.out[Len(d.out)] = m[Len(m)]
    <3>1. Len(d.out) <= Len(m) - p + 1
      BY <1>0, <2>1, <2>6, <2>7, <2>9
    <3>2. CASE p = Len(m) /\ Len(d.out) = Len(m) - p + 1
      <4>1. Len(d.out) = 1
        BY <1>0, <3>2
      <4> QED
        BY <2>6, <3>2, <4>1
    <3>3. CASE p < Len(m) /\ Len(d.out) = Len(m) - p + 1
      <4>1. p + 1 <= Len(m) /\ Len(e.out) = Len(m) - (p + 1) + 1 /\ Len(e.out) \in 1..Len(e.out)
        BY <1>0, <2>6, <3>3
      <4>2. d.out[1 + Len(e.out)] = m[Len(m)]
        BY <2>1, <2>6, <2>7, <2>9, <4>1
      <4>3. Len(d.out) = 1 + Len(e.out)
        BY <2>6
      <4> QED
        BY <3>1, <4>2, <4>3
    <3>4. p = Len(m) \/ p < Len(m)
      BY <1>0, <1>5
    <3> QED
      BY <3>1, <3>2, <3>3, <3>4
  <2> QED
    BY <2>8, <2>9 DEF Bounded, d
<1> QED
  BY <1>0, <1>2, <1>3, <1>4, <1>5

\* So it is everywhere.
LEMMA ScanBounded ==
  ASSUME NEW B, Closed(B), NEW m \in Seq(B)
  PROVE  \A p \in 1..(Len(m) + 1) : Bounded(m, p)
<1> DEFINE T == {p \in 1..(Len(m) + 1) : Bounded(m, p)}
<1>1. ASSUME NEW p \in 1..(Len(m) + 1), \A q \in 1..(Len(m) + 1) : q > p => q \in T
      PROVE  p \in T
  <2>1. \A q \in 1..(Len(m) + 1) : q > p => Bounded(m, q)
    BY <1>1
  <2> QED
    BY <2>1, BoundedStep
<1>2. \A p \in 1..(Len(m) + 1) : p \in T
  <2> HIDE DEF T
  <2>1. Len(m) \in Nat
    OBVIOUS
  <2> QED
    BY <1>1, <2>1, Downward
<1> QED
  BY <1>2

\* An END that is no part of an escape, and behind a byte of its frame.
Closer(w, c) == c \in 2..Len(w) /\ w[c].sym = END /\ w[c - 1].sym \notin {END, ESC}

\* No scan goes past it.
LEMMA ScanToCloser ==
  ASSUME NEW B, Closed(B), NEW m \in Seq(B), NEW c, Closer(m, c)
  PROVE  \A p \in 1..(Len(m) + 1) : p <= c => Scan(m, p).stop \in p..c
<1> DEFINE T == {p \in 1..(Len(m) + 1) : p <= c => Scan(m, p).stop \in p..c}
<1>0. Len(m) \in Nat /\ c \in 2..Len(m) /\ m[c].sym = END /\ m[c - 1].sym \notin {END, ESC}
  BY DEF Closer
<1>1. ASSUME NEW p \in 1..(Len(m) + 1), \A q \in 1..(Len(m) + 1) : q > p => q \in T
      PROVE  p \in T
  <2>1. CASE p > c
    BY <1>0, <2>1
  <2>2. CASE p <= c
    <3>1. ScanStep(m, p)
      BY ScanSteps
    <3>2. CASE m[p].sym = END
      <4>1. Scan(m, p).stop = p
        BY <1>0, <2>2, <3>1, <3>2 DEF ScanStep
      <4> QED
        BY <1>0, <2>2, <4>1
    <3>3. CASE m[p].sym = ESC
      <4>1. p # c /\ p # c - 1
        BY <1>0, <3>3 DEF END, ESC
      <4>2. p + 2 <= c /\ p + 2 \in 1..(Len(m) + 1) /\ p + 2 > p /\ p < Len(m)
        BY <1>0, <2>2, <4>1
      <4>3. Scan(m, p + 2).stop \in (p + 2)..c
        BY <1>1, <4>2
      <4>4. Scan(m, p).stop = Scan(m, p + 2).stop
        BY <3>1, <3>3, <4>2 DEF ScanStep
      <4> QED
        BY <1>0, <4>3, <4>4
    <3>4. CASE m[p].sym \notin {END, ESC}
      <4>1. p # c
        BY <1>0, <3>4
      <4>2. p + 1 <= c /\ p + 1 \in 1..(Len(m) + 1) /\ p + 1 > p /\ p <= Len(m)
        BY <1>0, <2>2, <4>1
      <4>3. Scan(m, p + 1).stop \in (p + 1)..c
        BY <1>1, <4>2
      <4>4. Scan(m, p).stop = Scan(m, p + 1).stop
        BY <3>1, <3>4, <4>2 DEF ScanStep
      <4> QED
        BY <1>0, <4>3, <4>4
    <3> QED
      BY <3>2, <3>3, <3>4
  <2> QED
    BY <1>0, <2>1, <2>2
<1>2. \A p \in 1..(Len(m) + 1) : p \in T
  <2> HIDE DEF T
  <2> QED
    BY <1>0, <1>1, Downward
<1> QED
  BY <1>2

\* If Decode has written as many bytes as it was given, the last is as it was.
LastStays(m, p, d) ==
  p <= Len(m) /\ Len(d.out) = Len(m) - p + 1 => d.out[Len(d.out)] = m[Len(m)]

\* What Decode finds at p.
LEMMA DecodeFacts ==
  ASSUME NEW B, Closed(B), NEW m \in Seq(B), NEW p \in 1..(Len(m) + 1), NEW d, d = Decode(m, p)
  PROVE  /\ d.out \in Seq(B) /\ d.stop \in Nat /\ d.frame \in BOOLEAN
         /\ p > Len(m) => d.out = <<>> /\ d.stop = 0
         /\ d.stop = 0 => Len(d.out) <= Len(m) - p + 1 /\ LastStays(m, p, d)
         /\ d.stop # 0 => /\ d.stop \in p..Len(m) /\ m[d.stop].sym = END
                          /\ Len(d.out) <= d.stop - p
         /\ d.frame => /\ p <= Len(m) /\ m[p].sym = END /\ d.stop # 0 /\ d.out # <<>>
                       /\ Len(d.out) <= d.stop - p - 1 /\ Len(d.out) \in Nat \ {0}
<1>0. Len(m) \in Nat
  OBVIOUS
<1>1. CASE p <= Len(m) /\ m[p].sym = END
  <2> DEFINE e == Scan(m, p + 1)
  <2>1. d = [out |-> e.out, stop |-> e.stop, frame |-> e.stop > 0 /\ e.out # <<>>]
    BY <1>1 DEF Decode
  <2>2. p + 1 \in 1..(Len(m) + 1)
    BY <1>0, <1>1
  <2>3. e \in Found(B) /\ Bounded(m, p + 1)
    BY <2>2, ScanSteps, ScanBounded
  <2>4. e.out \in Seq(B) /\ e.stop \in Nat /\ Len(e.out) \in Nat
        /\ (e.out # <<>> => Len(e.out) # 0)
    BY <2>3 DEF Found
  <2>5. /\ e.stop = 0 => Len(e.out) <= Len(m) - p
        /\ e.stop # 0 => /\ e.stop \in (p + 1)..Len(m) /\ m[e.stop].sym = END
                         /\ Len(e.out) <= e.stop - (p + 1)
    BY <1>0, <2>3 DEF Bounded
  <2>6. /\ d.out = e.out /\ d.stop = e.stop
        /\ d.frame = (e.stop > 0 /\ e.out # <<>>)
    BY <2>1
  <2> HIDE DEF e
  <2>7. d.stop = 0 => Len(d.out) <= Len(m) - p + 1 /\ Len(d.out) # Len(m) - p + 1
    BY <1>0, <2>4, <2>5, <2>6
  <2>8. d.stop # 0 => /\ d.stop \in p..Len(m) /\ m[d.stop].sym = END
                      /\ Len(d.out) <= d.stop - p /\ Len(d.out) <= d.stop - p - 1
    BY <1>0, <2>4, <2>5, <2>6
  <2>9. d.frame \in BOOLEAN /\ (d.frame => d.stop # 0 /\ d.out # <<>>)
    <3>1. e.stop > 0 => e.stop # 0
      BY <2>4
    <3> QED
      BY <2>6, <3>1
  <2>10. d.out # <<>> => Len(d.out) \in Nat \ {0}
    BY <2>4, <2>6
  <2> QED
    BY <1>1, <2>4, <2>6, <2>7, <2>8, <2>9, <2>10 DEF LastStays
<1>2. CASE ~(p <= Len(m) /\ m[p].sym = END)
  <2> DEFINE e == Scan(m, p)
  <2>1. d.out = e.out /\ d.stop = e.stop /\ d.frame = FALSE
    BY <1>2 DEF Decode
  <2>2. e \in Found(B) /\ Bounded(m, p) /\ ScanStep(m, p)
    BY ScanSteps, ScanBounded
  <2>3. e.out \in Seq(B) /\ e.stop \in Nat
    BY <2>2 DEF Found
  <2>4. p > Len(m) => e.out = <<>> /\ e.stop = 0
    BY <2>2 DEF ScanStep
  <2>5. /\ e.stop = 0 => /\ Len(e.out) <= Len(m) - p + 1
                         /\ p <= Len(m) /\ Len(e.out) = Len(m) - p + 1
                              => e.out[Len(e.out)] = m[Len(m)]
        /\ e.stop # 0 => /\ e.stop \in p..Len(m) /\ m[e.stop].sym = END
                         /\ Len(e.out) <= e.stop - p
    BY <2>2 DEF Bounded
  <2> HIDE DEF e
  <2> QED
    BY <2>1, <2>3, <2>4, <2>5 DEF LastStays
<1> QED
  BY <1>1, <1>2

\* Decoding in place changes nothing behind what it writes.
Shifted(B, m, p, r, out) ==
  /\ r \in Seq(B) /\ Len(r) = Len(m) - p + 1
  /\ \A x \in 1..Len(r) : x > Len(out) => r[x] = m[p + x - 1]
  /\ \A x \in 1..Len(out) : r[x] = out[x]

LEMMA InPlaceFacts ==
  ASSUME NEW B, Closed(B), NEW m \in Seq(B), NEW p \in 1..(Len(m) + 1),
         NEW r, r = InPlace(m, p), NEW d, d = Decode(m, p)
  PROVE  Shifted(B, m, p, r, d.out)
<1> DEFINE t == SubSeq(m, p + Len(d.out), Len(m))
<1>1. /\ d.out \in Seq(B) /\ Len(d.out) \in Nat /\ Len(m) \in Nat
      /\ Len(d.out) <= Len(m) - p + 1
  BY DecodeFacts
<1>2. /\ t \in Seq(B) /\ Len(t) = Len(m) - p + 1 - Len(d.out)
      /\ \A i \in 1..Len(t) : t[i] = m[p + Len(d.out) + i - 1]
  <2>1. \A i \in (p + Len(d.out))..Len(m) : m[i] \in B
    BY <1>1
  <2>2. p + Len(d.out) \in Int /\ Len(m) \in Int
    BY <1>1
  <2>3. /\ t \in Seq(B)
        /\ Len(t) = IF p + Len(d.out) <= Len(m) THEN Len(m) - (p + Len(d.out)) + 1 ELSE 0
        /\ \A i \in 1..(Len(m) - (p + Len(d.out)) + 1) : t[i] = m[p + Len(d.out) + i - 1]
    <3> DEFINE a == p + Len(d.out)
               b == Len(m)
    <3>1. a \in Int /\ b \in Int /\ \A i \in a..b : m[i] \in B
      BY <2>1, <2>2
    <3> HIDE DEF a, b
    <3>2. /\ SubSeq(m, a, b) \in Seq(B)
          /\ Len(SubSeq(m, a, b)) = IF a <= b THEN b - a + 1 ELSE 0
          /\ \A i \in 1..(b - a + 1) : SubSeq(m, a, b)[i] = m[a + i - 1]
      BY <3>1, SubSeqProperties
    <3> QED
      BY <3>2 DEF a, b
  <2> HIDE DEF t
  <2>4. Len(t) = Len(m) - p + 1 - Len(d.out)
    <3> DEFINE a == Len(d.out)
               b == Len(m)
    <3>1. a \in Nat /\ b \in Nat /\ a <= b - p + 1
          /\ Len(t) = IF p + a <= b THEN b - (p + a) + 1 ELSE 0
      BY <1>1, <2>3
    <3> HIDE DEF a, b
    <3>2. Len(t) = b - p + 1 - a
      BY <3>1
    <3> QED
      BY <3>2 DEF a, b
  <2>5. Len(t) = Len(m) - (p + Len(d.out)) + 1
    BY <1>1, <2>4
  <2> QED
    BY <2>3, <2>4, <2>5
<1>3. r = d.out \o t
  BY DEF InPlace
<1> HIDE DEF t
<1>4. /\ r \in Seq(B) /\ Len(r) = Len(d.out) + Len(t)
      /\ \A i \in 1..Len(d.out) : r[i] = d.out[i]
      /\ \A i \in 1..Len(t) : r[Len(d.out) + i] = t[i]
  <2>1. PICK u : u = d.out
    OBVIOUS
  <2>2. u \in Seq(B) /\ t \in Seq(B) /\ r = u \o t
    BY <1>1, <1>2, <1>3, <2>1
  <2>3. /\ r \in Seq(B) /\ Len(r) = Len(u) + Len(t)
        /\ \A i \in 1..Len(u) : r[i] = u[i]
        /\ \A i \in 1..Len(t) : r[Len(u) + i] = t[i]
    BY ONLY <2>2, ConcatFacts
  <2> QED
    BY ONLY <2>1, <2>3
<1>5. ASSUME NEW x \in 1..Len(r), x > Len(d.out) PROVE r[x] = m[p + x - 1]
  <2>1. x - Len(d.out) \in 1..Len(t) /\ Len(d.out) + (x - Len(d.out)) = x
    BY <1>1, <1>2, <1>4, <1>5
  <2>2. r[Len(d.out) + (x - Len(d.out))] = t[x - Len(d.out)]
    BY <1>4, <2>1
  <2>3. t[x - Len(d.out)] = m[p + Len(d.out) + (x - Len(d.out)) - 1]
    BY <1>2, <2>1
  <2>4. p + Len(d.out) + (x - Len(d.out)) - 1 = p + x - 1
    <3> DEFINE a == Len(d.out)
    <3>1. a \in Nat /\ x \in Int /\ p \in Int
      BY <1>1
    <3> HIDE DEF a
    <3>2. p + a + (x - a) - 1 = p + x - 1
      BY <3>1
    <3> QED
      BY <3>2 DEF a
  <2> QED
    BY <2>1, <2>2, <2>3, <2>4
<1>6. /\ r \in Seq(B) /\ Len(r) = Len(m) - p + 1
      /\ \A x \in 1..Len(d.out) : r[x] = d.out[x]
  BY <1>1, <1>2, <1>4
<1> QED
  BY <1>5, <1>6 DEF Shifted

\* The bytes that stay are as many as there were from p on.
LEMMA InPlaceIn ==
  ASSUME NEW B, Closed(B), NEW m \in Seq(B), NEW p \in 1..(Len(m) + 1)
  PROVE  InPlace(m, p) \in Seq(B) /\ Len(InPlace(m, p)) = Len(m) - p + 1
<1>1. PICK r : r = InPlace(m, p)
  OBVIOUS
<1>2. PICK d : d = Decode(m, p)
  OBVIOUS
<1>3. Shifted(B, m, p, r, d.out)
  BY <1>1, <1>2, InPlaceFacts
<1> QED
  BY <1>1, <1>3 DEF Shifted

-----------------------------------------------------------------------------
(* The loop of Dispatch.                                                   *)

\* One turn of the loop, with g for the turns behind it.
LoopAt(m, g, at) ==
  LET p == at[1]
      n == at[2]
      d == Decode(m, p)
  IN  IF p > Len(m) THEN [frames |-> <<>>, rest |-> <<>>]
      ELSE IF d.stop = 0 \/ (d.frame /\ n = 0)
      THEN [frames |-> <<>>, rest |-> InPlace(m, p)]
      ELSE IF d.frame
      THEN [g[<<d.stop + 1, n - 1>>] EXCEPT !.frames = <<d.out>> \o @]
      ELSE g[<<d.stop + 1, n>>]

\* The loop of Dispatch is a function that satisfies its equation.
LEMMA LoopIs ==
  ASSUME NEW m, NEW room, NEW h,
         h = [at \in (1..(Len(m) + 1)) \X (0..room) |-> LoopAt(m, h, at)]
  PROVE  \E g : g = [at \in (1..(Len(m) + 1)) \X (0..room) |-> LoopAt(m, g, at)]
                /\ Dispatch(m, room) = g[<<1, room>>]
<1> DEFINE f == CHOOSE g : g = [at \in (1..(Len(m) + 1)) \X (0..room) |-> LoopAt(m, g, at)]
<1>1. f = [at \in (1..(Len(m) + 1)) \X (0..room) |-> LoopAt(m, f, at)]
  OBVIOUS
<1>2. Dispatch(m, room) = f[<<1, room>>]
  BY Zenon DEF Dispatch, LoopAt
<1> HIDE DEF f
<1> QED
  BY <1>1, <1>2

\* Where the loop is: the place, and the frames it may still hand on.
Ats(m, room) == (1..(Len(m) + 1)) \X (0..room)

\* The loop only goes on.
LEMMA LoopGoesOn ==
  ASSUME NEW B, Closed(B), NEW m \in Seq(B), NEW room \in Nat, NEW at \in Ats(m, room),
         NEW g, NEW h, \A b \in Ats(m, room) : b[1] > at[1] => g[b] = h[b]
  PROVE  LoopAt(m, g, at) = LoopAt(m, h, at)
<1> DEFINE d == Decode(m, at[1])
<1>0. at[1] \in 1..(Len(m) + 1) /\ at[2] \in 0..room /\ Len(m) \in Nat
  BY DEF Ats
<1>1. d.stop \in Nat /\ (d.stop # 0 => d.stop \in at[1]..Len(m))
  BY <1>0, DecodeFacts
<1>2. CASE at[1] > Len(m) \/ d.stop = 0 \/ (d.frame /\ at[2] = 0)
  BY <1>2 DEF LoopAt
<1>3. CASE ~(at[1] > Len(m) \/ d.stop = 0 \/ (d.frame /\ at[2] = 0)) /\ d.frame
  <2>1. <<d.stop + 1, at[2] - 1>> \in Ats(m, room) /\ d.stop + 1 > at[1]
    <3>1. d.stop + 1 \in 1..(Len(m) + 1) /\ at[2] - 1 \in 0..room /\ d.stop + 1 > at[1]
      BY <1>0, <1>1, <1>3
    <3> QED
      BY <3>1 DEF Ats
  <2>2. g[<<d.stop + 1, at[2] - 1>>] = h[<<d.stop + 1, at[2] - 1>>]
    BY <2>1
  <2> QED
    BY <1>3, <2>2 DEF LoopAt
<1>4. CASE ~(at[1] > Len(m) \/ d.stop = 0) /\ ~d.frame
  <2>1. <<d.stop + 1, at[2]>> \in Ats(m, room) /\ d.stop + 1 > at[1]
    <3>1. d.stop + 1 \in 1..(Len(m) + 1) /\ d.stop + 1 > at[1]
      BY <1>0, <1>1, <1>4
    <3> QED
      BY <1>0, <3>1 DEF Ats
  <2>2. g[<<d.stop + 1, at[2]>>] = h[<<d.stop + 1, at[2]>>]
    BY <2>1
  <2> QED
    BY <1>4, <2>2 DEF LoopAt
<1> QED
  BY <1>2, <1>3, <1>4

\* There is such a function.
LEMMA LoopExists ==
  ASSUME NEW B, Closed(B), NEW m \in Seq(B), NEW room \in Nat
  PROVE  \E g : g = [at \in Ats(m, room) |-> LoopAt(m, g, at)]
<1> DEFINE I == Ats(m, room)
           Part(k, g) == /\ g = [at \in I |-> g[at]]
                         /\ \A at \in I : at[1] + k > Len(m) + 1 => g[at] = LoopAt(m, g, at)
           T == {k \in Nat : \E g : Part(k, g)}
<1>0. Len(m) \in Nat /\ \A at \in I : at[1] \in 1..(Len(m) + 1)
  BY DEF Ats
<1>1. 0 \in T
  <2> DEFINE h == [at \in I |-> 0]
  <2>1. Part(0, h)
    <3>1. h = [at \in I |-> h[at]]
      OBVIOUS
    <3>2. \A at \in I : ~(at[1] + 0 > Len(m) + 1)
      BY <1>0
    <3> HIDE DEF h
    <3> QED
      BY <3>1, <3>2
  <2> HIDE DEF h
  <2> QED
    BY <2>1
<1>2. ASSUME NEW k \in Nat, k \in T PROVE k + 1 \in T
  <2>1. PICK g : Part(k, g)
    BY <1>2
  <2> DEFINE j == Len(m) + 1 - k
             h == [at \in I |-> IF at[1] = j THEN LoopAt(m, g, at) ELSE g[at]]
  <2>2. h = [at \in I |-> h[at]]
    OBVIOUS
  <2>3. \A at \in I : h[at] = IF at[1] = j THEN LoopAt(m, g, at) ELSE g[at]
    OBVIOUS
  <2>4. j \in Int /\ j + k = Len(m) + 1
    BY <1>0
  <2> HIDE DEF h, j, I
  <2>5. ASSUME NEW at \in I, at[1] + (k + 1) > Len(m) + 1 PROVE h[at] = LoopAt(m, h, at)
    <3>1. at[1] \in Int /\ at[1] >= j
      BY <1>0, <2>4, <2>5
    <3>2. ASSUME NEW b \in I, b[1] > at[1] PROVE g[b] = h[b]
      <4>1. b[1] \in Int /\ b[1] # j
        BY <1>0, <2>4, <3>1, <3>2
      <4> QED
        BY <2>3, <4>1
    <3>3. LoopAt(m, g, at) = LoopAt(m, h, at)
      BY <3>2, LoopGoesOn DEF I
    <3>4. CASE at[1] = j
      BY <2>3, <3>3, <3>4
    <3>5. CASE at[1] # j
      <4>1. at[1] + k > Len(m) + 1
        BY <2>4, <3>1, <3>5
      <4>2. g[at] = LoopAt(m, g, at)
        BY <2>1, <4>1
      <4> QED
        BY <2>3, <3>3, <3>5, <4>2
    <3> QED
      BY <3>4, <3>5
  <2>6. Part(k + 1, h)
    BY <2>2, <2>5
  <2> QED
    BY <2>6
<1>3. Len(m) + 1 \in T
  <2> HIDE DEF T
  <2> QED
    BY <1>0, <1>1, <1>2, Induction
<1>4. PICK g : Part(Len(m) + 1, g)
  BY <1>3
<1>5. \A at \in I : g[at] = LoopAt(m, g, at)
  BY <1>0, <1>4
<1>6. g = [at \in I |-> g[at]]
  BY <1>4
<1>7. g = [at \in I |-> LoopAt(m, g, at)]
  <2> HIDE DEF I
  <2>1. [at \in I |-> g[at]] = [at \in I |-> LoopAt(m, g, at)]
    BY <1>5
  <2> QED
    BY <1>6, <2>1
<1> QED
  BY <1>7

\* Dispatch is what the loop returns at the first byte.
LEMMA DispatchIs ==
  ASSUME NEW B, Closed(B), NEW m \in Seq(B), NEW room \in Nat
  PROVE  \E g : /\ \A at \in Ats(m, room) : g[at] = LoopAt(m, g, at)
                /\ Dispatch(m, room) = g[<<1, room>>]
<1>1. PICK h : h = [at \in Ats(m, room) |-> LoopAt(m, h, at)]
  BY LoopExists
<1>2. PICK g : g = [at \in Ats(m, room) |-> LoopAt(m, g, at)]
               /\ Dispatch(m, room) = g[<<1, room>>]
  BY <1>1, LoopIs DEF Ats
<1>3. \A at \in Ats(m, room) : g[at] = LoopAt(m, g, at)
  BY <1>2
<1> QED
  BY <1>2, <1>3

\* Decoding that begins before the END of a frame stops there at the latest.
LEMMA DecodeToCloser ==
  ASSUME NEW B, Closed(B), NEW m \in Seq(B), NEW c, Closer(m, c),
         NEW p \in 1..(Len(m) + 1), p < c
  PROVE  Decode(m, p).stop \in p..c /\ Decode(m, p).stop # 0
<1>0. c \in 2..Len(m) /\ Len(m) \in Nat
  BY DEF Closer
<1>1. p + 1 \in 1..(Len(m) + 1) /\ p + 1 <= c /\ p <= c
  BY <1>0
<1>2. Scan(m, p).stop \in p..c /\ Scan(m, p + 1).stop \in (p + 1)..c
  BY <1>1, ScanToCloser
<1>3. Decode(m, p).stop \in {Scan(m, p).stop, Scan(m, p + 1).stop}
  BY DEF Decode
<1> QED
  BY <1>0, <1>2, <1>3

\* A sequence with one more element before it.
LEMMA Prepended ==
  ASSUME NEW C, NEW x \in C, NEW t \in Seq(C)
  PROVE  /\ <<x>> \o t \in Seq(C) /\ Len(<<x>> \o t) = 1 + Len(t) /\ Len(t) \in Nat
         /\ (<<x>> \o t)[1] = x
         /\ \A i \in 1..Len(t) : (<<x>> \o t)[1 + i] = t[i]
<1>1. <<x>> \in Seq(C) /\ Len(<<x>>) = 1 /\ <<x>>[1] = x /\ 1 \in 1..1
  OBVIOUS
<1>2. \A i \in 1..Len(t) : (<<x>> \o t)[Len(<<x>>) + i] = t[i]
  BY <1>1, ConcatFacts
<1>3. Len(<<x>> \o t) = Len(<<x>>) + Len(t) /\ <<x>> \o t \in Seq(C) /\ Len(t) \in Nat
  BY <1>1, ConcatFacts
<1>4. (<<x>> \o t)[1] = <<x>>[1]
  BY <1>1, ConcatFacts
<1> QED
  BY <1>1, <1>2, <1>3, <1>4

\* What the loop may return.
Outcome(B) == [frames : Seq(Seq(B)), rest : Seq(B)]
Among(s, x) == \E j \in 1..Len(s) : s[j] = x

\* Where the loop may be.
Here(m, p) == p = 1 \/ m[p - 1].sym = END

\* It ends at e: there, the bytes end, or the frame does not, or is not taken.
EndsAt(m, e) == e <= Len(m) => Decode(m, e).stop = 0 \/ Decode(m, e).frame

\* It has seen all frames before that come behind the END of another.
Took(m, p, e, o) == \A i \in p..(e - 1) : (i = p \/ Closer(m, i - 1)) /\ Decode(m, i).frame
                                             => Among(o.frames, Decode(m, i).out)

\* What came out of the loop that was at p.
Parsed(m, p, o) ==
  Here(m, p) => \E e \in p..(Len(m) + 1) :
                   o.rest = InPlace(m, e) /\ Here(m, e) /\ EndsAt(m, e) /\ Took(m, p, e, o)

\* One turn of the loop does this if the turns behind it do.
LEMMA LoopStep ==
  ASSUME NEW B, Closed(B), NEW m \in Seq(B), NEW room \in Nat, NEW at \in Ats(m, room),
         NEW g, g[at] = LoopAt(m, g, at),
         \A b \in Ats(m, room) : b[1] > at[1] => g[b] \in Outcome(B) /\ Parsed(m, b[1], g[b])
  PROVE  g[at] \in Outcome(B) /\ Parsed(m, at[1], g[at])
<1> DEFINE p == at[1]
           d == Decode(m, p)
           o == g[at]
<1>0. p \in 1..(Len(m) + 1) /\ at[2] \in 0..room /\ Len(m) \in Nat
  BY DEF Ats
<1>1. /\ d.out \in Seq(B) /\ d.stop \in Nat /\ d.frame \in BOOLEAN
      /\ d.stop # 0 => d.stop \in p..Len(m) /\ m[d.stop].sym = END
  BY <1>0, DecodeFacts
<1>2. CASE p > Len(m) \/ d.stop = 0 \/ (d.frame /\ at[2] = 0)
  <2>1. InPlace(m, p) \in Seq(B) /\ Len(InPlace(m, p)) = Len(m) - p + 1
    BY <1>0, InPlaceIn
  <2>2. p > Len(m) => InPlace(m, p) = <<>>
    BY <1>0, <2>1
  <2>3. o.frames = <<>> /\ o.rest = InPlace(m, p) /\ o = [frames |-> <<>>, rest |-> InPlace(m, p)]
    BY <1>2, <2>2 DEF LoopAt
  <2>4. o \in Outcome(B)
    BY <2>1, <2>3 DEF Outcome
  <2>5. ASSUME Here(m, p)
        PROVE  o.rest = InPlace(m, p) /\ Here(m, p) /\ EndsAt(m, p) /\ Took(m, p, p, o)
    <3>1. EndsAt(m, p)
      BY <1>0, <1>2 DEF EndsAt
    <3>2. p..(p - 1) = {}
      BY <1>0
    <3>3. Took(m, p, p, o)
      BY <3>2 DEF Took
    <3> QED
      BY <2>3, <2>5, <3>1, <3>3
  <2>6. p \in p..(Len(m) + 1)
    BY <1>0
  <2> HIDE DEF p, o
  <2>7. Parsed(m, p, o)
    BY <2>5, <2>6 DEF Parsed
  <2> QED
    BY <2>4, <2>7 DEF p, o
<1>3. CASE ~(p > Len(m) \/ d.stop = 0 \/ (d.frame /\ at[2] = 0))
  <2> DEFINE q == d.stop + 1
             b == IF d.frame THEN <<q, at[2] - 1>> ELSE <<q, at[2]>>
             w == g[b]
  <2>1. b \in Ats(m, room) /\ b[1] = q /\ q > p /\ q \in 1..(Len(m) + 1)
    <3>1. q \in 1..(Len(m) + 1) /\ q > p /\ (d.frame => at[2] - 1 \in 0..room)
      BY <1>0, <1>1, <1>3
    <3> QED
      BY <1>0, <3>1 DEF Ats
  <2>2. w \in Outcome(B) /\ Parsed(m, q, w)
    BY <2>1
  <2>3. /\ d.frame => o = [w EXCEPT !.frames = <<d.out>> \o @]
        /\ ~d.frame => o = w
    BY <1>3 DEF LoopAt
  <2>4. d.stop = q - 1 /\ q - 1 \in p..Len(m) /\ m[q - 1].sym = END
    BY <1>0, <1>1, <1>3
  <2> HIDE DEF w, b, q
  <2>5. /\ o \in Outcome(B) /\ o.rest = w.rest
        /\ d.frame => Among(o.frames, d.out)
        /\ \A x : Among(w.frames, x) => Among(o.frames, x)
    <3>1. CASE ~d.frame
      BY <2>2, <2>3, <3>1
    <3>2. CASE d.frame
      <4>1. w.frames \in Seq(Seq(B)) /\ w.rest \in Seq(B) /\ <<d.out>> \in Seq(Seq(B))
            /\ Len(<<d.out>>) = 1 /\ <<d.out>>[1] = d.out
        BY <1>1, <2>2 DEF Outcome
      <4>2. o = [frames |-> <<d.out>> \o w.frames, rest |-> w.rest]
        BY <2>2, <2>3, <3>2 DEF Outcome
      <4> DEFINE f == <<d.out>> \o w.frames
      <4>3. /\ f \in Seq(Seq(B)) /\ Len(f) = 1 + Len(w.frames) /\ Len(w.frames) \in Nat
            /\ f[1] = d.out
            /\ \A i \in 1..Len(w.frames) : f[1 + i] = w.frames[i]
        <5>1. d.out \in Seq(B) /\ w.frames \in Seq(Seq(B))
          BY <1>1, <4>1
        <5> HIDE DEF d
        <5> QED
          BY <5>1, Prepended
      <4>4. o.frames = f /\ o.rest = w.rest
        BY <4>2
      <4> HIDE DEF f
      <4>5. o \in Outcome(B)
        BY <4>1, <4>2, <4>3 DEF Outcome, f
      <4>6. Among(f, d.out)
        <5>1. 1 \in 1..Len(f)
          BY <4>3
        <5> QED
          BY <4>3, <5>1 DEF Among
      <4>7. ASSUME NEW x, Among(w.frames, x) PROVE Among(f, x)
        <5>1. PICK j \in 1..Len(w.frames) : w.frames[j] = x
          BY <4>7 DEF Among
        <5>2. 1 + j \in 1..Len(f)
          BY <4>3
        <5>3. f[1 + j] = x
          BY <4>3, <5>1
        <5> QED
          BY <5>2, <5>3 DEF Among
      <4> QED
        BY <4>4, <4>5, <4>6, <4>7
    <3> QED
      BY <3>1, <3>2
  <2>6. ASSUME Here(m, p)
        PROVE  \E e \in p..(Len(m) + 1) :
                  o.rest = InPlace(m, e) /\ Here(m, e) /\ EndsAt(m, e) /\ Took(m, p, e, o)
    <3>1. Here(m, q)
      BY <2>4 DEF Here
    <3>2. PICK e \in q..(Len(m) + 1) :
             w.rest = InPlace(m, e) /\ Here(m, e) /\ EndsAt(m, e) /\ Took(m, q, e, w)
      BY <2>2, <3>1 DEF Parsed
    <3>3. ASSUME NEW i \in p..(e - 1), i = p \/ Closer(m, i - 1), Decode(m, i).frame
          PROVE  Among(o.frames, Decode(m, i).out)
      <4>1. CASE i = p
        BY <2>5, <3>3, <4>1
      <4>2. CASE i # p
        <5>1. Closer(m, i - 1) /\ i - 1 >= p /\ i \in Int
          BY <1>0, <3>3, <4>2
        <5>2. p # i - 1
          <6> SUFFICES ASSUME p = i - 1 PROVE FALSE
            OBVIOUS
          <6>1. p \in 2..Len(m) /\ m[p - 1].sym # END
            BY <5>1 DEF Closer
          <6> QED
            BY <1>0, <2>6, <6>1 DEF Here
        <5>3. p < i - 1
          BY <1>0, <5>1, <5>2
        <5>4. d.stop \in p..(i - 1)
          BY <1>0, <5>1, <5>3, DecodeToCloser
        <5>5. i \in q..(e - 1)
          BY <1>0, <2>1, <2>4, <5>1, <5>4
        <5>6. Among(w.frames, Decode(m, i).out)
          BY <3>2, <3>3, <5>1, <5>5 DEF Took
        <5> QED
          BY <2>5, <5>6
      <4> QED
        BY <4>1, <4>2
    <3>4. e \in p..(Len(m) + 1)
      BY <1>0, <2>1
    <3>5. Took(m, p, e, o)
      BY <3>3 DEF Took
    <3> QED
      BY <2>5, <3>2, <3>4, <3>5
  <2> HIDE DEF p, o
  <2>7. Parsed(m, p, o)
    BY <2>6 DEF Parsed
  <2> QED
    BY <2>5, <2>7 DEF p, o
<1> QED
  BY <1>2, <1>3

\* What is left, and what was handed on, when the loop ended at e.
LeftAt(m, e, o) == o.rest = InPlace(m, e) /\ Here(m, e) /\ EndsAt(m, e) /\ Took(m, 1, e, o)

\* What Dispatch leaves, and what it hands on.
LEMMA DispatchFacts ==
  ASSUME NEW B, Closed(B), NEW m \in Seq(B), NEW room \in Nat, NEW o, o = Dispatch(m, room)
  PROVE  /\ o.frames \in Seq(Seq(B)) /\ o.rest \in Seq(B)
         /\ \E e \in 1..(Len(m) + 1) : LeftAt(m, e, o)
<1>1. PICK g : /\ \A at \in Ats(m, room) : g[at] = LoopAt(m, g, at)
               /\ Dispatch(m, room) = g[<<1, room>>]
  BY DispatchIs
<1>0. Len(m) \in Nat
  OBVIOUS
<1> DEFINE Right(p) == \A n \in 0..room : g[<<p, n>>] \in Outcome(B) /\ Parsed(m, p, g[<<p, n>>])
           T == {p \in 1..(Len(m) + 1) : Right(p)}
<1>2. ASSUME NEW p \in 1..(Len(m) + 1), \A q \in 1..(Len(m) + 1) : q > p => q \in T
      PROVE  p \in T
  <2>1. ASSUME NEW n \in 0..room PROVE g[<<p, n>>] \in Outcome(B) /\ Parsed(m, p, g[<<p, n>>])
    <3> DEFINE at == <<p, n>>
    <3>1. at \in Ats(m, room) /\ at[1] = p
      BY DEF Ats
    <3>2. ASSUME NEW b \in Ats(m, room), b[1] > at[1]
          PROVE  g[b] \in Outcome(B) /\ Parsed(m, b[1], g[b])
      <4>1. b = <<b[1], b[2]>> /\ b[1] \in 1..(Len(m) + 1) /\ b[2] \in 0..room
        BY DEF Ats
      <4>2. Right(b[1])
        BY <1>2, <3>1, <3>2, <4>1
      <4>3. g[<<b[1], b[2]>>] \in Outcome(B) /\ Parsed(m, b[1], g[<<b[1], b[2]>>])
        BY <4>1, <4>2
      <4> QED
        BY <4>1, <4>3
    <3>3. g[at] = LoopAt(m, g, at)
      BY <1>1, <3>1
    <3> HIDE DEF at
    <3>4. g[at] \in Outcome(B) /\ Parsed(m, at[1], g[at])
      BY <3>1, <3>2, <3>3, LoopStep
    <3> QED
      BY <3>1, <3>4 DEF at
  <2> QED
    BY <2>1
<1>3. \A p \in 1..(Len(m) + 1) : p \in T
  <2> HIDE DEF T
  <2> QED
    BY <1>0, <1>2, Downward
<1>4. Right(1)
  BY <1>0, <1>3
<1>5. o \in Outcome(B) /\ Parsed(m, 1, o)
  BY <1>1, <1>4
<1>6. Here(m, 1)
  BY DEF Here
<1> QED
  BY <1>5, <1>6 DEF Outcome, Parsed, LeftAt

-----------------------------------------------------------------------------
(* What Encode writes.                                                     *)

\* How far the first k of the sequences of s go.
Flattening(s, flat) ==
  /\ flat[0] = <<>>
  /\ \A k \in 1..Len(s) : flat[k] = flat[k - 1] \o s[k]

\* One step of FlattenSeq.
FlattenAt(s, g, i) == IF i = 1 THEN s[i] ELSE g[i - 1] \o s[i]

\* FlattenSeq is a function that satisfies its equation.
LEMMA FlattenIs ==
  ASSUME NEW s, Len(s) # 0, NEW h, h = [i \in 1..Len(s) |-> FlattenAt(s, h, i)]
  PROVE  \E g : g = [i \in 1..Len(s) |-> FlattenAt(s, g, i)] /\ FlattenSeq(s) = g[Len(s)]
<1> DEFINE f == CHOOSE g : g = [i \in 1..Len(s) |-> FlattenAt(s, g, i)]
<1>1. f = [i \in 1..Len(s) |-> FlattenAt(s, f, i)]
  OBVIOUS
<1>2. FlattenSeq(s) = f[Len(s)]
  BY Zenon DEF FlattenSeq, FlattenAt
<1> HIDE DEF f
<1> QED
  BY <1>1, <1>2

\* There is such a function.
LEMMA FlattenExists ==
  ASSUME NEW s, Len(s) \in Nat
  PROVE  \E g : g = [i \in 1..Len(s) |-> FlattenAt(s, g, i)]
<1> DEFINE I == 1..Len(s)
           Part(k, g) == /\ g = [i \in I |-> g[i]]
                         /\ \A i \in I : i <= k => g[i] = FlattenAt(s, g, i)
           T == {k \in Nat : \E g : Part(k, g)}
<1>1. 0 \in T
  <2> DEFINE h == [i \in I |-> 0]
  <2>1. Part(0, h)
    <3>1. h = [i \in I |-> h[i]]
      OBVIOUS
    <3>2. \A i \in I : ~(i <= 0)
      OBVIOUS
    <3> HIDE DEF h
    <3> QED
      BY <3>1, <3>2
  <2> HIDE DEF h
  <2> QED
    BY <2>1
<1>2. ASSUME NEW k \in Nat, k \in T PROVE k + 1 \in T
  <2>1. PICK g : Part(k, g)
    BY <1>2
  <2> DEFINE h == [i \in I |-> IF i = k + 1 THEN FlattenAt(s, g, i) ELSE g[i]]
  <2>2. h = [i \in I |-> h[i]]
    OBVIOUS
  <2>3. \A i \in I : h[i] = IF i = k + 1 THEN FlattenAt(s, g, i) ELSE g[i]
    OBVIOUS
  <2> HIDE DEF h
  <2>4. ASSUME NEW i \in I, i <= k + 1 PROVE h[i] = FlattenAt(s, h, i)
    <3>1. i # 1 => h[i - 1] = g[i - 1]
      <4> SUFFICES ASSUME i # 1 PROVE h[i - 1] = g[i - 1]
        OBVIOUS
      <4>1. i - 1 \in I /\ i - 1 # k + 1
        BY <2>4
      <4> QED
        BY <2>3, <4>1
    <3>2. FlattenAt(s, g, i) = FlattenAt(s, h, i)
      BY <3>1 DEF FlattenAt
    <3>3. CASE i = k + 1
      BY <2>3, <3>2, <3>3
    <3>4. CASE i # k + 1
      <4>1. i <= k
        BY <2>4, <3>4
      <4>2. g[i] = FlattenAt(s, g, i)
        BY <2>1, <4>1
      <4> QED
        BY <2>3, <3>2, <3>4, <4>2
    <3> QED
      BY <3>3, <3>4
  <2>5. Part(k + 1, h)
    BY <2>2, <2>4
  <2> QED
    BY <2>5
<1>3. Len(s) \in T
  <2> HIDE DEF T
  <2> QED
    BY <1>1, <1>2, Induction
<1>4. PICK g : Part(Len(s), g)
  BY <1>3
<1>5. \A i \in I : g[i] = FlattenAt(s, g, i)
  BY <1>4
<1>6. g = [i \in I |-> g[i]]
  BY <1>4
<1>7. g = [i \in I |-> FlattenAt(s, g, i)]
  <2> HIDE DEF I
  <2>1. [i \in I |-> g[i]] = [i \in I |-> FlattenAt(s, g, i)]
    BY <1>5
  <2> QED
    BY <1>6, <2>1
<1> QED
  BY <1>7

\* FlattenSeq appends one sequence after the other.
LEMMA FlattenPrefixes ==
  ASSUME NEW C, NEW s \in Seq(Seq(C))
  PROVE  \E flat : /\ flat \in [0..Len(s) -> Seq(C)] /\ Flattening(s, flat)
                   /\ FlattenSeq(s) = flat[Len(s)]
<1>0. Len(s) \in Nat /\ <<>> \in Seq(C) /\ (Len(s) = 0 => s = <<>>)
      /\ \A i \in 1..Len(s) : s[i] \in Seq(C)
  OBVIOUS
<1>1. CASE Len(s) = 0
  <2> DEFINE flat == [k \in 0..Len(s) |-> <<>>]
  <2>1. flat \in [0..Len(s) -> Seq(C)] /\ flat[0] = <<>> /\ 1..Len(s) = {}
    BY <1>0, <1>1
  <2>2. FlattenSeq(s) = s
    BY <1>1 DEF FlattenSeq
  <2> HIDE DEF flat
  <2>3. FlattenSeq(s) = flat[Len(s)] /\ Flattening(s, flat)
    BY <1>0, <1>1, <2>1, <2>2 DEF Flattening
  <2> QED
    BY <2>1, <2>3
<1>2. CASE Len(s) # 0
  <2>1. PICK g : g = [i \in 1..Len(s) |-> FlattenAt(s, g, i)] /\ FlattenSeq(s) = g[Len(s)]
    BY <1>0, <1>2, FlattenExists, FlattenIs
  <2>2. \A i \in 1..Len(s) : g[i] = FlattenAt(s, g, i)
    BY <2>1
  <2> DEFINE T == {k \in Nat : k + 1 \in 1..Len(s) => g[k + 1] \in Seq(C)}
  <2>3. 0 \in T
    <3>1. 0 + 1 \in 1..Len(s) => g[1] = s[1]
      BY <2>2 DEF FlattenAt
    <3> QED
      BY <1>0, <3>1
  <2>4. ASSUME NEW k \in Nat, k \in T PROVE k + 1 \in T
    <3> SUFFICES ASSUME (k + 1) + 1 \in 1..Len(s) PROVE g[(k + 1) + 1] \in Seq(C)
      OBVIOUS
    <3>1. k + 1 \in 1..Len(s) /\ (k + 1) + 1 # 1 /\ ((k + 1) + 1) - 1 = k + 1
      BY <1>0
    <3>2. g[(k + 1) + 1] = g[k + 1] \o s[(k + 1) + 1]
      BY <2>2, <3>1 DEF FlattenAt
    <3>3. g[k + 1] \in Seq(C) /\ s[(k + 1) + 1] \in Seq(C)
      BY <1>0, <2>4, <3>1
    <3> QED
      BY <3>2, <3>3, ConcatFacts
  <2>5. \A k \in Nat : k \in T
    <3> HIDE DEF T
    <3> QED
      BY <2>3, <2>4, Induction
  <2>6. ASSUME NEW i \in 1..Len(s) PROVE g[i] \in Seq(C)
    <3>1. i - 1 \in Nat /\ (i - 1) + 1 = i
      OBVIOUS
    <3>2. i - 1 \in T
      BY <2>5, <3>1
    <3>3. (i - 1) + 1 \in 1..Len(s) => g[(i - 1) + 1] \in Seq(C)
      BY <3>2
    <3> HIDE DEF T
    <3> QED
      BY <3>1, <3>3
  <2> DEFINE flat == [k \in 0..Len(s) |-> IF k = 0 THEN <<>> ELSE g[k]]
  <2>7. flat \in [0..Len(s) -> Seq(C)]
    BY <1>0, <2>6
  <2>8. flat[0] = <<>> /\ \A k \in 1..Len(s) : flat[k] = g[k]
    BY <1>0
  <2> HIDE DEF flat, T
  <2>9. ASSUME NEW k \in 1..Len(s) PROVE flat[k] = flat[k - 1] \o s[k]
    <3>1. CASE k = 1
      <4>1. flat[k] = s[k] /\ k - 1 = 0 /\ s[k] \in Seq(C)
        BY <1>0, <2>2, <2>8, <3>1 DEF FlattenAt
      <4>2. <<>> \o s[k] = s[k]
        BY <4>1, ConcatEmptySeq
      <4> QED
        BY <2>8, <4>1, <4>2
    <3>2. CASE k # 1
      <4>1. k - 1 \in 1..Len(s)
        BY <3>2
      <4> QED
        BY <2>2, <2>8, <3>2, <4>1 DEF FlattenAt
    <3> QED
      BY <3>1, <3>2
  <2>10. Flattening(s, flat)
    BY <2>8, <2>9 DEF Flattening
  <2>11. FlattenSeq(s) = flat[Len(s)]
    <3>1. Len(s) \in 1..Len(s)
      BY <1>0, <1>2
    <3> QED
      BY <2>1, <2>8, <3>1
  <2> QED
    BY <2>7, <2>10, <2>11
<1> QED
  BY <1>1, <1>2

\* t stands in the sequence whole, behind the first a and up to c.
Stands(t, whole, a, c) ==
  /\ a \in Nat /\ c \in Nat /\ Len(t) \in Nat /\ c = a + Len(t) /\ c <= Len(whole)
  /\ \A x \in 1..Len(t) : whole[a + x] = t[x]

\* Each of the sequences stands behind those before it.
LEMMA PrefixFacts ==
  ASSUME NEW C, NEW s \in Seq(Seq(C)), NEW flat \in [0..Len(s) -> Seq(C)], Flattening(s, flat),
         NEW whole, whole = flat[Len(s)], NEW k \in 1..Len(s), NEW t, t = s[k]
  PROVE  Stands(t, whole, Len(flat[k - 1]), Len(flat[k]))
<1>0. Len(s) \in Nat /\ \A i \in 1..Len(s) : s[i] \in Seq(C)
  OBVIOUS
<1>1. ASSUME NEW j \in 1..Len(s)
      PROVE  /\ flat[j] \in Seq(C) /\ flat[j - 1] \in Seq(C) /\ s[j] \in Seq(C)
             /\ flat[j] = flat[j - 1] \o s[j]
  <2>1. j \in 0..Len(s) /\ j - 1 \in 0..Len(s)
    BY <1>0
  <2> QED
    BY <1>0, <2>1 DEF Flattening
<1>2. ASSUME NEW j \in 1..Len(s)
      PROVE  /\ Len(flat[j]) = Len(flat[j - 1]) + Len(s[j])
             /\ Len(flat[j]) \in Nat /\ Len(flat[j - 1]) \in Nat /\ Len(s[j]) \in Nat
             /\ \A x \in 1..Len(flat[j - 1]) : flat[j][x] = flat[j - 1][x]
             /\ \A x \in 1..Len(s[j]) : flat[j][Len(flat[j - 1]) + x] = s[j][x]
  <2> DEFINE a == flat[j - 1]
             b == s[j]
             c == flat[j]
  <2>1. a \in Seq(C) /\ b \in Seq(C) /\ c = a \o b
    BY <1>1
  <2> HIDE DEF a, b, c
  <2>2. /\ Len(c) = Len(a) + Len(b) /\ Len(c) \in Nat /\ Len(a) \in Nat /\ Len(b) \in Nat
        /\ \A x \in 1..Len(a) : c[x] = a[x]
        /\ \A x \in 1..Len(b) : c[Len(a) + x] = b[x]
    BY <2>1, ConcatFacts
  <2> QED
    BY <2>2, Zenon DEF a, b, c
<1>3. /\ Len(flat[k]) <= Len(flat[Len(s)])
      /\ \A x \in 1..Len(flat[k]) : flat[Len(s)][x] = flat[k][x]
  <2> DEFINE T == {j \in Nat : k + j <= Len(s) =>
                      /\ Len(flat[k]) <= Len(flat[k + j])
                      /\ \A x \in 1..Len(flat[k]) : flat[k + j][x] = flat[k][x]}
  <2>1. 0 \in T
    BY <1>2
  <2>2. ASSUME NEW j \in Nat, j \in T PROVE j + 1 \in T
    <3> SUFFICES ASSUME k + (j + 1) <= Len(s)
                 PROVE  /\ Len(flat[k]) <= Len(flat[k + (j + 1)])
                        /\ \A x \in 1..Len(flat[k]) : flat[k + (j + 1)][x] = flat[k][x]
      OBVIOUS
    <3>1. k + j <= Len(s) /\ k + (j + 1) \in 1..Len(s) /\ k + (j + 1) - 1 = k + j
      BY <1>0
    <3>2. /\ Len(flat[k]) <= Len(flat[k + j])
          /\ \A x \in 1..Len(flat[k]) : flat[k + j][x] = flat[k][x]
      BY <2>2, <3>1
    <3> HIDE DEF T
    <3> DEFINE i == k + (j + 1)
    <3>3. i \in 1..Len(s) /\ i - 1 = k + j
      BY <3>1
    <3> HIDE DEF i
    <3>4. /\ Len(flat[i]) = Len(flat[i - 1]) + Len(s[i])
          /\ Len(flat[i - 1]) \in Nat /\ Len(s[i]) \in Nat
          /\ \A x \in 1..Len(flat[i - 1]) : flat[i][x] = flat[i - 1][x]
      BY <1>2, <3>3
    <3>5. Len(flat[k]) \in Nat
      BY <1>2
    <3>6. Len(flat[k]) <= Len(flat[i - 1])
          /\ \A x \in 1..Len(flat[k]) : flat[i - 1][x] = flat[k][x]
      BY <3>2, <3>3
    <3>7. ASSUME NEW l \in Nat, NEW a \in Nat, NEW b \in Nat, NEW c, c = a + b, l <= a
          PROVE  l <= c /\ \A x \in 1..l : x \in 1..a
      BY <3>7
    <3>8. Len(flat[k]) <= Len(flat[i]) /\ \A x \in 1..Len(flat[k]) : x \in 1..Len(flat[i - 1])
      BY <3>4, <3>5, <3>6, <3>7
    <3>9. \A x \in 1..Len(flat[k]) : flat[i][x] = flat[k][x]
      BY <3>4, <3>6, <3>8
    <3> QED
      BY <3>8, <3>9 DEF i
  <2>3. \A j \in Nat : j \in T
    <3> HIDE DEF T
    <3> QED
      BY <2>1, <2>2, Induction
  <2>4. Len(s) - k \in Nat /\ k + (Len(s) - k) = Len(s)
    BY <1>0
  <2>5. Len(s) - k \in T
    BY <2>3, <2>4
  <2>6. k + (Len(s) - k) <= Len(s) =>
          /\ Len(flat[k]) <= Len(flat[k + (Len(s) - k)])
          /\ \A x \in 1..Len(flat[k]) : flat[k + (Len(s) - k)][x] = flat[k][x]
    BY <2>5
  <2> HIDE DEF T
  <2> QED
    BY <1>0, <2>4, <2>6
<1>4. ASSUME NEW x \in 1..Len(s[k])
      PROVE  flat[Len(s)][Len(flat[k - 1]) + x] = s[k][x]
  <2>1. Len(flat[k - 1]) + x \in 1..Len(flat[k])
    <3> DEFINE a == Len(flat[k - 1])
               b == Len(s[k])
               c == Len(flat[k])
    <3>1. a \in Nat /\ b \in Nat /\ c = a + b /\ x \in 1..b
      BY <1>2
    <3> HIDE DEF a, b, c
    <3>2. a + x \in 1..c
      BY <3>1
    <3> QED
      BY <3>2 DEF a, c
  <2> QED
    BY <1>2, <1>3, <2>1
<1> QED
  BY <1>2, <1>3, <1>4 DEF Stands

\* The symbol k of f stands at place[k] of e, escaped or not.
Laid(f, e, place) ==
  /\ place[1] = 2 /\ e[1] = END /\ place[Len(f) + 1] = Len(e) /\ e[Len(e)] = END
  /\ \A k \in 1..Len(f) :
       /\ f[k] \notin {END, ESC} => place[k + 1] = place[k] + 1 /\ e[place[k]] = f[k]
       /\ f[k] = END => /\ place[k + 1] = place[k] + 2 /\ e[place[k]] = ESC
                        /\ e[place[k] + 1] = END_REPLACE
       /\ f[k] = ESC => /\ place[k + 1] = place[k] + 2 /\ e[place[k]] = ESC
                        /\ e[place[k] + 1] = ESC_REPLACE
       /\ place[k] >= 2 /\ place[k + 1] <= Len(e)

\* The symbols of the protocol are among S.
Special(S) == {END, ESC, END_REPLACE, ESC_REPLACE} \subseteq S

\* A symbol is written as itself or as an escape.
LEMMA StuffedType ==
  ASSUME NEW S, Special(S), NEW c \in S
  PROVE  /\ Stuffed(c) \in Seq(S)
         /\ c \notin {END, ESC} => Len(Stuffed(c)) = 1 /\ Stuffed(c)[1] = c
         /\ c = END => /\ Len(Stuffed(c)) = 2 /\ Stuffed(c)[1] = ESC
                       /\ Stuffed(c)[2] = END_REPLACE
         /\ c = ESC => /\ Len(Stuffed(c)) = 2 /\ Stuffed(c)[1] = ESC
                       /\ Stuffed(c)[2] = ESC_REPLACE
<1>0. /\ END \in S /\ ESC \in S /\ END_REPLACE \in S /\ ESC_REPLACE \in S
      /\ END # ESC
  BY DEF Special, END, ESC
<1>1. CASE c = END
  <2>1. Stuffed(c) = <<ESC, END_REPLACE>>
    BY <1>0, <1>1 DEF Stuffed
  <2> QED
    BY <1>0, <1>1, <2>1
<1>2. CASE c = ESC
  <2>1. Stuffed(c) = <<ESC, ESC_REPLACE>>
    BY <1>0, <1>2 DEF Stuffed
  <2> QED
    BY <1>0, <1>2, <2>1
<1>3. CASE c \notin {END, ESC}
  <2>1. Stuffed(c) = <<c>>
    BY <1>3 DEF Stuffed
  <2> QED
    BY <1>3, <2>1
<1> QED
  BY <1>1, <1>2, <1>3

\* Encode writes an END, the symbols in their places, and an END.
LEMMA EncodeLaid ==
  ASSUME NEW S, Special(S), NEW f \in Seq(S), f # <<>>
  PROVE  /\ Encode(f) \in Seq(S)
         /\ \E place \in [1..(Len(f) + 1) -> Nat] : Laid(f, Encode(f), place)
<1> DEFINE all == [i \in DOMAIN f |-> Stuffed(f[i])]
           e == Encode(f)
<1>0. Len(f) \in Nat \ {0} /\ DOMAIN f = 1..Len(f) /\ \A i \in 1..Len(f) : f[i] \in S
  OBVIOUS
<1>1. all \in Seq(Seq(S)) /\ Len(all) = Len(f) /\ \A i \in 1..Len(f) : all[i] = Stuffed(f[i])
  <2>1. \A i \in 1..Len(f) : Stuffed(f[i]) \in Seq(S)
    BY <1>0, StuffedType
  <2>2. all = [i \in 1..Len(f) |-> Stuffed(f[i])]
    BY <1>0
  <2> QED
    BY <1>0, <2>1, <2>2
<1>2. e = <<END>> \o FlattenSeq(all) \o <<END>>
  BY DEF Encode
<1> HIDE DEF all, e
<1>3. PICK flat \in [0..Len(all) -> Seq(S)] : Flattening(all, flat) /\ FlattenSeq(all) = flat[Len(all)]
  BY <1>1, FlattenPrefixes
<1>w. PICK w : w = flat[Len(all)]
  OBVIOUS
<1>4. w \in Seq(S) /\ Len(w) \in Nat /\ END \in S
  <2>1. Len(all) \in 0..Len(all)
    BY <1>0, <1>1
  <2>2. flat[Len(all)] \in Seq(S)
    BY <1>3, <2>1
  <2>3. w \in Seq(S)
    BY <1>w, <2>2
  <2> QED
    BY <2>3 DEF Special
<1>5. /\ e \in Seq(S) /\ Len(e) = Len(w) + 2 /\ e[1] = END /\ e[Len(e)] = END
      /\ \A x \in 1..Len(w) : e[x + 1] = w[x]
  <2> DEFINE u == <<END>> \o w
  <2>1. /\ u \in Seq(S) /\ Len(u) = 1 + Len(w) /\ u[1] = END
        /\ \A x \in 1..Len(w) : u[1 + x] = w[x]
    BY <1>4, Prepended
  <2>2. e = u \o <<END>>
    BY <1>2, <1>3, <1>w
  <2>3. <<END>> \in Seq(S) /\ Len(<<END>>) = 1 /\ <<END>>[1] = END /\ 1 \in 1..1
    BY <1>4
  <2> HIDE DEF u
  <2>4. /\ e \in Seq(S) /\ Len(e) = Len(u) + 1 /\ e[Len(u) + 1] = END
        /\ \A x \in 1..Len(u) : e[x] = u[x]
    BY <2>1, <2>2, <2>3, ConcatFacts
  <2>5. ASSUME NEW x \in 1..Len(w) PROVE e[x + 1] = w[x]
    <3>1. x + 1 \in 1..Len(u) /\ x + 1 = 1 + x
      BY <1>4, <2>1
    <3> QED
      BY <2>1, <2>4, <3>1
  <2>6. 1 \in 1..Len(u) /\ Len(u) + 1 = Len(w) + 2
    BY <1>4, <2>1
  <2> QED
    BY <2>1, <2>4, <2>5, <2>6
<1>6. ASSUME NEW k \in 1..Len(all), NEW t, t = all[k]
      PROVE  Stands(t, w, Len(flat[k - 1]), Len(flat[k]))
  BY <1>1, <1>3, <1>6, <1>w, PrefixFacts
<1> DEFINE place == [k \in 1..(Len(f) + 1) |-> Len(flat[k - 1]) + 2]
<1>7. place \in [1..(Len(f) + 1) -> Nat]
  <2>1. ASSUME NEW k \in 1..(Len(f) + 1) PROVE Len(flat[k - 1]) \in Nat
    <3>1. k - 1 \in 0..Len(all)
      BY <1>0, <1>1
    <3> QED
      BY <1>3, <3>1
  <2> QED
    BY <2>1
<1>8. /\ place[1] = 2 /\ place[Len(f) + 1] = Len(e)
      /\ \A k \in 1..Len(f) : place[k] = Len(flat[k - 1]) + 2 /\ place[k + 1] = Len(flat[k]) + 2
  <2>1. flat[0] = <<>> /\ Len(<<>>) = 0
    BY <1>3 DEF Flattening
  <2>2. 1 \in 1..(Len(f) + 1) /\ Len(f) + 1 \in 1..(Len(f) + 1) /\ 1 - 1 = 0
        /\ (Len(f) + 1) - 1 = Len(all)
    BY <1>0, <1>1
  <2>3. place[1] = Len(flat[0]) + 2 /\ place[Len(f) + 1] = Len(flat[Len(all)]) + 2
    BY <2>2
  <2>4. ASSUME NEW k \in 1..Len(f)
        PROVE  place[k] = Len(flat[k - 1]) + 2 /\ place[k + 1] = Len(flat[k]) + 2
    <3>1. k \in 1..(Len(f) + 1) /\ k + 1 \in 1..(Len(f) + 1) /\ (k + 1) - 1 = k
      BY <1>0
    <3> QED
      BY <3>1
  <2> HIDE DEF place
  <2> QED
    BY <1>5, <1>w, <2>1, <2>3, <2>4
<1> HIDE DEF place
<1>9. ASSUME NEW k \in 1..Len(f)
      PROVE  /\ f[k] \notin {END, ESC} => place[k + 1] = place[k] + 1 /\ e[place[k]] = f[k]
             /\ f[k] = END => /\ place[k + 1] = place[k] + 2 /\ e[place[k]] = ESC
                              /\ e[place[k] + 1] = END_REPLACE
             /\ f[k] = ESC => /\ place[k + 1] = place[k] + 2 /\ e[place[k]] = ESC
                              /\ e[place[k] + 1] = ESC_REPLACE
             /\ place[k] >= 2 /\ place[k + 1] <= Len(e)
  <2> DEFINE a == Len(flat[k - 1])
             b == Len(all[k])
             c == Len(flat[k])
             t == all[k]
  <2>1. /\ a \in Nat /\ b \in Nat /\ c = a + b /\ c <= Len(w) /\ b = Len(t)
        /\ \A x \in 1..b : w[a + x] = t[x]
    BY <1>1, <1>6 DEF Stands
  <2>2. place[k] = a + 2 /\ place[k + 1] = c + 2
    BY <1>8
  <2>3. /\ f[k] \notin {END, ESC} => Len(t) = 1 /\ t[1] = f[k]
        /\ f[k] = END => Len(t) = 2 /\ t[1] = ESC /\ t[2] = END_REPLACE
        /\ f[k] = ESC => Len(t) = 2 /\ t[1] = ESC /\ t[2] = ESC_REPLACE
    BY <1>0, <1>1, StuffedType
  <2> HIDE DEF a, b, c, t
  <2>4. ASSUME NEW x \in 1..b PROVE e[a + x + 1] = t[x]
    <3>1. a + x \in 1..Len(w)
      BY <1>4, <2>1
    <3>2. e[(a + x) + 1] = w[a + x]
      BY <1>5, <3>1
    <3> QED
      BY <2>1, <3>2
  <2>5. b >= 1 => e[a + 2] = t[1]
    <3> SUFFICES ASSUME b >= 1 PROVE e[a + 2] = t[1]
      OBVIOUS
    <3>1. 1 \in 1..b /\ a + 1 + 1 = a + 2
      BY <2>1
    <3> QED
      BY <2>4, <3>1
  <2>6. b >= 2 => e[a + 2 + 1] = t[2]
    <3> SUFFICES ASSUME b >= 2 PROVE e[a + 2 + 1] = t[2]
      OBVIOUS
    <3>1. 2 \in 1..b
      BY <2>1
    <3> QED
      BY <2>4, <3>1
  <2>7. place[k] >= 2 /\ place[k + 1] <= Len(e)
    BY <1>4, <1>5, <2>1, <2>2
  <2>8. f[k] \notin {END, ESC} => place[k + 1] = place[k] + 1 /\ e[place[k]] = f[k]
    <3> SUFFICES ASSUME f[k] \notin {END, ESC}
                 PROVE  place[k + 1] = place[k] + 1 /\ e[place[k]] = f[k]
      OBVIOUS
    <3>1. Len(t) = 1 /\ t[1] = f[k]
      BY <2>3
    <3>2. b = 1 /\ c + 2 = a + 2 + 1
      BY <2>1, <3>1
    <3>3. e[a + 2] = t[1]
      BY <2>5, <3>2
    <3> QED
      BY <2>2, <3>1, <3>2, <3>3
  <2>9. b = 2 => place[k + 1] = place[k] + 2 /\ e[place[k]] = t[1] /\ e[place[k] + 1] = t[2]
    BY <2>1, <2>2, <2>5, <2>6
  <2> QED
    BY <2>1, <2>3, <2>7, <2>8, <2>9
<1>10. Laid(f, e, place)
  BY <1>5, <1>8, <1>9 DEF Laid
<1> QED
  BY <1>5, <1>7, <1>10 DEF e

\* The bytes of the packet f, number n; and: encoded, they stand in m from i on.
Tag(f, n) == [j \in DOMAIN f |-> Byte(f[j], n)]
HasFrame(m, i, f, n) ==
  /\ i \in 1..Len(m) /\ i + Len(Encode(f)) - 1 <= Len(m)
  /\ \A x \in 1..Len(Encode(f)) : m[i + x - 1] = Byte(Encode(f)[x], n)

\* It is long enough, and ends as a frame does.
LEMMA EncodeEnds ==
  ASSUME NEW S, Special(S), NEW f \in Seq(S), f # <<>>, NEW e, e = Encode(f)
  PROVE  /\ Len(e) \in Nat /\ Len(e) >= 3 /\ e[1] = END /\ e[Len(e)] = END
         /\ e[Len(e) - 1] \notin {END, ESC} /\ DOMAIN e = 1..Len(e)
         /\ \A x \in 1..Len(e) : e[x] \in S
<1>1. PICK place \in [1..(Len(f) + 1) -> Nat] : Laid(f, e, place)
  BY EncodeLaid
<1>2. e \in Seq(S) /\ Len(f) \in Nat \ {0} /\ Len(f) \in 1..Len(f)
  <2>1. Len(f) \in Nat \ {0}
    OBVIOUS
  <2> QED
    BY <2>1, EncodeLaid
<1> DEFINE k == Len(f)
           a == place[k]
<1>3. /\ place[k + 1] = Len(e) /\ e[1] = END /\ e[Len(e)] = END /\ a >= 2
      /\ f[k] \notin {END, ESC} => place[k + 1] = a + 1 /\ e[a] = f[k]
      /\ f[k] = END => place[k + 1] = a + 2 /\ e[a + 1] = END_REPLACE
      /\ f[k] = ESC => place[k + 1] = a + 2 /\ e[a + 1] = ESC_REPLACE
  BY <1>1, <1>2 DEF Laid
<1>4. a \in Nat /\ Len(e) \in Nat
  BY <1>1, <1>2
<1> HIDE DEF a, k
<1>5. Len(e) >= 3 /\ e[Len(e) - 1] \notin {END, ESC}
  <2>1. CASE f[k] \notin {END, ESC}
    <3>1. Len(e) - 1 = a
      BY <1>3, <1>4, <2>1
    <3> QED
      BY <1>3, <1>4, <2>1, <3>1
  <2>2. CASE f[k] \in {END, ESC}
    <3>1. Len(e) - 1 = a + 1 /\ Len(e) >= 3
      BY <1>3, <1>4, <2>2
    <3> QED
      BY <1>3, <2>2, <3>1 DEF END, ESC, END_REPLACE, ESC_REPLACE
  <2> QED
    BY <2>1, <2>2
<1> QED
  BY <1>2, <1>3, <1>4, <1>5

\* The scan from p finds the rest of the frame f, number n, from its byte k on.
Rest(m, p, last, f, k, n) ==
  /\ Scan(m, p).stop = last
  /\ Len(Scan(m, p).out) = Len(f) + 1 - k
  /\ \A x \in 1..(Len(f) + 1 - k) : Scan(m, p).out[x] = Byte(f[k - 1 + x], n)

\* It finds one symbol more if it reads that symbol at p and goes on at q.
LEMMA RestPrepended ==
  ASSUME NEW B, Closed(B), NEW m \in Seq(B), NEW p \in 1..Len(m), NEW q \in 1..Len(m),
         NEW S, NEW f \in Seq(S), NEW k \in 1..Len(f), NEW n, NEW last, Rest(m, q, last, f, k + 1, n),
         Byte(f[k], n) \in B,
         Scan(m, p).out = <<Byte(f[k], n)>> \o Scan(m, q).out, Scan(m, p).stop = Scan(m, q).stop
  PROVE  Rest(m, p, last, f, k, n)
<1> DEFINE a == Scan(m, q).out
           b == Scan(m, p).out
           c == Byte(f[k], n)
<1>0. Len(m) \in Nat /\ Len(f) \in Nat
  OBVIOUS
<1>1. a \in Seq(B)
  <2>1. q \in 1..(Len(m) + 2)
    BY <1>0
  <2> QED
    BY <2>1, ScanSteps DEF Found
<1>2. Len(a) = Len(f) + 1 - (k + 1) /\ \A x \in 1..(Len(f) + 1 - (k + 1)) : a[x] = Byte(f[k + 1 - 1 + x], n)
  BY DEF Rest
<1>3. c \in B /\ b = <<c>> \o a
  OBVIOUS
<1> HIDE DEF a, b, c
<1>4. Len(b) = 1 + Len(a) /\ b[1] = c /\ \A i \in 1..Len(a) : b[1 + i] = a[i]
  BY <1>1, <1>3, Prepended
<1>5. Len(b) = Len(f) + 1 - k
  BY <1>0, <1>2, <1>4
<1>6. ASSUME NEW x \in 1..(Len(f) + 1 - k) PROVE b[x] = Byte(f[k - 1 + x], n)
  <2>1. CASE x = 1
    <3>1. k - 1 + x = k
      BY <2>1
    <3> QED
      BY <1>4, <2>1, <3>1 DEF c
  <2>2. CASE x # 1
    <3> DEFINE y == x - 1
    <3>1. y \in 1..Len(a) /\ 1 + y = x /\ y \in 1..(Len(f) + 1 - (k + 1)) /\ k + 1 - 1 + y = k - 1 + x
      BY <1>0, <1>2, <2>2
    <3> HIDE DEF y
    <3>2. b[1 + y] = a[y] /\ a[y] = Byte(f[k + 1 - 1 + y], n)
      BY <1>2, <1>4, <3>1
    <3> QED
      BY <3>1, <3>2
  <2> QED
    BY <2>1, <2>2
<1>7. Scan(m, p).stop = last
  BY DEF Rest
<1> QED
  BY <1>5, <1>6, <1>7 DEF Rest, b

\* Where the bytes of a symbol stand.
LEMMA PlaceArithmetic ==
  ASSUME NEW i \in Nat, i >= 1, NEW L \in Nat, NEW M \in Nat, i + L - 1 <= M,
         NEW a \in Nat, NEW b \in Nat, a >= 2, b <= L, b = a + 1 \/ b = a + 2
  PROVE  /\ i - 1 + a \in 1..M /\ i - 1 + b \in 1..M /\ i - 1 + a < M /\ i - 1 + a + 1 \in 1..M
         /\ i - 1 + a = i + a - 1 /\ i - 1 + a + 1 = i + (a + 1) - 1 /\ a \in 1..L
         /\ a + 1 \in 1..L
  OBVIOUS

\* The frame f, number n, that began at i.
IsFrame(d, i, f, n) == d.frame = TRUE /\ d.out = Tag(f, n) /\ d.stop = i + Len(Encode(f)) - 1

\* What was encoded is what is decoded, wherever it stands.
LEMMA RoundTrip ==
  ASSUME NEW B, Closed(B), NEW S, Special(S), NEW f \in Seq(S), f # <<>>, NEW n,
         NEW m \in Seq(B), NEW i, HasFrame(m, i, f, n), NEW d, d = Decode(m, i)
  PROVE  IsFrame(d, i, f, n)
<1> DEFINE e == Encode(f)
           last == i + Len(e) - 1
<1>0. /\ Len(f) \in Nat \ {0} /\ Len(m) \in Nat /\ i \in 1..Len(m) /\ last <= Len(m)
      /\ \A x \in 1..Len(e) : m[i + x - 1] = Byte(e[x], n)
      /\ \A k \in 1..Len(m) : m[k] \in B
  BY DEF HasFrame
<1>1. PICK place \in [1..(Len(f) + 1) -> Nat] : Laid(f, e, place)
  BY EncodeLaid
<1>2. Len(e) \in Nat /\ Len(e) >= 3
  BY EncodeEnds
<1>3. /\ place[1] = 2 /\ e[1] = END /\ place[Len(f) + 1] = Len(e) /\ e[Len(e)] = END
      /\ \A k \in 1..Len(f) :
           /\ f[k] \notin {END, ESC} => place[k + 1] = place[k] + 1 /\ e[place[k]] = f[k]
           /\ f[k] = END => /\ place[k + 1] = place[k] + 2 /\ e[place[k]] = ESC
                            /\ e[place[k] + 1] = END_REPLACE
           /\ f[k] = ESC => /\ place[k + 1] = place[k] + 2 /\ e[place[k]] = ESC
                            /\ e[place[k] + 1] = ESC_REPLACE
           /\ place[k] >= 2 /\ place[k + 1] <= Len(e)
  BY <1>1 DEF Laid
<1> HIDE DEF e
<1>4. last \in Nat /\ last \in 1..Len(m) /\ m[last].sym = END
  <2>1. Len(e) \in 1..Len(e) /\ last \in 1..Len(m)
    BY <1>0, <1>2
  <2>2. m[last] = Byte(e[Len(e)], n)
    BY <1>0, <2>1
  <2> QED
    BY <1>3, <2>1, <2>2 DEF Byte
<1> DEFINE T == {k \in 1..(Len(f) + 1) : Rest(m, i - 1 + place[k], last, f, k, n)}
<1>5. Len(f) + 1 \in T
  <2>1. i - 1 + place[Len(f) + 1] = last
    BY <1>0, <1>2, <1>3
  <2>2. Scan(m, last) = [out |-> <<>>, stop |-> last]
    <3>1. last \in 1..(Len(m) + 2) /\ last <= Len(m)
      BY <1>0, <1>4
    <3> HIDE DEF last
    <3>2. ScanStep(m, last)
      BY <3>1, ScanSteps
    <3> QED
      BY <1>4, <3>1, <3>2 DEF ScanStep
  <2>3. Len(f) + 1 - (Len(f) + 1) = 0 /\ 1..0 = {} /\ Len(<<>>) = 0 /\ Len(f) + 1 \in 1..(Len(f) + 1)
    BY <1>0
  <2> HIDE DEF last
  <2>4. Rest(m, last, last, f, Len(f) + 1, n)
    BY <2>2, <2>3 DEF Rest
  <2> QED
    BY <2>1, <2>3, <2>4
<1>6. ASSUME NEW k \in 1..(Len(f) + 1), \A j \in 1..(Len(f) + 1) : j > k => j \in T
      PROVE  k \in T
  <2>1. CASE k = Len(f) + 1
    BY <1>5, <2>1
  <2>2. CASE k # Len(f) + 1
    <3> DEFINE p == i - 1 + place[k]
               q == i - 1 + place[k + 1]
    <3>1. k \in 1..Len(f) /\ k + 1 \in 1..(Len(f) + 1) /\ k + 1 > k
      BY <1>0, <2>2
    <3>2. Rest(m, q, last, f, k + 1, n)
      <4>1. k + 1 \in T
        BY <1>6, <3>1
      <4> QED
        BY <4>1
    <3>3. /\ place[k] \in Nat /\ place[k + 1] \in Nat /\ place[k] >= 2 /\ place[k + 1] <= Len(e)
          /\ f[k] \notin {END, ESC} => place[k + 1] = place[k] + 1 /\ e[place[k]] = f[k]
          /\ f[k] = END => /\ place[k + 1] = place[k] + 2 /\ e[place[k]] = ESC
                           /\ e[place[k] + 1] = END_REPLACE
          /\ f[k] = ESC => /\ place[k + 1] = place[k] + 2 /\ e[place[k]] = ESC
                           /\ e[place[k] + 1] = ESC_REPLACE
      <4>1. place[k] \in Nat /\ place[k + 1] \in Nat
        BY <3>1
      <4> QED
        BY <1>3, <3>1, <4>1
    <3> DEFINE a == place[k]
    <3>4. /\ p \in 1..Len(m) /\ q \in 1..Len(m) /\ p < Len(m) /\ p + 1 \in 1..Len(m)
          /\ p = i + a - 1 /\ p + 1 = i + (a + 1) - 1 /\ a \in 1..Len(e) /\ a + 1 \in 1..Len(e)
      <4>1. place[k + 1] = a + 1 \/ place[k + 1] = a + 2
        BY <3>3
      <4>2. i \in Nat /\ i >= 1 /\ Len(m) \in Nat /\ i + Len(e) - 1 <= Len(m) /\ Len(e) \in Nat
        BY <1>0, <1>2
      <4>3. PICK b : b = place[k + 1]
        OBVIOUS
      <4>4. a \in Nat /\ b \in Nat /\ a >= 2 /\ b <= Len(e) /\ (b = a + 1 \/ b = a + 2)
        BY <3>3, <4>1, <4>3
      <4>5. p = i - 1 + a /\ q = i - 1 + b
        BY <4>3
      <4> HIDE DEF p, q, a
      <4>6. /\ i - 1 + a \in 1..Len(m) /\ i - 1 + b \in 1..Len(m) /\ i - 1 + a < Len(m)
            /\ i - 1 + a + 1 \in 1..Len(m)
            /\ i - 1 + a = i + a - 1 /\ i - 1 + a + 1 = i + (a + 1) - 1 /\ a \in 1..Len(e)
            /\ a + 1 \in 1..Len(e)
        BY ONLY <4>2, <4>4, PlaceArithmetic
      <4> QED
        BY <4>5, <4>6
    <3>5. m[p] = Byte(e[a], n) /\ m[p + 1] = Byte(e[a + 1], n) /\ m[p] \in B /\ m[p + 1] \in B
      <4> HIDE DEF p, a
      <4> QED
        BY <1>0, <3>4
    <3>6. ScanStep(m, p)
      <4>1. p \in 1..(Len(m) + 2)
        <5> HIDE DEF p
        <5> QED
          BY <1>0, <3>4
      <4> QED
        BY <4>1, ScanSteps
    <3>7. /\ f[k] \notin {END, ESC} => q = p + 1
          /\ f[k] \in {END, ESC} => q = p + 2
      BY <1>0, <3>3
    <3> HIDE DEF p, q, a
    <3>8. /\ Byte(f[k], n) \in B /\ Scan(m, p).out = <<Byte(f[k], n)>> \o Scan(m, q).out
          /\ Scan(m, p).stop = Scan(m, q).stop
      <4>1. CASE f[k] \notin {END, ESC}
        <5>1. m[p] = Byte(f[k], n) /\ m[p].sym \notin {END, ESC} /\ q = p + 1
          BY <3>3, <3>5, <3>7, <4>1 DEF a, Byte
        <5>2. p <= Len(m)
          BY <3>4
        <5>3. Scan(m, p).out = <<m[p]>> \o Scan(m, q).out /\ Scan(m, p).stop = Scan(m, q).stop
          BY <3>6, <5>1, <5>2 DEF ScanStep
        <5> QED
          BY <3>5, <5>1, <5>3
      <4>2. CASE f[k] \in {END, ESC}
        <5>1. m[p].sym = ESC /\ q = p + 2
          BY <3>3, <3>5, <3>7, <4>2 DEF a, Byte
        <5>2. Unstuffed(m[p + 1]) = <<Byte(f[k], n)>>
          <6>1. m[p + 1].of = n /\ (f[k] = END => m[p + 1].sym = END_REPLACE)
                /\ (f[k] = ESC => m[p + 1].sym = ESC_REPLACE)
            BY <3>3, <3>5 DEF a, Byte
          <6>2. CASE f[k] = END
            BY <6>1, <6>2 DEF Unstuffed, END_REPLACE, ESC_REPLACE
          <6>3. CASE f[k] = ESC
            BY <6>1, <6>3 DEF Unstuffed, END_REPLACE, ESC_REPLACE
          <6> QED
            BY <4>2, <6>2, <6>3
        <5>3. Byte(f[k], n) \in B
          <6>1. m[p + 1].of = n
            BY <3>5 DEF Byte
          <6>2. Byte(END, m[p + 1].of) \in B /\ Byte(ESC, m[p + 1].of) \in B
            BY <3>5 DEF Closed
          <6> QED
            BY <4>2, <6>1, <6>2
        <5> QED
          BY <3>4, <3>6, <5>1, <5>2, <5>3 DEF ScanStep
      <4> QED
        BY <4>1, <4>2
    <3>9. Rest(m, p, last, f, k, n)
      <4> HIDE DEF last
      <4> QED
        BY <3>1, <3>2, <3>4, <3>8, RestPrepended
    <3> QED
      BY <3>9 DEF p
  <2> QED
    BY <2>1, <2>2
<1>7. Rest(m, i + 1, last, f, 1, n)
  <2>1. 1 \in T
    <3>1. \A k \in 1..(Len(f) + 1) : k \in T
      <4> HIDE DEF T
      <4> QED
        BY <1>0, <1>6, Downward
    <3>2. 1 \in 1..(Len(f) + 1)
      BY <1>0
    <3> QED
      BY <3>1, <3>2
  <2>2. i - 1 + place[1] = i + 1
    BY <1>0, <1>3
  <2> QED
    BY <2>1, <2>2
<1> DEFINE r == Scan(m, i + 1)
<1>8. m[i].sym = END
  <2>1. 1 \in 1..Len(e) /\ i + 1 - 1 = i
    BY <1>0, <1>2
  <2>2. m[i + 1 - 1] = Byte(e[1], n)
    BY <1>0, <2>1
  <2> QED
    BY <1>3, <2>1, <2>2 DEF Byte
<1>9. r \in Found(B) /\ d = [out |-> r.out, stop |-> r.stop, frame |-> r.stop > 0 /\ r.out # <<>>]
  <2>1. i + 1 \in 1..(Len(m) + 2)
    BY <1>0
  <2> QED
    BY <1>0, <1>8, <2>1, ScanSteps DEF Decode
<1>10. r.stop = last /\ Len(r.out) = Len(f) /\ \A x \in 1..Len(f) : r.out[x] = Byte(f[x], n)
  <2>1. Len(f) + 1 - 1 = Len(f) /\ \A x \in 1..Len(f) : 1 - 1 + x = x
    BY <1>0
  <2>2. /\ r.stop = last /\ Len(r.out) = Len(f) + 1 - 1
        /\ \A x \in 1..(Len(f) + 1 - 1) : r.out[x] = Byte(f[1 - 1 + x], n)
    BY <1>7 DEF Rest
  <2> QED
    BY <2>1, <2>2
<1>11. r.out = Tag(f, n) /\ r.out # <<>>
  <2>1. r.out \in Seq(B) /\ DOMAIN f = 1..Len(f) /\ Len(<<>>) = 0
    BY <1>9 DEF Found
  <2>2. r.out = [x \in 1..Len(r.out) |-> r.out[x]]
    BY <2>1
  <2> HIDE DEF r
  <2>3. r.out = [x \in 1..Len(f) |-> Byte(f[x], n)]
    BY <1>10, <2>2
  <2> QED
    BY <1>0, <1>10, <2>1, <2>3 DEF Tag
<1>12. last > 0
  BY <1>4
<1> HIDE DEF r, last, T
<1>13. d.out = r.out /\ d.stop = r.stop /\ d.frame = (r.stop > 0 /\ r.out # <<>>)
  BY <1>9
<1>14. r.stop > 0 /\ r.out # <<>>
  BY <1>10, <1>11, <1>12
<1> QED
  BY <1>10, <1>11, <1>13, <1>14 DEF last, e, IsFrame
-----------------------------------------------------------------------------
(* Types.                                                                  *)

\* The symbols of the bytes.
Syms == (UNION {ToSet(f) : f \in its.frames}) \cup {END, ESC, END_REPLACE, ESC_REPLACE}

\* The strengthened type invariant: no more packets than the bound.
TInv == TypeOK /\ Len(sent) <= MaxFrames

\* What the assumption on the lines says of the one in use.
LEMMA LineFacts ==
  ASSUME line \in DOMAIN Lines
  PROVE  /\ its.serial \in BOOLEAN /\ its.frames \in SUBSET Seq(STRING) /\ its.tx \in Nat
         /\ its.rx \in Nat /\ its.splits \in BOOLEAN /\ its.partial \in BOOLEAN
         /\ its.refusals \in BOOLEAN /\ its.breaks \in Nat /\ <<>> \notin its.frames
         /\ MaxFrames \in Nat
<1>1. its \in Line
  BY LinesAssumption DEF its
<1>2. <<>> \notin its.frames
  BY FramesAssumption DEF its
<1> QED
  BY <1>1, <1>2, LinesAssumption DEF Line

\* The bytes of a line: those of its packets, with the number of a packet.
LEMMA BytesFacts ==
  ASSUME line \in DOMAIN Lines
  PROVE  /\ Closed(Bytes) /\ Special(Syms) /\ its.frames \subseteq Seq(Syms)
         /\ Bytes = [sym : Syms, of : 1..MaxFrames]
<1>1. Bytes = [sym : Syms, of : 1..MaxFrames]
  BY DEF Bytes, Syms
<1>2. Special(Syms)
  <2> DEFINE U == UNION {ToSet(f) : f \in its.frames}
  <2>1. Syms = U \cup {END, ESC, END_REPLACE, ESC_REPLACE}
    BY DEF Syms
  <2> HIDE DEF U
  <2> QED
    BY <2>1 DEF Special
<1>3. Closed(Bytes)
  <2>1. SUFFICES ASSUME NEW b \in Bytes
                 PROVE  Byte(END, b.of) \in Bytes /\ Byte(ESC, b.of) \in Bytes
    BY DEF Closed
  <2>2. b.of \in 1..MaxFrames
    BY <1>1, <2>1
  <2>3. END \in Syms /\ ESC \in Syms
    BY <1>2 DEF Special
  <2> QED
    BY <1>1, <2>2, <2>3 DEF Byte
<1>4. ASSUME NEW f \in its.frames PROVE f \in Seq(Syms)
  <2>1. f \in Seq(STRING)
    BY LineFacts
  <2>2. \A i \in 1..Len(f) : f[i] \in Syms
    <3>1. DOMAIN f = 1..Len(f)
      BY <2>1
    <3>2. \A i \in 1..Len(f) : f[i] \in ToSet(f)
      BY <3>1 DEF ToSet
    <3> QED
      BY <3>2 DEF Syms
  <2>3. Len(f) \in Nat /\ f = [i \in 1..Len(f) |-> f[i]]
    BY <2>1
  <2> QED
    BY <2>2, <2>3, SeqDef
<1> QED
  BY <1>1, <1>2, <1>3, <1>4

\* The bytes of a packet on the wire.
LEMMA EncodedFacts ==
  ASSUME TInv, next <= Len(sent), NEW e, e = Encoded(next), NEW f, f = sent[next]
  PROVE  /\ f \in Seq(Syms) /\ f # <<>> /\ e \in Seq(Bytes) /\ Len(e) = Len(Encode(f))
         /\ \A x \in 1..Len(e) : e[x] = Byte(Encode(f)[x], next)
         /\ next \in 1..MaxFrames
<1>1. /\ line \in DOMAIN Lines /\ sent \in Seq(its.frames) /\ next \in 1..(Len(sent) + 1)
      /\ Len(sent) <= MaxFrames /\ Len(sent) \in Nat
  BY DEF TInv, TypeOK
<1>2. MaxFrames \in Nat
  BY LinesAssumption
<1>3. next \in 1..MaxFrames /\ next \in 1..Len(sent)
  BY <1>1, <1>2
<1>4. f \in its.frames
  BY <1>1, <1>3
<1>5. f \in Seq(Syms) /\ f # <<>> /\ Special(Syms) /\ Bytes = [sym : Syms, of : 1..MaxFrames]
  BY <1>1, <1>4, BytesFacts, LineFacts
<1> DEFINE c == Encode(f)
<1>6. Len(c) \in Nat /\ DOMAIN c = 1..Len(c) /\ \A x \in 1..Len(c) : c[x] \in Syms
  BY <1>5, EncodeEnds
<1>7. e = [x \in DOMAIN c |-> Byte(c[x], next)]
  BY DEF Encoded
<1> HIDE DEF c
<1>8. \A x \in 1..Len(c) : Byte(c[x], next) \in Bytes
  BY <1>3, <1>5, <1>6 DEF Byte
<1>9. e \in Seq(Bytes) /\ Len(e) = Len(c)
  <2>1. e = [x \in 1..Len(c) |-> Byte(c[x], next)]
    BY <1>6, <1>7
  <2>2. e \in [1..Len(c) -> Bytes]
    BY <1>8, <2>1
  <2> QED
    BY <1>6, <2>1, <2>2, SeqDef
<1>10. \A x \in 1..Len(e) : e[x] = Byte(c[x], next)
  BY <1>6, <1>7, <1>9
<1> QED
  BY <1>3, <1>5, <1>9, <1>10 DEF c

\* A part of the bytes.
LEMMA PartFacts ==
  ASSUME NEW B, NEW s \in Seq(B), NEW a \in Nat, a >= 1, NEW b \in Nat, b <= Len(s), NEW t, t = SubSeq(s, a, b),
         a <= b + 1
  PROVE  t \in Seq(B) /\ Len(t) = b - a + 1 /\ \A x \in 1..(b - a + 1) : t[x] = s[a + x - 1]
<1>1. b - a + 1 \in Nat /\ a \in 1..(Len(s) + 1) /\ b \in 0..Len(s) /\ Len(s) \in Nat
  OBVIOUS
<1>2. /\ SubSeq(s, a, b) \in Seq(B)
      /\ Len(SubSeq(s, a, b)) = IF a <= b THEN b - a + 1 ELSE 0
      /\ \A i \in 1..(b - a + 1) : SubSeq(s, a, b)[i] = s[a + i - 1]
  BY <1>1, SubSeqProperties
<1>3. IF a <= b THEN TRUE ELSE b - a + 1 = 0
  BY <1>1
<1> QED
  BY <1>1, <1>2, <1>3
\* The rooms are numbers.
LEMMA RoomsFacts ==
  ASSUME line \in DOMAIN Lines, NEW room \in Rooms
  PROVE  room \in Nat
<1>1. MaxFrames \in Nat
  BY LinesAssumption
<1> QED
  BY <1>1 DEF Rooms

\* The receiver looks at the bytes m, leaves w under way, and does what o says.
Received(k, m, w, o) ==
  /\ inbox' = inbox \o o.frames /\ rxBuf' = o.rest /\ wire' = w
  /\ spoiled' = spoiled \cup Refused(m, o.rest) \cup (IF EndsFrame(k) THEN {} ELSE {wire[k].of})
  /\ UNCHANGED <<line, sent, next, txUp, rxUp, breaks>>
  /\ rxUp /\ (~its.splits => EndsFrame(k))

\* Which bytes these are.
Divided(k, m, w) ==
  /\ rxBuf \o wire = m \o w
  /\ Len(m) = Len(rxBuf) + k /\ Len(w) = Len(wire) - k
  /\ \A i \in 1..Len(rxBuf) : m[i] = rxBuf[i]
  /\ \A i \in 1..k : m[Len(rxBuf) + i] = wire[i]
  /\ \A i \in 1..Len(w) : w[i] = wire[k + i]

\* What a call of the receiver works on.
LEMMA ReceiveFacts ==
  ASSUME TInv, NEW k \in 1..its.rx, NEW room \in Rooms, Receive(k, room),
         NEW m, m = rxBuf \o SubSeq(wire, 1, k),
         NEW w, w = SubSeq(wire, k + 1, Len(wire)), NEW o, o = Dispatch(m, room)
  PROVE  /\ m \in Seq(Bytes) /\ w \in Seq(Bytes) /\ room \in Nat /\ k \in 1..Len(wire)
         /\ Len(m) <= its.rx /\ Len(m) \in Nat /\ Len(w) \in Nat
         /\ Divided(k, m, w) /\ Received(k, m, w, o)
<1>1. /\ line \in DOMAIN Lines /\ rxBuf \in Seq(Bytes) /\ wire \in Seq(Bytes)
      /\ Len(rxBuf) \in Nat /\ Len(wire) \in Nat /\ its.rx \in Nat
  BY LineFacts DEF TInv, TypeOK
<1>2. k \in Nat /\ k >= 1 /\ k <= Len(wire) /\ k <= its.rx - Len(rxBuf) /\ room \in Nat
  BY <1>1, RoomsFacts DEF Receive
<1> DEFINE g == SubSeq(wire, 1, k)
<1>3. g \in Seq(Bytes) /\ Len(g) = k /\ \A x \in 1..k : g[x] = wire[x]
  <2>1. /\ g \in Seq(Bytes) /\ Len(g) = k - 1 + 1 /\ \A x \in 1..(k - 1 + 1) : g[x] = wire[1 + x - 1]
    BY <1>1, <1>2, PartFacts
  <2>2. k - 1 + 1 = k /\ \A x \in 1..k : 1 + x - 1 = x
    BY <1>2
  <2> HIDE DEF g
  <2> QED
    BY <2>1, <2>2
<1>4. /\ w \in Seq(Bytes) /\ Len(w) = Len(wire) - k /\ \A x \in 1..Len(w) : w[x] = wire[k + x]
  <2>1. k + 1 \in Nat /\ k + 1 >= 1 /\ Len(wire) <= Len(wire) /\ k + 1 <= Len(wire) + 1
    BY <1>1, <1>2
  <2>2. /\ w \in Seq(Bytes) /\ Len(w) = Len(wire) - (k + 1) + 1
        /\ \A x \in 1..(Len(wire) - (k + 1) + 1) : w[x] = wire[k + 1 + x - 1]
    BY <1>1, <2>1, PartFacts
  <2>3. Len(wire) - (k + 1) + 1 = Len(wire) - k /\ \A x \in 1..Len(w) : k + 1 + x - 1 = k + x
    BY <1>1, <1>2, <2>2
  <2> QED
    BY <2>2, <2>3
<1>5. /\ m \in Seq(Bytes) /\ Len(m) = Len(rxBuf) + k /\ \A i \in 1..Len(rxBuf) : m[i] = rxBuf[i]
      /\ \A i \in 1..k : m[Len(rxBuf) + i] = wire[i]
  <2>1. m = rxBuf \o g
    OBVIOUS
  <2> HIDE DEF g
  <2> QED
    BY <1>1, <1>3, <2>1, ConcatFacts
<1>6. rxBuf \o wire = m \o w
  <2>0. g \in Seq(Bytes) /\ w \in Seq(Bytes) /\ rxBuf \in Seq(Bytes)
    BY <1>1, <1>3, <1>4
  <2>1. wire = g \o w
    <3>1. 1 \in 1..(Len(wire) + 1) /\ k \in (1 - 1)..Len(wire) /\ Len(wire) \in k..Len(wire)
      BY <1>1, <1>2
    <3>2. g \o w = SubSeq(wire, 1, Len(wire))
      BY <1>1, <3>1, ConcatAdjacentSubSeq
    <3>3. SubSeq(wire, 1, Len(wire)) = wire
      BY <1>1, SubSeqFull
    <3> QED
      BY <3>2, <3>3
  <2>2. m = rxBuf \o g
    OBVIOUS
  <2> HIDE DEF g
  <2>3. (rxBuf \o g) \o w = rxBuf \o (g \o w)
    BY ONLY <2>0, ConcatAssociative
  <2> QED
    BY <2>1, <2>2, <2>3
<1>7. Received(k, m, w, o)
  BY DEF Receive, Received
<1>8. Len(m) <= its.rx /\ Len(m) \in Nat /\ Len(w) \in Nat
  BY <1>1, <1>2, <1>4, <1>5
<1>9. Divided(k, m, w)
  BY <1>4, <1>5, <1>6 DEF Divided
<1>10. k \in 1..Len(wire) /\ room \in Nat
  BY <1>1, <1>2
<1>11. m \in Seq(Bytes) /\ w \in Seq(Bytes)
  BY <1>4, <1>5
<1> QED
  BY ONLY <1>7, <1>8, <1>9, <1>10, <1>11

\* The types, at first and after each step.
LEMMA InitTypes == Init => TInv
<1> SUFFICES ASSUME Init PROVE TInv
  OBVIOUS
<1>1. line \in DOMAIN Lines /\ its.rx \in Nat /\ its.breaks \in Nat /\ MaxFrames \in Nat
  BY LineFacts DEF Init
<1>2. sent = <<>> /\ wire = <<>> /\ rxBuf = <<>> /\ inbox = <<>> /\ Len(<<>>) = 0
  BY DEF Init
<1>3. next = 1 /\ breaks = 0 /\ spoiled = {} /\ txUp = TRUE /\ rxUp = TRUE
  BY DEF Init
<1> QED
  BY <1>1, <1>2, <1>3 DEF TInv, TypeOK

\* The numbers of the bytes from a to b of a sequence.
LEMMA OfFacts ==
  ASSUME line \in DOMAIN Lines, NEW s \in Seq(Bytes), NEW D, D \subseteq 1..Len(s)
  PROVE  {s[i].of : i \in D} \subseteq 1..MaxFrames
<1>1. \A i \in 1..Len(s) : s[i] \in Bytes
  OBVIOUS
<1>2. \A b \in Bytes : b.of \in 1..MaxFrames
  BY BytesFacts
<1> QED
  BY <1>1, <1>2

\* The frame that is refused is one of those that were there.
LEMMA RefusedFacts ==
  ASSUME line \in DOMAIN Lines, NEW m \in Seq(Bytes), NEW r \in Seq(Bytes), Len(r) <= Len(m)
  PROVE  Refused(m, r) \subseteq 1..MaxFrames
<1> DEFINE p == Len(m) - Len(r) + 1
           d == Decode(m, p)
<1>1. p \in 1..(Len(m) + 1) /\ Closed(Bytes)
  BY BytesFacts
<1> HIDE DEF p
<1>2. d.out \in Seq(Bytes) /\ (d.frame => Len(d.out) \in Nat \ {0})
  BY <1>1, DecodeFacts
<1>3. d.frame => d.out[1] \in Bytes
  <2> HIDE DEF d
  <2>1. ASSUME d.frame PROVE 1 \in 1..Len(d.out)
    BY <1>2, <2>1
  <2> QED
    BY <1>2, <2>1
<1>4. d.frame => d.out[1].of \in 1..MaxFrames
  BY <1>3, BytesFacts
<1> QED
  BY <1>4 DEF Refused, p

LEMMA HandOverTypes ==
  ASSUME TInv, NEW f \in its.frames, HandOver(f)
  PROVE  TInv'
<1>1. /\ line' = line /\ next' = next /\ txUp' = txUp /\ wire' = wire /\ rxUp' = rxUp
      /\ rxBuf' = rxBuf /\ inbox' = inbox /\ breaks' = breaks /\ spoiled' = spoiled
      /\ sent' = Append(sent, f) /\ Len(sent) < MaxFrames
  BY DEF HandOver
<1>2. its' = its /\ Bytes' = Bytes
  BY <1>1 DEF its, Bytes
<1>3. sent \in Seq(its.frames) /\ Len(sent) \in Nat /\ next \in 1..(Len(sent) + 1)
  BY DEF TInv, TypeOK
<1>4. sent' \in Seq(its.frames) /\ Len(sent') = Len(sent) + 1
  BY <1>1, <1>3, AppendProperties
<1>5. next' \in 1..(Len(sent') + 1) /\ Len(sent') <= MaxFrames
  BY <1>1, <1>3, <1>4, LinesAssumption
<1> QED
  BY <1>1, <1>2, <1>4, <1>5 DEF TInv, TypeOK

LEMMA SendTypes ==
  ASSUME TInv, Sends
  PROVE  TInv'
<1>1. /\ line \in DOMAIN Lines /\ sent \in Seq(its.frames) /\ Len(sent) \in Nat
      /\ next \in 1..(Len(sent) + 1) /\ Len(sent) <= MaxFrames /\ MaxFrames \in Nat
      /\ wire \in Seq(Bytes) /\ spoiled \subseteq 1..MaxFrames + 1
  BY LinesAssumption DEF TInv, TypeOK
<1>2. /\ line' = line /\ sent' = sent /\ txUp' = txUp /\ rxUp' = rxUp
      /\ rxBuf' = rxBuf /\ inbox' = inbox /\ breaks' = breaks /\ next <= Len(sent)
  BY DEF Sends, SendNothing, SendWhole, SendPart, Ready
<1>3. its' = its /\ Bytes' = Bytes
  BY <1>2 DEF its, Bytes
<1> DEFINE e == Encoded(next)
<1>4. e \in Seq(Bytes) /\ next \in 1..MaxFrames
  BY <1>2, EncodedFacts
<1>5. next' \in 1..(Len(sent) + 1)
  <2>1. next' = next \/ next' = next + 1
    BY DEF Sends, SendNothing, SendWhole, SendPart
  <2> QED
    BY <1>1, <1>2, <2>1
<1>6. spoiled' \subseteq 1..MaxFrames + 1
  <2>1. spoiled' \subseteq spoiled \cup {next, next + 1}
    BY DEF Sends, SendNothing, SendWhole, SendPart
  <2>2. next \in 1..MaxFrames + 1 /\ next + 1 \in 1..MaxFrames + 1
    BY <1>1, <1>4
  <2> QED
    BY <1>1, <2>1, <2>2
<1>7. wire' \in Seq(Bytes)
  <2>1. CASE wire' = wire
    BY <1>1, <2>1
  <2>2. CASE wire' = wire \o e
    <3> HIDE DEF e
    <3> QED
      BY <1>1, <1>4, <2>2, ConcatFacts
  <2>3. ASSUME NEW k \in 1..its.tx, SendPart(k) PROVE wire' \in Seq(Bytes)
    <3>1. k \in Nat /\ k >= 1 /\ k < Len(e) /\ wire' = wire \o SubSeq(e, 1, k) /\ Len(e) \in Nat
      BY <1>4, <2>3 DEF SendPart
    <3> HIDE DEF e
    <3> DEFINE t == SubSeq(e, 1, k)
    <3>2. t \in Seq(Bytes)
      <4>1. k <= Len(e) /\ 1 <= k + 1
        BY <3>1
      <4> QED
        BY <1>4, <3>1, <4>1, PartFacts
    <3> HIDE DEF t
    <3> QED
      BY <1>1, <3>1, <3>2, ConcatFacts DEF t
  <2> QED
    BY <2>1, <2>2, <2>3 DEF Sends, SendNothing, SendWhole
<1> QED
  BY <1>1, <1>2, <1>3, <1>5, <1>6, <1>7 DEF TInv, TypeOK

LEMMA BreakTypes ==
  ASSUME TInv, NEW k \in 0..Len(wire), Break(k)
  PROVE  TInv'
<1>1. /\ line \in DOMAIN Lines /\ wire \in Seq(Bytes) /\ spoiled \subseteq 1..MaxFrames + 1
      /\ breaks \in 0..its.breaks /\ its.breaks \in Nat /\ MaxFrames \in Nat /\ Len(wire) \in Nat
  BY LineFacts DEF TInv, TypeOK
<1>2. /\ line' = line /\ sent' = sent /\ next' = next /\ rxUp' = rxUp /\ txUp' = FALSE
      /\ rxBuf' = rxBuf /\ inbox' = inbox /\ breaks' = breaks + 1 /\ breaks < its.breaks
      /\ wire' = SubSeq(wire, 1, k)
      /\ spoiled' = spoiled \cup {wire[i].of : i \in (k + 1)..Len(wire)}
  BY DEF Break
<1>3. its' = its /\ Bytes' = Bytes
  BY <1>2 DEF its, Bytes
<1>4. wire' \in Seq(Bytes)
  <2>1. k \in Nat /\ 1 <= k + 1 /\ k <= Len(wire)
    BY <1>1
  <2> QED
    BY <1>1, <1>2, <2>1, PartFacts
<1>5. spoiled' \subseteq 1..MaxFrames + 1
  <2> DEFINE D == (k + 1)..Len(wire)
  <2>1. D \subseteq 1..Len(wire)
    BY <1>1
  <2>2. {wire[i].of : i \in D} \subseteq 1..MaxFrames
    <3> HIDE DEF D
    <3> QED
      BY <1>1, <2>1, OfFacts
  <2>3. 1..MaxFrames \subseteq 1..MaxFrames + 1
    BY <1>1
  <2> QED
    BY <1>1, <1>2, <2>2, <2>3
<1>6. breaks' \in 0..its.breaks
  BY <1>1, <1>2
<1> QED
  BY <1>2, <1>3, <1>4, <1>5, <1>6 DEF TInv, TypeOK

LEMMA ReceiveTypes ==
  ASSUME TInv, NEW k \in 1..its.rx, NEW room \in Rooms, Receive(k, room)
  PROVE  TInv'
<1>1. /\ line \in DOMAIN Lines /\ spoiled \subseteq 1..MaxFrames + 1 /\ inbox \in Seq(Seq(Bytes))
      /\ MaxFrames \in Nat /\ wire \in Seq(Bytes) /\ Len(wire) \in Nat
  BY LineFacts DEF TInv, TypeOK
<1>2. PICK m, w, o : /\ m = rxBuf \o SubSeq(wire, 1, k) /\ w = SubSeq(wire, k + 1, Len(wire))
                     /\ o = Dispatch(m, room)
  OBVIOUS
<1>0. m = rxBuf \o SubSeq(wire, 1, k) /\ w = SubSeq(wire, k + 1, Len(wire)) /\ o = Dispatch(m, room)
  BY <1>2
<1>3. /\ m \in Seq(Bytes) /\ w \in Seq(Bytes) /\ room \in Nat /\ k \in 1..Len(wire)
      /\ Len(m) <= its.rx /\ Len(m) \in Nat /\ Received(k, m, w, o)
  BY <1>0, ReceiveFacts
<1>4. /\ inbox' = inbox \o o.frames /\ rxBuf' = o.rest /\ wire' = w
       /\ spoiled' = spoiled \cup Refused(m, o.rest)
                       \cup (IF EndsFrame(k) THEN {} ELSE {wire[k].of})
       /\ UNCHANGED <<line, sent, next, txUp, rxUp, breaks>>
  BY <1>3 DEF Received
<1>5. its' = its /\ Bytes' = Bytes
  BY <1>4 DEF its, Bytes
<1>6. Closed(Bytes)
  BY <1>1, BytesFacts
<1>7. PICK e \in 1..(Len(m) + 1) : o.rest = InPlace(m, e)
  <2>1. \E e \in 1..(Len(m) + 1) : LeftAt(m, e, o)
    BY <1>0, <1>3, <1>6, DispatchFacts
  <2> QED
    BY <2>1 DEF LeftAt
<1>8. o.frames \in Seq(Seq(Bytes)) /\ o.rest \in Seq(Bytes)
  BY <1>0, <1>3, <1>6, DispatchFacts
<1>9. Len(o.rest) <= Len(m) /\ Len(o.rest) \in Nat
  <2>1. Len(o.rest) = Len(m) - e + 1
    BY <1>3, <1>6, <1>7, InPlaceIn
  <2> QED
    BY <1>3, <1>8, <2>1
<1>10. Len(o.rest) <= its.rx
  <2>1. its.rx \in Nat
    BY <1>1, LineFacts
  <2> QED
    BY <1>3, <1>9, <2>1
<1>11. inbox \o o.frames \in Seq(Seq(Bytes))
  BY <1>1, <1>8, ConcatFacts
<1>12. spoiled' \subseteq 1..MaxFrames + 1
  <2>1. Refused(m, o.rest) \subseteq 1..MaxFrames
    BY <1>1, <1>3, <1>8, <1>9, RefusedFacts
  <2>2. wire[k].of \in 1..MaxFrames
    <3>1. {wire[i].of : i \in {k}} \subseteq 1..MaxFrames
      <4>1. {k} \subseteq 1..Len(wire)
        BY <1>3
      <4> QED
        BY <1>1, <4>1, OfFacts
    <3> QED
      BY <3>1
  <2>3. 1..MaxFrames \subseteq 1..MaxFrames + 1
    BY <1>1
  <2> QED
    BY <1>1, <1>4, <2>1, <2>2, <2>3
<1> QED
  BY <1>3, <1>5, <1>8, <1>10, <1>11, <1>12, <1>4 DEF TInv, TypeOK

LEMMA ReceiveEndTypes ==
  ASSUME TInv, ReceiveEnd
  PROVE  TInv'
<1>1. /\ line \in DOMAIN Lines /\ wire \in Seq(Bytes) /\ spoiled \subseteq 1..MaxFrames + 1
      /\ MaxFrames \in Nat
  BY LineFacts DEF TInv, TypeOK
<1>2. /\ line' = line /\ sent' = sent /\ next' = next /\ rxUp' = FALSE /\ txUp' = FALSE
      /\ rxBuf' = rxBuf /\ inbox' = inbox /\ breaks' = breaks /\ wire' = <<>>
      /\ spoiled' = spoiled \cup {wire[i].of : i \in DOMAIN wire}
  BY DEF ReceiveEnd
<1>3. its' = its /\ Bytes' = Bytes
  BY <1>2 DEF its, Bytes
<1>5. <<>> \in Seq(Bytes)
  OBVIOUS
<1>4. spoiled' \subseteq 1..MaxFrames + 1
  <2>1. DOMAIN wire \subseteq 1..Len(wire)
    BY <1>1
  <2>2. {wire[i].of : i \in DOMAIN wire} \subseteq 1..MaxFrames
    BY <1>1, <2>1, OfFacts
  <2>3. 1..MaxFrames \subseteq 1..MaxFrames + 1
    BY <1>1
  <2> QED
    BY <1>1, <1>2, <2>2, <2>3
<1> QED
  BY <1>2, <1>3, <1>4, <1>5 DEF TInv, TypeOK

LEMMA ReconnectTypes ==
  ASSUME TInv, Reconnect
  PROVE  TInv'
<1>1. /\ next \in 1..(Len(sent) + 1) /\ Len(sent) <= MaxFrames /\ sent \in Seq(its.frames)
      /\ MaxFrames \in Nat /\ spoiled \subseteq 1..MaxFrames + 1
  BY LinesAssumption DEF TInv, TypeOK
<1>2. /\ line' = line /\ sent' = sent /\ next' = next /\ rxUp' = TRUE /\ txUp' = TRUE
      /\ rxBuf' = rxBuf /\ inbox' = inbox /\ breaks' = breaks /\ wire' = wire
      /\ spoiled' \subseteq spoiled \cup {next}
  BY DEF Reconnect
<1>3. its' = its /\ Bytes' = Bytes
  BY <1>2 DEF its, Bytes
<1>4. next \in 1..MaxFrames + 1
  BY <1>1
<1> QED
  BY <1>1, <1>2, <1>3, <1>4 DEF TInv, TypeOK

\* What a step can be, however the two ends are connected.
LEMMA Steps ==
  ASSUME Next
  PROVE  \/ \E f \in its.frames : HandOver(f)
         \/ Sends
         \/ \E k \in 1..its.rx, room \in Rooms : Receive(k, room)
         \/ ReceiveEnd
         \/ Reconnect
         \/ \E k \in 0..Len(wire) : Break(k)
BY DEF Next, TcpRun, SerialSends, SerialReceives, Receives

LEMMA StutterTypes == TInv /\ UNCHANGED vars => TInv'
BY DEF TInv, TypeOK, vars, its, Bytes

LEMMA StepTypes == TInv /\ [Next]_vars => TInv'
<1> SUFFICES ASSUME TInv, [Next]_vars PROVE TInv'
  OBVIOUS
<1>1. CASE UNCHANGED vars
  BY <1>1, StutterTypes
<1>2. CASE Next
  BY <1>2, Steps, HandOverTypes, SendTypes, ReceiveTypes, ReceiveEndTypes, ReconnectTypes, BreakTypes
<1> QED
  BY <1>1, <1>2

\* The state has its types, and what the receiver keeps of one call always
\* fits into its buffer, with room for the next.
THEOREM TypeCorrect == Spec => []TypeOK
<1>1. Init => TInv
  BY InitTypes
<1>2. TInv /\ [Next]_vars => TInv'
  BY StepTypes
<1>3. TInv => TypeOK
  BY DEF TInv
<1> QED
  BY <1>1, <1>2, <1>3, PTL DEF Spec
-----------------------------------------------------------------------------
(* What stays of the frames.                                               *)

\* The frame f, number n, is in s, at the beginning or behind another's END.
Kept(s, f, n) == \E i \in 1..Len(s) : (i = 1 \/ Closer(s, i - 1)) /\ HasFrame(s, i, f, n)

\* All of s is frames with an END.
Ended(s) == s = <<>> \/ Closer(s, Len(s))

\* From byte l + 1 on, t is s without its first e - 1 bytes.
Behind(t, s, e, l) == \A x \in 1..Len(t) : x > l => t[x] = s[e + x - 1]

\* t begins as s does.
Begins(t, s) == Len(t) <= Len(s) /\ \A x \in 1..Len(t) : t[x] = s[x]

\* A sequence begins what it is put at the beginning of.
LEMMA BeginsConcat ==
  ASSUME NEW B, NEW s \in Seq(B), NEW t \in Seq(B)
  PROVE  Begins(s, s \o t)
BY ConcatFacts DEF Begins

\* A frame in the beginning of a sequence is in the sequence.
LEMMA HasFrameLonger ==
  ASSUME NEW B, NEW s \in Seq(B), NEW t \in Seq(B), Begins(t, s), NEW f, NEW n, NEW i,
         NEW L, L = Len(Encode(f)), L \in Nat \ {0}
  PROVE  /\ HasFrame(t, i, f, n) => HasFrame(s, i, f, n)
         /\ i + L - 1 <= Len(t) /\ HasFrame(s, i, f, n) => HasFrame(t, i, f, n)
<1>0. Len(s) \in Nat /\ Len(t) \in Nat /\ Len(t) <= Len(s) /\ \A x \in 1..Len(t) : t[x] = s[x]
  BY DEF Begins
<1>1. ASSUME HasFrame(t, i, f, n) PROVE HasFrame(s, i, f, n)
  <2>1. /\ i \in 1..Len(t) /\ i + L - 1 <= Len(t)
        /\ \A x \in 1..L : t[i + x - 1] = Byte(Encode(f)[x], n)
    BY <1>1 DEF HasFrame
  <2>2. i \in 1..Len(s) /\ i + L - 1 <= Len(s)
    BY <1>0, <2>1
  <2>3. ASSUME NEW x \in 1..L PROVE s[i + x - 1] = Byte(Encode(f)[x], n)
    <3>1. i + x - 1 \in 1..Len(t)
      BY <1>0, <2>1
    <3>2. t[i + x - 1] = s[i + x - 1]
      BY <1>0, <3>1
    <3> QED
      BY <2>1, <3>2
  <2> QED
    BY <2>2, <2>3 DEF HasFrame
<1>2. ASSUME i + L - 1 <= Len(t), HasFrame(s, i, f, n) PROVE HasFrame(t, i, f, n)
  <2>1. /\ i \in 1..Len(s) /\ i + L - 1 <= Len(s)
        /\ \A x \in 1..L : s[i + x - 1] = Byte(Encode(f)[x], n)
    BY <1>2 DEF HasFrame
  <2>2. i \in 1..Len(t)
    BY <1>0, <1>2, <2>1
  <2>3. ASSUME NEW x \in 1..L PROVE t[i + x - 1] = Byte(Encode(f)[x], n)
    <3>1. i + x - 1 \in 1..Len(t)
      BY <1>0, <1>2, <2>1
    <3>2. t[i + x - 1] = s[i + x - 1]
      BY <1>0, <3>1
    <3> QED
      BY <2>1, <3>2
  <2> QED
    BY <1>2, <2>2, <2>3 DEF HasFrame
<1> QED
  BY <1>1, <1>2

\* So does a closer.
LEMMA CloserLonger ==
  ASSUME NEW B, NEW s \in Seq(B), NEW t \in Seq(B), Begins(t, s), NEW c
  PROVE  /\ Closer(t, c) => Closer(s, c)
         /\ c <= Len(t) /\ Closer(s, c) => Closer(t, c)
<1>0. Len(s) \in Nat /\ Len(t) \in Nat /\ Len(t) <= Len(s) /\ \A x \in 1..Len(t) : t[x] = s[x]
  BY DEF Begins
<1>1. ASSUME c \in 2..Len(t) PROVE c \in 2..Len(s) /\ t[c] = s[c] /\ t[c - 1] = s[c - 1]
  <2>1. c \in 1..Len(t) /\ c - 1 \in 1..Len(t) /\ c \in 2..Len(s)
    BY <1>0, <1>1
  <2> QED
    BY <1>0, <2>1
<1>2. ASSUME Closer(t, c) PROVE Closer(s, c)
  BY <1>1, <1>2 DEF Closer
<1>3. ASSUME c <= Len(t), Closer(s, c) PROVE Closer(t, c)
  <2>1. c \in 2..Len(t)
    BY <1>0, <1>3 DEF Closer
  <2> QED
    BY <1>1, <1>3, <2>1 DEF Closer
<1> QED
  BY <1>2, <1>3

\* A frame stays when bytes come behind it, or when none of its own is lost.
LEMMA KeptLonger ==
  ASSUME NEW B, NEW s \in Seq(B), NEW t \in Seq(B), Begins(t, s),
         NEW S, Special(S), NEW f \in Seq(S), f # <<>>, NEW n
  PROVE  /\ Kept(t, f, n) => Kept(s, f, n)
         /\ (\A x \in (Len(t) + 1)..Len(s) : s[x].of # n) /\ Kept(s, f, n) => Kept(t, f, n)
<1> DEFINE L == Len(Encode(f))
<1>0. Len(s) \in Nat /\ Len(t) \in Nat /\ Len(t) <= Len(s)
  BY DEF Begins
<1>1. L \in Nat \ {0}
  <2>1. L \in Nat /\ L >= 3
    BY EncodeEnds
  <2> QED
    BY <2>1
<1>2. ASSUME Kept(t, f, n) PROVE Kept(s, f, n)
  <2>1. PICK i \in 1..Len(t) : (i = 1 \/ Closer(t, i - 1)) /\ HasFrame(t, i, f, n)
    BY <1>2 DEF Kept
  <2>2. i \in 1..Len(s)
    BY <1>0
  <2>3. HasFrame(s, i, f, n)
    BY <1>1, <2>1, HasFrameLonger
  <2>4. i = 1 \/ Closer(s, i - 1)
    BY <2>1, CloserLonger
  <2> QED
    BY <2>2, <2>3, <2>4 DEF Kept
<1>3. ASSUME \A x \in (Len(t) + 1)..Len(s) : s[x].of # n, Kept(s, f, n) PROVE Kept(t, f, n)
  <2>1. PICK i \in 1..Len(s) : (i = 1 \/ Closer(s, i - 1)) /\ HasFrame(s, i, f, n)
    BY <1>3 DEF Kept
  <2>2. i + L - 1 <= Len(s) /\ \A x \in 1..L : s[i + x - 1] = Byte(Encode(f)[x], n)
    BY <2>1 DEF HasFrame
  <2> HIDE DEF L
  <2>3. i + L - 1 <= Len(t)
    <3>1. L \in 1..L
      BY <1>1
    <3>2. s[i + L - 1].of = n
      <4>1. s[i + L - 1] = Byte(Encode(f)[L], n)
        BY <2>2, <3>1
      <4> QED
        BY <4>1 DEF Byte
    <3>3. ASSUME i + L - 1 > Len(t) PROVE FALSE
      <4>1. i + L - 1 \in (Len(t) + 1)..Len(s)
        BY <1>0, <1>1, <2>2, <3>3
      <4> QED
        BY <1>3, <3>2, <4>1
    <3> QED
      BY <1>0, <1>1, <3>3
  <2>4. HasFrame(t, i, f, n)
    BY <1>1, <2>1, <2>3, HasFrameLonger DEF L
  <2>5. i \in 1..Len(t)
    BY <2>4 DEF HasFrame
  <2>6. i = 1 \/ Closer(t, i - 1)
    <3>1. i - 1 <= Len(t)
      BY <1>0, <2>5
    <3> QED
      BY <2>1, <3>1, CloserLonger
  <2> QED
    BY <2>4, <2>5, <2>6 DEF Kept
<1> QED
  BY <1>2, <1>3

\* A frame ends what it comes behind, and is kept if that was ended.
LEMMA Added ==
  ASSUME NEW B, NEW s \in Seq(B), NEW t \in Seq(B),
         NEW S, Special(S), NEW f \in Seq(S), f # <<>>, NEW n,
         Len(t) = Len(Encode(f)), \A x \in 1..Len(t) : t[x] = Byte(Encode(f)[x], n)
  PROVE  Ended(s \o t) /\ (Ended(s) => Kept(s \o t, f, n))
<1> DEFINE e == Encode(f)
           u == s \o t
           i == Len(s) + 1
<1>1. /\ Len(e) \in Nat /\ Len(e) >= 3 /\ e[Len(e)] = END /\ e[Len(e) - 1] \notin {END, ESC}
  BY EncodeEnds
<1>2. /\ u \in Seq(B) /\ Len(u) = Len(s) + Len(t) /\ Len(s) \in Nat /\ Len(t) \in Nat
      /\ \A x \in 1..Len(s) : u[x] = s[x]
      /\ \A x \in 1..Len(t) : u[Len(s) + x] = t[x]
  <2>1. s \in Seq(B) /\ t \in Seq(B)
    OBVIOUS
  <2> QED
    BY ONLY <2>1, ConcatFacts
<1>3. Begins(s, u)
  BY BeginsConcat
<1> HIDE DEF e, u
<1>4. Len(t) = Len(e) /\ \A x \in 1..Len(e) : u[Len(s) + x] = Byte(e[x], n)
  BY <1>2 DEF e
<1>5. HasFrame(u, i, f, n)
  <2>1. i \in 1..Len(u) /\ i + Len(e) - 1 <= Len(u)
    BY <1>1, <1>2, <1>4
  <2>2. ASSUME NEW x \in 1..Len(e) PROVE u[i + x - 1] = Byte(e[x], n)
    <3>1. i + x - 1 = Len(s) + x
      BY <1>2
    <3> QED
      BY <1>4, <3>1
  <2> QED
    BY <2>1, <2>2 DEF HasFrame, e
<1>6. ASSUME Ended(s) PROVE i = 1 \/ Closer(u, i - 1)
  <2>1. CASE s = <<>>
    BY <2>1
  <2>2. CASE Closer(s, Len(s))
    <3>1. Closer(u, Len(s)) /\ i - 1 = Len(s)
      BY <1>2, <1>3, <2>2, CloserLonger
    <3> QED
      BY <3>1
  <2> QED
    BY <1>6, <2>1, <2>2 DEF Ended
<1>7. ASSUME Ended(s) PROVE Kept(u, f, n)
  <2>1. i \in 1..Len(u)
    BY <1>1, <1>2, <1>4
  <2> QED
    BY <1>5, <1>6, <1>7, <2>1 DEF Kept
<1>8. Closer(u, Len(u))
  <2>1. /\ Len(e) \in 1..Len(e) /\ Len(e) - 1 \in 1..Len(e) /\ Len(s) + Len(e) = Len(u)
        /\ Len(s) + (Len(e) - 1) = Len(u) - 1 /\ Len(u) \in 2..Len(u)
    BY <1>1, <1>2, <1>4
  <2>2. u[Len(u)] = Byte(END, n) /\ u[Len(u) - 1] = Byte(e[Len(e) - 1], n)
    <3>1. u[Len(s) + Len(e)] = Byte(e[Len(e)], n) /\ u[Len(s) + (Len(e) - 1)] = Byte(e[Len(e) - 1], n)
      BY <1>4, <2>1
    <3> QED
      BY <1>1, <2>1, <3>1
  <2> QED
    BY <1>1, <2>1, <2>2 DEF Closer, Byte
<1> QED
  BY <1>7, <1>8 DEF Ended, u

\* What is left, with the bytes under way behind it.
Left(B, m, w, e, r, d, s, t) ==
  /\ s \in Seq(B) /\ t \in Seq(B) /\ r \in Seq(B) /\ d.out \in Seq(B)
  /\ Len(s) = Len(m) + Len(w) /\ Len(r) = Len(m) - e + 1 /\ Len(t) = Len(s) - e + 1
  /\ Len(d.out) <= Len(r)
  /\ Behind(t, s, e, Len(d.out)) /\ Begins(m, s) /\ Begins(r, t) /\ Begins(d.out, r)

LEMMA LeftBytes ==
  ASSUME NEW B, Closed(B), NEW m \in Seq(B), NEW w \in Seq(B), NEW e \in 1..(Len(m) + 1),
         NEW r, r = InPlace(m, e), NEW d, d = Decode(m, e),
         NEW s, s = m \o w, NEW t, t = r \o w
  PROVE  Left(B, m, w, e, r, d, s, t)
<1>0. Len(m) \in Nat /\ Len(w) \in Nat
  OBVIOUS
<1>1. /\ r \in Seq(B) /\ Len(r) = Len(m) - e + 1
      /\ \A x \in 1..Len(r) : x > Len(d.out) => r[x] = m[e + x - 1]
      /\ \A x \in 1..Len(d.out) : r[x] = d.out[x]
  <2>1. Shifted(B, m, e, r, d.out)
    BY InPlaceFacts
  <2> QED
    BY <2>1 DEF Shifted
<1>2. d.out \in Seq(B) /\ Len(d.out) \in Nat /\ Len(d.out) <= Len(r)
  <2>1. /\ d.out \in Seq(B) /\ e > Len(m) => d.out = <<>>
        /\ d.stop = 0 => Len(d.out) <= Len(m) - e + 1
        /\ d.stop # 0 => d.stop \in e..Len(m) /\ Len(d.out) <= d.stop - e
    BY DecodeFacts
  <2>2. d.out \in Seq(B)
    BY DecodeFacts
  <2>3. Len(d.out) \in Nat
    BY <2>2
  <2>4. Len(d.out) <= Len(m) - e + 1
    <3> DEFINE l == Len(d.out)
               c == d.stop
    <3>1. l \in Nat /\ (c = 0 => l <= Len(m) - e + 1) /\ (c # 0 => c \in e..Len(m) /\ l <= c - e)
      BY <2>1, <2>3
    <3> HIDE DEF l, c
    <3>2. l <= Len(m) - e + 1
      BY <1>0, <3>1
    <3> QED
      BY <3>2 DEF l
  <2> QED
    BY <1>1, <2>2, <2>3, <2>4
<1>3. /\ s \in Seq(B) /\ Len(s) = Len(m) + Len(w) /\ \A x \in 1..Len(m) : s[x] = m[x]
      /\ \A x \in 1..Len(w) : s[Len(m) + x] = w[x]
  BY ConcatFacts
<1>4. /\ t \in Seq(B) /\ Len(t) = Len(r) + Len(w) /\ \A x \in 1..Len(r) : t[x] = r[x]
      /\ \A x \in 1..Len(w) : t[Len(r) + x] = w[x]
  <2>1. r \in Seq(B)
    BY <1>1
  <2> QED
    BY <2>1, ConcatFacts
<1>5. Len(t) = Len(s) - e + 1 /\ Len(r) \in Nat
  BY <1>0, <1>1, <1>3, <1>4
<1>6. ASSUME NEW x \in 1..Len(t), x > Len(d.out) PROVE t[x] = s[e + x - 1]
  <2>1. CASE x <= Len(r)
    <3>1. x \in 1..Len(r) /\ e + x - 1 \in 1..Len(m)
      BY <1>0, <1>1, <1>5, <2>1
    <3>2. t[x] = r[x] /\ r[x] = m[e + x - 1]
      BY <1>1, <1>4, <1>6, <3>1
    <3>3. s[e + x - 1] = m[e + x - 1]
      BY <1>3, <3>1
    <3> QED
      BY <3>2, <3>3
  <2>2. CASE x > Len(r)
    <3> DEFINE y == x - Len(r)
    <3>1. y \in 1..Len(w) /\ x = Len(r) + y /\ e + x - 1 = Len(m) + y
      BY <1>0, <1>1, <1>4, <1>5, <2>2
    <3> HIDE DEF y
    <3>2. t[Len(r) + y] = w[y] /\ s[Len(m) + y] = w[y]
      BY <1>3, <1>4, <3>1
    <3> QED
      BY <3>1, <3>2
  <2> QED
    BY <1>5, <2>1, <2>2
<1>7. Behind(t, s, e, Len(d.out))
  BY <1>6 DEF Behind
<1>8. Begins(m, s) /\ Begins(r, t) /\ Begins(d.out, r)
  BY <1>0, <1>1, <1>2, <1>3, <1>4, <1>5 DEF Begins
<1> QED
  BY <1>1, <1>2, <1>3, <1>4, <1>5, <1>7, <1>8 DEF Left

\* How much the decoding at e has written, when the bytes from there on stay.
LEMMA WrittenFacts ==
  ASSUME NEW B, Closed(B), NEW m \in Seq(B), NEW e \in 1..Len(m), EndsAt(m, e),
         NEW d, d = Decode(m, e)
  PROVE  /\ Len(d.out) \in Nat /\ d.stop \in Nat
         /\ d.stop = 0 => Len(d.out) <= Len(m) - e + 1
         /\ d.stop = 0 /\ Len(d.out) = Len(m) - e + 1 => d.out[Len(d.out)] = m[Len(m)]
         /\ d.stop # 0 => d.stop \in e..Len(m) /\ Len(d.out) <= d.stop - e - 1
<1>0. Len(m) \in Nat /\ e \in 1..(Len(m) + 1) /\ e <= Len(m)
  OBVIOUS
<1>1. /\ d.out \in Seq(B) /\ d.stop \in Nat
      /\ d.stop = 0 => Len(d.out) <= Len(m) - e + 1 /\ LastStays(m, e, d)
      /\ d.stop # 0 => d.stop \in e..Len(m)
      /\ d.frame => Len(d.out) <= d.stop - e - 1
  BY <1>0, DecodeFacts
<1>2. d.stop = 0 \/ d.frame
  BY <1>0 DEF EndsAt
<1>3. Len(d.out) \in Nat
  BY <1>1
<1> QED
  BY <1>0, <1>1, <1>2, <1>3 DEF LastStays

\* An END behind the place where the loop ends stays one.
LEMMA CloserKept ==
  ASSUME NEW B, Closed(B), NEW m \in Seq(B), NEW w \in Seq(B), NEW e \in 1..(Len(m) + 1),
         NEW r, r = InPlace(m, e), Here(m, e), EndsAt(m, e),
         NEW s, s = m \o w, NEW t, t = r \o w, NEW c, c >= e, Closer(s, c)
  PROVE  e < c /\ Closer(t, c - e + 1)
<1>1. PICK d : d = Decode(m, e)
  OBVIOUS
<1> DEFINE M == Len(m)
           o == d.out
           l == Len(o)
<1>2. /\ s \in Seq(B) /\ t \in Seq(B) /\ r \in Seq(B) /\ o \in Seq(B)
      /\ Len(s) = M + Len(w) /\ Len(r) = M - e + 1 /\ Len(t) = Len(s) - e + 1
      /\ l <= Len(r) /\ Behind(t, s, e, l) /\ Begins(m, s) /\ Begins(r, t) /\ Begins(o, r)
  <2>1. Left(B, m, w, e, r, d, s, t)
    BY <1>1, LeftBytes
  <2> QED
    BY <2>1 DEF Left
<1>3. M \in Nat /\ Len(w) \in Nat /\ l \in Nat /\ Len(s) \in Nat /\ c \in 2..Len(s)
      /\ e \in 1..(M + 1)
  BY <1>2 DEF Closer
<1>4. s[c].sym = END /\ s[c - 1].sym \notin {END, ESC}
  BY DEF Closer
<1>5. \A x \in 1..M : s[x] = m[x]
  BY <1>2 DEF Begins
<1>6. e < c
  <2>1. ASSUME e = c PROVE FALSE
    <3>1. e # 1 /\ e - 1 \in 1..M
      BY <1>3, <2>1
    <3>2. m[e - 1].sym = END
      BY <3>1 DEF Here
    <3>3. s[e - 1] = m[e - 1]
      BY <1>5, <3>1
    <3> QED
      BY <1>4, <2>1, <3>2, <3>3
  <2> QED
    BY <1>3, <2>1
<1> DEFINE a == c - e + 1
           b == c - e
<1>7. a \in 2..Len(t) /\ a - 1 = b /\ b \in 1..Len(t) /\ e + a - 1 = c /\ e + b - 1 = c - 1
  BY <1>2, <1>3, <1>6
<1>8. ASSUME b > l PROVE Closer(t, a)
  <2>1. a \in 1..Len(t) /\ a > l
    BY <1>3, <1>7, <1>8
  <2> HIDE DEF a, b, l
  <2>2. t[a] = s[c] /\ t[b] = s[c - 1]
    BY <1>2, <1>7, <1>8, <2>1 DEF Behind
  <2> QED
    BY <1>4, <1>7, <2>2 DEF Closer
<1>9. CASE e = M + 1
  <2>1. l = 0
    BY <1>2, <1>3, <1>9
  <2> QED
    BY <1>3, <1>6, <1>8, <2>1
<1>10. CASE e <= M
  <2>0. e \in 1..M
    BY <1>3, <1>10
  <2>1. /\ d.stop \in Nat
        /\ d.stop = 0 => l <= M - e + 1
        /\ d.stop = 0 /\ l = M - e + 1 => o[l] = m[M]
        /\ d.stop # 0 => d.stop \in e..M /\ l <= d.stop - e - 1
    BY <1>1, <2>0, WrittenFacts
  <2>2. CASE c <= M
    <3>1. Closer(m, c)
      BY <1>2, <2>2, CloserLonger
    <3>2. d.stop \in e..c /\ d.stop # 0
      BY <1>1, <1>3, <1>6, <3>1, DecodeToCloser
    <3>3. b > l
      <4> DEFINE k == d.stop
      <4>1. k \in e..c /\ l <= k - e - 1
        BY <2>1, <3>2
      <4> HIDE DEF k, l
      <4> QED
        BY <1>3, <4>1
    <3> QED
      BY <1>6, <1>8, <3>3
  <2>3. CASE c > M
    <3>1. CASE b > l
      BY <1>6, <1>8, <3>1
    <3>2. CASE ~(b > l)
      <4>1. c = M + 1 /\ l = M - e + 1 /\ b = l
        <5>1. l <= M - e + 1
          BY <1>2
        <5> HIDE DEF l, M
        <5> QED
          BY <1>3, <1>6, <2>3, <3>2, <5>1
      <4>2. d.stop = 0
        <5> DEFINE k == d.stop
        <5>1. k # 0 => k \in e..M /\ l <= k - e - 1
          BY <2>1
        <5>2. k = 0
          <6> HIDE DEF k, l
          <6> QED
            BY <1>3, <4>1, <5>1
        <5> QED
          BY <5>2
      <4>3. o[l] = m[M]
        BY <2>1, <4>1, <4>2
      <4>4. l \in 1..l /\ l \in 1..Len(r) /\ M \in 1..M /\ c - 1 = M
        BY <1>2, <1>3, <2>0, <4>1
      <4>5. r[l] = o[l] /\ t[l] = r[l] /\ s[c - 1] = m[M]
        BY <1>2, <1>5, <4>4 DEF Begins
      <4>6. t[b] = s[c - 1]
        BY <4>1, <4>3, <4>5
      <4>7. a \in 1..Len(t) /\ a > l
        BY <1>3, <1>7, <4>1
      <4> HIDE DEF a, b, l
      <4>8. t[a] = s[c]
        BY <1>2, <1>7, <4>7 DEF Behind
      <4>9. Closer(t, a)
        BY <1>4, <1>7, <4>6, <4>8 DEF Closer
      <4> QED
        BY <1>6, <4>9 DEF a
    <3> QED
      BY <3>1, <3>2
  <2> QED
    BY <1>3, <2>2, <2>3
<1> QED
  BY <1>3, <1>9, <1>10

\* So it does for the frames behind it.
LEMMA HasFrameLeft ==
  ASSUME NEW B, Closed(B), NEW m \in Seq(B), NEW w \in Seq(B), NEW e \in 1..(Len(m) + 1),
         NEW r, r = InPlace(m, e), EndsAt(m, e),
         NEW s, s = m \o w, NEW t, t = r \o w, NEW i,
         i > Len(m) \/ (e < i - 1 /\ Closer(s, i - 1)),
         NEW f, NEW n, NEW L, L = Len(Encode(f)), L \in Nat \ {0}, HasFrame(s, i, f, n)
  PROVE  i - e + 1 \in 1..Len(t) /\ HasFrame(t, i - e + 1, f, n)
<1>1. PICK d : d = Decode(m, e)
  OBVIOUS
<1> DEFINE M == Len(m)
           o == d.out
           l == Len(o)
           j == i - e + 1
<1>2. /\ s \in Seq(B) /\ t \in Seq(B) /\ r \in Seq(B) /\ o \in Seq(B)
      /\ Len(s) = M + Len(w) /\ Len(r) = M - e + 1 /\ Len(t) = Len(s) - e + 1
      /\ l <= Len(r) /\ Behind(t, s, e, l) /\ Begins(m, s)
  <2>1. Left(B, m, w, e, r, d, s, t)
    BY <1>1, LeftBytes
  <2> QED
    BY <2>1 DEF Left
<1>3. /\ M \in Nat /\ Len(w) \in Nat /\ l \in Nat /\ Len(s) \in Nat /\ e \in 1..(M + 1)
      /\ i \in 1..Len(s) /\ i + L - 1 <= Len(s)
      /\ \A x \in 1..L : s[i + x - 1] = Byte(Encode(f)[x], n)
  <2>1. /\ i \in 1..Len(s) /\ i + L - 1 <= Len(s)
        /\ \A x \in 1..L : s[i + x - 1] = Byte(Encode(f)[x], n)
    BY DEF HasFrame
  <2>2. M \in Nat /\ Len(w) \in Nat /\ l \in Nat /\ Len(s) \in Nat /\ e \in 1..(M + 1)
    BY <1>2
  <2> QED
    BY <2>1, <2>2
<1>4. j > l
  <2>1. CASE i > M
    BY <1>2, <1>3, <2>1
  <2>2. CASE i <= M
    <3>1. Closer(s, i - 1) /\ e < i - 1
      BY <1>3, <2>2
    <3>2. e \in 1..M
      BY <1>3, <2>2, <3>1
    <3>3. Closer(m, i - 1)
      <4>1. i - 1 <= Len(m)
        BY <1>3, <2>2
      <4> QED
        BY <1>2, <3>1, <4>1, CloserLonger
    <3>4. d.stop \in e..(i - 1) /\ d.stop # 0
      BY <1>1, <1>3, <3>1, <3>3, DecodeToCloser
    <3>5. l <= d.stop - e - 1
      BY <1>1, <3>2, <3>4, WrittenFacts
    <3> DEFINE k == d.stop
    <3>6. k \in e..(i - 1) /\ l <= k - e - 1
      BY <3>4, <3>5
    <3> HIDE DEF k, l
    <3> QED
      BY <1>3, <3>6
  <2> QED
    BY <1>3, <2>1, <2>2
<1>5. j \in 1..Len(t) /\ j + L - 1 <= Len(t)
  BY <1>2, <1>3, <1>4
<1>6. ASSUME NEW x \in 1..L PROVE t[j + x - 1] = Byte(Encode(f)[x], n)
  <2>1. j + x - 1 \in 1..Len(t) /\ j + x - 1 > l /\ e + (j + x - 1) - 1 = i + x - 1
    <3>1. /\ j = i - e + 1 /\ i \in Int /\ e \in Int /\ l \in Nat /\ L \in Nat /\ x \in 1..L
          /\ j > l /\ j \in Nat /\ j >= 1 /\ j + L - 1 <= Len(t) /\ Len(t) \in Nat
      BY <1>2, <1>3, <1>4, <1>5
    <3> HIDE DEF j, l
    <3>2. j + x - 1 >= 1 /\ j + x - 1 <= Len(t) /\ j + x - 1 \in Int
      BY <3>1
    <3>3. j + x - 1 > l /\ e + (j + x - 1) - 1 = i + x - 1
      BY <3>1
    <3> QED
      BY <3>1, <3>2, <3>3
  <2> HIDE DEF j, l
  <2>2. t[j + x - 1] = s[e + (j + x - 1) - 1]
    BY <1>2, <2>1 DEF Behind
  <2> QED
    BY <1>3, <2>1, <2>2
<1> QED
  BY <1>5, <1>6 DEF HasFrame

\* The frame number n does not go on from m to w.
Apart(m, w, n) == Len(w) > 0 /\ m[Len(m)].of = n => w[1].of # n

\* A frame that is there is either handed on or stays, unless it is the one
\* that is refused.
LEMMA KeptReceived ==
  ASSUME NEW B, Closed(B), NEW m \in Seq(B), Len(m) >= 1, NEW w \in Seq(B),
         NEW e \in 1..(Len(m) + 1), NEW o, LeftAt(m, e, o),
         NEW S, Special(S), NEW f \in Seq(S), f # <<>>, NEW n,
         Kept(m \o w, f, n), n \notin Refused(m, o.rest), Apart(m, w, n)
  PROVE  Kept(o.rest \o w, f, n) \/ Among(o.frames, Tag(f, n))
<1>1. PICK s, t, r, d : s = m \o w /\ t = r \o w /\ r = InPlace(m, e) /\ d = Decode(m, e)
  OBVIOUS
<1> DEFINE L == Len(Encode(f))
           M == Len(m)
<1>2. Left(B, m, w, e, r, d, s, t)
  BY <1>1, LeftBytes
<1>3. /\ s \in Seq(B) /\ t \in Seq(B) /\ r \in Seq(B) /\ Begins(m, s)
      /\ Len(s) = M + Len(w) /\ Len(r) = M - e + 1 /\ Len(t) = Len(s) - e + 1
  BY <1>2 DEF Left
<1>4. r = o.rest /\ Here(m, e) /\ EndsAt(m, e) /\ Took(m, 1, e, o)
  BY <1>1 DEF LeftAt
<1>5. L \in Nat \ {0} /\ M \in Nat /\ Len(w) \in Nat /\ M >= 1 /\ e \in 1..(M + 1)
  <2>1. L \in Nat /\ L >= 3
    BY EncodeEnds
  <2> QED
    BY <2>1
<1>6. PICK i \in 1..Len(s) : (i = 1 \/ Closer(s, i - 1)) /\ HasFrame(s, i, f, n)
  BY <1>1 DEF Kept
<1>7. i + L - 1 <= Len(s) /\ \A x \in 1..L : s[i + x - 1] = Byte(Encode(f)[x], n)
  BY <1>6 DEF HasFrame
<1>8. ASSUME i > M \/ (e < i - 1 /\ Closer(s, i - 1)), i - e + 1 = 1 \/ Closer(t, i - e + 1 - 1)
      PROVE  Kept(t, f, n)
  <2>1. i - e + 1 \in 1..Len(t) /\ HasFrame(t, i - e + 1, f, n)
    BY <1>1, <1>4, <1>5, <1>6, <1>8, HasFrameLeft
  <2> DEFINE j == i - e + 1
  <2>2. j \in 1..Len(t) /\ HasFrame(t, j, f, n) /\ (j = 1 \/ Closer(t, j - 1))
    BY <1>8, <2>1
  <2> HIDE DEF j
  <2> QED
    BY <2>2 DEF Kept
<1>9. ASSUME NEW c, c = i - 1, c >= e, Closer(s, c) PROVE e < c /\ Closer(t, i - e + 1 - 1)
  <2>1. e < c /\ Closer(t, c - e + 1)
    BY <1>1, <1>4, <1>9, CloserKept
  <2>2. c - e + 1 = i - e + 1 - 1
    BY <1>5, <1>9
  <2> QED
    BY <2>1, <2>2
<1>10. CASE i > M
  <2>1. i # 1
    BY <1>5, <1>10
  <2>2. Closer(s, i - 1)
    BY <1>6, <2>1
  <2>3. CASE i - 1 >= e
    <3>1. Closer(t, i - e + 1 - 1)
      BY <1>9, <2>2, <2>3
    <3>2. Kept(t, f, n)
      BY <1>8, <1>10, <3>1
    <3> QED
      BY <1>1, <1>4, <3>2
  <2>4. CASE i - 1 < e
    <3>1. i - e + 1 = 1
      BY <1>3, <1>5, <1>10, <2>4
    <3>2. Kept(t, f, n)
      BY <1>8, <1>10, <3>1
    <3> QED
      BY <1>1, <1>4, <3>2
  <2> QED
    BY <1>5, <2>3, <2>4
<1>11. CASE i <= M
  <2>1. i + L - 1 <= M
    <3>1. SUFFICES ASSUME i + L - 1 > M PROVE FALSE
      BY <1>5
    <3> DEFINE x == M - i + 1
               y == M - i + 2
    <3>2. /\ x \in 1..L /\ y \in 1..L /\ i + x - 1 = M /\ i + y - 1 = M + 1 /\ Len(w) > 0
          /\ M \in 1..M /\ 1 \in 1..Len(w)
      BY <1>3, <1>5, <1>7, <1>11, <3>1
    <3> HIDE DEF x, y, L
    <3>3. s[i + x - 1].of = n /\ s[i + y - 1].of = n
      <4>1. s[i + x - 1] = Byte(Encode(f)[x], n) /\ s[i + y - 1] = Byte(Encode(f)[y], n)
        BY <1>7, <3>2
      <4> QED
        BY <4>1 DEF Byte
    <3>4. s[M] = m[M] /\ s[M + 1] = w[1]
      <4>1. /\ \A k \in 1..M : s[k] = m[k]
            /\ \A k \in 1..Len(w) : s[M + k] = w[k]
        BY <1>1, ConcatFacts
      <4> QED
        BY <3>2, <4>1
    <3>5. m[M].of = n /\ w[1].of = n
      BY <3>2, <3>3, <3>4
    <3> QED
      BY <3>2, <3>5 DEF Apart
  <2>2. HasFrame(m, i, f, n)
    BY <1>3, <1>5, <1>6, <2>1, HasFrameLonger
  <2>3. i = 1 \/ Closer(m, i - 1)
    <3>1. i - 1 <= Len(m)
      BY <1>5, <1>11
    <3> QED
      BY <1>3, <1>6, <3>1, CloserLonger
  <2>4. PICK a : a = Decode(m, i)
    OBVIOUS
  <2>5. a.frame = TRUE /\ a.out = Tag(f, n)
    <3>1. IsFrame(a, i, f, n)
      BY <2>2, <2>4, RoundTrip
    <3> QED
      BY <3>1 DEF IsFrame
  <2>6. CASE i < e
    <3>1. i \in 1..(e - 1)
      BY <1>5, <2>6
    <3>2. Among(o.frames, a.out)
      BY <1>4, <2>3, <2>4, <2>5, <3>1 DEF Took
    <3> QED
      BY <2>5, <3>2
  <2>7. CASE i = e
    <3>1. M - Len(r) + 1 = e
      BY <1>3, <1>5
    <3>2. Refused(m, o.rest) = {a.out[1].of}
      BY <1>4, <2>4, <2>5, <2>7, <3>1 DEF Refused
    <3>3. a.out[1].of = n
      <4>1. 1 \in DOMAIN f
        <5>1. DOMAIN f = 1..Len(f) /\ Len(f) \in Nat \ {0}
          OBVIOUS
        <5> QED
          BY <5>1
      <4> QED
        BY <2>5, <4>1 DEF Tag, Byte
    <3> QED
      BY <3>2, <3>3
  <2>8. CASE i > e
    <3>1. i # 1 /\ i - 1 >= e
      BY <1>5, <2>8
    <3>2. Closer(s, i - 1)
      BY <1>6, <3>1
    <3>3. e < i - 1 /\ Closer(t, i - e + 1 - 1)
      BY <1>9, <3>1, <3>2
    <3>4. Kept(t, f, n)
      BY <1>8, <3>2, <3>3
    <3> QED
      BY <1>1, <1>4, <3>4
  <2> QED
    BY <1>5, <2>6, <2>7, <2>8
<1> QED
  BY <1>5, <1>10, <1>11

\* If the frames were ended before, they still are.
LEMMA EndedReceived ==
  ASSUME NEW B, Closed(B), NEW m \in Seq(B), NEW w \in Seq(B),
         NEW e \in 1..(Len(m) + 1), NEW o, LeftAt(m, e, o), Ended(m \o w)
  PROVE  Ended(o.rest \o w)
<1>1. PICK s, t, r, d : s = m \o w /\ t = r \o w /\ r = InPlace(m, e) /\ d = Decode(m, e)
  OBVIOUS
<1>2. Left(B, m, w, e, r, d, s, t)
  BY <1>1, LeftBytes
<1>3. /\ s \in Seq(B) /\ t \in Seq(B) /\ r \in Seq(B)
      /\ Len(s) = Len(m) + Len(w) /\ Len(t) = Len(s) - e + 1
  BY <1>2 DEF Left
<1>4. r = o.rest /\ Here(m, e) /\ EndsAt(m, e)
  BY <1>1 DEF LeftAt
<1>5. Len(m) \in Nat /\ Len(w) \in Nat /\ Len(s) \in Nat /\ Len(t) \in Nat /\ Len(<<>>) = 0
  BY <1>3
<1>6. Ended(s)
  BY <1>1
<1>7. CASE s = <<>>
  <2>1. Len(t) = 0
    BY <1>3, <1>5, <1>7
  <2>2. t = <<>>
    BY <1>3, <2>1
  <2> QED
    BY <1>1, <1>4, <2>2 DEF Ended
<1>8. CASE s # <<>> /\ Len(s) >= e
  <2> DEFINE c == Len(s)
  <2>1. Closer(s, c) /\ c >= e
    BY <1>6, <1>8 DEF Ended
  <2> HIDE DEF c
  <2>2. Closer(t, c - e + 1)
    BY <1>1, <1>4, <2>1, CloserKept
  <2>3. c - e + 1 = Len(t)
    BY <1>3 DEF c
  <2> QED
    BY <1>1, <1>4, <2>2, <2>3 DEF Ended
<1>9. CASE Len(s) < e
  <2>1. Len(t) = 0
    BY <1>3, <1>5, <1>9
  <2>2. t = <<>>
    BY <1>3, <2>1
  <2> QED
    BY <1>1, <1>4, <2>2 DEF Ended
<1> QED
  BY <1>5, <1>7, <1>8, <1>9
-----------------------------------------------------------------------------
(* Nothing but the spoiled frames is lost.                                 *)

\* A packet with the number n is in the inbox.
Delivered(n) == \E j \in DOMAIN inbox : Number(inbox[j]) = n

\* The frame number n has met with an accident, has arrived, or is under way.
Settled(n) == n \in spoiled \/ Delivered(n) \/ Kept(rxBuf \o wire, sent[n], n)

\* A receiver that is down has no sender, and no bytes under way.
Connected == ~rxUp => ~txUp /\ wire = <<>>

\* What the next frame comes behind is ended, unless that frame is spoiled.
InFront == txUp /\ next \notin spoiled => Ended(rxBuf \o wire)

\* The invariant.
AllSettled == \A n \in 1..(next - 1) : Settled(n)

SInv == TInv /\ Connected /\ InFront /\ AllSettled

\* What the packets handed over are.
LEMMA SentFacts ==
  ASSUME TInv, NEW n \in 1..Len(sent)
  PROVE  sent[n] \in Seq(Syms) /\ sent[n] # <<>> /\ n \in 1..MaxFrames /\ Special(Syms)
<1>1. /\ line \in DOMAIN Lines /\ sent \in Seq(its.frames) /\ Len(sent) \in Nat
      /\ Len(sent) <= MaxFrames
  BY DEF TInv, TypeOK
<1>2. sent[n] \in its.frames
  BY <1>1
<1> QED
  BY <1>1, <1>2, LineFacts, BytesFacts

\* What is known of the bytes under way.
LEMMA Underway ==
  ASSUME TInv
  PROVE  /\ rxBuf \in Seq(Bytes) /\ wire \in Seq(Bytes) /\ rxBuf \o wire \in Seq(Bytes)
         /\ next \in 1..(Len(sent) + 1) /\ Len(sent) \in Nat /\ sent \in Seq(its.frames)
         /\ Closed(Bytes) /\ \A n \in 1..(next - 1) : n \in 1..Len(sent)
<1>1. /\ line \in DOMAIN Lines /\ rxBuf \in Seq(Bytes) /\ wire \in Seq(Bytes)
      /\ next \in 1..(Len(sent) + 1) /\ Len(sent) \in Nat /\ sent \in Seq(its.frames)
  BY DEF TInv, TypeOK
<1>2. rxBuf \o wire \in Seq(Bytes)
  BY <1>1, ConcatFacts
<1>3. \A n \in 1..(next - 1) : n \in 1..Len(sent)
  BY <1>1
<1> QED
  BY <1>1, <1>2, <1>3, BytesFacts

\* Nothing was sent: nothing is lost.
LEMMA InitSettled == Init => SInv
<1> SUFFICES ASSUME Init PROVE SInv
  OBVIOUS
<1>1. TInv
  BY InitTypes
<1>2. next = 1 /\ txUp = TRUE /\ rxUp = TRUE /\ rxBuf = <<>> /\ wire = <<>>
  BY DEF Init
<1>3. rxBuf \o wire = <<>>
  BY <1>2
<1>4. 1..(next - 1) = {}
  BY <1>2
<1> QED
  BY <1>1, <1>2, <1>3, <1>4 DEF SInv, Connected, InFront, AllSettled, Ended

\* Where nothing is lost, and the bytes are the same.
LEMMA SettledSame ==
  ASSUME NEW n, Settled(n), sent'[n] = sent[n], spoiled \subseteq spoiled', inbox' = inbox,
         rxBuf' \o wire' = rxBuf \o wire
  PROVE  Settled(n)'
<1>1. CASE n \in spoiled
  BY <1>1 DEF Settled
<1>2. CASE Delivered(n)
  <2>1. Delivered(n)'
    BY <1>2 DEF Delivered, Number
  <2> QED
    BY <2>1 DEF Settled
<1>3. CASE Kept(rxBuf \o wire, sent[n], n)
  <2>1. Kept(rxBuf' \o wire', sent'[n], n)
    BY <1>3
  <2> QED
    BY <2>1 DEF Settled
<1> QED
  BY <1>1, <1>2, <1>3 DEF Settled

\* The steps, one by one.
LEMMA HandOverSettled ==
  ASSUME SInv, NEW f \in its.frames, HandOver(f)
  PROVE  SInv'
<1>1. TInv'
  BY HandOverTypes DEF SInv
<1>2. /\ line' = line /\ next' = next /\ txUp' = txUp /\ wire' = wire /\ rxUp' = rxUp
      /\ rxBuf' = rxBuf /\ inbox' = inbox /\ spoiled' = spoiled /\ sent' = Append(sent, f)
  BY DEF HandOver
<1>3. ASSUME NEW n \in 1..(next - 1) PROVE Settled(n)'
  <2>1. n \in 1..Len(sent) /\ sent \in Seq(its.frames)
    BY Underway DEF SInv
  <2>2. sent'[n] = sent[n]
    BY <1>2, <2>1, AppendProperties
  <2>3. Settled(n)
    BY DEF SInv, AllSettled
  <2> QED
    BY <1>2, <2>2, <2>3, SettledSame
<1>4. Connected' /\ InFront'
  BY <1>2 DEF SInv, Connected, InFront
<1> QED
  BY <1>1, <1>2, <1>3, <1>4 DEF SInv, AllSettled

\* More bytes behind those that are there leave every frame where it is.
LEMMA SettledLonger ==
  ASSUME TInv, NEW n \in 1..(next - 1), Settled(n), sent' = sent, spoiled \subseteq spoiled',
         inbox' = inbox, rxBuf' = rxBuf, NEW t \in Seq(Bytes), wire' = wire \o t
  PROVE  Settled(n)'
<1>1. CASE n \in spoiled
  BY <1>1 DEF Settled
<1>2. CASE Delivered(n)
  <2>1. Delivered(n)'
    BY <1>2 DEF Delivered, Number
  <2> QED
    BY <2>1 DEF Settled
<1>3. CASE Kept(rxBuf \o wire, sent[n], n)
  <2>1. PICK u, v : u = rxBuf \o wire /\ v = rxBuf' \o wire'
    OBVIOUS
  <2>2. /\ rxBuf \in Seq(Bytes) /\ wire \in Seq(Bytes) /\ u \in Seq(Bytes)
        /\ n \in 1..Len(sent)
    BY <2>1, Underway
  <2>3. v = u \o t
    <3>1. rxBuf \in Seq(Bytes) /\ wire \in Seq(Bytes) /\ t \in Seq(Bytes)
      BY <2>2
    <3>2. (rxBuf \o wire) \o t = rxBuf \o (wire \o t)
      BY ONLY <3>1, ConcatAssociative
    <3> QED
      BY <2>1, <3>2
  <2>4. v \in Seq(Bytes) /\ Begins(u, v)
    <3>1. u \in Seq(Bytes) /\ t \in Seq(Bytes)
      BY <2>2
    <3> QED
      BY ONLY <2>3, <3>1, ConcatFacts, BeginsConcat
  <2>5. Kept(v, sent[n], n)
    <3>1. sent[n] \in Seq(Syms) /\ sent[n] # <<>> /\ Special(Syms)
      BY <2>2, SentFacts
    <3> QED
      BY <1>3, <2>1, <2>2, <2>4, <3>1, KeptLonger
  <2>6. Kept(rxBuf' \o wire', sent'[n], n)
    BY <2>1, <2>5
  <2> QED
    BY <2>6 DEF Settled
<1> QED
  BY <1>1, <1>2, <1>3 DEF Settled

LEMMA SendNothingSettled ==
  ASSUME SInv, SendNothing, TInv'
  PROVE  SInv'
<1>1. /\ next \in Nat /\ next' = next + 1 /\ txUp' = txUp /\ wire' = wire /\ rxUp' = rxUp
      /\ rxBuf' = rxBuf /\ inbox' = inbox /\ sent' = sent
      /\ next \in spoiled' /\ spoiled \subseteq spoiled' /\ (next \in spoiled => next + 1 \in spoiled')
  BY Underway DEF SendNothing, SInv
<1>2. ASSUME NEW n \in 1..(next' - 1) PROVE Settled(n)'
  <2>1. CASE n = next
    BY <1>1, <2>1 DEF Settled
  <2>2. CASE n # next
    <3>1. n \in 1..(next - 1)
      BY <1>1, <2>2
    <3>2. Settled(n)
      BY <3>1 DEF SInv, AllSettled
    <3> QED
      BY <1>1, <3>2, SettledSame
  <2> QED
    BY <2>1, <2>2
<1>3. InFront'
  <2>1. ASSUME txUp', next' \notin spoiled' PROVE Ended(rxBuf' \o wire')
    <3>1. txUp /\ next \notin spoiled
      BY <1>1, <2>1
    <3>2. Ended(rxBuf \o wire)
      BY <3>1 DEF SInv, InFront
    <3> QED
      BY <1>1, <3>2
  <2> QED
    BY <2>1 DEF InFront
<1>4. Connected'
  BY <1>1 DEF SInv, Connected
<1> QED
  BY <1>2, <1>3, <1>4 DEF SInv, AllSettled

LEMMA SendWholeSettled ==
  ASSUME SInv, SendWhole, TInv'
  PROVE  SInv'
<1>0. TInv
  BY DEF SInv
<1>1. PICK e : e = Encoded(next)
  OBVIOUS
<1>2. /\ next \in Nat /\ next' = next + 1 /\ txUp' = txUp /\ wire' = wire \o e /\ rxUp' = rxUp
      /\ rxBuf' = rxBuf /\ inbox' = inbox /\ sent' = sent /\ spoiled' = spoiled
      /\ txUp /\ next <= Len(sent)
  BY <1>0, <1>1, Underway DEF SendWhole, Ready
<1>3. /\ sent[next] \in Seq(Syms) /\ sent[next] # <<>> /\ e \in Seq(Bytes)
      /\ Len(e) = Len(Encode(sent[next]))
      /\ \A x \in 1..Len(e) : e[x] = Byte(Encode(sent[next])[x], next)
      /\ next \in 1..MaxFrames
  BY <1>0, <1>1, <1>2, EncodedFacts
<1>4. PICK u, v : u = rxBuf \o wire /\ v = rxBuf' \o wire'
  OBVIOUS
<1>5. rxBuf \in Seq(Bytes) /\ wire \in Seq(Bytes) /\ u \in Seq(Bytes) /\ next \in 1..Len(sent)
  BY <1>0, <1>2, <1>4, Underway
<1>6. v = u \o e
  <2>1. rxBuf \in Seq(Bytes) /\ wire \in Seq(Bytes) /\ e \in Seq(Bytes)
    BY <1>3, <1>5
  <2>2. (rxBuf \o wire) \o e = rxBuf \o (wire \o e)
    BY ONLY <2>1, ConcatAssociative
  <2>3. v = rxBuf \o (wire \o e)
    BY <1>2, <1>4
  <2> QED
    BY <1>4, <2>2, <2>3
<1>7. Special(Syms)
  BY <1>0, <1>5, SentFacts
<1>8. Ended(v) /\ (next \notin spoiled => Kept(v, sent[next], next))
  <2>1. ASSUME next \notin spoiled PROVE Kept(v, sent[next], next)
    <3>1. Ended(u)
      BY <1>2, <1>4, <2>1 DEF SInv, InFront
    <3> QED
      BY <1>3, <1>5, <1>6, <1>7, <3>1, Added
  <2>2. Ended(v)
    BY <1>3, <1>5, <1>6, <1>7, Added
  <2> QED
    BY <2>1, <2>2
<1>9. ASSUME NEW n \in 1..(next' - 1) PROVE Settled(n)'
  <2>1. CASE n = next
    <3>1. CASE next \in spoiled
      BY <1>2, <2>1, <3>1 DEF Settled
    <3>2. CASE next \notin spoiled
      <4>1. Kept(rxBuf' \o wire', sent'[n], n)
        BY <1>2, <1>4, <1>8, <2>1, <3>2
      <4> QED
        BY <4>1 DEF Settled
    <3> QED
      BY <3>1, <3>2
  <2>2. CASE n # next
    <3>1. n \in 1..(next - 1)
      BY <1>2, <2>2
    <3>2. Settled(n)
      BY <3>1 DEF SInv, AllSettled
    <3> QED
      BY <1>0, <1>2, <1>3, <3>1, <3>2, SettledLonger
  <2> QED
    BY <2>1, <2>2
<1>10. InFront'
  BY <1>4, <1>8 DEF InFront
<1>11. Connected'
  BY <1>2 DEF SInv, Connected
<1> QED
  BY <1>9, <1>10, <1>11 DEF SInv, AllSettled

LEMMA SendPartSettled ==
  ASSUME SInv, NEW k \in 1..its.tx, SendPart(k), TInv'
  PROVE  SInv'
<1>0. TInv
  BY DEF SInv
<1>1. PICK e, t : e = Encoded(next) /\ t = SubSeq(e, 1, k)
  OBVIOUS
<1>2. /\ next' = next /\ txUp' = txUp /\ wire' = wire \o t /\ rxUp' = rxUp
      /\ rxBuf' = rxBuf /\ inbox' = inbox /\ sent' = sent /\ spoiled' = spoiled \cup {next}
      /\ txUp /\ next <= Len(sent) /\ k < Len(e)
  BY <1>1 DEF SendPart, Ready
<1>3. e \in Seq(Bytes)
  BY <1>0, <1>1, <1>2, EncodedFacts
<1>4. t \in Seq(Bytes)
  <2>1. k \in Nat /\ k <= Len(e) /\ 1 <= k + 1
    <3>1. its.tx \in Nat
      BY <1>0, LineFacts DEF TInv, TypeOK
    <3> QED
      BY <1>2, <1>3, <3>1
  <2> QED
    BY <1>1, <1>3, <2>1, PartFacts
<1>5. ASSUME NEW n \in 1..(next' - 1) PROVE Settled(n)'
  <2>1. n \in 1..(next - 1)
    BY <1>2
  <2>2. Settled(n)
    BY <2>1 DEF SInv, AllSettled
  <2> QED
    BY <1>0, <1>2, <1>4, <2>1, <2>2, SettledLonger
<1>6. InFront'
  BY <1>2 DEF InFront
<1>7. Connected'
  BY <1>2 DEF SInv, Connected
<1> QED
  BY <1>5, <1>6, <1>7 DEF SInv, AllSettled

\* When bytes behind the first ones are lost, so may be the frames they are of.
LEMMA SettledCut ==
  ASSUME TInv, NEW n \in 1..(next - 1), Settled(n), sent' = sent, spoiled \subseteq spoiled',
         inbox' = inbox, rxBuf' = rxBuf, NEW k \in 0..Len(wire), wire' = SubSeq(wire, 1, k),
         \A x \in (k + 1)..Len(wire) : wire[x].of \in spoiled'
  PROVE  Settled(n)'
<1>1. CASE n \in spoiled'
  BY <1>1 DEF Settled
<1>2. CASE Delivered(n)
  <2>1. Delivered(n)'
    BY <1>2 DEF Delivered, Number
  <2> QED
    BY <2>1 DEF Settled
<1>3. CASE n \notin spoiled' /\ Kept(rxBuf \o wire, sent[n], n)
  <2>1. PICK u, v, t : u = rxBuf \o wire /\ v = rxBuf' \o wire' /\ t = SubSeq(wire, 1, k)
    OBVIOUS
  <2>2. /\ rxBuf \in Seq(Bytes) /\ wire \in Seq(Bytes) /\ n \in 1..Len(sent)
        /\ Len(rxBuf) \in Nat /\ Len(wire) \in Nat /\ k \in Nat /\ k <= Len(wire)
    BY Underway
  <2>3. t \in Seq(Bytes) /\ Len(t) = k /\ \A x \in 1..k : t[x] = wire[x]
    <3>1. t \in Seq(Bytes) /\ Len(t) = k - 1 + 1 /\ \A x \in 1..(k - 1 + 1) : t[x] = wire[1 + x - 1]
      <4>1. 1 <= k + 1
        BY <2>2
      <4> QED
        BY <2>1, <2>2, <4>1, PartFacts
    <3>2. k - 1 + 1 = k /\ \A x \in 1..k : 1 + x - 1 = x
      BY <2>2
    <3> QED
      BY <3>1, <3>2
  <2>4. /\ u \in Seq(Bytes) /\ Len(u) = Len(rxBuf) + Len(wire)
        /\ \A x \in 1..Len(rxBuf) : u[x] = rxBuf[x]
        /\ \A x \in 1..Len(wire) : u[Len(rxBuf) + x] = wire[x]
    BY <2>1, <2>2, ConcatFacts
  <2>5. v = rxBuf \o t
    BY <2>1
  <2>6. /\ v \in Seq(Bytes) /\ Len(v) = Len(rxBuf) + Len(t)
        /\ \A x \in 1..Len(rxBuf) : v[x] = rxBuf[x]
        /\ \A x \in 1..Len(t) : v[Len(rxBuf) + x] = t[x]
    <3>1. rxBuf \in Seq(Bytes) /\ t \in Seq(Bytes)
      BY <2>2, <2>3
    <3> QED
      BY ONLY <2>5, <3>1, ConcatFacts
  <2>7. Begins(v, u)
    <3>1. Len(v) <= Len(u) /\ Len(v) = Len(rxBuf) + k
      BY <2>2, <2>3, <2>4, <2>6
    <3>2. ASSUME NEW x \in 1..Len(v) PROVE v[x] = u[x]
      <4>1. CASE x <= Len(rxBuf)
        <5>1. x \in 1..Len(rxBuf)
          BY <2>2, <3>1, <4>1
        <5> QED
          BY <2>4, <2>6, <5>1
      <4>2. CASE x > Len(rxBuf)
        <5> DEFINE y == x - Len(rxBuf)
        <5>1. y \in 1..k /\ y \in 1..Len(wire) /\ y \in 1..Len(t) /\ Len(rxBuf) + y = x
          BY <2>2, <2>3, <3>1, <4>2
        <5> HIDE DEF y
        <5>2. v[Len(rxBuf) + y] = t[y] /\ t[y] = wire[y] /\ u[Len(rxBuf) + y] = wire[y]
          BY <2>3, <2>4, <2>6, <5>1
        <5> QED
          BY <5>1, <5>2
      <4> QED
        BY <2>2, <3>1, <4>1, <4>2
    <3> QED
      BY <3>1, <3>2 DEF Begins
  <2>8. ASSUME NEW x \in (Len(v) + 1)..Len(u) PROVE u[x].of # n
    <3> DEFINE y == x - Len(rxBuf)
    <3>1. y \in 1..Len(wire) /\ y \in (k + 1)..Len(wire) /\ Len(rxBuf) + y = x
      BY <2>2, <2>3, <2>4, <2>6
    <3> HIDE DEF y
    <3>2. u[Len(rxBuf) + y] = wire[y] /\ wire[y].of \in spoiled'
      BY <2>4, <3>1
    <3> QED
      BY <1>3, <3>1, <3>2
  <2>9. Kept(v, sent[n], n)
    <3>1. sent[n] \in Seq(Syms) /\ sent[n] # <<>> /\ Special(Syms)
      BY <2>2, SentFacts
    <3>2. Kept(u, sent[n], n)
      BY <1>3, <2>1
    <3>3. v \in Seq(Bytes) /\ u \in Seq(Bytes)
      BY <2>4, <2>6
    <3> QED
      BY <2>7, <2>8, <3>1, <3>2, <3>3, KeptLonger
  <2>10. Kept(rxBuf' \o wire', sent'[n], n)
    BY <2>1, <2>9
  <2> QED
    BY <2>10 DEF Settled
<1> QED
  BY <1>1, <1>2, <1>3 DEF Settled

LEMMA BreakSettled ==
  ASSUME SInv, NEW k \in 0..Len(wire), Break(k)
  PROVE  SInv'
<1>0. TInv /\ TInv'
  BY BreakTypes DEF SInv
<1>1. /\ sent' = sent /\ next' = next /\ rxUp' = rxUp /\ txUp' = FALSE /\ txUp
      /\ rxBuf' = rxBuf /\ inbox' = inbox /\ wire' = SubSeq(wire, 1, k)
      /\ spoiled' = spoiled \cup {wire[i].of : i \in (k + 1)..Len(wire)}
  BY DEF Break
<1>2. ASSUME NEW n \in 1..(next' - 1) PROVE Settled(n)'
  <2>1. n \in 1..(next - 1)
    BY <1>1
  <2>2. Settled(n)
    BY <2>1 DEF SInv, AllSettled
  <2>3. \A x \in (k + 1)..Len(wire) : wire[x].of \in spoiled'
    BY <1>1
  <2> QED
    BY <1>0, <1>1, <2>1, <2>2, <2>3, SettledCut
<1>3. InFront'
  BY <1>1 DEF InFront
<1>4. Connected'
  BY <1>1 DEF SInv, Connected
<1> QED
  BY <1>0, <1>2, <1>3, <1>4 DEF SInv, AllSettled

LEMMA ReceiveEndSettled ==
  ASSUME SInv, ReceiveEnd
  PROVE  SInv'
<1>0. TInv /\ TInv'
  BY ReceiveEndTypes DEF SInv
<1>1. /\ sent' = sent /\ next' = next /\ rxUp' = FALSE /\ txUp' = FALSE
      /\ rxBuf' = rxBuf /\ inbox' = inbox /\ wire' = <<>>
      /\ spoiled' = spoiled \cup {wire[i].of : i \in DOMAIN wire}
  BY DEF ReceiveEnd
<1>2. ASSUME NEW n \in 1..(next' - 1) PROVE Settled(n)'
  <2>1. n \in 1..(next - 1)
    BY <1>1
  <2>2. Settled(n)
    BY <2>1 DEF SInv, AllSettled
  <2>3. wire \in Seq(Bytes) /\ Len(wire) \in Nat /\ DOMAIN wire = 1..Len(wire)
    BY <1>0, Underway
  <2>4. \A x \in (0 + 1)..Len(wire) : wire[x].of \in spoiled'
    BY <1>1, <2>3
  <2>5. 0 \in 0..Len(wire) /\ wire' = SubSeq(wire, 1, 0)
    BY <1>1, <2>3, SubSeqEmpty
  <2> QED
    BY <1>0, <1>1, <2>1, <2>2, <2>4, <2>5, SettledCut
<1>3. InFront' /\ Connected'
  BY <1>1 DEF InFront, Connected
<1> QED
  BY <1>0, <1>2, <1>3 DEF SInv, AllSettled

LEMMA ReconnectSettled ==
  ASSUME SInv, Reconnect
  PROVE  SInv'
<1>0. TInv /\ TInv'
  BY ReconnectTypes DEF SInv
<1>1. /\ sent' = sent /\ next' = next /\ rxUp' = TRUE /\ txUp' = TRUE /\ ~rxUp
      /\ rxBuf' = rxBuf /\ inbox' = inbox /\ wire' = wire
      /\ spoiled' = IF rxBuf = <<>> THEN spoiled ELSE spoiled \cup {next}
  BY DEF Reconnect
<1>2. ASSUME NEW n \in 1..(next' - 1) PROVE Settled(n)'
  <2>1. Settled(n)
    BY <1>1 DEF SInv, AllSettled
  <2> QED
    BY <1>1, <2>1, SettledSame
<1>3. InFront'
  <2>1. ASSUME next' \notin spoiled' PROVE Ended(rxBuf' \o wire')
    <3>1. rxBuf = <<>> /\ wire = <<>>
      BY <1>1, <2>1 DEF SInv, Connected
    <3>2. rxBuf' \o wire' = <<>>
      BY <1>1, <3>1
    <3> QED
      BY <3>2 DEF Ended
  <2> QED
    BY <2>1 DEF InFront
<1>4. Connected'
  BY <1>1 DEF Connected
<1> QED
  BY <1>0, <1>2, <1>3, <1>4 DEF SInv, AllSettled

LEMMA ReceiveSettled ==
  ASSUME SInv, NEW k \in 1..its.rx, NEW room \in Rooms, Receive(k, room)
  PROVE  SInv'
<1>0. TInv /\ TInv'
  BY ReceiveTypes DEF SInv
<1>1. PICK m, w, o : /\ m = rxBuf \o SubSeq(wire, 1, k) /\ w = SubSeq(wire, k + 1, Len(wire))
                     /\ o = Dispatch(m, room)
  OBVIOUS
<1>2. m = rxBuf \o SubSeq(wire, 1, k) /\ w = SubSeq(wire, k + 1, Len(wire)) /\ o = Dispatch(m, room)
  BY <1>1
<1>3. /\ m \in Seq(Bytes) /\ w \in Seq(Bytes) /\ room \in Nat /\ k \in 1..Len(wire)
      /\ Len(m) \in Nat /\ Len(w) \in Nat /\ Divided(k, m, w) /\ Received(k, m, w, o)
  BY <1>0, <1>2, ReceiveFacts
<1>4. /\ inbox' = inbox \o o.frames /\ rxBuf' = o.rest /\ wire' = w
      /\ spoiled' = spoiled \cup Refused(m, o.rest)
                      \cup (IF EndsFrame(k) THEN {} ELSE {wire[k].of})
      /\ sent' = sent /\ next' = next /\ txUp' = txUp /\ rxUp' = rxUp /\ rxUp
  BY <1>3 DEF Received
<1>5. /\ rxBuf \o wire = m \o w /\ Len(m) = Len(rxBuf) + k /\ Len(w) = Len(wire) - k
      /\ \A i \in 1..k : m[Len(rxBuf) + i] = wire[i]
      /\ \A i \in 1..Len(w) : w[i] = wire[k + i]
  BY <1>3 DEF Divided
<1>6. /\ Closed(Bytes) /\ rxBuf \in Seq(Bytes) /\ wire \in Seq(Bytes) /\ Len(rxBuf) \in Nat
      /\ Len(wire) \in Nat
  BY <1>0, Underway
<1>7. o.frames \in Seq(Seq(Bytes))
  BY <1>2, <1>3, <1>6, DispatchFacts
<1>8. PICK e \in 1..(Len(m) + 1) : LeftAt(m, e, o)
  BY <1>2, <1>3, <1>6, DispatchFacts
<1>9. inbox \in Seq(Seq(Bytes))
  BY <1>0 DEF TInv, TypeOK
<1>10. /\ DOMAIN inbox' = 1..(Len(inbox) + Len(o.frames)) /\ Len(inbox) \in Nat /\ Len(o.frames) \in Nat
       /\ \A j \in 1..Len(inbox) : inbox'[j] = inbox[j]
       /\ \A j \in 1..Len(o.frames) : inbox'[Len(inbox) + j] = o.frames[j]
       /\ DOMAIN inbox = 1..Len(inbox)
  <2>1. PICK h : h = inbox \o o.frames
    OBVIOUS
  <2>2. /\ h \in Seq(Seq(Bytes)) /\ Len(h) = Len(inbox) + Len(o.frames)
        /\ Len(inbox) \in Nat /\ Len(o.frames) \in Nat
        /\ \A j \in 1..Len(inbox) : h[j] = inbox[j]
        /\ \A j \in 1..Len(o.frames) : h[Len(inbox) + j] = o.frames[j]
    BY <1>7, <1>9, <2>1, ConcatFacts
  <2>3. DOMAIN h = 1..Len(h)
    BY <2>2
  <2> QED
    BY <1>4, <1>9, <2>1, <2>2, <2>3
<1>11. ASSUME NEW n, Delivered(n) PROVE Delivered(n)'
  <2>1. PICK j \in DOMAIN inbox : Number(inbox[j]) = n
    BY <1>11 DEF Delivered
  <2>2. j \in DOMAIN inbox' /\ inbox'[j] = inbox[j]
    BY <1>10
  <2>3. Number(inbox'[j]) = n
    BY <2>1, <2>2
  <2> QED
    BY <2>2, <2>3 DEF Delivered
<1>12. ASSUME NEW n \in 1..Len(sent), n \notin spoiled', Kept(rxBuf \o wire, sent[n], n)
       PROVE  Settled(n)'
  <2>1. sent[n] \in Seq(Syms) /\ sent[n] # <<>> /\ Special(Syms)
    BY <1>0, SentFacts
  <2>2. n \notin Refused(m, o.rest)
    BY <1>4, <1>12
  <2>3. Apart(m, w, n)
    <3>1. SUFFICES ASSUME Len(w) > 0, m[Len(m)].of = n, w[1].of = n PROVE FALSE
      BY DEF Apart
    <3>2. k < Len(wire) /\ 1 \in 1..Len(w) /\ k \in 1..k /\ k \in Nat
      <4>1. k \in 1..Len(wire) /\ Len(w) = Len(wire) - k /\ Len(wire) \in Nat
        BY <1>3, <1>5, <1>6
      <4> QED
        BY ONLY <3>1, <4>1
    <3>3. m[Len(rxBuf) + k] = wire[k] /\ w[1] = wire[k + 1]
      BY <1>5, <3>2
    <3>4. wire[k].of = n /\ wire[k + 1].of = n
      BY <1>5, <3>1, <3>3
    <3>5. ~EndsFrame(k)
      BY <3>2, <3>4 DEF EndsFrame
    <3> QED
      BY <1>4, <1>12, <3>4, <3>5
  <2>4. Kept(m \o w, sent[n], n)
    BY <1>5, <1>12
  <2>5. Len(m) >= 1
    BY <1>3, <1>5, <1>6
  <2>6. Kept(o.rest \o w, sent[n], n) \/ Among(o.frames, Tag(sent[n], n))
    BY <1>3, <1>6, <1>8, <2>1, <2>2, <2>3, <2>4, <2>5, KeptReceived
  <2>7. CASE Kept(o.rest \o w, sent[n], n)
    <3>1. Kept(rxBuf' \o wire', sent'[n], n)
      BY <1>4, <2>7
    <3> QED
      BY <3>1 DEF Settled
  <2>8. CASE Among(o.frames, Tag(sent[n], n))
    <3>1. PICK j \in 1..Len(o.frames) : o.frames[j] = Tag(sent[n], n)
      BY <2>8 DEF Among
    <3>2. Len(inbox) + j \in DOMAIN inbox' /\ inbox'[Len(inbox) + j] = Tag(sent[n], n)
      BY <1>10, <3>1
    <3>3. Number(Tag(sent[n], n)) = n
      <4>1. 1 \in DOMAIN sent[n]
        <5>1. DOMAIN sent[n] = 1..Len(sent[n]) /\ Len(sent[n]) \in Nat \ {0}
          BY <2>1
        <5> QED
          BY <5>1
      <4> QED
        BY <4>1 DEF Tag, Byte, Number
    <3>4. Number(inbox'[Len(inbox) + j]) = n
      BY <3>2, <3>3
    <3>5. Delivered(n)'
      BY <3>2, <3>4 DEF Delivered
    <3> QED
      BY <3>5 DEF Settled
  <2> QED
    BY <2>6, <2>7, <2>8
<1>13. ASSUME NEW n \in 1..(next' - 1) PROVE Settled(n)'
  <2>1. n \in 1..(next - 1)
    BY <1>4
  <2>2. Settled(n) /\ n \in 1..Len(sent)
    BY <1>0, <2>1, Underway DEF SInv, AllSettled
  <2>3. CASE n \in spoiled'
    BY <2>3 DEF Settled
  <2>4. CASE Delivered(n)
    <3>1. Delivered(n)'
      BY <1>11, <2>4
    <3> QED
      BY <3>1 DEF Settled
  <2>5. CASE n \notin spoiled' /\ Kept(rxBuf \o wire, sent[n], n)
    BY <1>12, <2>2, <2>5
  <2>6. spoiled \subseteq spoiled'
    BY <1>4
  <2> QED
    BY <2>2, <2>3, <2>4, <2>5, <2>6 DEF Settled
<1>14. InFront'
  <2>1. ASSUME txUp', next' \notin spoiled' PROVE Ended(rxBuf' \o wire')
    <3>1. txUp /\ next \notin spoiled
      BY <1>4, <2>1
    <3>2. Ended(m \o w)
      BY <1>5, <3>1 DEF SInv, InFront
    <3>3. Ended(o.rest \o w)
      BY <1>3, <1>6, <1>8, <3>2, EndedReceived
    <3> QED
      BY <1>4, <3>3
  <2> QED
    BY <2>1 DEF InFront
<1>15. Connected'
  BY <1>4 DEF Connected
<1> QED
  BY <1>0, <1>13, <1>14, <1>15 DEF SInv, AllSettled

\* All of them together.
LEMMA StepSettled == SInv /\ [Next]_vars => SInv'
<1> SUFFICES ASSUME SInv, [Next]_vars PROVE SInv'
  OBVIOUS
<1>1. TInv /\ TInv'
  BY StepTypes DEF SInv
<1>2. CASE UNCHANGED vars
  <2>1. /\ sent' = sent /\ next' = next /\ txUp' = txUp /\ rxUp' = rxUp /\ rxBuf' = rxBuf
        /\ inbox' = inbox /\ wire' = wire /\ spoiled' = spoiled
    BY <1>2 DEF vars
  <2>2. ASSUME NEW n \in 1..(next' - 1) PROVE Settled(n)'
    <3>1. Settled(n)
      BY <2>1 DEF SInv, AllSettled
    <3> QED
      BY <2>1, <3>1, SettledSame
  <2>3. Connected' /\ InFront'
    BY <2>1 DEF SInv, Connected, InFront
  <2> QED
    BY <1>1, <2>2, <2>3 DEF SInv, AllSettled
<1>3. CASE Next
  <2>1. ASSUME Sends PROVE SInv'
    BY <1>1, <2>1, SendNothingSettled, SendWholeSettled, SendPartSettled DEF Sends
  <2> QED
    BY <1>3, <2>1, Steps, HandOverSettled, ReceiveSettled, ReceiveEndSettled, ReconnectSettled,
       BreakSettled
<1> QED
  BY <1>2, <1>3

\* Every packet the sender is done with has arrived, is under way, or has met
\* with an accident itself: losing one never costs another.
THEOREM OnlySpoiledLostSafe == Spec => []OnlySpoiledLost
<1>1. Init => SInv
  BY InitSettled
<1>2. SInv /\ [Next]_vars => SInv'
  BY StepSettled
<1>3. SInv => OnlySpoiledLost
  <2>1. SUFFICES ASSUME SInv, NEW n \in 1..(next - 1)
                 PROVE  n \in {Number(f) : f \in ToSet(inbox)} \cup spoiled
                                \cup {b.of : b \in ToSet(wire \o rxBuf)}
    BY DEF OnlySpoiledLost
  <2>2. TInv /\ Settled(n) /\ n \in 1..Len(sent)
    BY <2>1, Underway DEF SInv, AllSettled
  <2>3. CASE Delivered(n)
    BY <2>3 DEF Delivered, ToSet
  <2>4. CASE Kept(rxBuf \o wire, sent[n], n)
    <3>1. PICK u, v : u = rxBuf \o wire /\ v = wire \o rxBuf
      OBVIOUS
    <3>2. PICK i \in 1..Len(u) : HasFrame(u, i, sent[n], n)
      BY <2>4, <3>1 DEF Kept
    <3>3. Len(Encode(sent[n])) \in Nat /\ Len(Encode(sent[n])) >= 3
      BY <2>2, SentFacts, EncodeEnds
    <3>4. u[i].of = n
      <4>1. u[i + 1 - 1] = Byte(Encode(sent[n])[1], n)
        BY <3>2, <3>3 DEF HasFrame
      <4>2. rxBuf \in Seq(Bytes) /\ wire \in Seq(Bytes)
        BY <2>2, Underway
      <4>3. i + 1 - 1 = i
        BY <3>1, <4>2, ConcatFacts
      <4> QED
        BY <4>1, <4>3 DEF Byte
    <3>5. rxBuf \in Seq(Bytes) /\ wire \in Seq(Bytes) /\ Len(rxBuf) \in Nat /\ Len(wire) \in Nat
      BY <2>2, Underway
    <3>6. /\ u \in Seq(Bytes) /\ Len(u) = Len(rxBuf) + Len(wire)
          /\ \A x \in 1..Len(rxBuf) : u[x] = rxBuf[x]
          /\ \A x \in 1..Len(wire) : u[Len(rxBuf) + x] = wire[x]
      BY <3>1, <3>5, ConcatFacts
    <3>7. /\ v \in Seq(Bytes) /\ Len(v) = Len(wire) + Len(rxBuf)
          /\ \A x \in 1..Len(wire) : v[x] = wire[x]
          /\ \A x \in 1..Len(rxBuf) : v[Len(wire) + x] = rxBuf[x]
      BY <3>1, <3>5, ConcatFacts
    <3>8. \E x \in 1..Len(v) : v[x] = u[i]
      <4>1. CASE i <= Len(rxBuf)
        <5>1. i \in 1..Len(rxBuf) /\ Len(wire) + i \in 1..Len(v)
          BY <3>5, <3>7, <4>1
        <5>2. v[Len(wire) + i] = u[i]
          BY <3>6, <3>7, <5>1
        <5> QED
          BY <5>1, <5>2
      <4>2. CASE i > Len(rxBuf)
        <5> DEFINE y == i - Len(rxBuf)
        <5>1. y \in 1..Len(wire) /\ y \in 1..Len(v) /\ Len(rxBuf) + y = i
          BY <3>5, <3>6, <3>7, <4>2
        <5> HIDE DEF y
        <5>2. v[y] = wire[y] /\ u[Len(rxBuf) + y] = wire[y]
          BY <3>6, <3>7, <5>1
        <5>3. v[y] = u[i]
          BY <5>1, <5>2
        <5> QED
          BY <5>1, <5>3
      <4> QED
        BY <3>5, <3>6, <4>1, <4>2
    <3>9. PICK x \in 1..Len(v) : v[x] = u[i]
      BY <3>8
    <3>10. v[x] \in ToSet(v) /\ v[x].of = n
      <4>1. DOMAIN v = 1..Len(v)
        BY <3>7
      <4> QED
        BY <3>4, <3>9, <4>1 DEF ToSet
    <3> QED
      BY <3>1, <3>10
  <2> QED
    BY <2>2, <2>3, <2>4 DEF Settled
<1> QED
  BY <1>1, <1>2, <1>3, PTL DEF Spec
-----------------------------------------------------------------------------
(* On a calm line, what is under way is whole frames, one after the other. *)

\* Where the bytes of another frame begin.
First(w, x) == x = 1 \/ w[x - 1].of # w[x].of

\* From x on, there are all bytes of a frame, and no more.
Row(w, x, fs) ==
  LET n == w[x].of
      z == x + Len(Encode(fs[n]))
  IN  HasFrame(w, x, fs[n], n) /\ (z <= Len(w) => w[z].of # n)

\* The bytes w are frames of fs, up to number hi at most, in their order.
Rows(w, fs, hi) ==
  /\ \A x \in 1..Len(w) : w[x].of \in 1..hi
  /\ \A x, y \in 1..Len(w) : x < y => w[x].of <= w[y].of
  /\ \A x \in 1..Len(w) : First(w, x) => Row(w, x, fs)

\* The packets of fs, up to number hi, are sequences over S, none empty.
Frames(S, fs, hi) == \A n \in 1..hi : fs[n] \in Seq(S) /\ fs[n] # <<>>

\* How long a frame is.
LEMMA LengthFacts ==
  ASSUME NEW S, Special(S), NEW hi, NEW fs, Frames(S, fs, hi), NEW n \in 1..hi
  PROVE  Len(Encode(fs[n])) \in Nat \ {0} /\ Len(Encode(fs[n])) >= 3
<1>1. fs[n] \in Seq(S) /\ fs[n] # <<>>
  BY DEF Frames
<1>2. Len(Encode(fs[n])) \in Nat /\ Len(Encode(fs[n])) >= 3
  BY <1>1, EncodeEnds
<1> QED
  BY <1>2

\* More packets change nothing about the frames that are there.
LEMMA RowsSame ==
  ASSUME NEW hi \in Nat, NEW ho \in Nat, hi <= ho, NEW w, NEW fs, NEW gs, Len(w) \in Nat,
         \A n \in 1..hi : gs[n] = fs[n], Rows(w, fs, hi)
  PROVE  Rows(w, gs, ho)
<1>1. ASSUME NEW x \in 1..Len(w) PROVE w[x].of \in 1..ho /\ (Row(w, x, fs) => Row(w, x, gs))
  <2>1. w[x].of \in 1..hi
    BY DEF Rows
  <2>2. gs[w[x].of] = fs[w[x].of] /\ w[x].of \in 1..ho
    BY <2>1
  <2> QED
    BY <2>2 DEF Row
<1> QED
  BY <1>1 DEF Rows

\* Whole frames to begin with: the first k bytes, where a frame ends.
LEMMA RowsBegin ==
  ASSUME NEW B, NEW w \in Seq(B), NEW S, Special(S), NEW hi \in Nat, NEW fs, Frames(S, fs, hi),
         Rows(w, fs, hi), NEW t \in Seq(B), Begins(t, w), NEW k \in Nat, k = Len(t),
         k > 0 /\ k < Len(w) => w[k + 1].of # w[k].of
  PROVE  Rows(t, fs, hi)
<1>0. Len(w) \in Nat /\ k <= Len(w) /\ \A x \in 1..k : t[x] = w[x]
  BY DEF Begins
<1>1. /\ \A x \in 1..Len(w) : w[x].of \in 1..hi
      /\ \A x, y \in 1..Len(w) : x < y => w[x].of <= w[y].of
      /\ \A x \in 1..Len(w) : First(w, x) => Row(w, x, fs)
  BY DEF Rows
<1>2. ASSUME NEW x \in 1..k, First(t, x) PROVE Row(t, x, fs)
  <2> DEFINE n == w[x].of
             L == Len(Encode(fs[n]))
  <2>1. x \in 1..Len(w) /\ t[x].of = n /\ n \in 1..hi
    BY <1>0, <1>1
  <2>2. First(w, x)
    <3>1. ASSUME x # 1 PROVE w[x - 1].of # w[x].of
      <4>1. x - 1 \in 1..k
        BY <3>1
      <4>2. t[x - 1] = w[x - 1] /\ t[x] = w[x] /\ t[x - 1].of # t[x].of
        BY <1>0, <1>2, <3>1, <4>1 DEF First
      <4> QED
        BY <4>2
    <3> QED
      BY <3>1 DEF First
  <2>3. HasFrame(w, x, fs[n], n) /\ (x + L <= Len(w) => w[x + L].of # n)
    BY <1>1, <2>1, <2>2 DEF Row
  <2>4. L \in Nat \ {0}
    BY <2>1, LengthFacts
  <2>5. x + L - 1 <= Len(w) /\ \A y \in 1..L : w[x + y - 1] = Byte(Encode(fs[n])[y], n)
    BY <2>3 DEF HasFrame
  <2>6. x + L - 1 <= k
    <3>1. SUFFICES ASSUME x + L - 1 > k PROVE FALSE
      BY <2>4
    <3> DEFINE y == k - x + 1
               z == k - x + 2
    <3>2. y \in 1..L /\ z \in 1..L /\ x + y - 1 = k /\ x + z - 1 = k + 1 /\ k > 0 /\ k < Len(w)
      BY <1>0, <2>4, <2>5, <3>1
    <3> HIDE DEF y, z, L
    <3>3. w[x + y - 1].of = n /\ w[x + z - 1].of = n
      <4>1. w[x + y - 1] = Byte(Encode(fs[n])[y], n) /\ w[x + z - 1] = Byte(Encode(fs[n])[z], n)
        BY <2>5, <3>2
      <4> QED
        BY <4>1 DEF Byte
    <3> QED
      BY <3>2, <3>3
  <2>7. HasFrame(t, x, fs[n], n)
    <3>1. PICK f, l, a : f = fs[n] /\ l = L /\ a = n
      OBVIOUS
    <3>2. x + l - 1 <= Len(t) /\ l = Len(Encode(f)) /\ l \in Nat \ {0} /\ HasFrame(w, x, f, a)
      BY <2>3, <2>4, <2>6, <3>1
    <3>3. HasFrame(t, x, f, a)
      BY <3>2, HasFrameLonger
    <3> QED
      BY <3>1, <3>3
  <2>8. x + L <= k => t[x + L].of # n
    <3>1. ASSUME x + L <= k PROVE t[x + L].of # n
      <4>1. x + L \in 1..k /\ x + L <= Len(w)
        BY <1>0, <2>4, <3>1
      <4> QED
        BY <1>0, <2>3, <4>1
    <3> QED
      BY <3>1
  <2> HIDE DEF n
  <2>9. t[x].of = n
    BY <2>1
  <2> QED
    BY <2>7, <2>8, <2>9 DEF Row
<1>3. ASSUME NEW x \in 1..k PROVE t[x].of \in 1..hi
  BY <1>0, <1>1
<1>4. ASSUME NEW x \in 1..k, NEW y \in 1..k, x < y PROVE t[x].of <= t[y].of
  <2>1. x \in 1..Len(w) /\ y \in 1..Len(w) /\ t[x] = w[x] /\ t[y] = w[y]
    BY <1>0
  <2> QED
    BY <1>1, <1>4, <2>1
<1> QED
  BY <1>2, <1>3, <1>4 DEF Rows

\* And the bytes behind them.
LEMMA RowsEnd ==
  ASSUME NEW B, NEW w \in Seq(B), NEW S, Special(S), NEW hi \in Nat, NEW fs, Frames(S, fs, hi),
         Rows(w, fs, hi), NEW k \in Nat, k <= Len(w), NEW t \in Seq(B), Len(t) = Len(w) - k,
         \A x \in 1..Len(t) : t[x] = w[k + x],
         k > 0 /\ k < Len(w) => w[k + 1].of # w[k].of
  PROVE  Rows(t, fs, hi)
<1>0. Len(w) \in Nat /\ Len(t) \in Nat
  OBVIOUS
<1>1. /\ \A x \in 1..Len(w) : w[x].of \in 1..hi
      /\ \A x, y \in 1..Len(w) : x < y => w[x].of <= w[y].of
      /\ \A x \in 1..Len(w) : First(w, x) => Row(w, x, fs)
  BY DEF Rows
<1>2. ASSUME NEW x \in 1..Len(t) PROVE k + x \in 1..Len(w) /\ t[x] = w[k + x]
  BY <1>0
<1>3. ASSUME NEW x \in 1..Len(t), First(t, x) PROVE Row(t, x, fs)
  <2> DEFINE n == t[x].of
             L == Len(Encode(fs[n]))
             p == k + x
  <2>1. p \in 1..Len(w) /\ w[p].of = n /\ n \in 1..hi
    BY <1>1, <1>2
  <2>2. First(w, p)
    <3>1. CASE x = 1
      <4>1. k > 0 => w[k + 1].of # w[k].of
        <5>1. k < Len(w)
          BY <1>0, <2>1
        <5> QED
          BY <5>1
      <4>2. p = k + 1 /\ p - 1 = k /\ (k = 0 => p = 1)
        BY <3>1
      <4> HIDE DEF p
      <4> QED
        BY <4>1, <4>2 DEF First
    <3>2. CASE x # 1
      <4>1. x - 1 \in 1..Len(t) /\ k + (x - 1) = p - 1
        BY <1>0, <3>2
      <4>2. t[x - 1].of # t[x].of
        BY <1>3, <3>2 DEF First
      <4>3. t[x - 1] = w[k + (x - 1)] /\ t[x] = w[p]
        BY <1>2, <4>1
      <4>4. w[p - 1].of # w[p].of
        BY <4>1, <4>2, <4>3
      <4> QED
        BY <4>4 DEF First
    <3> QED
      BY <3>1, <3>2
  <2> HIDE DEF p, n
  <2>3. HasFrame(w, p, fs[n], n) /\ (p + L <= Len(w) => w[p + L].of # n)
    BY <1>1, <2>1, <2>2 DEF Row
  <2>4. L \in Nat \ {0} /\ L >= 3
    BY <2>1, LengthFacts
  <2>5. p + L - 1 <= Len(w) /\ \A y \in 1..L : w[p + y - 1] = Byte(Encode(fs[n])[y], n)
    BY <2>3 DEF HasFrame
  <2> HIDE DEF L
  <2>6. x + L - 1 <= Len(t) /\ p = k + x /\ p + L = k + (x + L)
    BY <1>0, <2>4, <2>5 DEF p
  <2>7. ASSUME NEW y \in 1..L PROVE t[x + y - 1] = Byte(Encode(fs[n])[y], n)
    <3>1. x + y - 1 \in 1..Len(t) /\ k + (x + y - 1) = p + y - 1
      BY <1>0, <2>4, <2>6
    <3>2. t[x + y - 1] = w[k + (x + y - 1)]
      BY <1>2, <3>1
    <3> QED
      BY <2>5, <3>1, <3>2
  <2>8. HasFrame(t, x, fs[n], n)
    BY <2>6, <2>7 DEF HasFrame, L
  <2>9. x + L <= Len(t) => t[x + L].of # n
    <3>1. ASSUME x + L <= Len(t) PROVE t[x + L].of # n
      <4>1. x + L \in 1..Len(t) /\ p + L <= Len(w)
        BY <1>0, <2>4, <2>6, <3>1
      <4>2. t[x + L] = w[k + (x + L)]
        BY <1>2, <4>1
      <4> QED
        BY <2>3, <2>6, <4>1, <4>2
    <3> QED
      BY <3>1
  <2> QED
    BY <2>8, <2>9 DEF Row, n, L
<1>4. ASSUME NEW x \in 1..Len(t) PROVE t[x].of \in 1..hi
  BY <1>1, <1>2
<1>5. ASSUME NEW x \in 1..Len(t), NEW y \in 1..Len(t), x < y PROVE t[x].of <= t[y].of
  <2>1. k + x \in 1..Len(w) /\ k + y \in 1..Len(w) /\ t[x] = w[k + x] /\ t[y] = w[k + y]
    BY <1>2
  <2>2. k + x < k + y
    BY <1>5
  <2> QED
    BY <1>1, <2>1, <2>2
<1> QED
  BY <1>3, <1>4, <1>5 DEF Rows

\* Another frame behind them.
LEMMA RowsAdded ==
  ASSUME NEW B, NEW w \in Seq(B), NEW S, Special(S), NEW hi \in Nat, NEW fs, Frames(S, fs, hi),
         NEW n, n = hi + 1, fs[n] \in Seq(S), fs[n] # <<>>, Rows(w, fs, hi),
         NEW t \in Seq(B), Len(t) = Len(Encode(fs[n])),
         \A x \in 1..Len(t) : t[x] = Byte(Encode(fs[n])[x], n), NEW u, u = w \o t
  PROVE  Rows(u, fs, n)
<1> DEFINE L == Len(t)
           M == Len(w)
<1>0. /\ u \in Seq(B) /\ Len(u) = M + L /\ M \in Nat /\ L \in Nat
      /\ \A x \in 1..M : u[x] = w[x]
      /\ \A x \in 1..L : u[M + x] = t[x]
  <2>1. w \in Seq(B) /\ t \in Seq(B) /\ u = w \o t
    OBVIOUS
  <2> QED
    BY ONLY <2>1, ConcatFacts
<1>1. /\ \A x \in 1..M : w[x].of \in 1..hi
      /\ \A x, y \in 1..M : x < y => w[x].of <= w[y].of
      /\ \A x \in 1..M : First(w, x) => Row(w, x, fs)
  BY DEF Rows
<1>2. L >= 3 /\ Begins(w, u)
  <2>1. Begins(w, u)
    BY BeginsConcat
  <2>2. Len(Encode(fs[n])) >= 3
    BY EncodeEnds
  <2> QED
    BY <2>1, <2>2
<1>3. ASSUME NEW x \in 1..L PROVE u[M + x].of = n /\ u[M + x] = Byte(Encode(fs[n])[x], n)
  <2>1. u[M + x] = Byte(Encode(fs[n])[x], n)
    BY <1>0
  <2> QED
    BY <2>1 DEF Byte
<1>4. ASSUME NEW x \in 1..Len(u)
      PROVE  \/ x \in 1..M /\ u[x] = w[x] /\ u[x].of \in 1..hi
             \/ x - M \in 1..L /\ M + (x - M) = x /\ u[x].of = n
  <2>1. CASE x <= M
    <3>1. x \in 1..M
      BY <1>0, <2>1
    <3>2. u[x] = w[x] /\ w[x].of \in 1..hi
      BY <1>0, <1>1, <3>1
    <3> QED
      BY <3>1, <3>2
  <2>2. CASE x > M
    <3> DEFINE y == x - M
    <3>1. y \in 1..L /\ M + y = x
      BY <1>0, <2>2
    <3> HIDE DEF y
    <3>2. u[x].of = n
      BY <1>3, <3>1
    <3> QED
      BY <3>1, <3>2 DEF y
  <2> QED
    BY <1>0, <2>1, <2>2
<1>5. ASSUME NEW x \in 1..Len(u), First(u, x) PROVE Row(u, x, fs)
  <2>1. CASE x \in 1..M
    <3> DEFINE k == w[x].of
    <3>1. u[x].of = k /\ k \in 1..hi /\ u[x] = w[x]
      BY <1>0, <1>1, <2>1
    <3>2. First(w, x)
      <4>1. ASSUME x # 1 PROVE w[x - 1].of # w[x].of
        <5>1. x - 1 \in 1..M
          BY <2>1, <4>1
        <5>2. u[x - 1] = w[x - 1] /\ u[x - 1].of # u[x].of
          BY <1>0, <1>5, <4>1, <5>1 DEF First
        <5> QED
          BY <3>1, <5>2
      <4> QED
        BY <4>1 DEF First
    <3>3. HasFrame(w, x, fs[k], k) /\ (x + Len(Encode(fs[k])) <= M => w[x + Len(Encode(fs[k]))].of # k)
      BY <1>1, <2>1, <3>2 DEF Row
    <3>4. Len(Encode(fs[k])) \in Nat \ {0}
      BY <3>1, LengthFacts
    <3> HIDE DEF k
    <3>5. PICK f, l : f = fs[k] /\ l = Len(Encode(f))
      OBVIOUS
    <3>6. HasFrame(w, x, f, k) /\ l \in Nat \ {0} /\ (x + l <= M => w[x + l].of # k)
      BY <3>3, <3>4, <3>5
    <3>7. HasFrame(u, x, f, k)
      BY <1>0, <1>2, <3>5, <3>6, HasFrameLonger
    <3>8. ASSUME x + l <= Len(u) PROVE u[x + l].of # k
      <4>1. x + l \in 1..Len(u)
        BY <1>0, <2>1, <3>6, <3>8
      <4>2. CASE x + l \in 1..M
        BY <1>0, <3>6, <4>2
      <4>3. CASE x + l \notin 1..M
        BY <1>4, <3>1, <4>1, <4>3
      <4> QED
        BY <4>2, <4>3
    <3>9. HasFrame(u, x, fs[k], k)
          /\ (x + Len(Encode(fs[k])) <= Len(u) => u[x + Len(Encode(fs[k]))].of # k)
      BY <3>5, <3>7, <3>8
    <3> QED
      BY <3>1, <3>9 DEF Row
  <2>2. CASE x \notin 1..M
    <3>1. x - M \in 1..L /\ u[x].of = n /\ M + (x - M) = x
      BY <1>4, <2>2
    <3>2. x = M + 1
      <4>1. SUFFICES ASSUME x # M + 1 PROVE FALSE
        OBVIOUS
      <4> DEFINE y == x - M - 1
      <4>2. y \in 1..L /\ M + y = x - 1 /\ x # 1
        BY <1>0, <3>1, <4>1
      <4> HIDE DEF y
      <4>3. u[x - 1].of = n
        BY <1>3, <4>2
      <4> QED
        BY <1>5, <3>1, <4>2, <4>3 DEF First
    <3>3. HasFrame(u, x, fs[n], n)
      <4>1. x \in 1..Len(u) /\ x + L - 1 <= Len(u)
        BY <1>0, <3>2
      <4>2. ASSUME NEW y \in 1..L PROVE u[x + y - 1] = Byte(Encode(fs[n])[y], n)
        <5>1. x + y - 1 = M + y
          BY <1>0, <3>2
        <5> QED
          BY <1>3, <5>1
      <4> QED
        BY <4>1, <4>2 DEF HasFrame
    <3>4. x + Len(Encode(fs[n])) > Len(u)
      BY <1>0, <3>2
    <3>5. x + Len(Encode(fs[n])) <= Len(u) => u[x + Len(Encode(fs[n]))].of # n
      BY <1>0, <3>2, <3>4
    <3> QED
      BY <3>1, <3>3, <3>5 DEF Row
  <2> QED
    BY <2>1, <2>2
<1>6. ASSUME NEW x \in 1..Len(u) PROVE u[x].of \in 1..n
  <2>1. 1..hi \subseteq 1..n /\ n \in 1..n
    OBVIOUS
  <2> QED
    BY <1>4, <2>1
<1>7. ASSUME NEW x \in 1..Len(u), NEW y \in 1..Len(u), x < y PROVE u[x].of <= u[y].of
  <2>1. CASE y \in 1..M
    <3>1. x \in 1..M
      BY <1>7, <2>1
    <3> QED
      BY <1>0, <1>1, <1>7, <2>1, <3>1
  <2>2. CASE y \notin 1..M
    <3>1. u[y].of = n /\ u[x].of \in 1..n
      BY <1>4, <1>6, <2>2
    <3> QED
      BY <3>1
  <2> QED
    BY <2>1, <2>2
<1> QED
  BY <1>5, <1>6, <1>7 DEF Rows
-----------------------------------------------------------------------------
(* What is handed on of whole frames.                                      *)

\* It comes from the bytes of m from p on.
FromRow(m, p, fs, f) == \E x \in p..Len(m) : f = Tag(fs[m[x].of], m[x].of) /\ Number(f) = m[x].of

\* The numbers of the packets rise: none comes twice.
Rising(s) == \A i, j \in 1..Len(s) : i < j => Number(s[i]) < Number(s[j])

\* The loop that was at p left nothing, and handed on packets of fs, rising.
Clean(m, p, fs, o) ==
  o.rest = <<>> /\ (\A i \in 1..Len(o.frames) : FromRow(m, p, fs, o.frames[i])) /\ Rising(o.frames)

\* The loop may come to p with n more frames to take.
Enough(m, p, hi, n) == p <= Len(m) => First(m, p) /\ n >= hi + 1 - m[p].of

\* A packet knows its number.
LEMMA NumberOfTag ==
  ASSUME NEW S, NEW f \in Seq(S), f # <<>>, NEW n
  PROVE  Number(Tag(f, n)) = n
<1>1. 1 \in DOMAIN f
  <2>1. DOMAIN f = 1..Len(f) /\ Len(f) \in Nat \ {0}
    OBVIOUS
  <2> QED
    BY <2>1
<1> QED
  BY <1>1 DEF Tag, Byte, Number

\* So it is behind p.
CleanBehind(B, m, p, fs, hi, room, g) ==
  \A q \in 1..(Len(m) + 1) : \A r \in 0..room :
     q > p /\ Enough(m, q, hi, r) => g[<<q, r>>] \in Outcome(B) /\ Clean(m, q, fs, g[<<q, r>>])

\* One turn of the loop hands on the next frame, whole.
LEMMA CleanStep ==
  ASSUME NEW B, Closed(B), NEW m \in Seq(B), NEW room \in Nat, NEW S, Special(S), NEW hi \in Nat,
         NEW fs, Frames(S, fs, hi), Rows(m, fs, hi), NEW p \in 1..(Len(m) + 1), NEW n \in 0..room,
         NEW g, g[<<p, n>>] = LoopAt(m, g, <<p, n>>), Enough(m, p, hi, n),
         CleanBehind(B, m, p, fs, hi, room, g)
  PROVE  g[<<p, n>>] \in Outcome(B) /\ Clean(m, p, fs, g[<<p, n>>])
<1> DEFINE o == g[<<p, n>>]
<1>0. Len(m) \in Nat /\ <<p, n>>[1] = p /\ <<p, n>>[2] = n
  OBVIOUS
<1>1. CASE p > Len(m)
  <2>1. o = [frames |-> <<>>, rest |-> <<>>]
    BY <1>0, <1>1 DEF LoopAt
  <2> HIDE DEF o
  <2>2. o \in Outcome(B) /\ o.rest = <<>> /\ o.frames = <<>>
    BY <2>1 DEF Outcome
  <2>3. 1..Len(o.frames) = {}
    BY <2>2
  <2> QED
    BY <2>2, <2>3 DEF Clean, Rising, o
<1>2. CASE p <= Len(m)
  <2>1. PICK k, f, L, d : k = m[p].of /\ f = fs[k] /\ L = Len(Encode(f)) /\ d = Decode(m, p)
    OBVIOUS
  <2>2. p \in 1..Len(m) /\ First(m, p) /\ n >= hi + 1 - k
    BY <1>0, <1>2, <2>1 DEF Enough
  <2>3. /\ k \in 1..hi /\ Row(m, p, fs)
        /\ \A x, y \in 1..Len(m) : x < y => m[x].of <= m[y].of
        /\ \A x \in 1..Len(m) : m[x].of \in 1..hi
    BY <2>1, <2>2 DEF Rows
  <2>4. HasFrame(m, p, f, k) /\ (p + L <= Len(m) => m[p + L].of # k)
    BY <2>1, <2>3 DEF Row
  <2>5. L \in Nat \ {0} /\ L >= 3 /\ f \in Seq(S) /\ f # <<>>
    BY <2>1, <2>3, LengthFacts DEF Frames
  <2>6. /\ p + L - 1 <= Len(m) /\ m[p + L - 1] = Byte(Encode(f)[L], k)
    <3>1. p + L - 1 <= Len(m) /\ \A x \in 1..L : m[p + x - 1] = Byte(Encode(f)[x], k)
      BY <2>1, <2>4 DEF HasFrame
    <3>2. L \in 1..L
      BY <2>5
    <3> QED
      BY <3>1, <3>2
  <2>7. d.frame = TRUE /\ d.out = Tag(f, k) /\ d.stop = p + L - 1
    <3>1. IsFrame(d, p, f, k)
      BY <2>1, <2>4, <2>5, RoundTrip
    <3> QED
      BY <2>1, <3>1 DEF IsFrame
  <2> DEFINE q == p + L
             h == g[<<q, n - 1>>]
  <2>8. q \in 1..(Len(m) + 1) /\ q > p /\ n - 1 \in 0..room /\ n # 0 /\ d.stop # 0 /\ d.stop + 1 = q
    BY <1>0, <2>2, <2>3, <2>5, <2>6, <2>7
  <2>9. Enough(m, q, hi, n - 1) /\ (q <= Len(m) => m[q].of > k)
    <3>1. ASSUME q <= Len(m) PROVE First(m, q) /\ n - 1 >= hi + 1 - m[q].of /\ m[q].of > k
      <4>1. q \in 1..Len(m) /\ m[q].of # k
        BY <2>4, <2>8, <3>1
      <4>2. m[q - 1].of = k
        <5>1. q - 1 = p + L - 1
          BY <2>5
        <5> QED
          BY <2>6, <5>1 DEF Byte
      <4>3. m[p].of <= m[q].of /\ m[q].of \in 1..hi
        BY <2>2, <2>3, <2>8, <4>1
      <4> HIDE DEF q
      <4>4. m[q].of > k
        <5>1. k \in Int /\ m[q].of \in Int /\ k <= m[q].of
          BY <2>1, <2>3, <4>3
        <5> QED
          BY ONLY <4>1, <5>1
      <4>5. First(m, q)
        BY <4>1, <4>2 DEF First
      <4> DEFINE z == m[q].of
      <4>6. z \in 1..hi /\ z > k
        BY <4>3, <4>4
      <4> HIDE DEF z
      <4>7. n - 1 >= hi + 1 - z
        BY <2>2, <2>3, <4>6
      <4> QED
        BY <4>4, <4>5, <4>7 DEF z
    <3> QED
      BY <3>1 DEF Enough
  <2>10. h \in Outcome(B) /\ Clean(m, q, fs, h)
    BY <2>8, <2>9 DEF CleanBehind
  <2>11. o = [h EXCEPT !.frames = <<d.out>> \o @]
    <3>1. LoopAt(m, g, <<p, n>>) = [g[<<d.stop + 1, n - 1>>] EXCEPT !.frames = <<d.out>> \o @]
      <4>1. ~(p > Len(m)) /\ ~(d.stop = 0 \/ (d.frame /\ n = 0)) /\ d.frame
        BY <1>0, <1>2, <2>7, <2>8
      <4> QED
        BY <1>0, <2>1, <4>1 DEF LoopAt
    <3> QED
      BY <2>8, <3>1
  <2>12. d.out \in Seq(B)
    <3>1. p \in 1..(Len(m) + 1)
      OBVIOUS
    <3> QED
      BY <2>1, <3>1, DecodeFacts
  <2> HIDE DEF o, h, q
  <2>13. h.frames \in Seq(Seq(B)) /\ h.rest = <<>> /\ h.rest \in Seq(B) /\ Rising(h.frames)
         /\ \A i \in 1..Len(h.frames) : FromRow(m, q, fs, h.frames[i])
    BY <2>10 DEF Outcome, Clean
  <2>14. o = [frames |-> <<d.out>> \o h.frames, rest |-> h.rest]
    BY <2>10, <2>11 DEF Outcome
  <2> DEFINE fr == <<d.out>> \o h.frames
  <2>15. /\ fr \in Seq(Seq(B)) /\ Len(fr) = 1 + Len(h.frames) /\ Len(h.frames) \in Nat
         /\ fr[1] = d.out /\ \A i \in 1..Len(h.frames) : fr[1 + i] = h.frames[i]
    BY <2>12, <2>13, Prepended
  <2>16. o \in Outcome(B) /\ o.rest = <<>> /\ o.frames = fr
    BY <2>13, <2>14, <2>15 DEF Outcome
  <2> HIDE DEF fr
  <2>17. Number(d.out) = k
    BY <2>5, <2>7, NumberOfTag
  <2>18. ASSUME NEW i \in 1..Len(fr)
         PROVE  \/ i = 1 /\ fr[i] = d.out
                \/ i - 1 \in 1..Len(h.frames) /\ fr[i] = h.frames[i - 1]
    <3>1. CASE i = 1
      BY <2>15, <3>1
    <3>2. CASE i # 1
      <4> DEFINE j == i - 1
      <4>1. j \in 1..Len(h.frames) /\ 1 + j = i
        <5> DEFINE l == Len(h.frames)
        <5>1. l \in Nat /\ i \in 1..(1 + l)
          BY <2>15
        <5> HIDE DEF l
        <5>2. j \in 1..l /\ 1 + j = i
          BY <3>2, <5>1
        <5> QED
          BY <5>2 DEF l
      <4> HIDE DEF j
      <4>2. fr[1 + j] = h.frames[j]
        BY <2>15, <4>1
      <4>3. fr[i] = h.frames[j]
        BY <4>1, <4>2
      <4> QED
        BY <4>1, <4>3 DEF j
    <3> QED
      BY <3>1, <3>2
  <2>19. ASSUME NEW j \in 1..Len(h.frames)
         PROVE  FromRow(m, p, fs, h.frames[j]) /\ Number(h.frames[j]) > k /\ Number(h.frames[j]) \in 1..hi
    <3>1. PICK x \in q..Len(m) : /\ h.frames[j] = Tag(fs[m[x].of], m[x].of)
                                 /\ Number(h.frames[j]) = m[x].of
      BY <2>13 DEF FromRow
    <3>2. x \in p..Len(m) /\ q \in 1..Len(m) /\ x \in 1..Len(m)
      BY <2>8
    <3>3. m[x].of >= m[q].of /\ m[q].of > k /\ m[x].of \in 1..hi /\ m[q].of \in 1..hi
      <4>1. CASE x = q
        BY <2>3, <2>9, <3>2, <4>1
      <4>2. CASE x > q
        BY <2>3, <2>9, <3>2, <4>2
      <4> QED
        BY <2>8, <4>1, <4>2
    <3> DEFINE a == m[x].of
               b == m[q].of
    <3>4. a >= b /\ b > k /\ a \in 1..hi /\ b \in 1..hi /\ k \in 1..hi
      BY <2>3, <3>3
    <3> HIDE DEF a, b
    <3>5. a > k
      BY <3>4
    <3>6. FromRow(m, p, fs, h.frames[j])
      BY <3>1, <3>2 DEF FromRow
    <3> QED
      BY <3>1, <3>4, <3>5, <3>6 DEF a
  <2>20. FromRow(m, p, fs, d.out)
    <3>1. p \in p..Len(m)
      BY <1>0, <1>2
    <3>2. d.out = Tag(fs[m[p].of], m[p].of) /\ Number(d.out) = m[p].of
      BY <2>1, <2>7, <2>17
    <3> QED
      BY <3>1, <3>2 DEF FromRow
  <2>21. ASSUME NEW i \in 1..Len(fr) PROVE FromRow(m, p, fs, fr[i])
    BY <2>18, <2>19, <2>20
  <2>22. ASSUME NEW i \in 1..Len(fr), NEW j \in 1..Len(fr), i < j
         PROVE  Number(fr[i]) < Number(fr[j])
    <3>1. j - 1 \in 1..Len(h.frames) /\ fr[j] = h.frames[j - 1]
      <4>1. j # 1
        BY <2>22
      <4> QED
        BY <2>18, <4>1
    <3>2. CASE i = 1
      <4>1. Number(fr[i]) = k /\ k \in 1..hi
        BY <2>3, <2>15, <2>17, <3>2
      <4>2. Number(h.frames[j - 1]) > k /\ Number(h.frames[j - 1]) \in 1..hi
        BY <2>19, <3>1
      <4> DEFINE z == Number(h.frames[j - 1])
      <4>3. z > k /\ z \in 1..hi /\ Number(fr[j]) = z
        BY <3>1, <4>2
      <4> HIDE DEF z
      <4> QED
        BY <4>1, <4>3
    <3>3. CASE i # 1
      <4>1. i - 1 \in 1..Len(h.frames) /\ fr[i] = h.frames[i - 1]
        BY <2>18, <3>3
      <4>2. i - 1 < j - 1
        BY <2>22
      <4>3. Number(h.frames[i - 1]) < Number(h.frames[j - 1])
        BY <2>13, <3>1, <4>1, <4>2 DEF Rising
      <4> QED
        BY <3>1, <4>1, <4>3
    <3> QED
      BY <3>2, <3>3
  <2>23. Clean(m, p, fs, o)
    BY <2>16, <2>21, <2>22 DEF Clean, Rising
  <2> QED
    BY <2>16, <2>23 DEF o
<1> QED
  BY <1>0, <1>1, <1>2

\* Everything is handed on, in order.
LEMMA RowsDispatched ==
  ASSUME NEW B, Closed(B), NEW m \in Seq(B), NEW room \in Nat, NEW S, Special(S), NEW hi \in Nat,
         NEW fs, Frames(S, fs, hi), Rows(m, fs, hi), hi <= room, NEW o, o = Dispatch(m, room)
  PROVE  Clean(m, 1, fs, o)
<1>0. Len(m) \in Nat
  OBVIOUS
<1>1. PICK g : /\ \A at \in Ats(m, room) : g[at] = LoopAt(m, g, at)
               /\ Dispatch(m, room) = g[<<1, room>>]
  BY DispatchIs
<1> DEFINE Right(q) == \A r \in 0..room : Enough(m, q, hi, r) =>
                          g[<<q, r>>] \in Outcome(B) /\ Clean(m, q, fs, g[<<q, r>>])
           T == {q \in 1..(Len(m) + 1) : Right(q)}
<1>2. ASSUME NEW p \in 1..(Len(m) + 1), \A q \in 1..(Len(m) + 1) : q > p => q \in T
      PROVE  p \in T
  <2>1. ASSUME NEW n \in 0..room, Enough(m, p, hi, n)
        PROVE  g[<<p, n>>] \in Outcome(B) /\ Clean(m, p, fs, g[<<p, n>>])
    <3>1. <<p, n>> \in Ats(m, room)
      BY DEF Ats
    <3>2. g[<<p, n>>] = LoopAt(m, g, <<p, n>>)
      BY <1>1, <3>1
    <3>3. CleanBehind(B, m, p, fs, hi, room, g)
      BY <1>2 DEF CleanBehind
    <3> QED
      BY <2>1, <3>2, <3>3, CleanStep
  <2> QED
    BY <2>1
<1>3. \A p \in 1..(Len(m) + 1) : p \in T
  <2> HIDE DEF T
  <2> QED
    BY <1>0, <1>2, Downward
<1>4. Enough(m, 1, hi, room)
  <2>1. ASSUME 1 <= Len(m) PROVE First(m, 1) /\ room >= hi + 1 - m[1].of
    <3>1. 1 \in 1..Len(m)
      BY <1>0, <2>1
    <3>2. m[1].of \in 1..hi
      BY <3>1 DEF Rows
    <3> DEFINE z == m[1].of
    <3>3. z \in 1..hi
      BY <3>2
    <3> HIDE DEF z
    <3>4. room >= hi + 1 - z
      BY <3>3
    <3> QED
      BY <3>4 DEF First, z
  <2> QED
    BY <2>1 DEF Enough
<1>5. Right(1)
  BY <1>0, <1>3
<1>6. room \in 0..room
  OBVIOUS
<1>7. Clean(m, 1, fs, g[<<1, room>>])
  BY <1>4, <1>5, <1>6
<1> QED
  BY <1>1, <1>7
-----------------------------------------------------------------------------
(* A calm line hands on only what was sent.                                *)

\* The packets ib are some of fs, up to number hi at most, in their order.
Past(ib, fs, hi) ==
  /\ \A i \in 1..Len(ib) : Number(ib[i]) \in 1..hi /\ ib[i] = Tag(fs[Number(ib[i])], Number(ib[i]))
  /\ Rising(ib)

\* They come before all bytes of w.
Before(ib, w) == \A i \in 1..Len(ib), x \in 1..Len(w) : Number(ib[i]) < w[x].of

\* What a calm line is like, and the invariant.
Calmed == rxBuf = <<>> /\ Rows(wire, sent, next - 1) /\ Past(inbox, sent, next - 1)
          /\ Before(inbox, wire)

CInv == TInv /\ (Calm => Calmed)

\* The packets that were sent are such.
LEMMA SomeFrames ==
  ASSUME TInv
  PROVE  Frames(Syms, sent, next - 1) /\ next - 1 \in Nat /\ next - 1 <= MaxFrames /\ Special(Syms)
<1>1. next \in 1..(Len(sent) + 1) /\ Len(sent) \in Nat /\ \A n \in 1..(next - 1) : n \in 1..Len(sent)
  BY Underway
<1>2. Frames(Syms, sent, next - 1)
  BY <1>1, SentFacts DEF Frames
<1>3. line \in DOMAIN Lines /\ Len(sent) <= MaxFrames /\ MaxFrames \in Nat
  BY LinesAssumption DEF TInv, TypeOK
<1> QED
  BY <1>1, <1>2, <1>3, BytesFacts

\* More packets change nothing about those that were handed on.
LEMMA PastSame ==
  ASSUME NEW hi \in Nat, NEW ho \in Nat, hi <= ho, NEW ib, NEW fs, NEW gs,
         \A n \in 1..hi : gs[n] = fs[n], Past(ib, fs, hi)
  PROVE  Past(ib, gs, ho)
<1>1. ASSUME NEW i \in 1..Len(ib)
      PROVE  Number(ib[i]) \in 1..ho /\ ib[i] = Tag(gs[Number(ib[i])], Number(ib[i]))
  <2>1. Number(ib[i]) \in 1..hi /\ ib[i] = Tag(fs[Number(ib[i])], Number(ib[i]))
    BY DEF Past
  <2>2. gs[Number(ib[i])] = fs[Number(ib[i])] /\ Number(ib[i]) \in 1..ho
    BY <2>1
  <2> QED
    BY <2>1, <2>2
<1> QED
  BY <1>1 DEF Past

\* Steps that leave the bytes and the packets where they are.
LEMMA CalmedSame ==
  ASSUME TInv, Calmed, next' \in {next, next + 1}, rxBuf' = rxBuf, wire' = wire, inbox' = inbox,
         \A n \in 1..(next - 1) : sent'[n] = sent[n]
  PROVE  Calmed'
<1> DEFINE hi == next - 1
           ho == next' - 1
<1>1. hi \in Nat /\ ho \in Nat /\ hi <= ho
  <2>1. next \in 1..(Len(sent) + 1) /\ Len(sent) \in Nat
    BY Underway
  <2>2. CASE next' = next
    BY <2>1, <2>2
  <2>3. CASE next' = next + 1
    BY <2>1, <2>3
  <2> QED
    BY <2>2, <2>3
<1>2. Len(wire) \in Nat
  BY Underway
<1>3. Rows(wire, sent, hi) /\ Past(inbox, sent, hi) /\ \A n \in 1..hi : sent'[n] = sent[n]
  BY DEF Calmed
<1> HIDE DEF hi, ho
<1>4. Rows(wire, sent', ho)
  BY <1>1, <1>2, <1>3, RowsSame
<1>5. Past(inbox, sent', ho)
  BY <1>1, <1>3, PastSame
<1> QED
  BY <1>4, <1>5 DEF Calmed, ho

\* Nothing was sent.
LEMMA InitCalmed == Init => CInv
<1> SUFFICES ASSUME Init PROVE CInv
  OBVIOUS
<1>1. TInv
  BY InitTypes
<1>2. wire = <<>> /\ rxBuf = <<>> /\ inbox = <<>>
  BY DEF Init
<1>3. 1..Len(<<>>) = {}
  OBVIOUS
<1>4. Calmed
  BY <1>2, <1>3 DEF Calmed, Rows, Past, Rising, Before
<1> QED
  BY <1>1, <1>4 DEF CInv

\* The steps of a calm line, one by one.
LEMMA SendWholeCalmed ==
  ASSUME TInv, Calmed, SendWhole
  PROVE  Calmed'
<1>1. PICK e, f, hi : e = Encoded(next) /\ f = sent[next] /\ hi = next - 1
  OBVIOUS
<1>2. /\ next' = next + 1 /\ wire' = wire \o e /\ rxBuf' = rxBuf /\ inbox' = inbox /\ sent' = sent
      /\ next <= Len(sent)
  BY <1>1 DEF SendWhole, Ready
<1>3. /\ f \in Seq(Syms) /\ f # <<>> /\ e \in Seq(Bytes) /\ Len(e) = Len(Encode(f))
      /\ \A x \in 1..Len(e) : e[x] = Byte(Encode(f)[x], next)
  BY <1>1, <1>2, EncodedFacts
<1>4. /\ Frames(Syms, sent, hi) /\ hi \in Nat /\ next = hi + 1 /\ Special(Syms) /\ wire \in Seq(Bytes)
      /\ next \in Nat /\ Len(wire) \in Nat
  <2>1. next \in 1..(Len(sent) + 1) /\ Len(sent) \in Nat /\ wire \in Seq(Bytes)
    BY Underway
  <2> QED
    BY <1>1, <2>1, SomeFrames
<1>5. Rows(wire, sent, hi) /\ Past(inbox, sent, hi) /\ Before(inbox, wire) /\ rxBuf = <<>>
  BY <1>1 DEF Calmed
<1>6. PICK u : u = wire \o e
  OBVIOUS
<1>7. Rows(u, sent, next)
  BY <1>1, <1>3, <1>4, <1>5, <1>6, RowsAdded
<1>8. Past(inbox, sent, next)
  BY <1>4, <1>5, PastSame
<1>9. Before(inbox, u)
  <2>1. SUFFICES ASSUME NEW i \in 1..Len(inbox), NEW x \in 1..Len(u)
                 PROVE  Number(inbox[i]) < u[x].of
    BY DEF Before
  <2>2. /\ Len(u) = Len(wire) + Len(e) /\ Len(e) \in Nat
        /\ \A y \in 1..Len(wire) : u[y] = wire[y]
        /\ \A y \in 1..Len(e) : u[Len(wire) + y] = e[y]
    <3>1. wire \in Seq(Bytes) /\ e \in Seq(Bytes)
      BY <1>3, <1>4
    <3> QED
      BY ONLY <1>6, <3>1, ConcatFacts
  <2>3. CASE x <= Len(wire)
    <3>1. x \in 1..Len(wire)
      BY <1>4, <2>2, <2>3
    <3>2. u[x] = wire[x] /\ Number(inbox[i]) < wire[x].of
      BY <1>5, <2>2, <3>1 DEF Before
    <3> QED
      BY <3>2
  <2>4. CASE x > Len(wire)
    <3> DEFINE y == x - Len(wire)
    <3>1. y \in 1..Len(e) /\ Len(wire) + y = x
      BY <1>4, <2>2, <2>4
    <3> HIDE DEF y
    <3>2. u[x] = Byte(Encode(f)[y], next)
      BY <1>3, <2>2, <3>1
    <3>3. u[x].of = next
      BY <3>2 DEF Byte
    <3>4. Number(inbox[i]) \in 1..hi
      BY <1>5 DEF Past
    <3> QED
      BY <1>4, <3>3, <3>4
  <2> QED
    BY <1>4, <2>2, <2>3, <2>4
<1>10. next' - 1 = next
  BY <1>2, <1>4
<1> QED
  BY <1>2, <1>5, <1>6, <1>7, <1>8, <1>9, <1>10 DEF Calmed

LEMMA BreakCalmed ==
  ASSUME TInv, Calm, Calmed, NEW k \in 0..Len(wire), Break(k)
  PROVE  Calmed'
<1>1. PICK t, hi : t = SubSeq(wire, 1, k) /\ hi = next - 1
  OBVIOUS
<1>2. /\ next' = next /\ wire' = t /\ rxBuf' = rxBuf /\ inbox' = inbox /\ sent' = sent
      /\ k > 0 => EndsFrame(k)
  BY <1>1 DEF Break, Calm
<1>3. /\ Frames(Syms, sent, hi) /\ hi \in Nat /\ Special(Syms) /\ wire \in Seq(Bytes)
      /\ Len(wire) \in Nat /\ k \in Nat /\ k <= Len(wire)
  BY <1>1, SomeFrames, Underway
<1>4. Rows(wire, sent, hi) /\ Past(inbox, sent, hi) /\ Before(inbox, wire) /\ rxBuf = <<>>
  BY <1>1 DEF Calmed
<1>5. t \in Seq(Bytes) /\ Len(t) = k /\ \A x \in 1..k : t[x] = wire[x]
  <2>1. t \in Seq(Bytes) /\ Len(t) = k - 1 + 1 /\ \A x \in 1..(k - 1 + 1) : t[x] = wire[1 + x - 1]
    <3>1. 1 <= k + 1
      BY <1>3
    <3> QED
      BY <1>1, <1>3, <3>1, PartFacts
  <2>2. k - 1 + 1 = k /\ \A x \in 1..k : 1 + x - 1 = x
    BY <1>3
  <2> QED
    BY <2>1, <2>2
<1>6. Begins(t, wire)
  BY <1>3, <1>5 DEF Begins
<1>7. k > 0 /\ k < Len(wire) => wire[k + 1].of # wire[k].of
  BY <1>2 DEF EndsFrame
<1>8. Rows(t, sent, hi)
  BY <1>3, <1>4, <1>5, <1>6, <1>7, RowsBegin
<1>9. Before(inbox, t)
  <2>1. SUFFICES ASSUME NEW i \in 1..Len(inbox), NEW x \in 1..Len(t)
                 PROVE  Number(inbox[i]) < t[x].of
    BY DEF Before
  <2>2. x \in 1..Len(wire) /\ t[x] = wire[x]
    BY <1>3, <1>5
  <2>3. Number(inbox[i]) < wire[x].of
    BY <1>4, <2>2 DEF Before
  <2> QED
    BY <2>2, <2>3
<1> QED
  BY <1>1, <1>2, <1>4, <1>8, <1>9 DEF Calmed

LEMMA ReceiveEndCalmed ==
  ASSUME TInv, Calmed, ReceiveEnd
  PROVE  Calmed'
<1>1. next' = next /\ wire' = <<>> /\ rxBuf' = rxBuf /\ inbox' = inbox /\ sent' = sent
  BY DEF ReceiveEnd
<1>2. 1..Len(<<>>) = {}
  OBVIOUS
<1>3. Rows(<<>>, sent, next - 1) /\ Before(inbox, <<>>)
  BY <1>2 DEF Rows, Before
<1> QED
  BY <1>1, <1>3 DEF Calmed

\* The packets that were handed on come behind those that were there.
LEMMA PastReceived ==
  ASSUME NEW B, NEW ib \in Seq(B), NEW fr \in Seq(B), NEW hi \in Nat, NEW fs, Past(ib, fs, hi),
         NEW m, \A x \in 1..Len(m) : m[x].of \in 1..hi, Before(ib, m),
         Rising(fr), \A i \in 1..Len(fr) : FromRow(m, 1, fs, fr[i]), NEW s, s = ib \o fr
  PROVE  Past(s, fs, hi)
<1>1. /\ Len(s) = Len(ib) + Len(fr) /\ Len(ib) \in Nat /\ Len(fr) \in Nat
      /\ \A i \in 1..Len(ib) : s[i] = ib[i]
      /\ \A i \in 1..Len(fr) : s[Len(ib) + i] = fr[i]
  <2>1. ib \in Seq(B) /\ fr \in Seq(B) /\ s = ib \o fr
    OBVIOUS
  <2> QED
    BY ONLY <2>1, ConcatFacts
<1>2. ASSUME NEW i \in 1..Len(s)
      PROVE  \/ i \in 1..Len(ib) /\ s[i] = ib[i]
             \/ i - Len(ib) \in 1..Len(fr) /\ s[i] = fr[i - Len(ib)]
  <2>1. CASE i <= Len(ib)
    <3>1. i \in 1..Len(ib)
      BY <1>1, <2>1
    <3> QED
      BY <1>1, <3>1
  <2>2. CASE i > Len(ib)
    <3> DEFINE y == i - Len(ib)
    <3>1. y \in 1..Len(fr) /\ Len(ib) + y = i
      BY <1>1, <2>2
    <3> HIDE DEF y
    <3>2. s[Len(ib) + y] = fr[y]
      BY <1>1, <3>1
    <3>3. s[i] = fr[y]
      BY <3>1, <3>2
    <3> QED
      BY <3>1, <3>3 DEF y
  <2> QED
    BY <1>1, <2>1, <2>2
<1>3. ASSUME NEW i \in 1..Len(fr)
      PROVE  \E x \in 1..Len(m) : fr[i] = Tag(fs[m[x].of], m[x].of) /\ Number(fr[i]) = m[x].of
  BY DEF FromRow
<1>4. ASSUME NEW i \in 1..Len(s)
      PROVE  Number(s[i]) \in 1..hi /\ s[i] = Tag(fs[Number(s[i])], Number(s[i]))
  <2>1. CASE i \in 1..Len(ib) /\ s[i] = ib[i]
    <3>1. Number(ib[i]) \in 1..hi /\ ib[i] = Tag(fs[Number(ib[i])], Number(ib[i]))
      BY <2>1 DEF Past
    <3> QED
      BY <2>1, <3>1
  <2>2. CASE i - Len(ib) \in 1..Len(fr) /\ s[i] = fr[i - Len(ib)]
    <3>1. PICK x \in 1..Len(m) : s[i] = Tag(fs[m[x].of], m[x].of) /\ Number(s[i]) = m[x].of
      BY <1>3, <2>2
    <3> QED
      BY <3>1
  <2> QED
    BY <1>2, <2>1, <2>2
<1>5. ASSUME NEW i \in 1..Len(s), NEW j \in 1..Len(s), i < j PROVE Number(s[i]) < Number(s[j])
  <2>1. CASE i \in 1..Len(ib) /\ s[i] = ib[i] /\ j \in 1..Len(ib) /\ s[j] = ib[j]
    <3>1. Number(ib[i]) < Number(ib[j])
      BY <1>5, <2>1 DEF Past, Rising
    <3> QED
      BY <2>1, <3>1
  <2>2. CASE i \in 1..Len(ib) /\ s[i] = ib[i] /\ j - Len(ib) \in 1..Len(fr) /\ s[j] = fr[j - Len(ib)]
    <3>1. PICK x \in 1..Len(m) : Number(s[j]) = m[x].of
      BY <1>3, <2>2
    <3>2. Number(ib[i]) < m[x].of
      BY <2>2 DEF Before
    <3> QED
      BY <2>2, <3>1, <3>2
  <2>3. CASE i - Len(ib) \in 1..Len(fr) /\ s[i] = fr[i - Len(ib)]
             /\ j - Len(ib) \in 1..Len(fr) /\ s[j] = fr[j - Len(ib)]
    <3>1. i - Len(ib) < j - Len(ib)
      BY <1>1, <1>5
    <3>2. Number(fr[i - Len(ib)]) < Number(fr[j - Len(ib)])
      BY <2>3, <3>1 DEF Rising
    <3> QED
      BY <2>3, <3>2
  <2>4. CASE i - Len(ib) \in 1..Len(fr) /\ j \in 1..Len(ib)
    BY <1>1, <1>5, <2>4
  <2> QED
    BY <1>2, <2>1, <2>2, <2>3, <2>4
<1> QED
  BY <1>4, <1>5 DEF Past, Rising

LEMMA ReceiveCalmed ==
  ASSUME TInv, Calm, Calmed, NEW k \in 1..its.rx, NEW room \in Rooms, Receive(k, room)
  PROVE  Calmed'
<1>1. PICK m, w, o, hi : /\ m = rxBuf \o SubSeq(wire, 1, k) /\ w = SubSeq(wire, k + 1, Len(wire))
                         /\ o = Dispatch(m, room) /\ hi = next - 1
  OBVIOUS
<1>2. /\ m = rxBuf \o SubSeq(wire, 1, k) /\ w = SubSeq(wire, k + 1, Len(wire)) /\ o = Dispatch(m, room)
      /\ hi = next - 1
  BY <1>1
<1>3. /\ m \in Seq(Bytes) /\ w \in Seq(Bytes) /\ room \in Nat /\ k \in 1..Len(wire)
      /\ Len(m) \in Nat /\ Len(w) \in Nat /\ Divided(k, m, w) /\ Received(k, m, w, o)
  BY <1>2, ReceiveFacts
<1>4. /\ inbox' = inbox \o o.frames /\ rxBuf' = o.rest /\ wire' = w
      /\ sent' = sent /\ next' = next /\ EndsFrame(k)
  BY <1>3 DEF Received, Calm
<1>5. rxBuf = <<>> /\ Rows(wire, sent, hi) /\ Past(inbox, sent, hi) /\ Before(inbox, wire)
  BY <1>2 DEF Calmed
<1>6. /\ Closed(Bytes) /\ wire \in Seq(Bytes) /\ Len(wire) \in Nat /\ Special(Syms)
      /\ Frames(Syms, sent, hi) /\ hi \in Nat /\ hi <= MaxFrames /\ k \in Nat /\ k <= Len(wire)
  BY <1>2, <1>3, Underway, SomeFrames
<1>7. /\ Len(m) = k /\ Len(w) = Len(wire) - k
      /\ \A i \in 1..k : m[i] = wire[i]
      /\ \A i \in 1..Len(w) : w[i] = wire[k + i]
  <2>1. Len(rxBuf) = 0
    BY <1>5
  <2>2. /\ Len(m) = Len(rxBuf) + k /\ Len(w) = Len(wire) - k
        /\ \A i \in 1..k : m[Len(rxBuf) + i] = wire[i]
        /\ \A i \in 1..Len(w) : w[i] = wire[k + i]
    BY <1>3 DEF Divided
  <2>3. 0 + k = k /\ \A i \in 1..k : 0 + i = i
    BY <1>6
  <2> QED
    BY <2>1, <2>2, <2>3
<1>8. k > 0 /\ k < Len(wire) => wire[k + 1].of # wire[k].of
  BY <1>4 DEF EndsFrame
<1>9. Rows(m, sent, hi)
  <2>1. Begins(m, wire)
    BY <1>6, <1>7 DEF Begins
  <2> QED
    BY <1>3, <1>5, <1>6, <1>7, <1>8, <2>1, RowsBegin
<1>10. Rows(w, sent, hi)
  BY <1>3, <1>5, <1>6, <1>7, <1>8, RowsEnd
<1>11. room = 2 * MaxFrames /\ hi <= room
  <2>1. MaxFrames \in Nat
    BY LinesAssumption
  <2>2. room = 2 * MaxFrames
    BY DEF Rooms, Calm
  <2> QED
    BY <1>6, <2>1, <2>2
<1>12. Clean(m, 1, sent, o)
  BY <1>2, <1>3, <1>6, <1>9, <1>11, RowsDispatched
<1>13. o.frames \in Seq(Seq(Bytes)) /\ inbox \in Seq(Seq(Bytes))
  <2>1. inbox \in Seq(Seq(Bytes))
    BY DEF TInv, TypeOK
  <2> QED
    BY <1>2, <1>3, <1>6, <2>1, DispatchFacts
<1>14. /\ o.rest = <<>> /\ Rising(o.frames)
       /\ \A i \in 1..Len(o.frames) : FromRow(m, 1, sent, o.frames[i])
  BY <1>12 DEF Clean
<1>15. PICK s, fr : fr = o.frames /\ s = inbox \o fr
  OBVIOUS
<1>16. Past(s, sent, hi)
  <2>1. \A x \in 1..Len(m) : m[x].of \in 1..hi
    BY <1>9 DEF Rows
  <2>2. Before(inbox, m)
    BY <1>5, <1>6, <1>7 DEF Before
  <2>3. /\ fr \in Seq(Seq(Bytes)) /\ inbox \in Seq(Seq(Bytes)) /\ Rising(fr)
        /\ \A i \in 1..Len(fr) : FromRow(m, 1, sent, fr[i])
    BY <1>13, <1>14, <1>15
  <2> QED
    BY <1>5, <1>6, <1>15, <2>1, <2>2, <2>3, PastReceived
<1>17. Before(s, w)
  <2>1. SUFFICES ASSUME NEW i \in 1..Len(s), NEW y \in 1..Len(w) PROVE Number(s[i]) < w[y].of
    BY DEF Before
  <2>2. k + y \in 1..Len(wire) /\ w[y] = wire[k + y] /\ k + 1 \in 1..Len(wire) /\ k < Len(wire)
    BY <1>6, <1>7
  <2>3. /\ Len(s) = Len(inbox) + Len(fr) /\ Len(inbox) \in Nat /\ Len(fr) \in Nat
        /\ \A j \in 1..Len(inbox) : s[j] = inbox[j]
        /\ \A j \in 1..Len(fr) : s[Len(inbox) + j] = fr[j]
    <3>1. inbox \in Seq(Seq(Bytes)) /\ fr \in Seq(Seq(Bytes)) /\ s = inbox \o fr
      BY <1>13, <1>15
    <3> QED
      BY ONLY <3>1, ConcatFacts
  <2>4. CASE i <= Len(inbox)
    <3>1. i \in 1..Len(inbox)
      BY <2>3, <2>4
    <3>2. s[i] = inbox[i] /\ Number(inbox[i]) < wire[k + y].of
      BY <1>5, <2>2, <2>3, <3>1 DEF Before
    <3> QED
      BY <2>2, <3>2
  <2>5. CASE i > Len(inbox)
    <3> DEFINE j == i - Len(inbox)
    <3>1. j \in 1..Len(fr) /\ Len(inbox) + j = i
      BY <2>3, <2>5
    <3> HIDE DEF j
    <3>2. s[i] = fr[j] /\ FromRow(m, 1, sent, fr[j])
      BY <1>14, <1>15, <2>3, <3>1
    <3>3. PICK x \in 1..Len(m) : Number(fr[j]) = m[x].of
      BY <3>2 DEF FromRow
    <3>4. x \in 1..k /\ m[x] = wire[x] /\ x \in 1..Len(wire) /\ k \in 1..Len(wire)
      <4>1. x \in 1..k
        BY <1>7
      <4>2. x \in 1..Len(wire)
        BY <1>6, <4>1
      <4> QED
        BY <1>3, <1>7, <4>1, <4>2
    <3>5. /\ \A a \in 1..Len(wire) : wire[a].of \in 1..hi
          /\ \A a, b \in 1..Len(wire) : a < b => wire[a].of <= wire[b].of
      BY <1>5 DEF Rows
    <3>6. wire[x].of <= wire[k].of
      <4>1. CASE x = k
        BY <3>4, <3>5, <4>1
      <4>2. CASE x < k
        BY <3>4, <3>5, <4>2
      <4> QED
        BY <1>6, <3>4, <4>1, <4>2
    <3>7. wire[k].of < wire[k + 1].of
      <4>1. wire[k].of <= wire[k + 1].of
        BY <1>6, <2>2, <3>4, <3>5
      <4>2. wire[k].of \in 1..hi /\ wire[k + 1].of \in 1..hi
        BY <2>2, <3>4, <3>5
      <4>3. wire[k].of # wire[k + 1].of
        BY <1>3, <1>8, <2>2
      <4> QED
        BY <4>1, <4>2, <4>3
    <3>8. wire[k + 1].of <= wire[k + y].of
      <4>1. CASE y = 1
        BY <2>2, <3>5, <4>1
      <4>2. CASE y # 1
        <5>1. k + 1 < k + y
          BY <1>6, <4>2
        <5> QED
          BY <2>2, <3>5, <5>1
      <4> QED
        BY <4>1, <4>2
    <3> DEFINE a == wire[x].of
               b == wire[k].of
               c == wire[k + 1].of
               d == wire[k + y].of
    <3>9. a \in 1..hi /\ b \in 1..hi /\ c \in 1..hi /\ d \in 1..hi
      BY <2>2, <3>4, <3>5
    <3>10. a <= b /\ b < c /\ c <= d
      BY <3>6, <3>7, <3>8
    <3> HIDE DEF a, b, c, d
    <3>11. a < d
      BY <3>9, <3>10
    <3>12. Number(s[i]) = a /\ w[y].of = d
      BY <2>2, <3>2, <3>3, <3>4 DEF a, d
    <3> QED
      BY <3>11, <3>12
  <2> QED
    BY <2>3, <2>4, <2>5
<1> QED
  BY <1>2, <1>4, <1>10, <1>14, <1>15, <1>16, <1>17 DEF Calmed

\* All of them together.
LEMMA StepCalmed == CInv /\ [Next]_vars => CInv'
<1> SUFFICES ASSUME CInv, [Next]_vars PROVE CInv'
  OBVIOUS
<1>1. TInv /\ TInv'
  BY StepTypes DEF CInv
<1>2. line' = line
  BY Steps DEF vars, HandOver, Sends, SendNothing, SendWhole, SendPart, Receive, ReceiveEnd,
     Reconnect, Break
<1>3. Calm' => Calm
  BY <1>2 DEF Calm, its
<1>4. SUFFICES ASSUME Calm, Calmed PROVE Calmed'
  BY <1>1, <1>3 DEF CInv
<1>5. CASE UNCHANGED vars
  BY <1>1, <1>4, <1>5, CalmedSame DEF vars
<1>6. CASE Next
  <2>1. ASSUME NEW f \in its.frames, HandOver(f) PROVE Calmed'
    <3>1. \A n \in 1..(next - 1) : sent'[n] = sent[n]
      <4>1. /\ sent \in Seq(its.frames) /\ sent' = Append(sent, f)
            /\ \A n \in 1..(next - 1) : n \in 1..Len(sent)
        BY <1>1, <2>1, Underway DEF HandOver
      <4> QED
        BY <4>1, AppendProperties
    <3> QED
      BY <1>1, <1>4, <2>1, <3>1, CalmedSame DEF HandOver
  <2>2. ASSUME Sends PROVE Calmed'
    <3>1. CASE SendNothing
      BY <1>1, <1>4, <3>1, CalmedSame DEF SendNothing
    <3>2. CASE SendWhole
      BY <1>1, <1>4, <3>2, SendWholeCalmed
    <3>3. \A k \in 1..its.tx : ~SendPart(k)
      BY <1>4 DEF SendPart, Calm
    <3> QED
      BY <2>2, <3>1, <3>2, <3>3 DEF Sends
  <2>3. ASSUME Reconnect PROVE Calmed'
    BY <1>1, <1>4, <2>3, CalmedSame DEF Reconnect
  <2> QED
    BY <1>1, <1>4, <1>6, <2>1, <2>2, <2>3, Steps, ReceiveCalmed, ReceiveEndCalmed, BreakCalmed
<1> QED
  BY <1>5, <1>6

\* On a calm line what arrives is what was sent, whole, in order and once,
\* whatever bytes it is made of and however often the connection breaks.
THEOREM OnlySentSafe == Spec => []OnlySent
<1>1. Init => CInv
  BY InitCalmed
<1>2. CInv /\ [Next]_vars => CInv'
  BY StepCalmed
<1>3. CInv => OnlySent
  <2>1. SUFFICES ASSUME CInv, Calm
                 PROVE  /\ \A i \in DOMAIN inbox :
                             inbox[i] = Tag(sent[Number(inbox[i])], Number(inbox[i]))
                        /\ \A i, j \in DOMAIN inbox : i < j => Number(inbox[i]) < Number(inbox[j])
    BY DEF OnlySent, Tag
  <2>2. Past(inbox, sent, next - 1)
    BY <2>1 DEF CInv, Calmed
  <2>3. DOMAIN inbox = 1..Len(inbox)
    <3>1. inbox \in Seq(Seq(Bytes))
      BY <2>1 DEF CInv, TInv, TypeOK
    <3> QED
      BY <3>1
  <2> QED
    BY <2>2, <2>3 DEF Past, Rising
<1> QED
  BY <1>1, <1>2, <1>3, PTL DEF Spec
=============================================================================
