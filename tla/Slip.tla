-------------------------------- MODULE Slip --------------------------------
(***************************************************************************)
(* SLIP framing, as lv2_osc_slip_encode_inline and                         *)
(* lv2_osc_slip_decode_inline of osc.lv2/osc.lv2/stream.h do it: a frame   *)
(* goes between two END bytes, and the END and ESC bytes in it are         *)
(* replaced by two bytes each.                                             *)
(*                                                                         *)
(* A byte carries the number of the frame it belongs to, which the code    *)
(* does not see, so that what comes out can be told from what went in.     *)
(***************************************************************************)
EXTENDS Integers, SequencesExt

\* The bytes SLIP gives a meaning to; all others are data.
END         == "end"      \* SLIP_END
ESC         == "esc"      \* SLIP_ESC
END_REPLACE == "endr"     \* SLIP_END_REPLACE
ESC_REPLACE == "escr"     \* SLIP_ESC_REPLACE

\* A byte of frame number n.
Byte(c, n) == [sym |-> c, of |-> n]

\* What the bytes of s are, whoever they belong to.
Symbols(s) == [i \in DOMAIN s |-> s[i].sym]

\* Mutant of Stuffed: only the END is escaped.
StuffedEnd(c) == IF c = END THEN <<ESC, END_REPLACE>> ELSE <<c>>

\* The bytes that stand for the byte c of a frame.
Stuffed(c) == CASE c = END -> <<ESC, END_REPLACE>>
                [] c = ESC -> <<ESC, ESC_REPLACE>>
                [] OTHER   -> <<c>>

\* Mutant of Encode: a frame is ended, but not begun, by an END.
EncodeEnded(f) == FlattenSeq([i \in DOMAIN f |-> Stuffed(f[i])]) \o <<END>>

\* lv2_osc_slip_encode_inline: no frame, no bytes; else double ended SLIP.
Encode(f) == IF f = <<>> THEN <<>>
             ELSE <<END>> \o FlattenSeq([i \in DOMAIN f |-> Stuffed(f[i])]) \o <<END>>

\* What the byte b after an ESC stands for; any other is dropped.
Unstuffed(b) == CASE b.sym = END_REPLACE -> <<Byte(END, b.of)>>
                  [] b.sym = ESC_REPLACE -> <<Byte(ESC, b.of)>>
                  [] OTHER -> <<>>

\* The loop of lv2_osc_slip_decode_inline over the bytes m from index p: what
\* it writes, and the index of the END it stops at, 0 if it meets none.
Scan(m, p) ==
  LET scan[i \in 1..(Len(m) + 2)] ==
        IF i > Len(m) \/ (i = Len(m) /\ m[i].sym = ESC)
        THEN [out |-> <<>>, stop |-> 0]
        ELSE IF m[i].sym = END THEN [out |-> <<>>, stop |-> i]
        ELSE IF m[i].sym = ESC
        THEN [scan[i + 2] EXCEPT !.out = Unstuffed(m[i + 1]) \o @]
        ELSE [scan[i + 1] EXCEPT !.out = <<m[i]>> \o @]
  IN  scan[p]

\* lv2_osc_slip_decode_inline at index p: a frame counts only when the first
\* byte is its opening END.  (parsed is stop - p + 1, or 0.)
Decode(m, p) ==
  LET whole == p <= Len(m) /\ m[p].sym = END
      found == Scan(m, IF whole THEN p + 1 ELSE p)
  IN  [out |-> found.out, stop |-> found.stop,
       frame |-> whole /\ found.stop > 0 /\ found.out # <<>>]

\* The bytes from p on after decoding at p: it decodes in place, so that its
\* output stands where its input was.
InPlace(m, p) ==
  LET out == Decode(m, p).out IN out \o SubSeq(m, p + Len(out), Len(m))

\* The receiver's loop: frames are dispatched from the bytes m until one is
\* not complete or, after room frames, is not taken; what it leaves stays in
\* the buffer.
Dispatch(m, room) ==
  LET loop[at \in (1..(Len(m) + 1)) \X (0..room)] ==
        LET p == at[1]
            n == at[2]
            d == Decode(m, p)
        IN  IF p > Len(m) THEN [frames |-> <<>>, rest |-> <<>>]
            ELSE IF d.stop = 0 \/ (d.frame /\ n = 0)
            THEN [frames |-> <<>>, rest |-> InPlace(m, p)]
            ELSE IF d.frame
            THEN [loop[<<d.stop + 1, n - 1>>] EXCEPT !.frames = <<d.out>> \o @]
            ELSE loop[<<d.stop + 1, n>>]
  IN  loop[<<1, room>>]
=============================================================================
