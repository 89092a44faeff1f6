---------------------------- MODULE MCSlipStream ----------------------------
(***************************************************************************)
(* Packets and lines for TLC.  An OSC packet begins with a slash, or with  *)
(* a hash.                                                                 *)
(***************************************************************************)
EXTENDS SlipStream

\* Packets of bytes that SLIP leaves as they are.
Plain == {<<"/">>, <<"/", "a">>}

\* Packets with the bytes it replaces, and what it replaces them by, and one
\* that is too long for a tx_buf of seven bytes.
Special == {<<"/", END>>, <<"/", ESC>>, <<"/", ESC, END_REPLACE>>,
            <<"/", END, END>>,
            <<"/", "a", "b", "c", "d", "e", "f", "g">>}

\* Frames come whole, but a connection breaks between them; everything goes
\* wrong; nothing goes wrong but splitting.
Calmly == [serial |-> FALSE, frames |-> Special, tx |-> 7, rx |-> 24, splits |-> FALSE,
           partial |-> FALSE, refusals |-> FALSE, breaks |-> 1]
Roughly == [serial |-> FALSE, frames |-> Plain, tx |-> 5, rx |-> 8, splits |-> TRUE,
            partial |-> TRUE, refusals |-> TRUE, breaks |-> 1]
Unbroken == [Roughly EXCEPT !.rx = 16, !.partial = FALSE, !.refusals = FALSE, !.breaks = 0]

\* Some packets are too long, and a connection breaks within a frame.
Shortly == [Roughly EXCEPT !.tx = 1, !.partial = FALSE, !.refusals = FALSE]

MCLines == [short |-> Shortly, calm |-> Calmly, calmSerial |-> [Calmly EXCEPT !.serial = TRUE],
            rough |-> Roughly, roughSerial |-> [Roughly EXCEPT !.serial = TRUE]]
MCUnbroken == [unbroken |-> Unbroken]
=============================================================================
