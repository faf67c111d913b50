------------------------------ MODULE BytePipe ------------------------------
(* What the user of one direction of a relayed connection may rely on: a stream
   of bytes that arrive in order and without a gap, until it is cut.  A byte is
   its position in the stream, so that what is under way is a number of bytes:
   those that follow the last one read.  A cut loses bytes at the end only, and
   the reader is told the end of the stream once.                           *)
EXTENDS Integers

VARIABLES
    sent,      \* bytes the writer has written
    flight,    \* bytes under way
    got,       \* bytes the reader has read
    cut,       \* nothing written from now on arrives
    ended      \* what the reader was told: "none", "eof" or "reset"

vars == <<sent, flight, got, cut, ended>>

Init == sent = 0 /\ flight = 0 /\ got = 0 /\ cut = FALSE /\ ended = "none"

Write == /\ sent' = sent + 1
         /\ flight' = IF cut THEN flight ELSE flight + 1
         /\ UNCHANGED <<got, cut, ended>>

Read == /\ ended = "none" /\ flight > 0
        /\ got' = got + 1
        /\ flight' = flight - 1
        /\ UNCHANGED <<sent, cut, ended>>

Cut == /\ cut' = TRUE
       /\ flight' \in 0..flight
       /\ UNCHANGED <<sent, got, ended>>

\* A clean end is told only behind the last byte.
EndOfFile == /\ ended = "none" /\ cut /\ flight = 0
             /\ ended' = "eof"
             /\ UNCHANGED <<sent, flight, got, cut>>

Reset == /\ ended = "none" /\ cut
         /\ ended' = "reset"
         /\ flight' = 0
         /\ UNCHANGED <<sent, got, cut>>

Next == Write \/ Read \/ Cut \/ EndOfFile \/ Reset

Spec == Init /\ [][Next]_vars
=============================================================================
