---------------------------- MODULE ClockService ----------------------------
(* What a caller of the realtime clock (src/src/realtime-clock.h) relies on:
   one offset, published with a "synchronised" flag that is never withdrawn
   while the clock lives, and two queries that each see one published pair.
   Nothing here says how the offset is obtained, and no query waits.       *)
CONSTANTS
    Callers,          \* threads that stamp frames
    Offsets           \* values a published offset can take (server - local)

VARIABLES
    offset,           \* the offset in force; 0 until one is published
    synced,           \* an offset has been published
    stamp,            \* stamp[c]: what the last now_us of c added to local time
    saw               \* saw[c]: c has been told that the clock is synchronised

vars == <<offset, synced, stamp, saw>>

Init == /\ offset = 0
        /\ synced = FALSE
        /\ stamp = [c \in Callers |-> 0]
        /\ saw = [c \in Callers |-> FALSE]

Publish == /\ offset' \in Offsets
           /\ synced' = TRUE
           /\ UNCHANGED <<stamp, saw>>

Now(c) == /\ stamp' = [stamp EXCEPT ![c] = offset]
          /\ UNCHANGED <<offset, synced, saw>>

Synced(c) == /\ saw' = [saw EXCEPT ![c] = synced]
             /\ UNCHANGED <<offset, synced, stamp>>

\* A new clock: nothing published, and its callers start afresh.
Restart == /\ offset' = 0
           /\ synced' = FALSE
           /\ stamp' = [c \in Callers |-> 0]
           /\ saw' = [c \in Callers |-> FALSE]

Next == Publish \/ Restart \/ \E c \in Callers : Now(c) \/ Synced(c)

Spec == Init /\ [][Next]_vars
=============================================================================
