----------------------------- MODULE StampQueue -----------------------------
(* What the encoder needs of its "pts -> submit time" store: a bounded queue of
   entries in submission order.  Putting an entry into a full queue forgets the
   oldest; taking a pts removes its oldest entry and returns the time stored
   with it, or Absent.  A new encoder starts with an empty queue.            *)
EXTENDS Integers, Sequences

CONSTANTS
    Cap,       \* entries the queue can hold
    Pts,       \* presentation timestamps
    Times,     \* submit times
    Absent     \* the answer when no entry has the pts

VARIABLES
    queue,     \* entries, oldest first
    taken      \* the answer of the last take

vars == <<queue, taken>>

Entry == [pts : Pts, epoch_us : Times]

Init == queue = <<>> /\ taken = Absent

Put(p, us) ==
    /\ queue' = Append(IF Len(queue) = Cap THEN Tail(queue) ELSE queue,
                       [pts |-> p, epoch_us |-> us])
    /\ UNCHANGED taken

Holds(p) == \E i \in 1..Len(queue) : queue[i].pts = p

(* Remove the oldest entry of p. *)
Take(p) ==
    \E i \in 1..Len(queue) :
        /\ queue[i].pts = p
        /\ \A j \in 1..(i - 1) : queue[j].pts # p
        /\ taken' = queue[i].epoch_us
        /\ queue' = [j \in 1..(Len(queue) - 1) |-> queue[IF j < i THEN j ELSE j + 1]]

TakeAbsent(p) == /\ ~Holds(p)
                 /\ taken' = Absent
                 /\ UNCHANGED queue

\* A new encoder: nothing submitted, nothing asked for.
Clear == queue' = <<>> /\ taken' = Absent

Next == \/ Clear
        \/ \E p \in Pts : Take(p) \/ TakeAbsent(p) \/ \E us \in Times : Put(p, us)

Spec == Init /\ [][Next]_vars
=============================================================================
