------------------------------ MODULE PtsRing -------------------------------
(* The ring of src/src/sei-timestamp-encoder.c that remembers, for every frame
   handed to the codec, when OBS submitted it: put_entry and take_entry over an
   array of Cap slots, a head and a length.                                 *)
EXTENDS Integers, Sequences

CONSTANTS
    Cap,       \* STAMP_PTS_RING_CAP
    Pts,       \* presentation timestamps
    Times,     \* submit times
    Absent     \* what take_entry returns when it finds nothing (-1)

ASSUME RingAssumption == Cap \in Nat \ {0} /\ Absent \notin Times

VARIABLES
    pts_ring,          \* [0..Cap-1 -> entries]; allocated, not cleared
    pts_ring_head,     \* slot of the oldest entry
    pts_ring_len,      \* entries in use
    taken              \* what the last take_entry returned

ringVars == <<pts_ring, pts_ring_head, pts_ring_len, taken>>

Entry == [pts : Pts, epoch_us : Times]
Slots == 0..(Cap - 1)

(* Slot of the i-th entry, counted from 0 at the oldest, for a given head. *)
SlotFrom(head, i) == (head + i) % Cap
Slot(i) == SlotFrom(pts_ring_head, i)

(* The place of slot k in that order. *)
Place(k) == (k + Cap - pts_ring_head) % Cap

RingInit == /\ pts_ring \in [Slots -> Entry]
            /\ pts_ring_head = 0
            /\ pts_ring_len = 0
            /\ taken = Absent

(* Mutant: off by one, the ring counts as full one entry too late. *)
PutOverflowing(p, us) ==
    LET full == pts_ring_len > Cap
        head == IF full THEN SlotFrom(pts_ring_head, 1) ELSE pts_ring_head
        len  == IF full THEN pts_ring_len - 1 ELSE pts_ring_len
    IN  /\ pts_ring' = [pts_ring EXCEPT ![SlotFrom(head, len)] = [pts |-> p, epoch_us |-> us]]
        /\ pts_ring_head' = head
        /\ pts_ring_len' = len + 1
        /\ UNCHANGED taken

(* A full ring drops its oldest entry first. *)
put_entry(p, us) ==
    LET full == pts_ring_len >= Cap
        head == IF full THEN SlotFrom(pts_ring_head, 1) ELSE pts_ring_head
        len  == IF full THEN pts_ring_len - 1 ELSE pts_ring_len
    IN  /\ pts_ring' = [pts_ring EXCEPT ![SlotFrom(head, len)] = [pts |-> p, epoch_us |-> us]]
        /\ pts_ring_head' = head
        /\ pts_ring_len' = len + 1
        /\ UNCHANGED taken

Matches(p) == {i \in 0..(pts_ring_len - 1) : pts_ring[Slot(i)].pts = p}

(* Move the entries behind the i-th one slot towards the head. *)
ShiftDown(i) ==
    [k \in Slots |-> IF Place(k) \in i..(pts_ring_len - 2)
                     THEN pts_ring[SlotFrom(k, 1)]
                     ELSE pts_ring[k]]

Remove(i) ==
    /\ taken' = pts_ring[Slot(i)].epoch_us
    /\ pts_ring' = ShiftDown(i)
    /\ pts_ring_len' = pts_ring_len - 1
    /\ UNCHANGED pts_ring_head

TakeNothing(p) ==
    /\ Matches(p) = {}
    /\ taken' = Absent
    /\ UNCHANGED <<pts_ring, pts_ring_head, pts_ring_len>>

(* Mutant: the oldest entry is the one asked for, as if packets came out in
   submission order.                                                        *)
TakeOldest(p) == IF pts_ring_len = 0 THEN TakeNothing(p) ELSE Remove(0)

take_entry(p) ==
    \/ TakeNothing(p)
    \/ \E i \in Matches(p) : (\A n \in Matches(p) : i <= n) /\ Remove(i)

(* The ring of a new encoder: bzalloc zeroes the head and the length, bmalloc
   leaves in the array what was there.                                      *)
NewRing ==
    /\ pts_ring' \in [Slots -> Entry]
    /\ pts_ring_head' = 0 /\ pts_ring_len' = 0
    /\ taken' = Absent

RingNext == \/ NewRing
            \/ \E p \in Pts : take_entry(p) \/ \E us \in Times : put_entry(p, us)

RingSpec == RingInit /\ [][RingNext]_ringVars

-----------------------------------------------------------------------------
(* The head is a slot and the length never exceeds the capacity. *)
RingTypeOK == /\ pts_ring \in [Slots -> Entry]
              /\ pts_ring_head \in Slots
              /\ pts_ring_len \in 0..Cap
              /\ taken \in Times \cup {Absent}

(* The entries in use, oldest first. *)
ContentsOf(ring, head, len) == [i \in 1..len |-> ring[SlotFrom(head, i - 1)]]
Contents == ContentsOf(pts_ring, pts_ring_head, pts_ring_len)

Queue == INSTANCE StampQueue WITH queue <- Contents

(* put_entry and take_entry are those of a bounded queue: no entry is lost,
   duplicated or reordered by the modular indices and the shift, only the
   oldest of a full ring is dropped, and a slot never written is never read. *)
RingIsQueue == Queue!Spec
=============================================================================
