------------------------- MODULE StampEncoderProofs --------------------------
(* Theorems about StampEncoder, for any number of frames, any codec delay, any
   ring capacity and any list of candidates.

   The invariant is built in layers.  Typed: the fields and, where the next
   action needs it, what the program point says of them.  Ordered: the entries
   of the ring are those of frames with growing pts, every pending frame either
   has its entry or is at least Cap frames old.  Sourced: as long as the clock
   has not synchronised every recorded time is local.                        *)
EXTENDS StampEncoder, WellFoundedInduction, TLAPS

-----------------------------------------------------------------------------
(* The ring of submit times is a bounded queue, for every capacity and every set
   of timestamps.  The argument is that the slots of the entries in use are
   distinct (the modular index is injective over one turn), so that writing the
   slot behind the newest entry, or shifting the entries behind a taken one,
   changes exactly the entries the queue changes.                           *)

(* The modular index over at most one turn. *)
LEMMA SlotValue ==
    ASSUME NEW head \in Slots, NEW i \in 0..Cap
    PROVE  /\ SlotFrom(head, i) = IF head + i < Cap THEN head + i ELSE head + i - Cap
           /\ SlotFrom(head, i) \in Slots
BY RingAssumption DEF SlotFrom, Slots

(* Different entries of one turn are in different slots. *)
LEMMA SlotInjective ==
    ASSUME NEW head \in Slots, NEW i \in 0..(Cap - 1), NEW j \in 0..(Cap - 1),
           SlotFrom(head, i) = SlotFrom(head, j)
    PROVE  i = j
<1>1. i \in 0..Cap /\ j \in 0..Cap
  BY RingAssumption
<1>2. SlotFrom(head, i) = IF head + i < Cap THEN head + i ELSE head + i - Cap
  BY <1>1, SlotValue
<1>3. SlotFrom(head, j) = IF head + j < Cap THEN head + j ELSE head + j - Cap
  BY <1>1, SlotValue
<1>4. head \in 0..(Cap - 1) /\ Cap \in Nat
  BY RingAssumption DEF Slots
<1>5. i \in Nat /\ j \in Nat /\ i < Cap /\ j < Cap /\ head \in Nat
  BY <1>4
<1>6. \/ head + i = head + j \/ head + i - Cap = head + j - Cap
      \/ head + i = head + j - Cap \/ head + i - Cap = head + j
  BY <1>2, <1>3
<1> QED BY <1>4, <1>5, <1>6

(* Counting from the next slot is counting one further. *)
LEMMA SlotShift ==
    ASSUME NEW head \in Slots, NEW i \in 0..(Cap - 1)
    PROVE  SlotFrom(SlotFrom(head, 1), i) = SlotFrom(head, i + 1)
<1>1. 1 \in 0..Cap /\ i + 1 \in 0..Cap /\ i \in 0..Cap
  BY RingAssumption
<1> DEFINE one == SlotFrom(head, 1)
<1>2. one \in Slots /\ one = IF head + 1 < Cap THEN head + 1 ELSE head + 1 - Cap
  BY <1>1, SlotValue
<1>3. SlotFrom(one, i) = IF one + i < Cap THEN one + i ELSE one + i - Cap
  BY <1>1, <1>2, SlotValue
<1>4. SlotFrom(head, i + 1)
      = IF head + (i + 1) < Cap THEN head + (i + 1) ELSE head + (i + 1) - Cap
  BY <1>1, SlotValue
<1>5. head \in 0..(Cap - 1) /\ one \in 0..(Cap - 1) /\ Cap \in Nat \ {0}
  BY <1>2, RingAssumption DEF Slots
<1> QED BY <1>2, <1>3, <1>4, <1>5

(* The next slot is the slot of the next entry. *)
LEMMA SlotSuccessor ==
    ASSUME NEW head \in Slots, NEW j \in 1..Cap, j - 1 \in 0..(Cap - 1)
    PROVE  SlotFrom(SlotFrom(head, j - 1), 1) = SlotFrom(head, j)
<1> DEFINE k == SlotFrom(head, j - 1)
<1>1. 1 \in 0..Cap /\ j - 1 \in 0..Cap /\ j \in 0..Cap /\ Cap \in Nat \ {0}
  BY RingAssumption
<1>2. /\ k = IF head + (j - 1) < Cap THEN head + (j - 1) ELSE head + (j - 1) - Cap
      /\ k \in Slots
  BY <1>1, SlotValue
<1>3. SlotFrom(k, 1) = IF k + 1 < Cap THEN k + 1 ELSE k + 1 - Cap
  BY <1>1, <1>2, SlotValue
<1>4. SlotFrom(head, j) = IF head + j < Cap THEN head + j ELSE head + j - Cap
  BY <1>1, SlotValue
<1>5. head \in 0..(Cap - 1) /\ k \in 0..(Cap - 1)
  BY <1>2 DEF Slots
<1> QED BY <1>1, <1>2, <1>3, <1>4, <1>5

(* Place is the inverse of Slot. *)
LEMMA PlaceOfSlot ==
    ASSUME pts_ring_head \in Slots, NEW i \in 0..(Cap - 1)
    PROVE  Place(SlotFrom(pts_ring_head, i)) = i
<1> DEFINE k == SlotFrom(pts_ring_head, i)
<1>1. Cap \in Nat \ {0} /\ i \in 0..Cap /\ pts_ring_head \in 0..(Cap - 1)
  BY RingAssumption DEF Slots
<1>2. k = IF pts_ring_head + i < Cap THEN pts_ring_head + i ELSE pts_ring_head + i - Cap
  BY <1>1, SlotValue
<1>3. k + Cap - pts_ring_head = i + Cap \/ k + Cap - pts_ring_head = i
  BY <1>1, <1>2
<1>4. (i + Cap) % Cap = i /\ i % Cap = i
  BY <1>1
<1> QED BY <1>3, <1>4 DEF Place

-----------------------------------------------------------------------------
(* What the queue sees of a ring: the entries in use, by their places. *)
LEMMA ContentsFacts ==
    ASSUME NEW ring \in [Slots -> Entry], NEW head \in Slots, NEW len \in 0..Cap
    PROVE  /\ ContentsOf(ring, head, len) \in Seq(Entry)
           /\ Len(ContentsOf(ring, head, len)) = len
           /\ \A i \in 1..len :
                 ContentsOf(ring, head, len)[i] = ring[SlotFrom(head, i - 1)]
<1>1. \A i \in 1..len : i - 1 \in 0..Cap
  BY RingAssumption
<1>2. \A i \in 1..len : SlotFrom(head, i - 1) \in Slots
  BY <1>1, SlotValue
<1>3. ContentsOf(ring, head, len) \in [1..len -> Entry]
  BY <1>2 DEF ContentsOf
<1>4. len \in Nat
  BY RingAssumption
<1> QED BY <1>3, <1>4 DEF ContentsOf

(* put_entry keeps the head a slot and the length within the capacity. *)
LEMMA PutType ==
    ASSUME RingTypeOK, NEW p \in Pts, NEW us \in Times, put_entry(p, us)
    PROVE  RingTypeOK'
<1>1. 1 \in 0..Cap
  BY RingAssumption
<1>2. SlotFrom(pts_ring_head, 1) \in Slots
  BY <1>1, SlotValue DEF RingTypeOK
<1>3. pts_ring_head' \in Slots /\ taken' \in Times \cup {Absent}
  BY <1>2 DEF put_entry, RingTypeOK
<1>4. pts_ring_len' \in 0..Cap
  BY RingAssumption DEF put_entry, RingTypeOK
<1>5. pts_ring' \in [Slots -> Entry]
  BY DEF put_entry, RingTypeOK, Entry
<1> QED BY <1>3, <1>4, <1>5 DEF RingTypeOK

(* So does removing an entry in use. *)
LEMMA RemoveType ==
    ASSUME RingTypeOK, NEW i \in 0..(pts_ring_len - 1), Remove(i)
    PROVE  RingTypeOK'
<1>1. 1 \in 0..Cap /\ i \in 0..Cap
  BY RingAssumption DEF RingTypeOK
<1>2. Slot(i) \in Slots /\ \A k \in Slots : SlotFrom(k, 1) \in Slots
  BY <1>1, SlotValue DEF RingTypeOK, Slot
<1>3. ShiftDown(i) \in [Slots -> Entry]
  BY <1>2 DEF ShiftDown, RingTypeOK
<1>4. taken' \in Times
  BY <1>2 DEF Remove, RingTypeOK, Entry
<1>5. pts_ring_len' \in 0..Cap
  BY RingAssumption DEF Remove, RingTypeOK
<1> QED BY <1>3, <1>4, <1>5 DEF Remove, RingTypeOK

(* So does take_entry. *)
LEMMA TakeType ==
    ASSUME RingTypeOK, NEW p \in Pts, take_entry(p)
    PROVE  RingTypeOK'
<1>1. CASE TakeNothing(p)
  BY <1>1 DEF TakeNothing, RingTypeOK
<1>2. ASSUME NEW i \in Matches(p), Remove(i) PROVE RingTypeOK'
  BY <1>2, RemoveType DEF Matches
<1> QED BY <1>1, <1>2 DEF take_entry

(* A new ring is empty, whatever its array holds. *)
LEMMA NewRingType == NewRing => RingTypeOK'
BY RingAssumption DEF NewRing, RingTypeOK, Slots

-----------------------------------------------------------------------------
(* The queue of a new ring is empty. *)
LEMMA NewRingRefines == NewRing => Queue!Clear
<1> SUFFICES ASSUME NewRing PROVE Contents' = <<>> /\ taken' = Absent
  BY DEF Queue!Clear
<1>1. Contents' = ContentsOf(pts_ring', 0, 0)
  BY DEF NewRing, Contents
<1> QED BY <1>1 DEF NewRing, ContentsOf

(* Putting into a ring that is not full appends. *)
LEMMA PutRefines ==
    ASSUME RingTypeOK, NEW p \in Pts, NEW us \in Times, put_entry(p, us)
    PROVE  Queue!Put(p, us)
<1> DEFINE e == [pts |-> p, epoch_us |-> us]
           kept == IF Len(Contents) = Cap THEN Tail(Contents) ELSE Contents
<1>1. RingTypeOK'
  BY PutType
<1>2. /\ Contents' \in Seq(Entry) /\ Len(Contents') = pts_ring_len'
      /\ \A i \in 1..pts_ring_len' : Contents'[i] = pts_ring'[SlotFrom(pts_ring_head', i - 1)]
  BY <1>1, ContentsFacts DEF RingTypeOK, Contents
<1>3. /\ Contents \in Seq(Entry) /\ Len(Contents) = pts_ring_len
      /\ \A i \in 1..pts_ring_len : Contents[i] = pts_ring[SlotFrom(pts_ring_head, i - 1)]
  BY ContentsFacts DEF RingTypeOK, Contents
<1>4. Contents' = Append(kept, e)
  <2>1. CASE pts_ring_len < Cap
    <3>1. /\ pts_ring' = [pts_ring EXCEPT ![Slot(pts_ring_len)] = e]
          /\ pts_ring_head' = pts_ring_head /\ pts_ring_len' = pts_ring_len + 1
      <4>1. ~(pts_ring_len >= Cap)
        BY <2>1, RingAssumption DEF RingTypeOK
      <4> QED BY <4>1 DEF put_entry, Slot
    <3>2. kept = Contents
      <4>1. Len(Contents) # Cap
        BY <1>3, <2>1, RingAssumption DEF RingTypeOK
      <4> QED BY <4>1
    <3>3. \A i \in 1..pts_ring_len : Contents'[i] = Contents[i]
      <4> SUFFICES ASSUME NEW i \in 1..pts_ring_len PROVE Contents'[i] = Contents[i]
        OBVIOUS
      <4>1. SlotFrom(pts_ring_head, i - 1) # Slot(pts_ring_len)
        BY <2>1, SlotInjective, RingAssumption DEF RingTypeOK, Slot
      <4>2. SlotFrom(pts_ring_head, i - 1) \in Slots
        BY SlotValue, RingAssumption DEF RingTypeOK
      <4> QED BY <1>2, <1>3, <3>1, <4>1, <4>2 DEF RingTypeOK
    <3>4. Contents'[pts_ring_len + 1] = e
      <4>1. Slot(pts_ring_len) \in Slots
        BY <2>1, SlotValue, RingAssumption DEF RingTypeOK, Slot
      <4>2. pts_ring_len + 1 \in 1..pts_ring_len' /\ (pts_ring_len + 1) - 1 = pts_ring_len
        BY <3>1, RingAssumption DEF RingTypeOK
      <4>3. Contents'[pts_ring_len + 1] = pts_ring'[Slot(pts_ring_len)]
        BY <1>2, <3>1, <4>2 DEF Slot
      <4> QED BY <3>1, <4>1, <4>3 DEF RingTypeOK
    <3>5. pts_ring_len \in Nat /\ e \in Entry
      BY RingAssumption DEF RingTypeOK, Entry
    <3>6. Len(Contents') = Len(Contents) + 1
      BY <1>2, <1>3, <3>1
    <3> QED BY <1>2, <1>3, <3>2, <3>3, <3>4, <3>5, <3>6
  <2>2. CASE pts_ring_len = Cap
    <3> DEFINE head == SlotFrom(pts_ring_head, 1)
    <3>1. /\ pts_ring' = [pts_ring EXCEPT ![SlotFrom(head, Cap - 1)] = e]
          /\ pts_ring_head' = head /\ pts_ring_len' = Cap
      BY <2>2, RingAssumption DEF put_entry, RingTypeOK
    <3>2. head \in Slots
      BY SlotValue, RingAssumption DEF RingTypeOK
    <3>3. kept = Tail(Contents) /\ Len(kept) = Cap - 1
          /\ \A i \in 1..(Cap - 1) : kept[i] = Contents[i + 1]
      BY <1>3, <2>2, RingAssumption
    <3>4. \A i \in 1..(Cap - 1) : Contents'[i] = Contents[i + 1]
      <4> SUFFICES ASSUME NEW i \in 1..(Cap - 1) PROVE Contents'[i] = Contents[i + 1]
        OBVIOUS
      <4>1. SlotFrom(head, i - 1) = SlotFrom(pts_ring_head, i)
        BY SlotShift, RingAssumption DEF RingTypeOK
      <4>2. SlotFrom(head, i - 1) # SlotFrom(head, Cap - 1)
        BY <3>2, SlotInjective, RingAssumption
      <4>3. SlotFrom(head, i - 1) \in Slots
        BY <3>2, SlotValue, RingAssumption
      <4>4. i \in 1..pts_ring_len' /\ i + 1 \in 1..pts_ring_len /\ (i + 1) - 1 = i
        BY <2>2, <3>1, RingAssumption
      <4>5. Contents'[i] = pts_ring'[SlotFrom(head, i - 1)]
        BY <1>2, <3>1, <4>4
      <4>6. pts_ring'[SlotFrom(head, i - 1)] = pts_ring[SlotFrom(head, i - 1)]
        BY <3>1, <4>2, <4>3 DEF RingTypeOK
      <4>7. Contents[i + 1] = pts_ring[SlotFrom(pts_ring_head, i)]
        BY <1>3, <4>4
      <4> QED BY <4>1, <4>5, <4>6, <4>7
    <3>5. Contents'[Cap] = e
      <4>1. SlotFrom(head, Cap - 1) \in Slots
        BY <3>2, SlotValue, RingAssumption
      <4> QED BY <1>2, <3>1, <4>1, RingAssumption DEF RingTypeOK
    <3> QED BY <1>2, <1>3, <3>1, <3>3, <3>4, <3>5, RingAssumption
  <2> QED BY <2>1, <2>2, RingAssumption DEF RingTypeOK
<1> QED BY <1>4 DEF Queue!Put, put_entry

(* Removing the i-th entry in use is what the queue does to its (i+1)-st. *)
LEMMA RemoveContents ==
    ASSUME RingTypeOK, NEW i \in 0..(pts_ring_len - 1), Remove(i)
    PROVE  /\ taken' = Contents[i + 1].epoch_us
           /\ Contents' = [j \in 1..(Len(Contents) - 1) |->
                              Contents[IF j < i + 1 THEN j ELSE j + 1]]
<1>1. RingTypeOK'
  BY RemoveType
<1>2. /\ pts_ring' = ShiftDown(i) /\ pts_ring_head' = pts_ring_head
      /\ pts_ring_len' = pts_ring_len - 1
  BY DEF Remove
<1>3. /\ Contents' = ContentsOf(pts_ring', pts_ring_head, pts_ring_len - 1)
      /\ \A j \in 1..(pts_ring_len - 1) :
            Contents'[j] = pts_ring'[SlotFrom(pts_ring_head, j - 1)]
  BY <1>1, <1>2, ContentsFacts DEF RingTypeOK, Contents
<1>4. /\ Len(Contents) = pts_ring_len
      /\ \A j \in 1..pts_ring_len : Contents[j] = pts_ring[SlotFrom(pts_ring_head, j - 1)]
  BY ContentsFacts DEF RingTypeOK, Contents
<1>5. taken' = Contents[i + 1].epoch_us
  <2>1. i + 1 \in 1..pts_ring_len /\ (i + 1) - 1 = i
    BY RingAssumption DEF RingTypeOK
  <2> QED BY <1>4, <2>1 DEF Remove, Slot
<1>6. ASSUME NEW j \in 1..(pts_ring_len - 1)
      PROVE  Contents'[j] = Contents[IF j < i + 1 THEN j ELSE j + 1]
  <2> DEFINE k == SlotFrom(pts_ring_head, j - 1)
  <2>1. /\ j - 1 \in 0..(Cap - 1) /\ j - 1 \in 0..Cap /\ j \in 1..pts_ring_len /\ j \in 1..Cap
        /\ j + 1 \in 1..pts_ring_len /\ (j + 1) - 1 = j /\ (j - 1) + 1 = j
    BY RingAssumption DEF RingTypeOK
  <2>2. k \in Slots
    BY <2>1, SlotValue DEF RingTypeOK
  <2>3. Place(k) = j - 1
    BY <2>1, PlaceOfSlot DEF RingTypeOK
  <2>4. Contents'[j] = IF j - 1 \in i..(pts_ring_len - 2)
                       THEN pts_ring[SlotFrom(k, 1)] ELSE pts_ring[k]
    BY <1>2, <1>3, <2>2, <2>3 DEF ShiftDown
  <2>5. Contents[j] = pts_ring[k]
    BY <1>4, <2>1
  <2>6. Contents[j + 1] = pts_ring[SlotFrom(k, 1)]
    <3>1. SlotFrom(k, 1) = SlotFrom(pts_ring_head, j)
      BY <2>1, SlotSuccessor DEF RingTypeOK
    <3> QED BY <1>4, <2>1, <3>1
  <2>7. (j - 1 \in i..(pts_ring_len - 2)) <=> ~(j < i + 1)
    BY RingAssumption DEF RingTypeOK
  <2> QED BY <2>4, <2>5, <2>6, <2>7
<1>7. Contents' = [j \in 1..(pts_ring_len - 1) |->
                      Contents[IF j < i + 1 THEN j ELSE j + 1]]
  BY <1>3, <1>6 DEF ContentsOf
<1> QED BY <1>4, <1>5, <1>7

(* take_entry is the queue's take: the match it finds first is the oldest. *)
LEMMA TakeRefines ==
    ASSUME RingTypeOK, NEW p \in Pts, take_entry(p)
    PROVE  Queue!Take(p) \/ Queue!TakeAbsent(p)
<1>1. /\ Len(Contents) = pts_ring_len
      /\ \A j \in 1..pts_ring_len : Contents[j] = pts_ring[Slot(j - 1)]
  BY ContentsFacts DEF RingTypeOK, Contents, Slot
<1>2. CASE TakeNothing(p)
  <2>1. ~Queue!Holds(p)
    <3> SUFFICES ASSUME NEW j \in 1..pts_ring_len, Contents[j].pts = p PROVE FALSE
      BY <1>1 DEF Queue!Holds
    <3>1. j - 1 \in Matches(p)
      BY <1>1, RingAssumption DEF Matches, RingTypeOK
    <3> QED BY <1>2, <3>1 DEF TakeNothing
  <2> QED BY <1>2, <2>1 DEF TakeNothing, Queue!TakeAbsent, Contents
<1>3. ASSUME NEW i \in Matches(p), \A n \in Matches(p) : i <= n, Remove(i)
      PROVE  Queue!Take(p)
  <2>1. i \in 0..(pts_ring_len - 1) /\ pts_ring[Slot(i)].pts = p
    BY DEF Matches
  <2>2. i + 1 \in 1..Len(Contents) /\ (i + 1) - 1 = i
    BY <1>1, <2>1, RingAssumption DEF RingTypeOK
  <2>3. Contents[i + 1].pts = p
    BY <1>1, <2>1, <2>2
  <2>4. \A j \in 1..((i + 1) - 1) : Contents[j].pts # p
    <3> SUFFICES ASSUME NEW j \in 1..i, Contents[j].pts = p PROVE FALSE
      BY <2>2
    <3>1. j \in 1..pts_ring_len /\ j - 1 \in 0..(pts_ring_len - 1) /\ ~(i <= j - 1)
      BY <2>1, RingAssumption DEF RingTypeOK
    <3>2. j - 1 \in Matches(p)
      BY <1>1, <3>1 DEF Matches
    <3> QED BY <1>3, <3>1, <3>2
  <2>5. /\ taken' = Contents[i + 1].epoch_us
        /\ Contents' = [j \in 1..(Len(Contents) - 1) |->
                           Contents[IF j < i + 1 THEN j ELSE j + 1]]
    BY <1>3, <2>1, RemoveContents
  <2> QED BY <2>2, <2>3, <2>4, <2>5 DEF Queue!Take
<1> QED BY <1>2, <1>3 DEF take_entry

-----------------------------------------------------------------------------
(* The head stays a slot and the length stays within the capacity. *)
THEOREM RingTypeCorrect == RingSpec => []RingTypeOK
<1>1. RingInit => RingTypeOK
  BY RingAssumption DEF RingInit, RingTypeOK, Slots
<1>2. RingTypeOK /\ [RingNext]_ringVars => RingTypeOK'
  <2> SUFFICES ASSUME RingTypeOK, [RingNext]_ringVars PROVE RingTypeOK'
    OBVIOUS
  <2>1. ASSUME NEW p \in Pts, take_entry(p) PROVE RingTypeOK'
    BY <2>1, TakeType
  <2>2. ASSUME NEW p \in Pts, NEW us \in Times, put_entry(p, us) PROVE RingTypeOK'
    BY <2>2, PutType
  <2>3. CASE NewRing
    BY <2>3, NewRingType
  <2>4. CASE UNCHANGED ringVars
    BY <2>4 DEF ringVars, RingTypeOK
  <2> QED BY <2>1, <2>2, <2>3, <2>4 DEF RingNext
<1> QED BY <1>1, <1>2, PTL DEF RingSpec

(* The ring is a bounded queue: it drops nothing but the oldest entry of a full
   ring, and gives back the oldest entry of the pts asked for.               *)
THEOREM RingImplementsQueue == RingSpec => RingIsQueue
<1>1. RingInit => Queue!Init
  <2> SUFFICES ASSUME RingInit PROVE Contents = <<>>
    BY DEF RingInit, Queue!Init
  <2> QED BY DEF RingInit, Contents, ContentsOf
<1>2. RingTypeOK /\ [RingNext]_ringVars => [Queue!Next]_(Queue!vars)
  <2> SUFFICES ASSUME RingTypeOK, [RingNext]_ringVars PROVE [Queue!Next]_(Queue!vars)
    OBVIOUS
  <2>1. ASSUME NEW p \in Pts, take_entry(p) PROVE Queue!Next
    BY <2>1, TakeRefines DEF Queue!Next
  <2>2. ASSUME NEW p \in Pts, NEW us \in Times, put_entry(p, us) PROVE Queue!Next
    BY <2>2, PutRefines DEF Queue!Next
  <2>3. CASE NewRing
    BY <2>3, NewRingRefines DEF Queue!Next
  <2>4. CASE UNCHANGED ringVars
    BY <2>4 DEF ringVars, Queue!vars, Contents
  <2> QED BY <2>1, <2>2, <2>3, <2>4 DEF RingNext
<1> QED BY <1>1, <1>2, RingTypeCorrect, PTL DEF RingSpec, RingIsQueue, Queue!Spec

-----------------------------------------------------------------------------
(* The encoder *)

Holding == {"flag", "take", "fallback", "build", "assemble"}
Numbered == {"fallback", "build", "assemble"}
Creating == {"none", "codec_name", "find_encoder", "alloc_context", "open2", "alloc_frame",
             "finish"}

ClockTyped ==
    /\ synced \in BOOLEAN
    /\ offset \in {0, 1}
    /\ stamp \in [{Enc} -> {0, 1}]
    /\ saw \in [{Enc} -> BOOLEAN]

(* The fields, and what a program point promises the action that follows. *)
Typed ==
    /\ TypeOK
    /\ ClockTyped
    /\ pc = "put" => next < Frames
    /\ pc = "send" => next > 0
    /\ pc \in Holding => /\ pkt.pts \in 0..(next - 1) /\ pkt.pts \notin inflight
                         /\ pkt.key \in BOOLEAN /\ pkt.size \in PacketSizes
    /\ pc \in Creating => written = 0
    /\ pc \notin Holding => "coded" \notin resources
    /\ pc # "assemble" => "sei" \notin resources

-----------------------------------------------------------------------------
LEMMA TimesNonempty == Entry # {} /\ \A p \in Pts : [of |-> p, kind |-> "local"] \in Times
<1>1. \A p \in Pts : [of |-> p, kind |-> "local"] \in Times
  BY EncoderAssumption
<1>2. 0 \in Pts
  BY EncoderAssumption
<1>3. [pts |-> 0, epoch_us |-> [of |-> 0, kind |-> "local"]] \in Entry
  BY <1>1, <1>2 DEF Entry
<1> QED BY <1>1, <1>3

(* The value of a submit time read at "put". *)
LEMMA StampNowTyped ==
    ASSUME Typed, pc = "put"
    PROVE  next \in Pts /\ StampNow(next) \in Times
<1>1. next \in 0..(Frames - 1)
  <2>1. next \in 0..Frames
    BY DEF Typed, TypeOK
  <2>2. next < Frames
    BY DEF Typed
  <2> QED BY <2>1, <2>2, EncoderAssumption
<1> QED BY <1>1, EncoderAssumption DEF StampNow

(* A set of numbers that is not empty has a first one. *)
LEMMA FirstOfNumbers ==
    ASSUME NEW T, T \subseteq Nat, T # {}
    PROVE  \E x \in T : \A y \in T : x <= y
<1> DEFINE R == OpToRel(<, Nat)
<1>1. IsWellFoundedOn(R, Nat)
  BY NatLessThanWellFounded
<1> HIDE DEF R
<1>2. PICK x \in T : \A y \in T : ~(<<y, x>> \in R)
  BY <1>1, WFMin
<1>3. \A m, n \in Nat : n < m => <<n, m>> \in R
  BY DEF R, OpToRel
<1>4. \A y \in T : ~(y < x)
  BY <1>2, <1>3
<1>5. \A y \in T : x <= y
  BY <1>4
<1> QED BY <1>5

(* The name chosen is a candidate that the build has, or there is none. *)
LEMMA PickTyped ==
    ASSUME NEW build
    PROVE  \/ pick_default_codec_name(build) \in Names \cap build
           \/ pick_default_codec_name(build) = NoName /\ Names \cap build = {}
<1> DEFINE found == {i \in 1..Len(Candidates) : Candidates[i] \in build}
<1>1. CASE found = {}
  BY <1>1 DEF pick_default_codec_name, Names
<1>2. CASE found # {}
  <2>1. \E i \in found : \A n \in found : i <= n
    <3>1. found \subseteq Nat
      OBVIOUS
    <3> HIDE DEF found
    <3> QED BY <1>2, <3>1, FirstOfNumbers
  <2>2. pick_default_codec_name(build)
        = Candidates[CHOOSE i \in found : \A n \in found : i <= n]
    BY <1>2 DEF pick_default_codec_name
  <2> QED BY <2>1, <2>2 DEF Names
<1> QED BY <1>1, <1>2

(* Of the candidates that the build has it is the first. *)
LEMMA PickFirst ==
    ASSUME NEW build, pick_default_codec_name(build) # NoName
    PROVE  FirstOf(pick_default_codec_name(build), build)
<1> DEFINE found == {i \in 1..Len(Candidates) : Candidates[i] \in build}
<1>1. /\ found # {}
      /\ pick_default_codec_name(build) = Candidates[CHOOSE i \in found : \A n \in found : i <= n]
  BY DEF pick_default_codec_name
<1>2. found \subseteq Nat
  OBVIOUS
<1>3. \A n \in 1..Len(Candidates) : Candidates[n] \in build => n \in found
  OBVIOUS
<1>4. \A i \in found : i \in 1..Len(Candidates)
  OBVIOUS
<1> HIDE DEF found
<1>5. PICK first \in found : /\ \A n \in found : first <= n
                            /\ pick_default_codec_name(build) = Candidates[first]
  BY <1>1, <1>2, FirstOfNumbers
<1>6. first \in 1..Len(Candidates) /\ Len(Candidates) \in Nat
  BY <1>4, CandidatesAssumption
<1>7. ASSUME NEW n \in 1..(first - 1) PROVE Candidates[n] \notin build
  <2>1. n \in 1..Len(Candidates) /\ ~(first <= n)
    BY <1>6
  <2> QED BY <1>3, <1>5, <2>1
<1> QED BY <1>5, <1>6, <1>7 DEF FirstOf

(* Every allocation the clean-up knows goes to its own allocator's function, and
   it knows all but those of a call of encode.                               *)
LEMMA FreesMatch ==
    /\ {r \in DOMAIN Freer : Freer[r] = Allocator[r]} = Resources \ PerCall
    /\ PerCall \subseteq Resources
BY DEF Freer, Allocator, Resources, PerCall

LEMMA InitTyped == Init => Typed
<1> SUFFICES ASSUME Init PROVE Typed
  OBVIOUS
<1>0. /\ pts_ring_head = 0 /\ pts_ring_len = 0 /\ pc = "none" /\ next = 0 /\ inflight = {}
      /\ taken = Absent /\ stamping_ntp = FALSE /\ resources = {}
      /\ frame_seq = 0 /\ emitted = 0
      /\ out_size = 0 /\ written = 0
  BY DEF Init
<1>1. RingTypeOK
  <2>1. pts_ring \in [Slots -> Entry]
    BY TimesNonempty DEF Init
  <2> QED BY <1>0, <2>1, RingAssumption DEF RingTypeOK, Slots
<1>2. ClockTyped
  BY DEF Init, Clock!Init, ClockTyped
<1>3. TypeOK
  <2>1. /\ request \in [build : SUBSET Names, saved : BOOLEAN,
                        asked : CodecNames]
        /\ codec_name \in CodecNames /\ headers_size \in Nat
    BY DEF Init, NoRequest, CodecNames
  <2>2. pc \in Points /\ inflight \subseteq 0..(next - 1) /\ next \in 0..Frames
    BY <1>0, EncoderAssumption DEF Points
  <2> QED BY <1>0, <1>1, <2>1, <2>2 DEF TypeOK
<1> QED BY <1>0, <1>1, <1>2, <1>3 DEF Typed, Holding, Creating

(* The numbers, apart from the fields they live beside. *)
LEMMA TypedNumbers ==
    ASSUME Typed
    PROVE  /\ next \in Nat /\ next <= Frames /\ next \in 0..Frames
           /\ inflight \subseteq 0..(next - 1)
           /\ frame_seq \in Nat /\ emitted \in Nat /\ out_size \in Nat /\ written \in Nat
           /\ Frames \in Nat \ {0} /\ Cap \in Nat \ {0} /\ SeqMod \in Nat \ {0}
<1>1. /\ next \in 0..Frames
      /\ inflight \subseteq 0..(next - 1)
      /\ frame_seq \in Nat /\ emitted \in Nat /\ out_size \in Nat /\ written \in Nat
  BY DEF Typed, TypeOK
<1> QED BY <1>1, EncoderAssumption, RingAssumption

LEMMA RingUntouched == RingTypeOK /\ UNCHANGED ringVars => RingTypeOK'
BY DEF ringVars, RingTypeOK

LEMMA ClockUntouched == ClockTyped /\ UNCHANGED clockVars => ClockTyped'
BY DEF clockVars, ClockTyped

(* The clock's operations keep the types of its variables. *)
LEMMA ClockSteps ==
    ASSUME ClockTyped
    PROVE  /\ Clock!Restart => ClockTyped'
           /\ Clock!Publish => ClockTyped'
           /\ Clock!Synced(Enc) => ClockTyped'
           /\ Clock!Now(Enc) => ClockTyped'
BY DEF ClockTyped, Clock!Restart, Clock!Publish, Clock!Synced, Clock!Now

(* Where the steps that open the codec lead. *)
LEMMA OpenStepMoves ==
    ASSUME NEW i \in 1..Len(OpenSteps), OpenStep(i)
    PROVE  /\ pc \in {"alloc_context", "open2", "alloc_frame"}
           /\ pc' \in {"open2", "alloc_frame", "finish", "destroy"}
<1>1. i \in 1..3 /\ Len(OpenSteps) = 3
  BY DEF OpenSteps
<1> QED BY <1>1 DEF OpenStep, OpenSteps

(* The creation and the clean-up. *)
LEMMA SetupTyped ==
    ASSUME Typed,
           \/ EnterCreate \/ ChooseCodec \/ FindEncoder \/ FinishCreate \/ DestroyData
           \/ Stop \/ \E i \in 1..Len(OpenSteps) : OpenStep(i)
    PROVE  Typed'
<1> USE DEF Typed, Holding, Creating
<1>1. CASE EnterCreate
  <2>1. RingTypeOK'
    BY <1>1, NewRingType DEF EnterCreate
  <2>2. ClockTyped'
    BY <1>1, ClockSteps DEF EnterCreate
  <2>3. request' \in [build : SUBSET Names, saved : BOOLEAN,
                      asked : CodecNames]
    <3>1. \A b \in SUBSET Names : pick_default_codec_name(b) \in CodecNames
      BY PickTyped DEF CodecNames
    <3>2. request' \in Requests
      BY <1>1 DEF EnterCreate
    <3>3. CASE request' \in [build : SUBSET Names, saved : {TRUE},
                            asked : CodecNames]
      BY <3>3
    <3>4. ASSUME NEW b \in SUBSET Names,
                 request' = [build |-> b, saved |-> FALSE,
                             asked |-> pick_default_codec_name(b)]
          PROVE  request' \in [build : SUBSET Names, saved : BOOLEAN,
                               asked : CodecNames]
      BY <3>1, <3>4
    <3> QED BY <3>2, <3>3, <3>4 DEF Requests
  <2>4. resources' \subseteq Resources /\ "sei" \notin resources' /\ "coded" \notin resources'
    BY <1>1 DEF EnterCreate, Resources, Allocator
  <2>5. pc' = "codec_name" /\ pc' \in Points /\ stamping_ntp' \in BOOLEAN /\ next' \in 0..Frames
        /\ codec_name' = NoName /\ headers_size' = 0
        /\ inflight' = {} /\ frame_seq' = 0 /\ emitted' = 0 /\ out_size' = 0 /\ written' = 0
    <3>1. 0 \in 0..Frames
      BY EncoderAssumption
    <3> QED BY <1>1, <3>1 DEF EnterCreate, Points
  <2>6. NoName \in CodecNames
    BY DEF CodecNames
  <2> QED BY <2>1, <2>2, <2>3, <2>4, <2>5, <2>6 DEF TypeOK
<1>2. CASE ChooseCodec
  <2>1. RingTypeOK' /\ ClockTyped'
    BY <1>2, RingUntouched, ClockUntouched DEF ChooseCodec, TypeOK
  <2>2. codec_name' \in CodecNames
    BY <1>2, PickTyped DEF ChooseCodec, TypeOK, CodecNames
  <2>3. pc = "codec_name" /\ pc' \in {"destroy", "find_encoder"} /\ pc' \in Points
    BY <1>2 DEF ChooseCodec, Points
  <2> QED BY <1>2, <2>1, <2>2, <2>3 DEF ChooseCodec, TypeOK, bufVars
<1>3. CASE FindEncoder
  <2>1. RingTypeOK' /\ ClockTyped'
    BY <1>3, RingUntouched, ClockUntouched DEF FindEncoder, TypeOK
  <2>2. pc = "find_encoder" /\ pc' \in {"destroy", "alloc_context"} /\ pc' \in Points
    BY <1>3 DEF FindEncoder, Points
  <2> QED BY <1>3, <2>1, <2>2 DEF FindEncoder, TypeOK, bufVars, setup
<1>4. CASE \E i \in 1..Len(OpenSteps) : OpenStep(i)
  <2> PICK i \in 1..3 : OpenStep(i)
    BY <1>4 DEF OpenSteps
  <2>1. RingTypeOK' /\ ClockTyped'
    BY RingUntouched, ClockUntouched DEF OpenStep, TypeOK
  <2>2. pc \in {"alloc_context", "open2", "alloc_frame"} /\ pc' \in Points
        /\ pc' \notin {"put", "send"} \cup Holding
    BY DEF OpenStep, OpenSteps, Points
  <2>3. Acquired(OpenSteps[i]) \subseteq {"context", "frame", "packet"}
    BY DEF Acquired
  <2>4. resources' \subseteq Resources /\ "sei" \notin resources' /\ "coded" \notin resources'
    <3>1. resources' \subseteq resources \cup {"context", "frame", "packet"}
      BY <2>3 DEF OpenStep
    <3>2. {"context", "frame", "packet"} \subseteq Resources
      BY DEF Resources, Allocator
    <3>3. resources \subseteq Resources
      BY DEF TypeOK
    <3> QED BY <2>2, <3>1, <3>2, <3>3
  <2>5. request' \in [build : SUBSET Names, saved : BOOLEAN,
                      asked : CodecNames]
    BY DEF OpenStep, NoRequest, CodecNames
  <2> QED BY <2>1, <2>2, <2>4, <2>5 DEF OpenStep, TypeOK, bufVars
<1>5. CASE FinishCreate
  <2>1. RingTypeOK' /\ ClockTyped'
    BY <1>5, RingUntouched, ClockUntouched DEF FinishCreate, TypeOK
  <2>2. resources' \subseteq Resources /\ "sei" \notin resources' /\ "coded" \notin resources'
    BY <1>5 DEF FinishCreate, Resources, Allocator, TypeOK
  <2>3. pc = "finish" /\ pc' = "idle" /\ pc' \in Points /\ out_size' \in Nat /\ stamping_ntp' \in BOOLEAN
        /\ headers_size' \in Nat
    BY <1>5, EncoderAssumption DEF FinishCreate, Points
  <2> QED BY <1>5, <2>1, <2>2, <2>3 DEF FinishCreate, TypeOK
<1>6. CASE DestroyData
  <2>1. RingTypeOK' /\ ClockTyped'
    BY <1>6, RingUntouched, ClockUntouched DEF DestroyData, TypeOK
  <2>2. pc = "destroy" /\ pc' = "gone" /\ pc' \in Points
    BY <1>6 DEF DestroyData, Points
  <2>3. resources' \subseteq resources
    BY <1>6 DEF DestroyData
  <2>4. request' \in [build : SUBSET Names, saved : BOOLEAN,
                      asked : CodecNames]
    BY <1>6 DEF DestroyData, NoRequest, CodecNames
  <2> QED BY <1>6, <2>1, <2>2, <2>3, <2>4 DEF DestroyData, TypeOK, bufVars
<1>7. CASE Stop
  <2>1. RingTypeOK' /\ ClockTyped'
    BY <1>7, RingUntouched, ClockUntouched DEF Stop, TypeOK
  <2>2. pc = "idle" /\ pc' = "destroy" /\ pc' \in Points
    BY <1>7 DEF Stop, Points
  <2> QED BY <1>7, <2>1, <2>2 DEF Stop, TypeOK, bufVars, setup
<1> QED BY <1>1, <1>2, <1>3, <1>4, <1>5, <1>6, <1>7

(* The coded packet, and the sizes that are computed for it. *)
LEMMA TypedPacket ==
    ASSUME Typed, pc = "assemble"
    PROVE  pkt.size \in Nat /\ pkt.key \in BOOLEAN
BY EncoderAssumption DEF Typed, Holding

LEMMA TotalTyped ==
    ASSUME Typed, pc = "assemble"
    PROVE  Total(pkt.key, pkt.size) \in Nat
<1>1. headers_size \in Nat /\ SeiSize \in Nat
  BY EncoderAssumption DEF Typed, TypeOK
<1> QED BY <1>1, TypedPacket DEF Total

LEMMA PiecesTyped ==
    ASSUME Typed, NEW key, NEW size \in Nat, NEW prefix \in 0..size
    PROVE  LET piece == Pieces(key, size, prefix)
           IN  /\ piece[1] + piece[2] + piece[3] + piece[4] \in Nat
               /\ piece[1] + piece[2] + piece[3] + piece[4] = size + SeiSize + piece[2]
<1>1. headers_size \in Nat /\ SeiSize \in Nat
  BY EncoderAssumption DEF Typed, TypeOK
<1> QED BY <1>1 DEF Pieces

(* One call of encode, and the clock's worker. *)
LEMMA EncodeTyped ==
    ASSUME Typed, Encode \/ ClockPublishes
    PROVE  Typed'
<1> USE DEF Typed, Holding, Creating
<1>1. CASE RefuseFrame
  <2>1. RingTypeOK' /\ ClockTyped'
    BY <1>1, RingUntouched, ClockUntouched DEF RefuseFrame, TypeOK
  <2>2. next' \in 0..Frames /\ inflight' \subseteq 0..(next' - 1) /\ pc = "idle"
    BY <1>1, TypedNumbers DEF RefuseFrame
  <2> QED BY <1>1, <2>1, <2>2 DEF RefuseFrame, TypeOK, bufVars, setup
<1>2. CASE ReadSubmitTime
  <2>1. RingTypeOK' /\ ClockTyped'
    BY <1>2, RingUntouched, ClockUntouched, ClockSteps DEF ReadSubmitTime, TypeOK
  <2>2. pc = "idle" /\ pc' = "put" /\ pc' \in Points /\ next < Frames
    BY <1>2 DEF ReadSubmitTime, Points
  <2> QED BY <1>2, <2>1, <2>2 DEF ReadSubmitTime, TypeOK, bufVars, setup
<1>3. CASE RecordSubmitTime
  <2>1. RingTypeOK'
    BY <1>3, StampNowTyped, PutType DEF RecordSubmitTime, TypeOK
  <2>2. ClockTyped'
    BY <1>3, ClockUntouched DEF RecordSubmitTime
  <2>3. next' \in 0..Frames /\ next' > 0 /\ inflight' \subseteq 0..(next' - 1)
    <3>1. next' = next + 1 /\ inflight' = inflight /\ next < Frames
      BY <1>3 DEF RecordSubmitTime
    <3> HIDE DEF Typed
    <3> QED BY <3>1, TypedNumbers
  <2>4. pc = "put" /\ pc' = "send" /\ pc' \in Points
    BY <1>3 DEF RecordSubmitTime, Points
  <2> QED BY <1>3, <2>1, <2>2, <2>3, <2>4 DEF RecordSubmitTime, TypeOK, bufVars, setup
<1>4. CASE SendFrame
  <2>1. RingTypeOK' /\ ClockTyped'
    BY <1>4, RingUntouched, ClockUntouched DEF SendFrame, TypeOK
  <2>2. pc = "send" /\ pc' \in {"receive", "idle"} /\ pc' \in Points
    BY <1>4 DEF SendFrame, Points
  <2>3. inflight' \subseteq 0..(next - 1)
    <3>1. next \in Nat /\ next > 0
      BY <2>2, TypedNumbers
    <3>2. next - 1 \in 0..(next - 1)
      BY <3>1
    <3> QED BY <1>4, <3>2 DEF SendFrame, TypeOK
  <2> QED BY <1>4, <2>1, <2>2, <2>3 DEF SendFrame, TypeOK, bufVars, setup
<1>5. CASE ReceivePacket
  <2>1. RingTypeOK' /\ ClockTyped'
    BY <1>5, RingUntouched, ClockUntouched DEF ReceivePacket, TypeOK
  <2>2. CASE pc' = "idle" /\ UNCHANGED <<inflight, pkt, emitted, resources>>
    BY <1>5, <2>1, <2>2 DEF ReceivePacket, TypeOK, bufVars, setup, Points
  <2>3. ASSUME NEW p \in inflight, NEW key \in BOOLEAN, NEW size \in PacketSizes,
               pkt' = [pts |-> p, key |-> key, size |-> size],
               inflight' = inflight \ {p}, emitted' = emitted + 1,
               resources' = resources \cup {"coded"}, pc' = "flag"
        PROVE  Typed'
    <3>1. pkt'.pts \in 0..(next - 1) /\ pkt'.pts \notin inflight' /\ pkt'.key \in BOOLEAN
          /\ pkt'.size \in PacketSizes
      BY <2>3 DEF TypeOK
    <3>2. resources' \subseteq Resources /\ pc' \in Points
      BY <2>3, FreesMatch DEF TypeOK, Points, Resources, Allocator
    <3>3. UNCHANGED <<request, codec_name, headers_size, stamping_ntp, stamp, next, frame_seq, out_size, written>>
          /\ pc = "receive"
      BY <1>5 DEF ReceivePacket, bufVars, setup, clockVars
    <3>4. emitted' \in Nat /\ inflight' \subseteq 0..(next - 1)
      <4> HIDE DEF Typed
      <4> QED BY <2>3, TypedNumbers
    <3>5. "sei" \notin resources'
      BY <2>3, <3>3
    <3> QED BY <2>1, <2>3, <3>1, <3>2, <3>3, <3>4, <3>5 DEF TypeOK
  <2> QED BY <1>5, <2>2, <2>3 DEF ReceivePacket
<1>6. CASE ReadFlag
  <2>1. RingTypeOK' /\ ClockTyped'
    BY <1>6, RingUntouched, ClockUntouched, ClockSteps DEF ReadFlag, TypeOK
  <2>2. pc = "flag" /\ pc' = "take" /\ pc' \in Points
    BY <1>6 DEF ReadFlag, Points
  <2> QED BY <1>6, <2>1, <2>2 DEF ReadFlag, TypeOK, bufVars, setup
<1>7. CASE TakeSubmitTime
  <2>1. pkt.pts \in Pts
    <3>1. pkt.pts \in 0..(next - 1)
      BY <1>7 DEF TakeSubmitTime
    <3> HIDE DEF Typed
    <3> QED BY <3>1, TypedNumbers, EncoderAssumption
  <2>2. RingTypeOK'
    BY <1>7, <2>1, TakeType DEF TakeSubmitTime, TypeOK
  <2>3. ClockTyped'
    BY <1>7, ClockUntouched DEF TakeSubmitTime
  <2>4. pc = "take" /\ pc' \in {"fallback", "build"} /\ pc' \in Points
    BY <1>7 DEF TakeSubmitTime, Points
  <2>5. pkt'.pts = pkt.pts /\ pkt'.key = pkt.key /\ pkt'.size = pkt.size
    BY <1>7 DEF TakeSubmitTime
  <2>6. /\ UNCHANGED <<setup, resources, stamp, next, inflight, out_size,
                       written, emitted>>
        /\ frame_seq' = frame_seq + 1
    BY <1>7 DEF TakeSubmitTime, bufVars, clockVars
  <2>7. frame_seq' \in Nat
    BY <2>6, TypedNumbers
  <2> QED BY <2>2, <2>3, <2>4, <2>5, <2>6, <2>7 DEF TypeOK, setup
<1>8. CASE FallBackToNow
  <2>1. RingTypeOK' /\ ClockTyped'
    BY <1>8, RingUntouched, ClockUntouched, ClockSteps DEF FallBackToNow, TypeOK
  <2>2. pc = "fallback" /\ pc' = "build" /\ pc' \in Points
    BY <1>8 DEF FallBackToNow, Points
  <2> QED BY <1>8, <2>1, <2>2 DEF FallBackToNow, TypeOK, bufVars, setup
<1>9. CASE FailBuild
  <2>1. RingTypeOK' /\ ClockTyped'
    BY <1>9, RingUntouched, ClockUntouched DEF FailBuild, TypeOK
  <2>2. pc = "build" /\ pc' = "idle" /\ pc' \in Points
    BY <1>9 DEF FailBuild, Points
  <2> QED BY <1>9, <2>1, <2>2 DEF FailBuild, TypeOK, bufVars, setup
<1>10. CASE BuildSei
  <2>1. RingTypeOK' /\ ClockTyped'
    BY <1>10, RingUntouched, ClockUntouched DEF BuildSei, TypeOK
  <2>2. pc = "build" /\ pc' = "assemble" /\ pc' \in Points /\ resources' \subseteq Resources
    BY <1>10 DEF BuildSei, Points, TypeOK, Resources, Allocator
  <2> QED BY <1>10, <2>1, <2>2 DEF BuildSei, TypeOK, bufVars, setup
<1>11. CASE Assemble
  <2>1. RingTypeOK' /\ ClockTyped'
    BY <1>11, RingUntouched, ClockUntouched DEF Assemble, TypeOK
  <2>2. pc = "assemble" /\ pc' = "idle" /\ pc' \in Points
    BY <1>11 DEF Assemble, Points
  <2>3. out_size' \in Nat
    BY <1>11, <2>2, TotalTyped DEF Assemble, RoomFor, TypeOK
  <2>4. written' \in Nat
    BY <1>11, <2>2, PiecesTyped, TypedPacket DEF Assemble
  <2>5. resources' = resources \ {"sei", "coded"}
    BY <1>11 DEF Assemble, PerCall
  <2> QED BY <1>11, <2>1, <2>2, <2>3, <2>4, <2>5 DEF Assemble, TypeOK, setup
<1>12. CASE ClockPublishes
  <2>1. RingTypeOK' /\ ClockTyped'
    BY <1>12, RingUntouched, ClockSteps DEF ClockPublishes, TypeOK
  <2>2. /\ UNCHANGED <<pc, resources, request, codec_name, headers_size, stamping_ntp, next>>
        /\ UNCHANGED <<inflight, pkt, frame_seq, out_size, written, emitted>>
    BY <1>12 DEF ClockPublishes, bufVars, setup
  <2> QED BY <2>1, <2>2 DEF TypeOK
<1> QED BY <1>1, <1>2, <1>3, <1>4, <1>5, <1>6, <1>7, <1>8, <1>9, <1>10, <1>11, <1>12
        DEF Encode

LEMMA NextTyped == Typed /\ [Next]_vars => Typed'
<1> SUFFICES ASSUME Typed, [Next]_vars PROVE Typed'
  OBVIOUS
<1>1. CASE UNCHANGED vars
  <2>1. RingTypeOK' /\ ClockTyped'
    BY <1>1, RingUntouched, ClockUntouched DEF vars, Typed, TypeOK
  <2> QED BY <1>1, <2>1 DEF vars, Typed, TypeOK, bufVars, setup
<1> QED BY <1>1, SetupTyped, EncodeTyped DEF Next

(* The encoder's fields keep their types. *)
THEOREM EncoderTypeCorrect == Spec => []TypeOK
<1>1. Typed => TypeOK
  BY DEF Typed
<1> QED BY <1>1, InitTyped, NextTyped, PTL DEF Spec

-----------------------------------------------------------------------------
(* Only four actions touch the ring, and each as an operation of the ring. *)
LEMMA RingMoves ==
    ASSUME Typed, [Next]_vars
    PROVE  \/ EnterCreate /\ NewRing
           \/ RecordSubmitTime /\ next \in Pts /\ StampNow(next) \in Times
              /\ put_entry(next, StampNow(next))
           \/ TakeSubmitTime /\ pkt.pts \in Pts /\ take_entry(pkt.pts)
           \/ UNCHANGED ringVars
<1>1. CASE EnterCreate
  BY <1>1 DEF EnterCreate
<1>2. CASE RecordSubmitTime
  BY <1>2, StampNowTyped DEF RecordSubmitTime
<1>3. CASE TakeSubmitTime
  <2>1. pkt.pts \in 0..(next - 1)
    BY <1>3 DEF TakeSubmitTime, Typed, Holding
  <2>2. pkt.pts \in Pts
    BY <2>1, TypedNumbers, EncoderAssumption
  <2> QED BY <1>3, <2>2 DEF TakeSubmitTime
<1>4. CASE ~(EnterCreate \/ RecordSubmitTime \/ TakeSubmitTime)
  BY <1>4 DEF Next, Encode, vars, ChooseCodec, FindEncoder, OpenStep, FinishCreate, Stop,
      DestroyData, ClockPublishes, RefuseFrame, ReadSubmitTime, SendFrame, ReceivePacket,
      ReadFlag, FallBackToNow, FailBuild, BuildSei, Assemble
<1> QED BY <1>1, <1>2, <1>3, <1>4

(* The ring inside the encoder is a bounded queue: encode uses it as the ring's
   specification allows, for every capacity and every codec.                 *)
THEOREM EncoderKeepsQueue == Spec => RingIsQueue
<1>1. Init => RingInit
  BY InitTyped DEF Init, RingInit, Typed, TypeOK, RingTypeOK
<1>2. Typed /\ [Next]_vars => [RingNext]_ringVars
  BY RingMoves DEF RingNext
<1>3. Spec => RingSpec
  BY <1>1, <1>2, InitTyped, NextTyped, PTL DEF Spec, RingSpec
<1> QED BY <1>3, RingImplementsQueue, PTL

-----------------------------------------------------------------------------
(* The size of the headers belongs to the headers: it is that of what is held, and
   0 while and when there are none.                                          *)
Headed ==
    /\ pc \in Creating => packet = NoPacket /\ "inline" \notin resources
    /\ pc # "gone" => headers_size = IF "inline" \in resources THEN HeaderSize ELSE 0

LEMMA InitHeaded == Init => Headed
BY DEF Init, Headed

LEMMA NextHeaded ==
    ASSUME Typed, Headed, [Next]_vars
    PROVE  Headed'
<1>1. CASE EnterCreate
  BY <1>1 DEF EnterCreate, Headed
<1>2. CASE FinishCreate
  <2>1. PICK headers \in BOOLEAN :
            /\ headers_size' = IF headers THEN HeaderSize ELSE 0
            /\ "inline" \in resources' <=> headers
    <3>1. pc = "finish" /\ "inline" \notin resources
      BY <1>2 DEF FinishCreate, Headed, Creating
    <3> QED BY <1>2, <3>1 DEF FinishCreate
  <2>2. pc' = "idle"
    BY <1>2 DEF FinishCreate
  <2> QED BY <2>1, <2>2 DEF Headed, Creating
<1>3. CASE \E i \in 1..Len(OpenSteps) : OpenStep(i)
  <2> PICK i \in 1..Len(OpenSteps) : OpenStep(i)
    BY <1>3
  <2>1. pc \in {"alloc_context", "open2", "alloc_frame"}
    BY OpenStepMoves
  <2>2. "inline" \notin Acquired(OpenSteps[i])
    BY DEF Acquired
  <2>3. resources' \subseteq resources \cup Acquired(OpenSteps[i])
    BY DEF OpenStep
  <2>4. "inline" \notin resources /\ packet = NoPacket /\ headers_size = 0
    BY <2>1 DEF Headed, Creating
  <2>5. UNCHANGED <<packet, headers_size>>
    BY DEF OpenStep
  <2> QED BY <2>2, <2>3, <2>4, <2>5 DEF Headed
<1>4. CASE DestroyData
  BY <1>4 DEF DestroyData, Headed, Creating
<1>5. CASE Assemble
  <2>1. "inline" \in resources' <=> "inline" \in resources
    BY <1>5 DEF Assemble, PerCall
  <2> QED BY <1>5, <2>1 DEF Assemble, Headed, Creating, setup
<1>6. CASE ~(EnterCreate \/ FinishCreate \/ DestroyData \/ Assemble
             \/ \E i \in 1..Len(OpenSteps) : OpenStep(i))
  <2>1. /\ UNCHANGED <<packet, headers_size>>
        /\ "inline" \in resources' <=> "inline" \in resources
    BY <1>6 DEF Next, Encode, vars, ChooseCodec, FindEncoder, Stop, ClockPublishes,
        RefuseFrame, ReadSubmitTime, RecordSubmitTime, SendFrame, ReceivePacket, ReadFlag,
        TakeSubmitTime, FallBackToNow, FailBuild, BuildSei, setup
  <2>2. /\ pc' \in Creating => pc \in Creating
        /\ pc' # "gone" => pc # "gone"
    BY <1>6 DEF Next, Encode, vars, ChooseCodec, FindEncoder, Stop, ClockPublishes,
        RefuseFrame, ReadSubmitTime, RecordSubmitTime, SendFrame, ReceivePacket, ReadFlag,
        TakeSubmitTime, FallBackToNow, FailBuild, BuildSei, Creating
  <2> QED BY <2>1, <2>2 DEF Headed
<1> QED BY <1>1, <1>2, <1>3, <1>4, <1>5, <1>6

(* The pieces copied behind each other end where the size computed in advance says
   and inside the buffer, whatever the sizes of the codec's packets, of the SEI
   and of the headers, and wherever the packet is cut for the SEI.           *)
THEOREM PacketsFit == Spec => []AssemblyFits
<1>1. Init => AssemblyFits
  BY DEF Init, AssemblyFits
<1>2. Typed /\ Headed /\ AssemblyFits /\ [Next]_vars => AssemblyFits'
  <2> SUFFICES ASSUME Typed, Headed, AssemblyFits, [Next]_vars PROVE AssemblyFits'
    OBVIOUS
  <2>1. CASE EnterCreate
    BY <2>1 DEF EnterCreate, AssemblyFits
  <2>2. CASE FinishCreate
    BY <2>2 DEF FinishCreate, Headed, Creating, AssemblyFits
  <2>3. CASE Assemble
    <3>1. pc = "assemble" /\ pkt.size \in Nat /\ pkt.key \in BOOLEAN
      BY <2>3, TypedPacket DEF Assemble
    <3>2. PICK prefix \in 0..pkt.size :
              LET piece == Pieces(pkt.key, pkt.size, prefix)
              IN  written' = piece[1] + piece[2] + piece[3] + piece[4]
      BY <2>3 DEF Assemble
    <3>3. written' = pkt.size + SeiSize + Pieces(pkt.key, pkt.size, prefix)[2]
      BY <3>1, <3>2, PiecesTyped
    <3>4. Pieces(pkt.key, pkt.size, prefix)[2] = IF pkt.key THEN headers_size ELSE 0
      <4>1. HeaderSize \in Nat
        BY EncoderAssumption
      <4>2. headers_size = IF "inline" \in resources THEN HeaderSize ELSE 0
        BY <3>1 DEF Headed
      <4> QED BY <4>1, <4>2 DEF Pieces
    <3>5. written' = Total(pkt.key, pkt.size)
      BY <3>3, <3>4 DEF Total
    <3>6. Total(pkt.key, pkt.size) \in Nat /\ out_size \in Nat
      BY <3>1, TotalTyped, TypedNumbers
    <3>7. Total(pkt.key, pkt.size) <= out_size'
      BY <2>3, <3>6 DEF Assemble, RoomFor
    <3>8. packet'.size = Total(pkt.key, pkt.size)
      BY <2>3 DEF Assemble
    <3> QED BY <3>5, <3>7, <3>8 DEF AssemblyFits
  <2>4. CASE ~(EnterCreate \/ FinishCreate \/ Assemble)
    <3>1. UNCHANGED bufVars /\ UNCHANGED packet
      BY <2>4 DEF Next, Encode, vars, ChooseCodec, FindEncoder, OpenStep, Stop,
          DestroyData, ClockPublishes, RefuseFrame, ReadSubmitTime, RecordSubmitTime,
          SendFrame, ReceivePacket, ReadFlag, TakeSubmitTime, FallBackToNow, FailBuild,
          BuildSei
    <3> QED BY <3>1 DEF bufVars, AssemblyFits
  <2> QED BY <2>1, <2>2, <2>3, <2>4
<1> QED BY <1>1, <1>2, InitTyped, NextTyped, InitHeaded, NextHeaded, PTL DEF Spec

(* Destruction leaves nothing, whatever creation had acquired when it failed, and
   no call of encode leaves anything of its own behind.                      *)
THEOREM NothingIsLeft == Spec => []NothingLeft
<1>1. Init => NothingLeft
  BY DEF Init, NothingLeft
<1>2. Typed /\ NothingLeft /\ [Next]_vars => NothingLeft'
  <2> SUFFICES ASSUME Typed, NothingLeft, [Next]_vars PROVE NothingLeft'
    OBVIOUS
  <2>1. Typed'
    BY NextTyped
  <2>2. pc' = "idle" => resources' \cap PerCall = {}
    BY <2>1 DEF Typed, Holding, PerCall
  <2>3. CASE DestroyData
    <3>1. resources' = resources \ (Resources \ PerCall)
      BY <2>3, FreesMatch DEF DestroyData
    <3>2. resources \subseteq Resources /\ "coded" \notin resources /\ "sei" \notin resources
      BY <2>3 DEF DestroyData, Typed, TypeOK, Holding
    <3>3. resources' = {}
      BY <3>1, <3>2 DEF PerCall
    <3> QED BY <2>2, <3>3 DEF NothingLeft
  <2>4. CASE pc' = pc /\ resources' = resources
    BY <2>4 DEF NothingLeft
  <2>5. CASE ~DestroyData /\ ~(pc' = pc /\ resources' = resources)
    <3>1. pc' # "gone"
      BY <2>5, OpenStepMoves DEF Next, Encode, vars, EnterCreate, ChooseCodec, FindEncoder,
          FinishCreate, Stop, ClockPublishes, RefuseFrame, ReadSubmitTime,
          RecordSubmitTime, SendFrame, ReceivePacket, ReadFlag, TakeSubmitTime,
          FallBackToNow, FailBuild, BuildSei, Assemble
    <3> QED BY <2>2, <3>1 DEF NothingLeft
  <2> QED BY <2>3, <2>4, <2>5
<1> QED BY <1>1, <1>2, InitTyped, NextTyped, PTL DEF Spec

-----------------------------------------------------------------------------
(* Packets received and numbers given out, by program point. *)
Counted ==
    /\ frame_seq = IF pc \in {"flag", "take"} THEN emitted - 1 ELSE emitted
    /\ pc \in Numbered => pkt.seq = (emitted - 1) % SeqMod

(* The number in a packet is its place among all packets the codec gave, those
   lost on the way to OBS included.                                          *)
THEOREM NumbersCount == Spec => SeqCountsPackets
<1>1. Init => Counted
  BY DEF Init, Counted, Numbered
<1>2. Typed /\ Counted /\ [Next]_vars => Counted'
  <2> SUFFICES ASSUME Typed, Counted, [Next]_vars PROVE Counted'
    OBVIOUS
  <2> USE DEF Counted, Numbered
  <2>0. frame_seq \in Nat /\ emitted \in Nat
    BY TypedNumbers
  <2>1. CASE ReceivePacket
    <3>1. pc = "receive" /\ frame_seq' = frame_seq
          /\ (\/ pc' = "idle" /\ emitted' = emitted
              \/ pc' = "flag" /\ emitted' = emitted + 1)
      BY <2>1 DEF ReceivePacket
    <3> QED BY <2>0, <3>1
  <2>2. CASE TakeSubmitTime
    <3>1. pc = "take" /\ pc' \in {"fallback", "build"} /\ emitted' = emitted
          /\ frame_seq' = frame_seq + 1 /\ pkt'.seq = frame_seq % SeqMod
      BY <2>2 DEF TakeSubmitTime
    <3> QED BY <2>0, <3>1
  <2>3. CASE EnterCreate
    BY <2>3 DEF EnterCreate
  <2>4. CASE ~(ReceivePacket \/ TakeSubmitTime \/ EnterCreate)
    <3>1. UNCHANGED <<frame_seq, emitted>>
      BY <2>4 DEF Next, Encode, vars, ChooseCodec, FindEncoder, OpenStep, FinishCreate,
          Stop, DestroyData, ClockPublishes, RefuseFrame, ReadSubmitTime, RecordSubmitTime,
          SendFrame, ReadFlag, FallBackToNow, FailBuild, BuildSei, Assemble
    <3>2. /\ (pc' \in {"flag", "take"}) <=> (pc \in {"flag", "take"})
          /\ pc' \in Numbered => pc \in Numbered /\ pkt' = pkt
      BY <2>4, OpenStepMoves DEF Next, Encode, vars, ChooseCodec, FindEncoder,
          FinishCreate, Stop, DestroyData, ClockPublishes, RefuseFrame, ReadSubmitTime,
          RecordSubmitTime, SendFrame, ReadFlag, FallBackToNow, FailBuild, BuildSei,
          Assemble
    <3> QED BY <3>1, <3>2
  <2> QED BY <2>1, <2>2, <2>3, <2>4
<1>3. Typed /\ Counted /\ [Next]_vars
      => [packet' # packet /\ packet' # NoPacket
          => packet'.seq = (emitted - 1) % SeqMod]_vars
  <2> SUFFICES ASSUME Typed, Counted, [Next]_vars, packet' # packet, packet' # NoPacket
               PROVE  packet'.seq = (emitted - 1) % SeqMod
    OBVIOUS
  <2>1. Assemble
    BY DEF Next, Encode, vars, EnterCreate, ChooseCodec, FindEncoder, OpenStep,
        FinishCreate, Stop, DestroyData, ClockPublishes, RefuseFrame, ReadSubmitTime,
        RecordSubmitTime, SendFrame, ReceivePacket, ReadFlag, TakeSubmitTime, FallBackToNow,
        FailBuild, BuildSei
  <2>2. pc = "assemble" /\ packet'.seq = pkt.seq
    BY <2>1 DEF Assemble
  <2> QED BY <2>2 DEF Counted, Numbered
<1> QED BY <1>1, <1>2, <1>3, InitTyped, NextTyped, PTL DEF Spec, SeqCountsPackets

-----------------------------------------------------------------------------
(* The entries in use are those of frames with growing pts, each with the submit
   time of its own frame; entries that are k places apart are at least k frames
   apart, which is what bounds the age of a dropped one.                     *)
Ordered ==
    /\ \A i \in 1..Len(Contents) : Contents[i].epoch_us.of = Contents[i].pts
    /\ \A i, j \in 1..Len(Contents) : i <= j => Contents[j].pts - Contents[i].pts >= j - i
    /\ \A i \in 1..Len(Contents) : Contents[i].pts + (Len(Contents) - i) < next

(* Frames whose packet may still ask for its entry. *)
Pending == inflight \cup (IF pc \in {"flag", "take"} THEN {pkt.pts} ELSE {})
                    \cup (IF pc = "send" THEN {next - 1} ELSE {})

Old(p) == next - 1 - p >= Cap

PendingKept == \A p \in Pending : Queue!Holds(p) \/ Old(p)

TakenOwn == pc \in Numbered =>
                IF taken = Absent THEN Old(pkt.pts) ELSE taken.of = pkt.pts

Own == Ordered /\ PendingKept /\ TakenOwn /\ StampOfOwnFrame /\ packet.pts \in Int

(* The queue of a typed ring. *)
LEMMA QueueFacts ==
    ASSUME Typed
    PROVE  /\ RingTypeOK
           /\ Contents \in Seq(Entry) /\ Len(Contents) \in 0..Cap
           /\ \A i \in 1..Len(Contents) : /\ Contents[i] \in Entry
                                          /\ Contents[i].pts \in Nat
                                          /\ Contents[i].epoch_us \in Times
<1>1. RingTypeOK
  BY DEF Typed, TypeOK
<1>2. Contents \in Seq(Entry) /\ Len(Contents) \in 0..Cap
  BY <1>1, ContentsFacts DEF RingTypeOK, Contents
<1>3. \A i \in 1..Len(Contents) : Contents[i] \in Entry
  BY <1>2
<1>4. \A e \in Entry : e.pts \in Nat /\ e.epoch_us \in Times
  BY EncoderAssumption DEF Entry
<1> QED BY <1>1, <1>2, <1>3, <1>4

(* What a put does to the queue, place by place: the newest entry is added, the
   others keep their order and move by one if the oldest had to go.          *)
LEMMA PutPlaces ==
    ASSUME Typed, NEW p \in Pts, NEW us \in Times, put_entry(p, us)
    PROVE  \E s \in {0, 1} :
               /\ s = 1 => Len(Contents) = Cap
               /\ Len(Contents') = Len(Contents) - s + 1
               /\ \A i \in 1..(Len(Contents) - s) : Contents'[i] = Contents[i + s]
               /\ Contents'[Len(Contents) - s + 1] = [pts |-> p, epoch_us |-> us]
<1> DEFINE e == [pts |-> p, epoch_us |-> us]
           q == IF Len(Contents) = Cap THEN Tail(Contents) ELSE Contents
<1>1. Contents' = Append(q, e)
  BY QueueFacts, PutRefines DEF Queue!Put
<1>2. Contents \in Seq(Entry) /\ Cap \in Nat \ {0} /\ e \in Entry
  BY QueueFacts, RingAssumption DEF Entry
<1> HIDE DEF e
<1>3. CASE Len(Contents) = Cap
  <2>1. /\ q = Tail(Contents) /\ q \in Seq(Entry) /\ Len(q) = Len(Contents) - 1
        /\ \A i \in 1..(Len(Contents) - 1) : q[i] = Contents[i + 1]
    BY <1>2, <1>3
  <2>2. /\ Len(Contents') = Len(q) + 1 /\ Contents'[Len(q) + 1] = e
        /\ \A i \in 1..Len(q) : Contents'[i] = q[i]
    BY <1>1, <1>2, <2>1
  <2> HIDE DEF q
  <2> QED BY <1>2, <1>3, <2>1, <2>2 DEF e
<1>4. CASE Len(Contents) # Cap
  <2>1. q = Contents
    BY <1>4
  <2>2. /\ Len(Contents') = Len(Contents) + 1 /\ Contents'[Len(Contents) + 1] = e
        /\ \A i \in 1..Len(Contents) : Contents'[i] = Contents[i]
    BY <1>1, <1>2, <2>1
  <2> QED BY <1>2, <2>2 DEF e
<1> QED BY <1>3, <1>4

(* What a take that finds an entry does to the queue, place by place. *)
LEMMA TakePlaces ==
    ASSUME Typed, NEW p \in Pts, take_entry(p)
    PROVE  \/ taken' = Absent /\ Contents' = Contents /\ ~Queue!Holds(p)
           \/ \E i \in 1..Len(Contents) :
                 /\ Contents[i].pts = p /\ taken' = Contents[i].epoch_us
                 /\ taken' # Absent
                 /\ Len(Contents') = Len(Contents) - 1
                 /\ \A j \in 1..(Len(Contents) - 1) :
                       Contents'[j] = Contents[IF j < i THEN j ELSE j + 1]
<1>1. Queue!Take(p) \/ Queue!TakeAbsent(p)
  BY QueueFacts, TakeRefines
<1>2. CASE Queue!TakeAbsent(p)
  BY <1>2 DEF Queue!TakeAbsent
<1>3. CASE Queue!Take(p)
  <2>1. PICK i \in 1..Len(Contents) :
            /\ Contents[i].pts = p /\ taken' = Contents[i].epoch_us
            /\ Contents' = [j \in 1..(Len(Contents) - 1) |->
                               Contents[IF j < i THEN j ELSE j + 1]]
    BY <1>3 DEF Queue!Take
  <2>2. taken' # Absent
    BY <2>1, QueueFacts, RingAssumption
  <2>3. Len(Contents') = Len(Contents) - 1
    BY <2>1, QueueFacts, RingAssumption
  <2> QED BY <2>1, <2>2, <2>3
<1> QED BY <1>1, <1>2, <1>3

(* The packet handed over stays its own frame's as further frames arrive. *)
LEMMA LaterStaysOwn ==
    ASSUME StampOfOwnFrame, packet.pts \in Int, packet' = packet, next \in Nat,
           next' \in {next, next + 1}, Cap \in Nat
    PROVE  StampOfOwnFrame' /\ packet'.pts \in Int
<1>1. CASE packet = NoPacket \/ ~packet.fallback
  BY <1>1 DEF StampOfOwnFrame, NoPacket
<1>2. CASE packet # NoPacket /\ packet.fallback
  <2>1. next - 1 - packet.pts >= Cap
    BY <1>2 DEF StampOfOwnFrame
  <2>2. next' - 1 - packet.pts >= Cap
    BY <2>1
  <2> QED BY <1>2, <2>2 DEF StampOfOwnFrame
<1> QED BY <1>1, <1>2

LEMMA PutKeepsOwn ==
    ASSUME Typed, Own, RecordSubmitTime
    PROVE  Own'
<1> DEFINE n == Len(Contents)
<1>1. /\ next \in Pts /\ StampNow(next) \in Times /\ put_entry(next, StampNow(next))
      /\ StampNow(next).of = next
  BY StampNowTyped DEF RecordSubmitTime, StampNow
<1>2. /\ pc = "put" /\ pc' = "send" /\ next' = next + 1 /\ inflight' = inflight
      /\ packet' = packet
  BY DEF RecordSubmitTime
<1>3. /\ next \in Nat /\ n \in 0..Cap /\ Cap \in Nat \ {0}
      /\ inflight \subseteq 0..(next - 1)
      /\ \A i \in 1..n : Contents[i].pts \in Nat
  BY TypedNumbers, QueueFacts
<1>4. PICK s \in {0, 1} :
          /\ s = 1 => n = Cap
          /\ Len(Contents') = n - s + 1
          /\ \A i \in 1..(n - s) : Contents'[i] = Contents[i + s]
          /\ Contents'[n - s + 1] = [pts |-> next, epoch_us |-> StampNow(next)]
  BY <1>1, PutPlaces
<1>5. /\ Contents'[n - s + 1].pts = next
      /\ Contents'[n - s + 1].epoch_us.of = next
  BY <1>1, <1>4
<1>6. Ordered'
  <2>1. \A i \in 1..Len(Contents') : i \in 1..(n - s) \/ i = n - s + 1
    BY <1>3, <1>4
  <2>2. \A i \in 1..(n - s) : i + s \in 1..n
    BY <1>3, <1>4
  <2>3. \A i \in 1..Len(Contents') : Contents'[i].epoch_us.of = Contents'[i].pts
    BY <1>4, <1>5, <2>1, <2>2 DEF Own, Ordered
  <2>4. \A i \in 1..(n - s) : /\ Contents'[i].pts \in Nat
                              /\ Contents'[i].pts + (n - s - i) < next
    <3> SUFFICES ASSUME NEW i \in 1..(n - s)
                 PROVE  Contents'[i].pts \in Nat /\ Contents'[i].pts + (n - s - i) < next
      OBVIOUS
    <3>1. Contents[i + s].pts + (n - (i + s)) < next
      BY <2>2 DEF Own, Ordered
    <3> QED BY <1>3, <1>4, <2>2, <3>1
  <2>5. \A i, j \in 1..Len(Contents') :
           i <= j => Contents'[j].pts - Contents'[i].pts >= j - i
    <3> SUFFICES ASSUME NEW i \in 1..Len(Contents'), NEW j \in 1..Len(Contents'), i <= j
                 PROVE  Contents'[j].pts - Contents'[i].pts >= j - i
      OBVIOUS
    <3>1. CASE i \in 1..(n - s) /\ j \in 1..(n - s)
      <4>1. i + s \in 1..n /\ j + s \in 1..n /\ i + s <= j + s
        BY <1>3, <1>4, <2>2, <3>1
      <4>2. Contents[j + s].pts - Contents[i + s].pts >= (j + s) - (i + s)
        BY <4>1 DEF Own, Ordered
      <4>3. Contents'[i].pts = Contents[i + s].pts /\ Contents'[j].pts = Contents[j + s].pts
        BY <1>4, <3>1
      <4>4. Contents[i + s].pts \in Nat /\ Contents[j + s].pts \in Nat /\ s \in Nat
        BY <1>3, <4>1
      <4>5. i \in Nat /\ j \in Nat
        BY <3>1
      <4> HIDE DEF n
      <4> QED BY <4>2, <4>3, <4>4, <4>5
    <3>2. CASE i \in 1..(n - s) /\ j = n - s + 1
      BY <1>3, <1>4, <1>5, <2>4, <3>2
    <3>3. CASE i = n - s + 1 /\ j = n - s + 1
      BY <1>3, <1>4, <1>5, <3>3
    <3>4. ~(i = n - s + 1 /\ j \in 1..(n - s))
      BY <1>3, <1>4
    <3> QED BY <2>1, <3>1, <3>2, <3>3, <3>4
  <2>6. \A i \in 1..Len(Contents') : Contents'[i].pts + (Len(Contents') - i) < next'
    <3> SUFFICES ASSUME NEW i \in 1..Len(Contents')
                 PROVE  Contents'[i].pts + (Len(Contents') - i) < next'
      OBVIOUS
    <3>1. CASE i \in 1..(n - s)
      BY <1>2, <1>3, <1>4, <2>4, <3>1
    <3>2. CASE i = n - s + 1
      BY <1>2, <1>3, <1>4, <1>5, <3>2
    <3> QED BY <2>1, <3>1, <3>2
  <2> QED BY <2>3, <2>5, <2>6 DEF Ordered
<1>7. PendingKept'
  <2> SUFFICES ASSUME NEW p \in Pending' PROVE Queue!Holds(p)' \/ Old(p)'
    BY DEF PendingKept
  <2>1. p \in inflight \/ p = next
    BY <1>2, <1>3 DEF Pending
  <2>2. CASE p = next
    <3>1. n - s + 1 \in 1..Len(Contents')
      BY <1>3, <1>4
    <3> QED BY <1>5, <2>2, <3>1 DEF Queue!Holds
  <2>3. CASE p \in inflight
    <3>1. p \in Nat /\ (Queue!Holds(p) \/ Old(p))
      BY <1>3, <2>3 DEF Own, PendingKept, Pending
    <3>2. Old(p) => Old(p)'
      BY <1>2, <1>3, <3>1 DEF Old
    <3>3. ASSUME NEW i \in 1..n, Contents[i].pts = p
          PROVE  Queue!Holds(p)' \/ Old(p)'
      <4>1. CASE i > s
        <5>1. i - s \in 1..(n - s) /\ i - s \in 1..Len(Contents') /\ (i - s) + s = i
          BY <1>3, <1>4, <4>1
        <5>2. Contents'[i - s] = Contents[i]
          BY <1>4, <5>1
        <5> QED BY <3>3, <5>1, <5>2 DEF Queue!Holds
      <4>2. CASE i <= s
        <5>1. i = 1 /\ s = 1 /\ n = Cap
          BY <1>3, <1>4, <4>2
        <5>2. Contents[1].pts + (n - 1) < next
          BY <5>1 DEF Own, Ordered
        <5> QED BY <1>2, <1>3, <3>1, <3>3, <5>1, <5>2 DEF Old
      <4> QED BY <1>3, <1>4, <4>1, <4>2
    <3> QED BY <3>1, <3>2, <3>3 DEF Queue!Holds
  <2> QED BY <2>1, <2>2, <2>3
<1>8. TakenOwn'
  BY <1>2 DEF TakenOwn, Numbered
<1>9. StampOfOwnFrame' /\ packet'.pts \in Int
  BY <1>2, <1>3, LaterStaysOwn DEF Own
<1> QED BY <1>6, <1>7, <1>8, <1>9 DEF Own

LEMMA TakeKeepsOwn ==
    ASSUME Typed, Own, TakeSubmitTime
    PROVE  Own'
<1> DEFINE n == Len(Contents)
<1>1. /\ pc = "take" /\ pc' \in Numbered /\ next' = next /\ inflight' = inflight
      /\ packet' = packet /\ pkt'.pts = pkt.pts
  BY DEF TakeSubmitTime, Numbered
<1>2. pkt.pts \in Pts /\ take_entry(pkt.pts)
  <2>1. pkt.pts \in 0..(next - 1)
    BY <1>1 DEF Typed, Holding
  <2> QED BY <2>1, TypedNumbers, EncoderAssumption DEF TakeSubmitTime
<1>3. /\ next \in Nat /\ n \in 0..Cap /\ Cap \in Nat \ {0}
      /\ \A i \in 1..n : Contents[i].pts \in Nat
  BY TypedNumbers, QueueFacts
<1>4. Pending' = inflight /\ pkt.pts \notin inflight /\ pkt.pts \in Pending
  BY <1>1 DEF Pending, Numbered, Typed, Holding
<1>5. StampOfOwnFrame' /\ packet'.pts \in Int
  BY <1>1, <1>3, LaterStaysOwn DEF Own
<1>6. CASE taken' = Absent /\ Contents' = Contents /\ ~Queue!Holds(pkt.pts)
  <2>1. Ordered'
    BY <1>1, <1>6 DEF Own, Ordered
  <2>2. PendingKept'
    BY <1>1, <1>4, <1>6 DEF Own, PendingKept, Pending, Queue!Holds, Old
  <2>3. Old(pkt.pts)
    BY <1>4, <1>6 DEF Own, PendingKept
  <2>4. TakenOwn'
    BY <1>1, <1>6, <2>3 DEF TakenOwn, Old
  <2> QED BY <1>5, <2>1, <2>2, <2>4 DEF Own
<1>7. ASSUME NEW i \in 1..n, Contents[i].pts = pkt.pts, taken' = Contents[i].epoch_us,
             taken' # Absent, Len(Contents') = n - 1,
             \A j \in 1..(n - 1) : Contents'[j] = Contents[IF j < i THEN j ELSE j + 1]
      PROVE  Own'
  <2> DEFINE at(j) == IF j < i THEN j ELSE j + 1
  <2>1. \A j \in 1..(n - 1) : at(j) \in 1..n /\ at(j) <= j + 1 /\ at(j) >= j
    BY <1>3
  <2>2. \A j, k \in 1..(n - 1) : j <= k => at(k) - at(j) >= k - j
    BY <1>3
  <2>3. \A j \in 1..(n - 1) : Contents'[j] = Contents[at(j)]
    BY <1>7
  <2>4. \A j \in 1..(n - 1) : j \in Nat /\ at(j) \in Nat
    BY <1>3
  <2> HIDE DEF at
  <2>5. Ordered'
    <3>1. \A j \in 1..(n - 1) : Contents'[j].epoch_us.of = Contents'[j].pts
      BY <2>1, <2>3 DEF Own, Ordered
    <3>2. \A j, k \in 1..(n - 1) : j <= k => Contents'[k].pts - Contents'[j].pts >= k - j
      <4> SUFFICES ASSUME NEW j \in 1..(n - 1), NEW k \in 1..(n - 1), j <= k
                   PROVE  Contents'[k].pts - Contents'[j].pts >= k - j
        OBVIOUS
      <4>1. at(j) \in 1..n /\ at(k) \in 1..n /\ at(k) - at(j) >= k - j
        BY <2>1, <2>2
      <4>2. at(j) <= at(k)
        BY <1>3, <2>4, <4>1
      <4>3. Contents[at(k)].pts - Contents[at(j)].pts >= at(k) - at(j)
        BY <4>1, <4>2 DEF Own, Ordered
      <4>4. /\ Contents'[k].pts = Contents[at(k)].pts /\ Contents[at(k)].pts \in Nat
            /\ Contents'[j].pts = Contents[at(j)].pts /\ Contents[at(j)].pts \in Nat
        BY <1>3, <2>3, <4>1
      <4>5. j \in Nat /\ k \in Nat /\ at(j) \in Nat /\ at(k) \in Nat
        BY <2>4
      <4> HIDE DEF n
      <4> QED BY <4>1, <4>3, <4>4, <4>5
    <3>3. \A j \in 1..(n - 1) : Contents'[j].pts + (n - 1 - j) < next
      <4> SUFFICES ASSUME NEW j \in 1..(n - 1) PROVE Contents'[j].pts + (n - 1 - j) < next
        OBVIOUS
      <4>1. at(j) \in 1..n /\ at(j) <= j + 1
        BY <2>1
      <4>2. Contents[at(j)].pts + (n - at(j)) < next
        BY <4>1 DEF Own, Ordered
      <4>3. Contents'[j].pts = Contents[at(j)].pts /\ Contents[at(j)].pts \in Nat
        BY <1>3, <2>3, <4>1
      <4>4. j \in Nat /\ at(j) \in Nat /\ n \in Nat /\ next \in Nat
        BY <1>3, <2>4
      <4>5. \A a, b, p, q, m \in Nat : b <= a + 1 /\ p + (m - b) < q => p + (m - 1 - a) < q
        OBVIOUS
      <4> HIDE DEF n
      <4> QED BY <4>1, <4>2, <4>3, <4>4, <4>5
    <3> QED BY <1>1, <1>7, <3>1, <3>2, <3>3 DEF Ordered
  <2>6. PendingKept'
    <3> SUFFICES ASSUME NEW p \in inflight PROVE Queue!Holds(p)' \/ Old(p)'
      BY <1>4 DEF PendingKept
    <3>1. p # pkt.pts /\ (Queue!Holds(p) \/ Old(p))
      BY <1>4 DEF Own, PendingKept, Pending
    <3>2. Old(p) => Old(p)'
      BY <1>1 DEF Old
    <3>3. ASSUME NEW k \in 1..n, Contents[k].pts = p PROVE Queue!Holds(p)'
      <4>1. k # i
        BY <1>7, <3>1, <3>3
      <4>2. \E j \in 1..(n - 1) : at(j) = k
        <5>1. CASE k < i
          <6>1. k \in 1..(n - 1) /\ at(k) = k
            BY <1>3, <5>1 DEF at
          <6> QED BY <6>1
        <5>2. CASE k > i
          <6>1. k - 1 \in 1..(n - 1) /\ ~(k - 1 < i) /\ (k - 1) + 1 = k
            BY <1>3, <5>2
          <6>2. at(k - 1) = k
            BY <6>1 DEF at
          <6> QED BY <6>1, <6>2
        <5> QED BY <1>3, <4>1, <5>1, <5>2
      <4> QED BY <1>7, <2>3, <3>3, <4>2 DEF Queue!Holds
    <3> QED BY <3>1, <3>2, <3>3 DEF Queue!Holds
  <2>7. TakenOwn'
    BY <1>1, <1>7 DEF TakenOwn, Own, Ordered
  <2> QED BY <1>5, <2>5, <2>6, <2>7 DEF Own
<1> QED BY <1>2, <1>6, <1>7, TakePlaces

LEMMA PendingNumbers ==
    ASSUME Typed, NEW p \in Pending
    PROVE  p \in Int
<1>1. p \in inflight \/ (p = pkt.pts /\ pc \in {"flag", "take"})
      \/ (p = next - 1 /\ pc = "send")
  BY DEF Pending
<1>2. CASE p \in inflight
  BY <1>2, TypedNumbers
<1>3. CASE p = pkt.pts /\ pc \in {"flag", "take"}
  BY <1>3 DEF Typed, Holding
<1>4. CASE p = next - 1
  BY <1>4, TypedNumbers
<1> QED BY <1>1, <1>2, <1>3, <1>4

LEMMA OldStays ==
    ASSUME NEW p \in Int, next \in Nat, next' \in Nat, next' >= next, Cap \in Nat
    PROVE  Old(p) => Old(p)'
<1>1. \A a, b, c \in Nat : b >= a /\ a - 1 - p >= c => b - 1 - p >= c
  OBVIOUS
<1> QED BY <1>1 DEF Old

(* A step that leaves the ring alone and asks for no further entry. *)
LEMMA RestKeepsOwn ==
    ASSUME Typed, Own, UNCHANGED ringVars, next' \in {next, next + 1},
           Pending' \subseteq Pending, TakenOwn', packet' = packet
    PROVE  Own'
<1>1. Contents' = Contents
  BY DEF ringVars, Contents, ContentsOf, SlotFrom
<1>2. /\ next \in Nat /\ next' \in Nat /\ next' >= next /\ Cap \in Nat
      /\ Len(Contents) \in Nat
      /\ \A i \in 1..Len(Contents) : Contents[i].pts \in Nat
  BY TypedNumbers, QueueFacts
<1>3. Ordered'
  <2>1. \A i \in 1..Len(Contents) : Contents[i].pts + (Len(Contents) - i) < next'
    <3> SUFFICES ASSUME NEW i \in 1..Len(Contents)
                 PROVE  Contents[i].pts + (Len(Contents) - i) < next'
      OBVIOUS
    <3>1. Contents[i].pts + (Len(Contents) - i) < next
      BY DEF Own, Ordered
    <3> QED BY <1>2, <3>1
  <2> QED BY <1>1, <2>1 DEF Own, Ordered
<1>4. PendingKept'
  <2> SUFFICES ASSUME NEW p \in Pending' PROVE Queue!Holds(p)' \/ Old(p)'
    BY DEF PendingKept
  <2>1. Queue!Holds(p) \/ Old(p)
    BY DEF Own, PendingKept
  <2>2. Queue!Holds(p) => Queue!Holds(p)'
    BY <1>1 DEF Queue!Holds
  <2>3. p \in Int
    BY PendingNumbers
  <2>4. Old(p) => Old(p)'
    BY <1>2, <2>3, OldStays
  <2> QED BY <2>1, <2>2, <2>4
<1>5. StampOfOwnFrame' /\ packet'.pts \in Int
  BY <1>2, LaterStaysOwn DEF Own
<1> QED BY <1>3, <1>4, <1>5 DEF Own

(* A packet is put together from what was taken for it. *)
LEMMA AssembleKeepsOwn ==
    ASSUME Typed, Own, Assemble
    PROVE  Own'
<1>1. /\ pc = "assemble" /\ pc' = "idle" /\ UNCHANGED <<next, inflight>> /\ UNCHANGED ringVars
      /\ packet' = [pts |-> pkt.pts, seq |-> pkt.seq, ntp |-> pkt.ntp,
                    size |-> Total(pkt.key, pkt.size),
                    fallback |-> taken = Absent,
                    stamp |-> IF taken = Absent THEN StampNow(next - 1) ELSE taken]
  BY DEF Assemble
<1>2. Contents' = Contents
  BY <1>1 DEF ringVars, Contents, ContentsOf, SlotFrom
<1>3. Ordered'
  BY <1>1, <1>2 DEF Own, Ordered
<1>4. PendingKept'
  BY <1>1, <1>2 DEF Own, PendingKept, Pending, Queue!Holds, Old
<1>5. TakenOwn'
  BY <1>1 DEF TakenOwn, Numbered
<1>6. IF taken = Absent THEN Old(pkt.pts) ELSE taken.of = pkt.pts
  BY <1>1 DEF Own, TakenOwn, Numbered
<1>7. StampOfOwnFrame'
  <2>1. /\ packet'.fallback = (taken = Absent) /\ packet'.pts = pkt.pts
        /\ taken # Absent => packet'.stamp = taken
    BY <1>1
  <2> QED BY <1>1, <1>6, <2>1 DEF StampOfOwnFrame, Old
<1>8. packet'.pts \in Int
  BY <1>1 DEF Typed, Holding
<1> QED BY <1>3, <1>4, <1>5, <1>7, <1>8 DEF Own

LEMMA NextOwn ==
    ASSUME Typed, Own, [Next]_vars
    PROVE  Own'
<1>1. CASE EnterCreate
  <2>1. Contents' = <<>> /\ pc' = "codec_name" /\ inflight' = {} /\ packet' = NoPacket
    BY <1>1, QueueFacts, NewRingRefines DEF EnterCreate, Queue!Clear
  <2> QED BY <2>1 DEF Own, Ordered, PendingKept, Pending, TakenOwn, Numbered,
      StampOfOwnFrame, NoPacket
<1>2. CASE RecordSubmitTime
  BY <1>2, PutKeepsOwn
<1>3. CASE TakeSubmitTime
  BY <1>3, TakeKeepsOwn
<1>4. CASE Assemble
  BY <1>4, AssembleKeepsOwn
<1>5. CASE ~(EnterCreate \/ RecordSubmitTime \/ TakeSubmitTime \/ Assemble)
  <2>1. UNCHANGED ringVars /\ packet' = packet /\ next' \in {next, next + 1}
    BY <1>5 DEF Next, Encode, vars, ChooseCodec, FindEncoder, OpenStep, FinishCreate, Stop,
        DestroyData, ClockPublishes, RefuseFrame, ReadSubmitTime, SendFrame, ReceivePacket,
        ReadFlag, FallBackToNow, FailBuild, BuildSei, ringVars
  <2>2. Pending' \subseteq Pending
    <3>1. CASE SendFrame
      BY <3>1 DEF SendFrame, Pending
    <3>2. CASE ReceivePacket
      <4>1. pc = "receive" /\ pc' \in {"idle", "flag"}
            /\ \/ inflight' = inflight /\ pc' = "idle"
               \/ \E p \in inflight : pkt'.pts = p /\ inflight' = inflight \ {p}
        BY <3>2 DEF ReceivePacket
      <4> QED BY <4>1 DEF Pending
    <3>3. CASE ReadFlag
      BY <3>3 DEF ReadFlag, Pending
    <3>4. CASE ~(SendFrame \/ ReceivePacket \/ ReadFlag)
      <4>1. inflight' = inflight /\ (pc' \notin {"flag", "take", "send"}
                                    \/ UNCHANGED <<pc, pkt, next>>)
        BY <1>5, <3>4, OpenStepMoves DEF Next, Encode, vars, ChooseCodec, FindEncoder,
            FinishCreate, OpenStep, Stop, DestroyData, ClockPublishes, RefuseFrame,
            ReadSubmitTime, FallBackToNow, FailBuild, BuildSei
      <4> QED BY <4>1 DEF Pending
    <3> QED BY <3>1, <3>2, <3>3, <3>4
  <2>3. pc' \in Numbered => pc \in Numbered /\ UNCHANGED <<taken, pkt, next>>
    BY <1>5, OpenStepMoves DEF Next, Encode, vars, ChooseCodec, FindEncoder, FinishCreate,
        Stop, DestroyData, ClockPublishes, RefuseFrame, ReadSubmitTime, SendFrame,
        ReceivePacket, ReadFlag, FallBackToNow, FailBuild, BuildSei, Numbered, ringVars
  <2>4. TakenOwn'
    BY <2>3 DEF Own, TakenOwn, Old
  <2> QED BY <2>1, <2>2, <2>4, RestKeepsOwn
<1> QED BY <1>1, <1>2, <1>3, <1>4, <1>5

(* Whatever frames the codec holds, reorders or refuses, a packet carries the
   submit time of its own frame, unless Cap frames or more followed it before
   its packet came out.                                                      *)
THEOREM OwnStamps == Spec => []StampOfOwnFrame
<1>1. Init => Own
  <2> SUFFICES ASSUME Init PROVE Own
    OBVIOUS
  <2>1. pts_ring_len = 0 /\ inflight = {} /\ pc = "none" /\ packet = NoPacket
    BY DEF Init
  <2>2. Len(Contents) = 0
    BY <2>1 DEF Contents, ContentsOf
  <2> QED BY <2>1, <2>2 DEF Own, Ordered, PendingKept, Pending, TakenOwn, Numbered,
      StampOfOwnFrame, NoPacket
<1>2. Typed /\ Own /\ [Next]_vars => Own'
  BY NextOwn
<1>3. Own => StampOfOwnFrame
  BY DEF Own
<1> QED BY <1>1, <1>2, <1>3, InitTyped, NextTyped, PTL DEF Spec

-----------------------------------------------------------------------------
(* Where the times of the ring can come from: before the clock has synchronised
   every one is local, and so is every one at the moment a packet is about to be
   left unmarked; the flag was read while they were all in the ring.         *)
LocalTimes == \A i \in 1..Len(Contents) : Contents[i].epoch_us.kind = "local"

Sourced ==
    /\ pc \in Creating => pts_ring_len = 0
    /\ ~synced => stamp[Enc] = 0 /\ offset = 0
    /\ ~(stamping_ntp /\ synced) => LocalTimes
    /\ pc = "take" /\ ~ClockNtp => LocalTimes
    /\ pc \in Numbered => pkt.ntp \in BOOLEAN
    /\ pc \in Numbered /\ ~pkt.ntp /\ taken # Absent => taken.kind = "local"
    /\ UnmarkedIsLocal

LEMMA EmptyIsLocal == pts_ring_len = 0 => LocalTimes
BY DEF LocalTimes, Contents, ContentsOf

LEMMA SameIsLocal == UNCHANGED ringVars => LocalTimes' = LocalTimes
BY DEF LocalTimes, ringVars, Contents, ContentsOf, SlotFrom

LEMMA PutSourced ==
    ASSUME Typed, Sourced, RecordSubmitTime
    PROVE  Sourced'
<1>1. /\ pc = "put" /\ pc' = "send" /\ UNCHANGED <<synced, offset, stamp, stamping_ntp, packet>>
  BY DEF RecordSubmitTime, clockVars, setup
<1>2. next \in Pts /\ StampNow(next) \in Times /\ put_entry(next, StampNow(next))
  BY StampNowTyped DEF RecordSubmitTime
<1>3. ~(stamping_ntp /\ synced) => LocalTimes'
  <2> SUFFICES ASSUME ~(stamping_ntp /\ synced) PROVE LocalTimes'
    OBVIOUS
  <2>1. StampNow(next).kind = "local"
    BY <1>1 DEF StampNow, Sourced, Typed, ClockTyped
  <2>2. LocalTimes
    BY DEF Sourced
  <2>3. PICK s \in {0, 1} :
            /\ Len(Contents') = Len(Contents) - s + 1
            /\ s = 1 => Len(Contents) = Cap
            /\ \A i \in 1..(Len(Contents) - s) : Contents'[i] = Contents[i + s]
            /\ Contents'[Len(Contents) - s + 1] = [pts |-> next, epoch_us |-> StampNow(next)]
    BY <1>2, PutPlaces
  <2>4. Len(Contents) \in Nat
    BY QueueFacts
  <2>5. ASSUME NEW i \in 1..Len(Contents') PROVE Contents'[i].epoch_us.kind = "local"
    <3>1. CASE i \in 1..(Len(Contents) - s)
      <4>1. i + s \in 1..Len(Contents)
        BY <2>4, <3>1
      <4> QED BY <2>2, <2>3, <3>1, <4>1 DEF LocalTimes
    <3>2. CASE i = Len(Contents) - s + 1
      BY <2>1, <2>3, <3>2
    <3> QED BY <2>3, <2>4, <3>1, <3>2
  <2> QED BY <2>5 DEF LocalTimes
<1> QED BY <1>1, <1>3 DEF Sourced, Creating, Numbered, UnmarkedIsLocal

LEMMA TakeSourced ==
    ASSUME Typed, Sourced, TakeSubmitTime
    PROVE  Sourced'
<1>1. /\ pc = "take" /\ pc' \in {"fallback", "build"}
      /\ UNCHANGED <<synced, offset, stamp, stamping_ntp, packet>> /\ pkt'.ntp = ClockNtp
  BY DEF TakeSubmitTime, clockVars, setup
<1>2. pkt.pts \in Pts /\ take_entry(pkt.pts)
  <2>1. pkt.pts \in 0..(next - 1)
    BY <1>1 DEF Typed, Holding
  <2> QED BY <2>1, TypedNumbers, EncoderAssumption DEF TakeSubmitTime
<1>3. ClockNtp \in BOOLEAN
  BY DEF ClockNtp
<1>4. LocalTimes => LocalTimes' /\ (taken' # Absent => taken'.kind = "local")
  <2> SUFFICES ASSUME LocalTimes
               PROVE  LocalTimes' /\ (taken' # Absent => taken'.kind = "local")
    OBVIOUS
  <2>1. CASE taken' = Absent /\ Contents' = Contents
    BY <2>1 DEF LocalTimes
  <2>2. ASSUME NEW i \in 1..Len(Contents), taken' = Contents[i].epoch_us,
               Len(Contents') = Len(Contents) - 1,
               \A j \in 1..(Len(Contents) - 1) :
                  Contents'[j] = Contents[IF j < i THEN j ELSE j + 1]
        PROVE  LocalTimes' /\ taken'.kind = "local"
    <3>1. \A j \in 1..(Len(Contents) - 1) : (IF j < i THEN j ELSE j + 1) \in 1..Len(Contents)
      BY QueueFacts
    <3> QED BY <2>2, <3>1 DEF LocalTimes
  <2> QED BY <1>2, <2>1, <2>2, TakePlaces
<1>5. ~ClockNtp => LocalTimes
  BY <1>1 DEF Sourced
<1>6. ~(stamping_ntp /\ synced) => LocalTimes
  BY DEF Sourced
<1> QED BY <1>1, <1>3, <1>4, <1>5, <1>6 DEF Sourced, Creating, Numbered, UnmarkedIsLocal

LEMMA NextSourced ==
    ASSUME Typed, Sourced, [Next]_vars
    PROVE  Sourced'
<1>1. CASE EnterCreate
  <2>1. /\ pts_ring_len' = 0 /\ pc' = "codec_name" /\ packet' = NoPacket
        /\ stamp'[Enc] = 0 /\ offset' = 0
    BY <1>1 DEF EnterCreate, NewRing, Clock!Restart
  <2>2. LocalTimes'
    BY <2>1 DEF LocalTimes, Contents, ContentsOf
  <2> QED BY <2>1, <2>2 DEF Sourced, Numbered, UnmarkedIsLocal
<1>2. CASE RecordSubmitTime
  BY <1>2, PutSourced
<1>3. CASE TakeSubmitTime
  BY <1>3, TakeSourced
<1>4. CASE Assemble
  <2>1. /\ pc = "assemble" /\ pc' = "idle" /\ UNCHANGED <<synced, offset, stamp, stamping_ntp>>
        /\ UNCHANGED ringVars /\ packet'.ntp = pkt.ntp
        /\ packet'.fallback = (taken = Absent)
        /\ taken # Absent => packet'.stamp = taken
    BY <1>4 DEF Assemble, clockVars, setup
  <2>2. UnmarkedIsLocal'
    BY <2>1 DEF Sourced, Numbered, UnmarkedIsLocal
  <2> QED BY <2>1, <2>2, SameIsLocal DEF Sourced, Numbered, Creating
<1>5. CASE ReadFlag
  <2>1. /\ pc = "flag" /\ pc' = "take" /\ UNCHANGED <<synced, offset, stamp, stamping_ntp, packet>>
        /\ UNCHANGED ringVars /\ (stamping_ntp => saw'[Enc] = synced)
    BY <1>5 DEF ReadFlag, Clock!Synced, clockVars, setup, Typed, ClockTyped
  <2>2. ~ClockNtp' => LocalTimes
    BY <2>1 DEF ClockNtp, Sourced
  <2> QED BY <2>1, <2>2, SameIsLocal DEF Sourced, Numbered, Creating, UnmarkedIsLocal
<1>6. CASE ReadSubmitTime \/ FallBackToNow
  <2>1. /\ pc' \in {"put", "build"} /\ (pc' = "build" => pc = "fallback")
        /\ UNCHANGED <<synced, offset, stamping_ntp, pkt, packet>> /\ UNCHANGED ringVars
        /\ UNCHANGED stamp \/ stamp' = [stamp EXCEPT ![Enc] = offset]
    BY <1>6 DEF ReadSubmitTime, FallBackToNow, Clock!Now, clockVars, setup
  <2>2. ~synced' => stamp'[Enc] = 0 /\ offset' = 0
    BY <2>1 DEF Sourced, Typed, ClockTyped
  <2> QED BY <2>1, <2>2, SameIsLocal
      DEF Sourced, Numbered, Creating, UnmarkedIsLocal, ringVars
<1>7. CASE ClockPublishes
  <2>1. /\ synced' /\ UNCHANGED <<pc, stamp, saw, stamping_ntp, pkt, packet>>
        /\ UNCHANGED ringVars
    BY <1>7 DEF ClockPublishes, Clock!Publish, setup
  <2> QED BY <2>1, SameIsLocal
      DEF Sourced, Numbered, Creating, UnmarkedIsLocal, ringVars, ClockNtp
<1>8. CASE FinishCreate
  <2>1. /\ pc = "finish" /\ pc' = "idle" /\ UNCHANGED <<synced, offset, stamp, packet>>
        /\ UNCHANGED ringVars
    BY <1>8 DEF FinishCreate, clockVars
  <2>2. LocalTimes
    BY <2>1, EmptyIsLocal DEF Sourced, Creating
  <2> QED BY <2>1, <2>2, SameIsLocal DEF Sourced, Numbered, Creating, UnmarkedIsLocal
<1>9. CASE ~(EnterCreate \/ RecordSubmitTime \/ TakeSubmitTime \/ Assemble \/ ReadFlag
             \/ ReadSubmitTime \/ FallBackToNow \/ ClockPublishes \/ FinishCreate)
  <2>1. /\ UNCHANGED <<synced, offset, stamp, saw, stamping_ntp, packet>> /\ UNCHANGED ringVars
    BY <1>9 DEF Next, Encode, vars, ChooseCodec, FindEncoder, OpenStep, Stop, DestroyData,
        RefuseFrame, SendFrame, ReceivePacket, FailBuild, BuildSei, clockVars, setup,
        ringVars
  <2>2. /\ pc' \in Creating => pc \in Creating
        /\ pc' = "take" => pc = "take"
        /\ pc' \in Numbered => pc \in Numbered /\ pkt' = pkt
    BY <1>9, OpenStepMoves DEF Next, Encode, vars, ChooseCodec, FindEncoder, Stop,
        DestroyData, RefuseFrame, SendFrame, ReceivePacket, FailBuild, BuildSei, Numbered,
        Creating
  <2> QED BY <2>1, <2>2, SameIsLocal DEF Sourced, UnmarkedIsLocal, ringVars, ClockNtp
<1> QED BY <1>1, <1>2, <1>3, <1>4, <1>5, <1>6, <1>7, <1>8, <1>9 DEF Next, Encode

(* A stamp that is not marked is a local time, at whatever moment the clock
   synchronises between the submission of a frame and its packet.            *)
THEOREM UnmarkedStamps == Spec => []UnmarkedIsLocal
<1>1. Init => Sourced
  <2> SUFFICES ASSUME Init PROVE Sourced
    OBVIOUS
  <2>1. pts_ring_len = 0 /\ pc = "none" /\ packet = NoPacket /\ stamp[Enc] = 0 /\ offset = 0
    BY DEF Init, Clock!Init
  <2> QED BY <2>1, EmptyIsLocal DEF Sourced, Numbered, UnmarkedIsLocal
<1>2. Typed /\ Sourced /\ [Next]_vars => Sourced'
  BY NextSourced
<1>3. Sourced => UnmarkedIsLocal
  BY DEF Sourced
<1> QED BY <1>1, <1>2, <1>3, InitTyped, NextTyped, PTL DEF Spec

-----------------------------------------------------------------------------
(* What is known of the request and of the name chosen, while the codec is looked
   for: the name asked for, or with an empty one the build's first candidate, and
   one that the build has unless the user saved it.                          *)
Asked ==
    /\ pc = "codec_name" /\ ~request.saved
          => request.asked = pick_default_codec_name(request.build)
    /\ pc = "find_encoder"
          => /\ codec_name # NoName
             /\ \/ codec_name = request.asked
                \/ request.asked = NoName /\ FirstOf(codec_name, request.build)
             /\ request.asked = NoName \/ ~request.saved => codec_name \in request.build

(* An empty answer means that the build has no candidate. *)
LEMMA EmptyPick ==
    ASSUME NEW build \in SUBSET Names, pick_default_codec_name(build) = NoName
    PROVE  build = {}
<1>1. NoName \notin Names
  BY CandidatesAssumption DEF Names
<1>2. pick_default_codec_name(build) \in Names \cap build \/ Names \cap build = {}
  BY PickTyped
<1>3. Names \cap build = {}
  BY <1>1, <1>2
<1> QED BY <1>3

LEMMA EnterAsked ==
    ASSUME EnterCreate
    PROVE  pc' = "codec_name" /\ Asked'
<1>1. pc' = "codec_name" /\ request' \in Requests
  BY DEF EnterCreate
<1>2. CASE request' \in [build : SUBSET Names, saved : {TRUE},
                         asked : CodecNames]
  BY <1>1, <1>2 DEF Asked
<1>3. ASSUME NEW b \in SUBSET Names,
             request' = [build |-> b, saved |-> FALSE,
                         asked |-> pick_default_codec_name(b)]
      PROVE  Asked'
  BY <1>1, <1>3 DEF Asked
<1> QED BY <1>1, <1>2, <1>3 DEF Requests

(* What ChooseCodec settles on. *)
LEMMA ChooseAsked ==
    ASSUME Typed, Asked, ChooseCodec
    PROVE  /\ Asked'
           /\ pc' = "destroy" => request.build = {}
<1> DEFINE pick == pick_default_codec_name(request.build)
<1>1. /\ pc = "codec_name" /\ pc' = (IF codec_name' = NoName THEN "destroy" ELSE "find_encoder")
      /\ codec_name' = IF request.asked = NoName THEN pick ELSE request.asked
      /\ request' = request
  BY DEF ChooseCodec
<1>2. request.build \in SUBSET Names
  BY DEF Typed, TypeOK
<1>3. /\ pick = NoName => request.build = {}
      /\ pick # NoName => pick \in request.build /\ FirstOf(pick, request.build)
  BY <1>2, EmptyPick, PickTyped, PickFirst
<1>4. ~request.saved => request.asked = pick
  BY <1>1 DEF Asked
<1> HIDE DEF pick
<1>5. codec_name' # NoName =>
         /\ \/ codec_name' = request.asked
            \/ request.asked = NoName /\ FirstOf(codec_name', request.build)
         /\ request.asked = NoName \/ ~request.saved => codec_name' \in request.build
  BY <1>1, <1>3, <1>4
<1>6. FirstOf(codec_name', request.build) => FirstOf(codec_name, request.build)'
  BY <1>1 DEF FirstOf
<1>7. Asked'
  BY <1>1, <1>5, <1>6 DEF Asked
<1> QED BY <1>1, <1>3, <1>7

(* The defaults, and an empty name, always lead to an encoder the build has, and
   no encoder is opened but the one asked for or the first of the build.     *)
THEOREM DefaultsLead == Spec => DefaultsStart
<1>1. Init => Asked
  BY DEF Init, Asked
<1>2. Typed /\ Asked /\ [Next]_vars => Asked'
  <2> SUFFICES ASSUME Typed, Asked, [Next]_vars PROVE Asked'
    OBVIOUS
  <2>1. CASE EnterCreate
    BY <2>1, EnterAsked
  <2>2. CASE ChooseCodec
    BY <2>2, ChooseAsked
  <2>3. CASE ~(EnterCreate \/ ChooseCodec)
    <3>1. pc' \in {"codec_name", "find_encoder"} => pc' = pc /\ UNCHANGED <<request, codec_name>>
      BY <2>3, OpenStepMoves DEF Next, Encode, vars, FindEncoder, FinishCreate, Stop,
          DestroyData, ClockPublishes, RefuseFrame, ReadSubmitTime, RecordSubmitTime,
          SendFrame, ReceivePacket, ReadFlag, TakeSubmitTime, FallBackToNow, FailBuild,
          BuildSei, Assemble, setup
    <3>2. UNCHANGED <<request, codec_name>>
             => FirstOf(codec_name, request.build) = FirstOf(codec_name, request.build)'
      BY DEF FirstOf
    <3> QED BY <3>1, <3>2 DEF Asked
  <2> QED BY <2>1, <2>2, <2>3
<1> DEFINE Refused == \/ request.build = {}
                      \/ request.saved /\ request.asked \notin request.build \cup {NoName}
<1> DEFINE Opened == /\ codec_name \in request.build
                     /\ \/ codec_name = request.asked
                        \/ request.asked = NoName /\ FirstOf(codec_name, request.build)
<1>3. Typed /\ Asked /\ [Next]_vars => (NoneFound => Refused)
  <2> SUFFICES ASSUME Typed, Asked, [Next]_vars, NoneFound PROVE Refused
    OBVIOUS
  <2>1. pc' = "destroy" /\ pc \in {"codec_name", "find_encoder"}
    BY DEF NoneFound
  <2>2. ChooseCodec \/ FindEncoder
    BY <2>1, OpenStepMoves DEF Next, Encode, vars, EnterCreate, FinishCreate, Stop,
        DestroyData, ClockPublishes, RefuseFrame, ReadSubmitTime, RecordSubmitTime,
        SendFrame, ReceivePacket, ReadFlag, TakeSubmitTime, FallBackToNow, FailBuild,
        BuildSei, Assemble
  <2>3. CASE ChooseCodec
    BY <2>1, <2>3, ChooseAsked
  <2>4. CASE FindEncoder
    BY <2>1, <2>4 DEF FindEncoder, Asked
  <2> QED BY <2>2, <2>3, <2>4
<1>4. Typed /\ Asked /\ [Next]_vars => (Found => Opened)
  <2> SUFFICES ASSUME Typed, Asked, [Next]_vars, Found PROVE Opened
    OBVIOUS
  <2>1. pc' = "alloc_context" /\ pc = "find_encoder"
    BY DEF Found
  <2>2. FindEncoder
    BY <2>1, OpenStepMoves DEF Next, Encode, vars, EnterCreate, ChooseCodec, FinishCreate,
        Stop, DestroyData, ClockPublishes, RefuseFrame, ReadSubmitTime, RecordSubmitTime,
        SendFrame, ReceivePacket, ReadFlag, TakeSubmitTime, FallBackToNow, FailBuild,
        BuildSei, Assemble
  <2>3. codec_name \in request.build
    BY <2>1, <2>2 DEF FindEncoder
  <2> QED BY <2>1, <2>3 DEF Asked
<1>5. Typed /\ Asked /\ [Next]_vars
      => [(NoneFound => Refused) /\ (Found => Opened)]_vars
  BY <1>3, <1>4
<1> QED BY <1>1, <1>2, <1>5, InitTyped, NextTyped, PTL DEF Spec, DefaultsStart
=============================================================================
