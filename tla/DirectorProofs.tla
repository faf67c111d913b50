--------------------------- MODULE DirectorProofs ---------------------------
(* Theorems about Director: its types, when a decoder is given a delta chunk
   before it had a keyframe, and what present() paints.                      *)
EXTENDS Director, SequenceTheorems, NaturalsInduction, WellFoundedInduction, TLAPS

DecoderTyped ==
    /\ cfg \in [Streams -> BOOLEAN]
    /\ decoder \in [Streams -> {"none", "empty", "running"}]
    /\ needKey \in [Streams -> BOOLEAN] /\ keyLost \in [Streams -> BOOLEAN]

(* A page that neither waits for a keyframe nor has given one to its decoder has
   dropped one, and a page that waits has no decoder.                        *)
Waiting == \A s \in Streams :
    /\ ~needKey[s] /\ decoder[s] # "running" => keyLost[s]
    /\ needKey[s] => decoder[s] = "none"

Keyed == DecoderTyped /\ Waiting

LEMMA InitKeyed == Init => Keyed
BY DEF Init, Keyed, DecoderTyped, Waiting

(* An access unit, in each of the ways onmessage can treat it. *)
LEMMA ArrivalKeyed ==
    ASSUME Keyed, NEW s \in Streams, AccessUnit(s)
    PROVE  Keyed'
<1> USE DEF Keyed
<1>1. cfg' = cfg
  BY DEF AccessUnit, DropDelta, DropForWantOfCfg, ConfigureFails, Decode, Arrives
<1>2. CASE DropDelta(s)
  <2>1. UNCHANGED <<decoder, needKey, keyLost>>
    BY <1>2 DEF DropDelta
  <2> QED BY <1>1, <2>1 DEF DecoderTyped, Waiting
<1>3. ASSUME NEW key \in BOOLEAN, DropForWantOfCfg(s, key)
      PROVE  Keyed'
  <2>1. /\ needKey' = [needKey EXCEPT ![s] = FALSE] /\ keyLost' = [keyLost EXCEPT ![s] = TRUE]
        /\ decoder' = decoder /\ decoder[s] = "none"
    BY <1>3 DEF DropForWantOfCfg
  <2> QED BY <1>1, <2>1 DEF DecoderTyped, Waiting
<1>4. ASSUME NEW key \in BOOLEAN, ConfigureFails(s, key)
      PROVE  Keyed'
  <2>1. /\ needKey' = [needKey EXCEPT ![s] = TRUE] /\ keyLost' = [keyLost EXCEPT ![s] = FALSE]
        /\ decoder' = decoder /\ decoder[s] = "none"
    BY <1>4 DEF ConfigureFails
  <2> QED BY <1>1, <2>1 DEF DecoderTyped, Waiting
<1>5. ASSUME NEW key \in BOOLEAN, NEW rt \in 1..MaxRt, Decode(s, key, rt)
      PROVE  Keyed'
  <2>1. needKey' = [needKey EXCEPT ![s] = FALSE] /\ (needKey[s] => key)
    BY <1>5 DEF Decode, Passes
  <2>2. CASE key \/ decoder[s] = "running"
    <3>1. /\ decoder' = [decoder EXCEPT ![s] = "running"]
          /\ keyLost' = [keyLost EXCEPT ![s] = FALSE]
      BY <1>5, <2>2 DEF Decode
    <3> QED BY <1>1, <2>1, <3>1 DEF DecoderTyped, Waiting
  <2>3. CASE ~(key \/ decoder[s] = "running")
    <3>1. decoder' = [decoder EXCEPT ![s] = "empty"] /\ keyLost' = keyLost
      BY <1>5, <2>3 DEF Decode
    <3>2. keyLost[s]
      BY <2>1, <2>3 DEF Waiting
    <3> QED BY <1>1, <2>1, <3>1, <3>2 DEF DecoderTyped, Waiting
  <2> QED BY <2>2, <2>3
<1> QED BY <1>2, <1>3, <1>4, <1>5 DEF AccessUnit

(* Everything else leaves the access units alone. *)
LEMMA OtherKeyed ==
    ASSUME Keyed,
           \/ UNCHANGED vars \/ Open \/ Close
           \/ \E s \in Streams : Cfg(s) \/ DecoderError(s) \/ OnDecoded(s)
           \/ \E dt \in Elapsed : Present(dt)
    PROVE  Keyed'
<1> USE DEF Keyed
<1>1. CASE UNCHANGED <<cfg, decoder, needKey, keyLost>>
  BY <1>1 DEF DecoderTyped, Waiting
<1>2. CASE Close
  BY <1>2 DEF Close, DecoderTyped, Waiting
<1>3. ASSUME NEW s \in Streams, Cfg(s) PROVE Keyed'
  BY <1>3 DEF Cfg, DecoderTyped, Waiting
<1>4. ASSUME NEW s \in Streams, DecoderError(s) PROVE Keyed'
  BY <1>4 DEF DecoderError, DecoderTyped, Waiting
<1>5. Open \/ UNCHANGED vars \/ (\E s \in Streams : OnDecoded(s)) \/ (\E dt \in Elapsed : Present(dt))
      => UNCHANGED <<cfg, decoder, needKey, keyLost>>
  BY DEF vars, streams, Open, OnDecoded, Present
<1> QED BY <1>1, <1>2, <1>3, <1>4, <1>5

LEMMA KeyedStep == Keyed /\ [Next]_vars => Keyed'
BY ArrivalKeyed, OtherKeyed DEF Next

(* For any number of streams, whatever errors and reconnections came before, a
   decoder is fed before it had a keyframe only when the keyframe was dropped for
   want of a cfg.                                                            *)
THEOREM KeyframesFirst == Spec => []KeyframeFirst
<1>1. Keyed => KeyframeFirst
  BY DEF Keyed, Waiting, KeyframeFirst
<1> QED BY <1>1, KeyedStep, InitKeyed, PTL DEF Spec

-----------------------------------------------------------------------------
(* The first and the last of a set of numbers *)

LEMMA FirstNumber ==
    ASSUME NEW T, T \subseteq Nat, T # {}
    PROVE  \E x \in T : \A y \in T : x <= y
<1> DEFINE R == OpToRel(<, Nat)
<1>1. IsWellFoundedOn(R, Nat)
  BY NatLessThanWellFounded
<1> HIDE DEF R
<1>2. PICK x \in T : \A y \in T : ~(<<y, x>> \in R)
  BY <1>1, WFMin
<1>3. \A m, n \in Nat : n < m => <<n, m>> \in R
  BY DEF R, OpToRel
<1>4. \A y \in T : ~(y < x)
  BY <1>2, <1>3
<1> QED BY <1>4

LEMMA MinIsFirst ==
    ASSUME NEW T, T \subseteq Int, T # {}, NEW low \in Int, \A x \in T : low <= x
    PROVE  Min(T) \in T /\ \A y \in T : Min(T) <= y
<1> DEFINE D == {x - low : x \in T}
<1>1. D \subseteq Nat /\ D # {}
  <2>1. \A x \in T : x - low \in Nat
    OBVIOUS
  <2> QED BY <2>1
<1>2. PICK d \in D : \A e \in D : d <= e
  <2> HIDE DEF D
  <2> QED BY <1>1, FirstNumber
<1>3. PICK x \in T : d = x - low
  BY <1>2
<1>4. \A y \in T : x <= y
  <2> TAKE y \in T
  <2>1. y - low \in D
    OBVIOUS
  <2>2. x - low <= y - low
    <3> HIDE DEF D
    <3> QED BY <1>2, <1>3, <2>1
  <2> QED BY <2>2
<1> QED BY <1>4 DEF Min

LEMMA MaxIsLast ==
    ASSUME NEW T, T \subseteq Int, T # {}, NEW high \in Int, \A x \in T : x <= high
    PROVE  Max(T) \in T /\ \A y \in T : y <= Max(T)
<1> DEFINE D == {high - x : x \in T}
<1>1. D \subseteq Nat /\ D # {}
  <2>1. \A x \in T : high - x \in Nat
    OBVIOUS
  <2> QED BY <2>1
<1>2. PICK d \in D : \A e \in D : d <= e
  <2> HIDE DEF D
  <2> QED BY <1>1, FirstNumber
<1>3. PICK x \in T : d = high - x
  BY <1>2
<1>4. \A y \in T : y <= x
  <2> TAKE y \in T
  <2>1. high - y \in D
    OBVIOUS
  <2>2. high - x <= high - y
    <3> HIDE DEF D
    <3> QED BY <1>2, <1>3, <2>1
  <2> QED BY <2>2
<1>5. \A y \in T : x >= y
  BY <1>4
<1> QED BY <1>5 DEF Max

-----------------------------------------------------------------------------
(* Queues *)

Frames == 1..MaxRt

(* The newest frame of a queue; 0 if it is empty. *)
NewestOf(queue) == IF queue = <<>> THEN 0 ELSE Last(queue)

InOrder(queue) == \A i, j \in 1..Len(queue) : i < j => queue[i] <= queue[j]

(* What is known of a queue, of the frame that was painted last and of the frames
   that were decoded behind it: only those may be older, and what was painted is
   not beyond the queue.                                                     *)
Queued(queue, painted, behind) ==
    /\ queue \in Seq(Frames) /\ Len(queue) <= QueueCap
    /\ InOrder(queue)
    /\ painted \in 0..MaxRt /\ painted <= NewestOf(queue)
    /\ \A i \in 1..Len(queue) : painted <= queue[i] \/ queue[i] \in behind

LEMMA QueueTyped ==
    ASSUME NEW queue \in Seq(Frames)
    PROVE  /\ Len(queue) \in Nat /\ DOMAIN queue = 1..Len(queue)
           /\ \A i \in 1..Len(queue) : queue[i] \in Frames /\ queue[i] \in Nat
           /\ queue # <<>> => /\ Len(queue) \in 1..Len(queue)
                              /\ Last(queue) = queue[Len(queue)]
           /\ queue = <<>> => Len(queue) = 0
           /\ NewestOf(queue) \in Nat
<1>1. /\ Len(queue) \in Nat /\ DOMAIN queue = 1..Len(queue)
      /\ \A i \in 1..Len(queue) : queue[i] \in Frames
  BY LenProperties, ElementOfSeq
<1>2. Frames \subseteq Nat
  BY DirectorAssumption DEF Frames
<1>3. queue # <<>> => /\ Len(queue) \in 1..Len(queue)
                      /\ Last(queue) = queue[Len(queue)]
  <2>1. queue # <<>> => Len(queue) \in Nat \ {0}
    BY EmptySeq
  <2> QED BY <2>1 DEF Last
<1>4. NewestOf(queue) \in Nat
  BY <1>1, <1>2, <1>3 DEF NewestOf
<1> QED BY <1>1, <1>2, <1>3, <1>4, EmptySeq

(* The new frame stands at one place; what is before it is not later, what is
   behind it is not earlier.                                                 *)
LEMMA InsertedAt ==
    ASSUME NEW queue \in Seq(Frames), InOrder(queue), NEW rt \in Frames
    PROVE  LET more == Insert(queue, rt)
           IN  /\ more \in Seq(Frames) /\ Len(more) = Len(queue) + 1
               /\ \E at \in 1..(Len(queue) + 1) :
                     /\ more[at] = rt
                     /\ \A i \in 1..(at - 1) : more[i] = queue[i] /\ queue[i] <= rt
                     /\ \A i \in (at + 1)..(Len(queue) + 1) :
                           more[i] = queue[i - 1] /\ rt <= queue[i - 1]
<1> DEFINE later == {i \in DOMAIN queue : queue[i] > rt}
           n == Len(queue)
<1>1. /\ n \in Nat /\ DOMAIN queue = 1..n
      /\ \A i \in 1..n : queue[i] \in Frames /\ queue[i] \in Nat
  BY QueueTyped
<1>2. rt \in Nat
  BY DirectorAssumption DEF Frames
<1> HIDE DEF n
<1>3. CASE later = {}
  <2>1. Insert(queue, rt) = Append(queue, rt)
    BY <1>3 DEF Insert
  <2>2. /\ Append(queue, rt) \in Seq(Frames) /\ Len(Append(queue, rt)) = n + 1
        /\ \A i \in 1..n : Append(queue, rt)[i] = queue[i]
        /\ Append(queue, rt)[n + 1] = rt
    BY AppendProperties DEF n
  <2>3. \A i \in 1..n : queue[i] <= rt
    BY <1>1, <1>2, <1>3
  <2>4. /\ n + 1 \in 1..(n + 1) /\ 1..((n + 1) - 1) = 1..n
        /\ ((n + 1) + 1)..(n + 1) = {}
    BY <1>1
  <2> QED BY <2>1, <2>2, <2>3, <2>4 DEF n
<1>4. CASE later # {}
  <2> DEFINE at == Min(later)
  <2>1. at \in later /\ \A y \in later : at <= y
    <3>1. later \subseteq Int /\ 0 \in Int /\ \A x \in later : 0 <= x
      BY <1>1
    <3> HIDE DEF later, at
    <3>2. later # {}
      BY <1>4
    <3>3. Min(later) \in later /\ \A y \in later : Min(later) <= y
      BY <3>1, <3>2, MinIsFirst
    <3> QED BY <3>3 DEF at
  <2>2. Insert(queue, rt) = SubSeq(queue, 1, at - 1) \o <<rt>> \o SubSeq(queue, at, n)
    BY <1>4 DEF Insert, InsertAt, n
  <2> HIDE DEF at
  <2>3. at \in 1..n /\ queue[at] > rt
    BY <1>1, <2>1
  <2>4. \A i \in 1..(at - 1) : i \in 1..n /\ queue[i] <= rt
    <3>1. \A i \in 1..(at - 1) : i \in 1..n /\ i < at
      BY <1>1, <2>3
    <3>2. \A i \in 1..n : queue[i] > rt => at <= i
      BY <1>1, <2>1
    <3>3. \A i \in 1..(at - 1) : ~(queue[i] > rt)
      BY <1>1, <2>3, <3>1, <3>2
    <3> QED BY <1>1, <1>2, <3>1, <3>3
  <2>5. \A i \in at..n : i \in 1..n /\ rt <= queue[i]
    <3> SUFFICES ASSUME NEW i \in at..n PROVE i \in 1..n /\ rt <= queue[i]
      OBVIOUS
    <3>1. i \in 1..n /\ (i = at \/ at < i)
      BY <1>1, <2>3
    <3>2. queue[at] <= queue[i]
      BY <1>1, <2>3, <3>1 DEF InOrder, n
    <3> QED BY <1>1, <1>2, <2>3, <3>1, <3>2
  <2> DEFINE front == SubSeq(queue, 1, at - 1)
             back == SubSeq(queue, at, n)
             one == <<rt>>
  <2>6. /\ front \in Seq(Frames) /\ Len(front) = at - 1
        /\ \A i \in 1..(at - 1) : front[i] = queue[i]
    <3>1. 1 \in Int /\ at - 1 \in Int /\ \A i \in 1..(at - 1) : queue[i] \in Frames
      BY <1>1, <2>3, <2>4
    <3>2. /\ front \in Seq(Frames)
          /\ Len(front) = IF 1 <= at - 1 THEN (at - 1) - 1 + 1 ELSE 0
          /\ \A i \in 1..((at - 1) - 1 + 1) : front[i] = queue[1 + i - 1]
      BY <3>1, SubSeqProperties
    <3> HIDE DEF front
    <3>3. /\ (IF 1 <= at - 1 THEN (at - 1) - 1 + 1 ELSE 0) = at - 1
          /\ (at - 1) - 1 + 1 = at - 1 /\ \A i \in 1..(at - 1) : 1 + i - 1 = i
      BY <2>3
    <3> QED BY <3>2, <3>3
  <2>7. /\ back \in Seq(Frames) /\ Len(back) = n - at + 1
        /\ \A i \in 1..(n - at + 1) : back[i] = queue[at + i - 1]
    <3>1. at \in Int /\ n \in Int /\ at <= n /\ \A i \in at..n : queue[i] \in Frames
      BY <1>1, <2>3, <2>5
    <3> QED BY <3>1, SubSeqProperties
  <2>8. one \in Seq(Frames) /\ Len(one) = 1 /\ one[1] = rt
    OBVIOUS
  <2> HIDE DEF front, back, one
  <2>9. /\ front \o one \in Seq(Frames) /\ Len(front \o one) = at
        /\ \A i \in 1..(at - 1) : (front \o one)[i] = queue[i]
        /\ (front \o one)[at] = rt
    <3>1. /\ front \o one \in Seq(Frames) /\ Len(front \o one) = (at - 1) + 1
          /\ \A i \in 1..((at - 1) + 1) :
                (front \o one)[i] = IF i <= at - 1 THEN front[i] ELSE one[i - (at - 1)]
      <4>1. /\ front \o one \in Seq(Frames) /\ Len(front \o one) = Len(front) + Len(one)
            /\ \A i \in 1..(Len(front) + Len(one)) :
                  (front \o one)[i] = IF i <= Len(front) THEN front[i]
                                      ELSE one[i - Len(front)]
        BY <2>6, <2>8, ConcatProperties
      <4> QED BY <2>6, <2>8, <4>1
    <3>2. /\ (at - 1) + 1 = at /\ at - (at - 1) = 1 /\ at \in 1..at /\ ~(at <= at - 1)
          /\ \A i \in 1..(at - 1) : i \in 1..at /\ i <= at - 1
      BY <2>3
    <3> QED BY <2>6, <2>8, <3>1, <3>2
  <2> DEFINE more == (front \o one) \o back
  <2>10. /\ more \in Seq(Frames) /\ Len(more) = n + 1
         /\ \A i \in 1..(n + 1) :
               more[i] = IF i <= at THEN (front \o one)[i] ELSE back[i - at]
    <3>1. /\ more \in Seq(Frames) /\ Len(more) = at + (n - at + 1)
          /\ \A i \in 1..(at + (n - at + 1)) :
                more[i] = IF i <= at THEN (front \o one)[i] ELSE back[i - at]
      <4> DEFINE start == front \o one
      <4>1. start \in Seq(Frames) /\ Len(start) = at
        BY <2>9
      <4> HIDE DEF start
      <4>2. /\ start \o back \in Seq(Frames) /\ Len(start \o back) = Len(start) + Len(back)
            /\ \A i \in 1..(Len(start) + Len(back)) :
                  (start \o back)[i] = IF i <= Len(start) THEN start[i]
                                       ELSE back[i - Len(start)]
        BY <2>7, <4>1, ConcatProperties
      <4>3. more = start \o back
        BY DEF start
      <4> HIDE DEF more
      <4>4. /\ more \in Seq(Frames) /\ Len(more) = at + (n - at + 1)
            /\ \A i \in 1..(at + (n - at + 1)) :
                  more[i] = IF i <= at THEN start[i] ELSE back[i - at]
        BY <2>7, <4>1, <4>2, <4>3
      <4> QED BY <4>4 DEF start
    <3>2. at + (n - at + 1) = n + 1
      BY <1>1, <2>3
    <3> HIDE DEF more
    <3> QED BY <3>1, <3>2
  <2>11. Insert(queue, rt) = more
    BY <2>2 DEF front, one, back
  <2> HIDE DEF more
  <2>12. more[at] = rt /\ at \in 1..(n + 1)
    <3>1. at \in 1..(n + 1) /\ at <= at
      BY <1>1, <2>3
    <3> QED BY <2>9, <2>10, <3>1
  <2>13. \A i \in 1..(at - 1) : more[i] = queue[i] /\ queue[i] <= rt
    <3>1. \A i \in 1..(at - 1) : i \in 1..(n + 1) /\ i <= at
      BY <1>1, <2>3
    <3> QED BY <2>4, <2>9, <2>10, <3>1
  <2>14. \A i \in (at + 1)..(n + 1) : more[i] = queue[i - 1] /\ rt <= queue[i - 1]
    <3>1. \A i \in (at + 1)..(n + 1) :
             /\ i \in 1..(n + 1) /\ ~(i <= at) /\ i - at \in 1..(n - at + 1)
             /\ at + (i - at) - 1 = i - 1 /\ i - 1 \in at..n
      BY <1>1, <2>3
    <3> QED BY <2>5, <2>7, <2>10, <3>1
  <2> QED BY <2>10, <2>11, <2>12, <2>13, <2>14 DEF n
<1> QED BY <1>3, <1>4

(* Wherever a frame is put, the queue stays in order and within its cap, and its
   newest frame does not become older.                                       *)
LEMMA InsertedInOrder ==
    ASSUME NEW queue \in Seq(Frames), InOrder(queue), Len(queue) <= QueueCap,
           NEW rt \in Frames
    PROVE  LET new == Capped(Insert(queue, rt))
           IN  /\ new \in Seq(Frames) /\ Len(new) <= QueueCap /\ InOrder(new)
               /\ NewestOf(queue) <= NewestOf(new)
               /\ \A i \in 1..Len(new) :
                     new[i] = rt \/ \E j \in 1..Len(queue) : new[i] = queue[j]
<1> DEFINE more == Insert(queue, rt)
           n == Len(queue)
           new == Capped(more)
<1>1. /\ n \in Nat /\ \A i \in 1..n : queue[i] \in Nat
      /\ queue # <<>> => n \in 1..n /\ Last(queue) = queue[n]
      /\ queue = <<>> => n = 0
  BY QueueTyped
<1>2. rt \in Nat /\ QueueCap \in Nat \ {0}
  BY DirectorAssumption DEF Frames
<1>3. /\ more \in Seq(Frames) /\ Len(more) = n + 1
      /\ \E at \in 1..(n + 1) :
            /\ more[at] = rt
            /\ \A i \in 1..(at - 1) : more[i] = queue[i] /\ queue[i] <= rt
            /\ \A i \in (at + 1)..(n + 1) : more[i] = queue[i - 1] /\ rt <= queue[i - 1]
  BY InsertedAt
<1> HIDE DEF more
<1>4. PICK at \in 1..(n + 1) :
            /\ more[at] = rt
            /\ \A i \in 1..(at - 1) : more[i] = queue[i] /\ queue[i] <= rt
            /\ \A i \in (at + 1)..(n + 1) : more[i] = queue[i - 1] /\ rt <= queue[i - 1]
  BY <1>3
<1>5. \A i, j \in 1..n : i < j => queue[i] <= queue[j]
  BY DEF InOrder
<1> HIDE DEF n
<1>6. \A i \in 1..(n + 1) : \/ i \in 1..(at - 1) /\ i \in 1..n
                            \/ i = at
                            \/ i \in (at + 1)..(n + 1) /\ i - 1 \in 1..n
  BY <1>1
<1>7. \A i \in 1..(n + 1) : more[i] \in Nat
  BY <1>1, <1>2, <1>4, <1>6
<1>8. \A i, j \in 1..(n + 1) : i < j => more[i] <= more[j]
  <2> SUFFICES ASSUME NEW i \in 1..(n + 1), NEW j \in 1..(n + 1), i < j
               PROVE  more[i] <= more[j]
    OBVIOUS
  <2>1. CASE i \in 1..(at - 1) /\ i \in 1..n
    <3>1. more[i] = queue[i] /\ queue[i] <= rt
      BY <1>4, <2>1
    <3>2. CASE j \in 1..(at - 1) /\ j \in 1..n
      BY <1>4, <1>5, <2>1, <3>1, <3>2
    <3>3. CASE j = at
      BY <1>4, <3>1, <3>3
    <3>4. CASE j \in (at + 1)..(n + 1) /\ j - 1 \in 1..n
      <4>1. more[j] = queue[j - 1] /\ rt <= queue[j - 1]
        BY <1>4, <3>4
      <4> QED BY <1>1, <1>2, <2>1, <3>1, <3>4, <4>1
    <3> QED BY <1>6, <3>2, <3>3, <3>4
  <2>2. CASE i = at
    <3>1. j \in (at + 1)..(n + 1)
      BY <1>1, <2>2
    <3> QED BY <1>4, <2>2, <3>1
  <2>3. CASE i \in (at + 1)..(n + 1) /\ i - 1 \in 1..n
    <3>1. j \in (at + 1)..(n + 1) /\ j - 1 \in 1..n /\ i - 1 < j - 1
      BY <1>1, <2>3
    <3>2. more[i] = queue[i - 1] /\ more[j] = queue[j - 1]
      BY <1>4, <2>3, <3>1
    <3> QED BY <1>5, <2>3, <3>1, <3>2
  <2> QED BY <1>6, <2>1, <2>2, <2>3
<1>9. \A i \in 1..(n + 1) : more[i] = rt \/ \E j \in 1..n : more[i] = queue[j]
  BY <1>4, <1>6
<1>10. queue # <<>> => queue[n] <= more[n + 1]
  <2> SUFFICES ASSUME queue # <<>> PROVE queue[n] <= more[n + 1]
    OBVIOUS
  <2>1. n + 1 \in 1..(n + 1) /\ n \in 1..n /\ (n + 1) - 1 = n
    BY <1>1
  <2>2. CASE at = n + 1
    <3>1. n \in 1..(at - 1)
      BY <2>1, <2>2
    <3> QED BY <1>4, <2>2, <3>1
  <2>3. CASE at # n + 1
    <3>1. n + 1 \in (at + 1)..(n + 1)
      BY <1>1, <2>3
    <3>2. more[n + 1] = queue[n]
      BY <1>4, <2>1, <3>1
    <3> QED BY <1>1, <2>1, <3>2
  <2> QED BY <2>2, <2>3
<1>11. CASE Len(more) > QueueCap
  <2>1. n = QueueCap /\ n \in Nat \ {0}
    BY <1>1, <1>2, <1>3, <1>11 DEF n
  <2>2. more # <<>>
    BY <1>1, <1>3, EmptySeq
  <2>3. new = Tail(more)
    BY <1>11 DEF Capped
  <2> HIDE DEF new
  <2>4. /\ new \in Seq(Frames) /\ Len(new) = n
        /\ \A i \in 1..n : new[i] = more[i + 1]
    <3>1. /\ new \in Seq(Frames) /\ Len(new) = Len(more) - 1
          /\ \A i \in 1..Len(new) : new[i] = more[i + 1]
      BY <1>3, <2>2, <2>3, HeadTailProperties
    <3> QED BY <1>1, <1>3, <3>1
  <2>5. \A i \in 1..n : i + 1 \in 1..(n + 1)
    BY <1>1
  <2>6. InOrder(new)
    <3> SUFFICES ASSUME NEW i \in 1..n, NEW j \in 1..n, i < j PROVE new[i] <= new[j]
      BY <2>4 DEF InOrder
    <3>1. i + 1 < j + 1
      BY <1>1
    <3> QED BY <1>8, <2>4, <2>5, <3>1
  <2>7. NewestOf(queue) <= NewestOf(new)
    <3>1. new # <<>> /\ queue # <<>> /\ n \in 1..n
      BY <1>1, <2>1, <2>4, EmptySeq DEF n
    <3>2. NewestOf(new) = more[n + 1]
      BY <2>4, <3>1 DEF NewestOf, Last
    <3>3. NewestOf(queue) = queue[n]
      BY <1>1, <3>1 DEF NewestOf
    <3> QED BY <1>10, <3>1, <3>2, <3>3
  <2>8. Len(new) <= QueueCap
    BY <2>1, <2>4
  <2> QED BY <1>9, <2>4, <2>5, <2>6, <2>7, <2>8 DEF new, more, n
<1>12. CASE ~(Len(more) > QueueCap)
  <2>1. new = more /\ Len(new) <= QueueCap
    BY <1>1, <1>2, <1>3, <1>12 DEF Capped
  <2> HIDE DEF new
  <2>2. InOrder(new)
    BY <1>3, <1>8, <2>1 DEF InOrder
  <2>3. NewestOf(queue) <= NewestOf(new)
    <3>1. more # <<>> /\ n + 1 \in 1..(n + 1)
      BY <1>1, <1>3, EmptySeq
    <3>2. NewestOf(new) = more[n + 1] /\ more[n + 1] \in Nat
      BY <1>3, <1>7, <2>1, <3>1 DEF NewestOf, Last
    <3>3. NewestOf(queue) = 0 \/ (queue # <<>> /\ NewestOf(queue) = queue[n])
      BY <1>1 DEF NewestOf
    <3> QED BY <1>10, <3>2, <3>3
  <2> QED BY <1>3, <1>9, <2>1, <2>2, <2>3 DEF new, more, n
<1> QED BY <1>11, <1>12

(* A frame that leaves the decoder behind the one painted is one of those behind. *)
LEMMA DecodedQueued ==
    ASSUME NEW queue, NEW painted, NEW behind, Queued(queue, painted, behind),
           NEW rt \in Frames
    PROVE  LET new == Capped(Insert(queue, rt))
           IN  /\ Queued(new, painted, IF rt < painted THEN behind \cup {rt} ELSE behind)
               /\ NewestOf(queue) <= NewestOf(new)
<1> DEFINE new == Capped(Insert(queue, rt))
           now == IF rt < painted THEN behind \cup {rt} ELSE behind
<1>1. /\ queue \in Seq(Frames) /\ Len(queue) <= QueueCap /\ InOrder(queue)
      /\ painted \in 0..MaxRt /\ painted <= NewestOf(queue)
      /\ \A i \in 1..Len(queue) : painted <= queue[i] \/ queue[i] \in behind
  BY DEF Queued
<1>2. /\ new \in Seq(Frames) /\ Len(new) <= QueueCap /\ InOrder(new)
      /\ NewestOf(queue) <= NewestOf(new)
      /\ \A i \in 1..Len(new) : new[i] = rt \/ \E j \in 1..Len(queue) : new[i] = queue[j]
  BY <1>1, InsertedInOrder
<1> HIDE DEF new
<1>3. painted <= NewestOf(new)
  <2>1. NewestOf(queue) \in Nat /\ NewestOf(new) \in Nat /\ painted \in Nat
    BY <1>1, <1>2, QueueTyped, DirectorAssumption
  <2> QED BY <1>1, <1>2, <2>1
<1>4. \A i \in 1..Len(new) : painted <= new[i] \/ new[i] \in now
  <2>1. painted <= rt \/ rt \in now
    BY <1>1, DirectorAssumption DEF Frames
  <2>2. behind \subseteq now
    OBVIOUS
  <2> HIDE DEF now
  <2> QED BY <1>1, <1>2, <2>1, <2>2
<1> QED BY <1>1, <1>2, <1>3, <1>4 DEF Queued, new

(* What is picked of a queue is its newest frame that is due. *)
LEMMA PickedFrame ==
    ASSUME NEW s \in Streams, q[s] \in Seq(Frames), InOrder(q[s]), NEW p \in Int,
           Pick(s, p) # 0
    PROVE  /\ \E i \in 1..Len(q[s]) : Pick(s, p) = q[s][i]
           /\ Pick(s, p) <= p
           /\ \A i \in 1..Len(q[s]) : q[s][i] <= p => q[s][i] <= Pick(s, p)
<1> DEFINE queue == q[s]
           at == Max(Due(s, p))
<1>1. /\ Len(queue) \in Nat /\ DOMAIN queue = 1..Len(queue)
      /\ \A i \in 1..Len(queue) : queue[i] \in Nat
  BY QueueTyped
<1>2. Due(s, p) # {} /\ Due(s, p) = {i \in 1..Len(queue) : queue[i] <= p}
  BY <1>1 DEF Due, Pick
<1>3. at \in Due(s, p) /\ \A y \in Due(s, p) : y <= at
  <2> DEFINE D == Due(s, p)
  <2>1. /\ D \subseteq Int /\ D # {} /\ Len(queue) \in Int
        /\ \A i \in D : i <= Len(queue)
    BY <1>1, <1>2
  <2> HIDE DEF D, queue
  <2>2. Max(D) \in D /\ \A y \in D : y <= Max(D)
    BY <2>1, MaxIsLast
  <2> QED BY <2>2 DEF D
<1>4. Pick(s, p) = queue[at]
  BY <1>2 DEF Pick
<1> HIDE DEF at
<1>5. at \in 1..Len(queue) /\ queue[at] <= p
  BY <1>2, <1>3
<1>6. \A i \in 1..Len(queue) : queue[i] <= p => queue[i] <= queue[at]
  <2> SUFFICES ASSUME NEW i \in 1..Len(queue), queue[i] <= p PROVE queue[i] <= queue[at]
    OBVIOUS
  <2>1. i <= at
    BY <1>2, <1>3
  <2>2. CASE i = at
    BY <1>1, <1>5, <2>2
  <2>3. CASE i < at
    BY <1>5, <2>3 DEF InOrder
  <2> QED BY <1>1, <1>5, <2>1, <2>2, <2>3
<1> QED BY <1>4, <1>5, <1>6

(* Draining keeps the newest frame, and nothing older than what is painted now. *)
Leaves(s, painted, behind, pick, now) ==
    LET new == Drained(s, pick, now)
    IN  /\ Queued(new, now, IF pick # 0 THEN {} ELSE behind)
        /\ NewestOf(new) = NewestOf(q[s])
        /\ \A i \in 1..Len(new) : \E j \in 1..Len(q[s]) : new[i] = q[s][j]

LEMMA DrainedQueued ==
    ASSUME NEW s \in Streams, NEW painted, NEW behind, Queued(q[s], painted, behind),
           NEW pick, NEW now \in {painted, pick}, pick = 0 => now = painted,
           pick # 0 => \E i \in 1..Len(q[s]) : pick = q[s][i]
    PROVE  Leaves(s, painted, behind, pick, now)
<1> DEFINE queue == q[s]
           n == Len(queue)
           new == Drained(s, pick, now)
<1>1. /\ queue \in Seq(Frames) /\ n <= QueueCap /\ InOrder(queue)
      /\ painted \in 0..MaxRt /\ painted <= NewestOf(queue)
      /\ \A i \in 1..n : painted <= queue[i] \/ queue[i] \in behind
  BY DEF Queued
<1>2. /\ n \in Nat /\ DOMAIN queue = 1..n
      /\ \A i \in 1..n : queue[i] \in Frames /\ queue[i] \in Nat
      /\ queue # <<>> => n \in 1..n /\ Last(queue) = queue[n]
      /\ queue = <<>> => n = 0
  BY <1>1, QueueTyped
<1>3. CASE pick = 0
  <2>1. new = queue /\ now = painted
    BY <1>3 DEF Drained
  <2> HIDE DEF new, queue
  <2>2. Queued(new, now, behind)
    BY <2>1 DEF queue
  <2>3. \A i \in 1..Len(new) : new[i] = queue[i] /\ i \in 1..Len(queue)
    BY <2>1
  <2> QED BY <1>3, <2>1, <2>2, <2>3 DEF Leaves, new, queue
<1>4. CASE pick # 0
  <2>1. PICK k \in 1..n : pick = queue[k]
    BY <1>4
  <2> HIDE DEF n
  <2>2. /\ n \in 1..n /\ queue # <<>> /\ NewestOf(queue) = queue[n]
        /\ pick \in Nat /\ pick <= queue[n] /\ queue[n] \in Nat
        /\ painted \in Nat /\ painted <= queue[n]
    <3>1. n \in 1..n /\ queue # <<>> /\ NewestOf(queue) = queue[n]
      BY <1>2, <2>1 DEF NewestOf
    <3>2. pick <= queue[n]
      <4>1. k = n \/ k < n
        BY <1>2, <2>1
      <4> QED BY <1>1, <1>2, <2>1, <3>1, <4>1 DEF InOrder, n
    <3> QED BY <1>1, <1>2, <2>1, <3>1, <3>2, DirectorAssumption
  <2> DEFINE floor == Max({now, pick})
  <2>3. /\ floor \in Nat /\ now <= floor /\ floor <= queue[n]
        /\ now \in Nat /\ now <= queue[n] /\ now \in 0..MaxRt
    <3>1. now \in Nat /\ now <= queue[n] /\ now \in 0..MaxRt
      BY <1>1, <1>2, <2>1, <2>2 DEF Frames
    <3>2. /\ {now, pick} \subseteq Int /\ {now, pick} # {} /\ queue[n] \in Int
          /\ \A x \in {now, pick} : x <= queue[n]
      BY <2>2, <3>1
    <3>3. floor \in {now, pick} /\ \A y \in {now, pick} : y <= floor
      BY <3>2, MaxIsLast
    <3> HIDE DEF floor
    <3> QED BY <2>2, <3>1, <3>3
  <2> HIDE DEF floor
  <2> DEFINE kept == {i \in 1..n : queue[i] >= floor}
             from == Min(kept)
  <2>4. from \in 1..n /\ queue[from] >= floor
    <3>1. n \in kept
      BY <2>2, <2>3
    <3>2. kept \subseteq Int /\ 0 \in Int /\ \A x \in kept : 0 <= x
      BY <1>2
    <3> HIDE DEF kept
    <3>3. kept # {}
      BY <3>1
    <3>4. Min(kept) \in kept
      BY <3>2, <3>3, MinIsFirst
    <3> QED BY <3>4 DEF kept
  <2>5. new = SubSeq(queue, from, n)
    <3>1. kept = {i \in DOMAIN q[s] : q[s][i] >= Max({now, pick})}
      BY <1>2 DEF floor
    <3>2. n \in kept
      BY <2>2, <2>3
    <3> HIDE DEF kept
    <3> QED BY <1>4, <3>1, <3>2 DEF Drained, n
  <2> HIDE DEF new, from
  <2>6. /\ new \in Seq(Frames) /\ Len(new) = n - from + 1
        /\ \A i \in 1..Len(new) : new[i] = queue[from + i - 1]
    <3>1. from \in Int /\ n \in Int /\ from <= n /\ \A i \in from..n : queue[i] \in Frames
      BY <1>2, <2>4
    <3>2. /\ SubSeq(queue, from, n) \in Seq(Frames)
          /\ Len(SubSeq(queue, from, n)) = n - from + 1
          /\ \A i \in 1..(n - from + 1) : SubSeq(queue, from, n)[i] = queue[from + i - 1]
      BY <3>1, SubSeqProperties
    <3> QED BY <2>5, <3>2
  <2>7. /\ Len(new) \in Nat \ {0} /\ Len(new) <= n
        /\ \A i \in 1..Len(new) : from + i - 1 \in 1..n /\ from <= from + i - 1
    BY <1>2, <2>4, <2>6
  <2>8. InOrder(new)
    <3> SUFFICES ASSUME NEW i \in 1..Len(new), NEW j \in 1..Len(new), i < j
                 PROVE  new[i] <= new[j]
      BY DEF InOrder
    <3>1. from + i - 1 < from + j - 1
      BY <2>4, <2>7
    <3>2. /\ from + i - 1 \in 1..Len(queue) /\ from + j - 1 \in 1..Len(queue)
          /\ new[i] = queue[from + i - 1] /\ new[j] = queue[from + j - 1]
      BY <2>6, <2>7 DEF n
    <3> QED BY <1>1, <3>1, <3>2 DEF InOrder
  <2>9. NewestOf(new) = NewestOf(queue)
    <3>1. from + Len(new) - 1 = n /\ Len(new) \in 1..Len(new)
      BY <1>2, <2>4, <2>6, <2>7
    <3>2. new[Len(new)] = queue[n]
      BY <2>6, <3>1
    <3>3. new # <<>>
      BY <2>6, <2>7, EmptySeq
    <3> QED BY <2>2, <3>2, <3>3 DEF NewestOf, Last
  <2>10. \A i \in 1..Len(new) : now <= new[i]
    <3> SUFFICES ASSUME NEW i \in 1..Len(new) PROVE now <= new[i]
      OBVIOUS
    <3> DEFINE k1 == from + i - 1
    <3>1. k1 \in 1..n /\ from <= k1 /\ new[i] = queue[k1]
      BY <2>6, <2>7
    <3> HIDE DEF k1
    <3>2. from = k1 \/ from < k1
      BY <2>4, <3>1
    <3>3. queue[from] \in Nat /\ queue[k1] \in Nat
      BY <1>2, <2>4, <3>1
    <3>4. queue[from] <= queue[k1]
      <4>1. CASE from = k1
        BY <3>3, <4>1
      <4>2. CASE from < k1
        BY <1>1, <2>4, <3>1, <4>2 DEF InOrder, n
      <4> QED BY <3>2, <4>1, <4>2
    <3> QED BY <2>3, <2>4, <3>1, <3>3, <3>4
  <2>11. now <= NewestOf(new) /\ Len(new) <= QueueCap
    BY <1>1, <1>2, <2>2, <2>3, <2>7, <2>9, DirectorAssumption DEF n
  <2>12. Queued(new, now, {})
    BY <2>3, <2>6, <2>8, <2>10, <2>11 DEF Queued
  <2>13. \A i \in 1..Len(new) : \E j \in 1..n : new[i] = queue[j]
    BY <2>6, <2>7
  <2> QED BY <1>4, <2>9, <2>12, <2>13 DEF Leaves, new, n
<1> QED BY <1>3, <1>4

-----------------------------------------------------------------------------
(* The inductive invariant *)

Stamps ==
    /\ ws \in BOOLEAN
    /\ firstRt \in [Streams -> 0..MaxRt] /\ lastPaintedRt \in [Streams -> 0..MaxRt]
    /\ paintAt \in [Streams -> 0..MaxRt] /\ since \in [Streams -> 0..FullHold]
    /\ late \in [Streams -> SUBSET Frames]
    /\ q \in [Streams -> Seq(Frames)] /\ pending \in [Streams -> Seq(Frames)]

Queues == \A s \in Streams : Queued(q[s], lastPaintedRt[s], late[s])

Fed == \A s \in Streams : decoder[s] # "running" => pending[s] = <<>>

Times == gts \in [started : BOOLEAN, gts0 : Nat, consumed : 0..MaxConsumed,
                  fast : BOOLEAN, fastLeft : 0..ACCEL]

Timeline == Times /\ FastIsCovered

Sound == Keyed /\ Stamps /\ Queues /\ Fed /\ Timeline

LEMMA ConstantsTyped ==
    /\ LEAD \in Nat /\ PRESENT_LAG \in Nat /\ CACHE \in Nat /\ MaxConsumed \in Nat
    /\ ACCEL \in Nat \ {0} /\ QueueCap \in Nat \ {0} /\ MaxRt \in Nat \ {0}
    /\ Elapsed \subseteq Nat
BY DirectorAssumption

(* A stream whose queue is empty has painted nothing. *)
LEMMA EmptyQueued ==
    ASSUME NEW behind
    PROVE  <<>> \in Seq(Frames) /\ Queued(<<>>, 0, behind)
BY ConstantsTyped, EmptySeq DEF Queued, InOrder, NewestOf

LEMMA InitSound == Init => Sound
<1> SUFFICES ASSUME Init PROVE Sound
  OBVIOUS
<1>1. Stamps
  <2>1. 0 \in 0..MaxRt /\ FullHold \in 0..FullHold
    BY ConstantsTyped DEF FullHold
  <2>2. q \in [Streams -> Seq(Frames)] /\ pending \in [Streams -> Seq(Frames)]
    BY EmptyQueued DEF Init
  <2> QED BY <2>1, <2>2 DEF Init, Stamps
<1>2. Queues /\ Fed
  BY EmptyQueued DEF Init, Queues, Fed
<1>3. Timeline
  BY ConstantsTyped DEF Init, Timeline, Times, FastIsCovered, NoTimeline
<1> QED BY <1>1, <1>2, <1>3, InitKeyed DEF Sound

LEMMA SameTimeline ==
    ASSUME Timeline, UNCHANGED <<q, gts>>
    PROVE  Timeline'
BY DEF Timeline, Times, FastIsCovered, Cushion, Newest, P0, GtsAt

LEMMA ArrivalSound ==
    ASSUME Sound, NEW s \in Streams, AccessUnit(s)
    PROVE  Stamps' /\ Queues' /\ Fed' /\ Timeline' /\ UNCHANGED frames
<1>1. UNCHANGED <<ws, cfg, frames, gts>>
  BY DEF AccessUnit, DropDelta, DropForWantOfCfg, ConfigureFails, Decode, Arrives
<1>2. Stamps /\ Queues /\ Fed /\ Timeline
  BY DEF Sound
<1>3. \/ /\ pending' = pending
         /\ \A r \in Streams : decoder'[r] # "running" => decoder[r] # "running"
      \/ /\ decoder' = [decoder EXCEPT ![s] = "running"]
         /\ \E rt \in Frames : pending' = [pending EXCEPT ![s] = Append(@, rt)]
  <2>1. CASE DropDelta(s)
    BY <2>1 DEF DropDelta
  <2>2. CASE \E key \in BOOLEAN : DropForWantOfCfg(s, key) \/ ConfigureFails(s, key)
    BY <2>2 DEF DropForWantOfCfg, ConfigureFails
  <2>3. ASSUME NEW key \in BOOLEAN, NEW rt \in 1..MaxRt, Decode(s, key, rt)
        PROVE  <1>3!1 \/ <1>3!2
    <3>1. CASE key \/ decoder[s] = "running"
      BY <2>3, <3>1 DEF Decode, Frames
    <3>2. CASE ~(key \/ decoder[s] = "running")
      <4>1. decoder' = [decoder EXCEPT ![s] = "empty"] /\ pending' = pending
        BY <2>3, <3>2 DEF Decode
      <4>2. \A r \in Streams : decoder'[r] # "running" => decoder[r] # "running"
        BY <3>2, <4>1 DEF Sound, Keyed, DecoderTyped
      <4> QED BY <4>1, <4>2
    <3> QED BY <3>1, <3>2
  <2> QED BY <2>1, <2>2, <2>3 DEF AccessUnit
<1>4. pending' \in [Streams -> Seq(Frames)] /\ Fed'
  <2>1. /\ pending \in [Streams -> Seq(Frames)]
        /\ decoder \in [Streams -> {"none", "empty", "running"}]
    BY <1>2 DEF Stamps, Sound, Keyed, DecoderTyped
  <2>2. CASE /\ pending' = pending
             /\ \A r \in Streams : decoder'[r] # "running" => decoder[r] # "running"
    BY <1>2, <2>1, <2>2 DEF Fed
  <2>3. ASSUME decoder' = [decoder EXCEPT ![s] = "running"],
               NEW rt \in Frames, pending' = [pending EXCEPT ![s] = Append(@, rt)]
        PROVE  pending' \in [Streams -> Seq(Frames)] /\ Fed'
    <3>1. pending[s] \in Seq(Frames)
      BY <2>1
    <3>2. Append(pending[s], rt) \in Seq(Frames)
      BY <3>1, AppendProperties
    <3>3. pending' \in [Streams -> Seq(Frames)]
      BY <2>1, <2>3, <3>2
    <3>4. \A r \in Streams : \/ decoder'[r] = "running"
                             \/ decoder'[r] = decoder[r] /\ pending'[r] = pending[r]
      BY <2>1, <2>3
    <3> QED BY <1>2, <3>3, <3>4 DEF Fed
  <2> QED BY <1>3, <2>2, <2>3
<1>5. Stamps' /\ Queues' /\ Timeline'
  BY <1>1, <1>2, <1>4, SameTimeline DEF Stamps, Queues, frames
<1> QED BY <1>1, <1>4, <1>5

(* What leaves queues and stamps alone. *)
LEMMA QuietSound ==
    ASSUME Sound, \/ UNCHANGED vars \/ Open
                  \/ \E s \in Streams : Cfg(s) \/ DecoderError(s)
    PROVE  Stamps' /\ Queues' /\ Fed' /\ Timeline' /\ lastPaintedRt' = lastPaintedRt
<1>1. Stamps /\ Queues /\ Fed /\ Timeline
  BY DEF Sound
<1>2. UNCHANGED <<q, firstRt, lastPaintedRt, paintAt, late, gts>>
  BY DEF vars, frames, Open, Cfg, DecoderError
<1>3. Timeline' /\ Queues'
  BY <1>1, <1>2, SameTimeline DEF Queues
<1>4. CASE UNCHANGED vars \/ Open \/ \E s \in Streams : Cfg(s)
  <2>1. ws' \in BOOLEAN /\ UNCHANGED <<pending, decoder>>
    BY <1>1, <1>4 DEF vars, streams, Open, Cfg, Stamps
  <2>2. since' \in [Streams -> 0..FullHold]
    <3>1. since' = since \/ since' = [s \in Streams |-> FullHold]
      BY <1>4 DEF vars, frames, Open, Cfg
    <3>2. FullHold \in 0..FullHold
      BY DEF FullHold
    <3> QED BY <1>1, <3>1, <3>2 DEF Stamps
  <2> QED BY <1>1, <1>2, <1>3, <2>1, <2>2 DEF Stamps, Fed
<1>5. ASSUME NEW s \in Streams, DecoderError(s) PROVE Stamps' /\ Fed'
  <2>1. /\ pending' = [pending EXCEPT ![s] = <<>>] /\ UNCHANGED <<ws, since>>
        /\ decoder' = [decoder EXCEPT ![s] = "none"]
    BY <1>5 DEF DecoderError, frames
  <2>2. pending \in [Streams -> Seq(Frames)] /\ decoder \in [Streams -> {"none", "empty", "running"}]
    BY <1>1 DEF Stamps, Sound, Keyed, DecoderTyped
  <2>3. pending' \in [Streams -> Seq(Frames)]
    BY <2>1, <2>2, EmptySeq
  <2>4. \A r \in Streams : \/ pending'[r] = pending[r] /\ decoder'[r] = decoder[r]
                           \/ pending'[r] = <<>>
    BY <2>1, <2>2
  <2> QED BY <1>1, <1>2, <2>1, <2>3, <2>4 DEF Stamps, Fed
<1> QED BY <1>2, <1>3, <1>4, <1>5

LEMMA CloseSound ==
    ASSUME Sound, Close
    PROVE  Stamps' /\ Queues' /\ Fed' /\ Timeline'
<1>1. Stamps
  BY DEF Sound
<1>2. /\ pending' = [s \in Streams |-> <<>>] /\ q' = [s \in Streams |-> <<>>]
      /\ firstRt' = [s \in Streams |-> 0] /\ lastPaintedRt' = [s \in Streams |-> 0]
      /\ late' = [s \in Streams |-> {}]
      /\ gts' = NoTimeline /\ UNCHANGED <<paintAt, since>> /\ ws' = FALSE
  BY DEF Close
<1>3. Stamps'
  <2>1. q' \in [Streams -> Seq(Frames)] /\ pending' \in [Streams -> Seq(Frames)]
    BY <1>2, EmptyQueued
  <2>2. 0 \in 0..MaxRt
    BY ConstantsTyped
  <2> QED BY <1>1, <1>2, <2>1, <2>2 DEF Stamps
<1>4. Queues' /\ Fed'
  BY <1>2, EmptyQueued DEF Queues, Fed
<1>5. Timeline'
  BY <1>2, ConstantsTyped DEF Timeline, Times, FastIsCovered, NoTimeline
<1> QED BY <1>3, <1>4, <1>5

LEMMA NewestTyped ==
    ASSUME Stamps, NEW s \in Streams
    PROVE  Newest(s) \in Nat /\ Newest(s) = NewestOf(q[s])
BY QueueTyped DEF Stamps, Newest, NewestOf

LEMMA DecodedSound ==
    ASSUME Sound, NEW s \in Streams, OnDecoded(s)
    PROVE  Stamps' /\ Queues' /\ Fed' /\ Timeline' /\ lastPaintedRt' = lastPaintedRt
<1> DEFINE rt == Head(pending[s])
           new == Capped(Insert(q[s], rt))
           behind == IF rt < lastPaintedRt[s] THEN late[s] \cup {rt} ELSE late[s]
           first == [firstRt EXCEPT ![s] = IF @ = 0 \/ rt < @ THEN rt ELSE @]
<1>1. Stamps /\ Queues /\ Fed /\ Timeline
  BY DEF Sound
<1>2. /\ pending[s] # <<>> /\ q' = [q EXCEPT ![s] = new]
      /\ firstRt' = first /\ gts' = Started(first)
      /\ late' = [late EXCEPT ![s] = IF rt < lastPaintedRt[s] THEN @ \cup {rt} ELSE @]
      /\ pending' = [pending EXCEPT ![s] = Tail(@)]
      /\ UNCHANGED <<ws, decoder, lastPaintedRt, paintAt, since>>
  BY DEF OnDecoded
<1>3. rt \in Frames /\ Tail(pending[s]) \in Seq(Frames)
  <2>1. pending[s] \in Seq(Frames)
    BY <1>1 DEF Stamps
  <2> QED BY <1>2, <2>1, HeadTailProperties
<1>4. /\ Queued(new, lastPaintedRt[s], behind)
      /\ NewestOf(q[s]) <= NewestOf(new)
  <2>1. Queued(q[s], lastPaintedRt[s], late[s])
    BY <1>1 DEF Queues
  <2> QED BY <1>3, <2>1, DecodedQueued
<1> HIDE DEF new
<1>5. first \in [Streams -> 0..MaxRt]
  BY <1>1, <1>3, ConstantsTyped DEF Stamps, Frames
<1> HIDE DEF first
<1>6. /\ q'[s] = new /\ late'[s] = behind
      /\ \A r \in Streams : r # s => q'[r] = q[r] /\ late'[r] = late[r]
      /\ \A r \in Streams : pending'[r] = pending[r] \/ pending[r] # <<>>
  BY <1>1, <1>2 DEF Stamps
<1>7. Stamps'
  <2>1. new \in Seq(Frames)
    BY <1>4 DEF Queued
  <2>2. q' \in [Streams -> Seq(Frames)] /\ pending' \in [Streams -> Seq(Frames)]
    BY <1>1, <1>2, <1>3, <2>1 DEF Stamps
  <2>3. late' \in [Streams -> SUBSET Frames]
    BY <1>1, <1>2, <1>3 DEF Stamps
  <2> QED BY <1>1, <1>2, <1>5, <2>2, <2>3 DEF Stamps
<1>8. Queues'
  <2> SUFFICES ASSUME NEW r \in Streams
               PROVE  Queued(q'[r], lastPaintedRt[r], late'[r])
    BY <1>2 DEF Queues
  <2>1. CASE r = s
    BY <1>4, <1>6, <2>1
  <2>2. CASE r # s
    BY <1>1, <1>6, <2>2 DEF Queues
  <2> QED BY <2>1, <2>2
<1>9. Fed'
  BY <1>1, <1>2, <1>6 DEF Fed
<1>10. Timeline'
  <2>1. CASE gts.started
    <3>1. gts' = gts
      BY <1>2, <2>1 DEF Started
    <3>2. \A r \in Streams : Newest(r) \in Nat /\ Newest(r)' \in Nat /\ Newest(r)' >= Newest(r)
      <4> SUFFICES ASSUME NEW r \in Streams
                   PROVE  Newest(r) \in Nat /\ Newest(r)' \in Nat /\ Newest(r)' >= Newest(r)
        OBVIOUS
      <4>1. Newest(r) \in Nat /\ Newest(r) = NewestOf(q[r])
        BY <1>1, NewestTyped
      <4>2. Newest(r)' = NewestOf(q'[r]) /\ q'[r] \in Seq(Frames)
        BY <1>7 DEF Newest, NewestOf, Stamps
      <4>3. NewestOf(q'[r]) \in Nat
        BY <4>2, QueueTyped
      <4>4. CASE r = s
        BY <1>4, <1>6, <4>1, <4>2, <4>3, <4>4
      <4>5. CASE r # s
        BY <1>6, <4>1, <4>2, <4>3, <4>5
      <4> QED BY <4>4, <4>5
    <3>3. P0(gts.consumed) \in Int /\ P0(gts.consumed)' = P0(gts.consumed)
      BY <1>1, <3>1, ConstantsTyped DEF P0, GtsAt, Timeline, Times
    <3>4. FastIsCovered'
      <4> SUFFICES ASSUME gts.fast, NEW r \in Streams
                   PROVE  Newest(r)' - P0(gts.consumed) >= 0
        BY <3>1, <3>3 DEF FastIsCovered, Cushion
      <4>1. Newest(r) - P0(gts.consumed) >= 0
        BY <1>1 DEF Timeline, FastIsCovered, Cushion
      <4>2. \A a, b \in Nat, c \in Int : a - c >= 0 /\ b >= a => b - c >= 0
        OBVIOUS
      <4> QED BY <3>2, <3>3, <4>1, <4>2
    <3> QED BY <1>1, <3>1, <3>4 DEF Timeline, Times
  <2>2. CASE ~gts.started
    <3> DEFINE firsts == {first[r] : r \in Streams}
    <3>1. Max(firsts) \in Nat
      <4>1. firsts \subseteq 0..MaxRt /\ firsts # {}
        BY <1>5
      <4> HIDE DEF firsts
      <4>2. firsts \subseteq Int /\ MaxRt \in Int /\ \A x \in firsts : x <= MaxRt
        BY <4>1, ConstantsTyped
      <4>3. Max(firsts) \in firsts
        BY <4>1, <4>2, MaxIsLast
      <4>4. Max(firsts) \in 0..MaxRt
        BY <4>1, <4>3
      <4> QED BY <4>4
    <3>2. gts' = [NoTimeline EXCEPT !.started = TRUE, !.gts0 = Max(firsts) + LEAD]
      BY <1>2, <2>2 DEF Started
    <3> HIDE DEF firsts
    <3>3. Max(firsts) + LEAD \in Nat
      BY <3>1, ConstantsTyped
    <3>4. gts' = [started |-> TRUE, gts0 |-> Max(firsts) + LEAD,
                  consumed |-> 0, fast |-> FALSE, fastLeft |-> 0]
      BY <3>2 DEF NoTimeline
    <3>5. 0 \in 0..MaxConsumed /\ 0 \in 0..ACCEL
      BY ConstantsTyped
    <3>6. Times'
      BY <3>3, <3>4, <3>5 DEF Times
    <3>7. ~gts'.fast
      BY <3>4
    <3> QED BY <3>6, <3>7 DEF Timeline, FastIsCovered
  <2> QED BY <2>1, <2>2
<1> QED BY <1>2, <1>7, <1>8, <1>9, <1>10

-----------------------------------------------------------------------------
(* present() *)

LEMMA AdvanceTimes ==
    ASSUME Times, NEW dt \in Nat, gts.consumed + 2 * dt <= MaxConsumed
    PROVE  LET new == Advance(dt)
           IN  /\ new \in [started : BOOLEAN, gts0 : Nat, consumed : 0..MaxConsumed,
                           fast : BOOLEAN, fastLeft : 0..ACCEL]
               /\ new.gts0 = gts.gts0
               /\ new.fast => \A s \in Streams : Cushion(s, new.consumed) >= 0
<1> DEFINE consumed == gts.consumed + dt * (IF gts.fast THEN 2 ELSE 1)
           starts == ~gts.fast /\ \A s \in Streams : Cushion(s, consumed) >= CACHE
           left == (IF starts THEN ACCEL ELSE gts.fastLeft) - dt
           fast == /\ gts.fast \/ starts
                   /\ left > 0 /\ \A s \in Streams : Cushion(s, consumed) >= 0
<1>1. /\ gts \in [started : BOOLEAN, gts0 : Nat, consumed : 0..MaxConsumed,
                  fast : BOOLEAN, fastLeft : 0..ACCEL]
      /\ gts.consumed \in 0..MaxConsumed /\ gts.fastLeft \in 0..ACCEL
      /\ gts.fast \in BOOLEAN
  BY DEF Times
<1>2. consumed \in 0..MaxConsumed
  BY <1>1, ConstantsTyped
<1> HIDE DEF consumed
<1>3. fast \in BOOLEAN
  OBVIOUS
<1> HIDE DEF starts
<1>4. fast => left \in 0..ACCEL
  BY <1>1, ConstantsTyped
<1>5. fast => \A s \in Streams : Cushion(s, consumed) >= 0
  OBVIOUS
<1> HIDE DEF left, fast
<1>6. (IF fast THEN left ELSE 0) \in 0..ACCEL
  BY <1>4, ConstantsTyped
<1>7. Advance(dt) = [gts EXCEPT !.consumed = consumed, !.fast = fast,
                                !.fastLeft = IF fast THEN left ELSE 0]
  BY DEF Advance, fast, left, starts, consumed
<1> QED BY <1>1, <1>2, <1>3, <1>5, <1>6, <1>7

LEMMA PointBounds ==
    ASSUME Stamps, Times, NEW consumed \in Nat
    PROVE  /\ Point(consumed) \in Int /\ Point(consumed) <= P0(consumed)
           /\ P0(consumed) \in Int /\ P0(consumed) <= gts.gts0 + consumed
           /\ \A t \in Buffered : Point(consumed) <= Newest(t) - PRESENT_LAG
<1> DEFINE T == {P0(consumed)} \cup {Newest(t) - PRESENT_LAG : t \in Buffered}
           low == IF P0(consumed) <= 0 - PRESENT_LAG THEN P0(consumed) ELSE 0 - PRESENT_LAG
<1>1. P0(consumed) \in Int /\ P0(consumed) <= gts.gts0 + consumed
  BY ConstantsTyped DEF P0, GtsAt, Times
<1>2. \A t \in Buffered : Newest(t) \in Nat
  BY NewestTyped DEF Buffered
<1>3. low \in Int /\ low <= P0(consumed) /\ low <= 0 - PRESENT_LAG
  BY <1>1, ConstantsTyped
<1> HIDE DEF low
<1>4. \A t \in Buffered : /\ Newest(t) - PRESENT_LAG \in Int
                          /\ low <= Newest(t) - PRESENT_LAG
  BY <1>2, <1>3, ConstantsTyped
<1>5. T \subseteq Int /\ T # {} /\ \A x \in T : low <= x
  BY <1>1, <1>3, <1>4
<1>6. P0(consumed) \in T /\ \A t \in Buffered : Newest(t) - PRESENT_LAG \in T
  OBVIOUS
<1>7. Point(consumed) = Min(T)
  BY DEF Point
<1> HIDE DEF T
<1>8. Min(T) \in T /\ \A y \in T : Min(T) <= y
  BY <1>3, <1>5, MinIsFirst
<1> QED BY <1>1, <1>5, <1>6, <1>7, <1>8

(* What one run of present() does to a stream, for the point p it computes. *)
Shown(s, p) ==
    /\ lastPaintedRt'[s] # lastPaintedRt[s]
          => /\ lastPaintedRt'[s] = Pick(s, p) /\ lastPaintedRt'[s] <= p
             /\ \A i \in 1..Len(q[s]) : q[s][i] <= p => q[s][i] <= lastPaintedRt'[s]
             /\ lastPaintedRt[s] <= lastPaintedRt'[s] \/ lastPaintedRt'[s] \in late[s]
    /\ \A i \in 1..Len(q'[s]) : \E j \in 1..Len(q[s]) : q'[s][i] = q[s][j]
    /\ q[s] \in Seq(Frames) /\ q'[s] \in Seq(Frames)
    /\ lastPaintedRt[s] \in Nat /\ lastPaintedRt'[s] \in Nat

LEMMA PresentSound ==
    ASSUME Sound, NEW dt \in Elapsed, Present(dt)
    PROVE  /\ Stamps' /\ Queues' /\ Fed' /\ Timeline'
           /\ gts'.gts0 = gts.gts0 /\ gts'.consumed \in Nat
           /\ \A s \in Streams : Shown(s, Point(gts'.consumed))
<1> DEFINE p == Point(gts'.consumed)
<1>1. Stamps /\ Queues /\ Fed /\ Timeline
  BY DEF Sound
<1>2. dt \in Nat
  BY ConstantsTyped
<1>3. /\ Times' /\ gts'.gts0 = gts.gts0 /\ gts'.consumed \in Nat
      /\ gts'.fast => \A s \in Streams : Cushion(s, gts'.consumed) >= 0
  <2>1. gts' = Advance(dt) /\ gts.consumed + 2 * dt <= MaxConsumed
    BY DEF Present
  <2>2. Times
    BY <1>1 DEF Timeline
  <2> QED BY <1>2, <2>1, <2>2, AdvanceTimes, ConstantsTyped DEF Times
<1>4. p \in Int
  BY <1>1, <1>3, PointBounds DEF Timeline
<1> HIDE DEF p
<1>5. /\ lastPaintedRt' = [s \in Streams |-> lastPaintedRt'[s]]
      /\ \A s \in Streams : /\ lastPaintedRt'[s] \in {lastPaintedRt[s], Pick(s, p)}
                            /\ Pick(s, p) = 0 => lastPaintedRt'[s] = lastPaintedRt[s]
      /\ paintAt' = [s \in Streams |-> paintAt'[s]]
      /\ \A s \in Streams : paintAt'[s] \in {paintAt[s], lastPaintedRt'[s]}
  BY DEF Present, p
<1>6. /\ q' = [s \in Streams |-> Drained(s, Pick(s, p), lastPaintedRt'[s])]
      /\ late' = [s \in Streams |-> IF Pick(s, p) # 0 THEN {} ELSE late[s]]
  BY DEF Present, p
<1>7. since' \in [Streams -> 0..FullHold]
  <2>1. \A s \in Streams : Min({FullHold, since[s] + dt}) \in 0..FullHold
    <3> SUFFICES ASSUME NEW s \in Streams PROVE Min({FullHold, since[s] + dt}) \in 0..FullHold
      OBVIOUS
    <3> DEFINE T == {FullHold, since[s] + dt}
    <3>0. since[s] \in 0..2
      BY <1>1 DEF Stamps, FullHold
    <3>1. T \subseteq Nat /\ FullHold \in T /\ FullHold \in Nat
      BY <1>2, <3>0 DEF FullHold
    <3> HIDE DEF T
    <3>2. T \subseteq Int /\ T # {} /\ 0 \in Int /\ \A x \in T : 0 <= x
      BY <3>1
    <3>3. Min(T) \in T /\ \A y \in T : Min(T) <= y
      BY <3>2, MinIsFirst
    <3>4. Min(T) \in Nat /\ Min(T) <= FullHold
      BY <3>1, <3>3
    <3>5. Min(T) \in 0..FullHold
      BY <3>1, <3>4
    <3> QED BY <3>5 DEF T
  <2>2. 0 \in 0..FullHold
    BY DEF FullHold
  <2> QED BY <2>1, <2>2 DEF Present
<1>8. UNCHANGED <<ws, decoder, pending, firstRt>>
  BY DEF Present, streams
<1>9. ASSUME NEW s \in Streams
      PROVE  /\ Shown(s, p) /\ Newest(s)' = Newest(s)
             /\ Queued(q'[s], lastPaintedRt'[s], late'[s])
  <2> DEFINE now == lastPaintedRt'[s]
             pick == Pick(s, p)
             new == Drained(s, pick, now)
  <2>1. Queued(q[s], lastPaintedRt[s], late[s]) /\ q[s] \in Seq(Frames) /\ InOrder(q[s])
        /\ \A i \in 1..Len(q[s]) : q[s][i] \in Frames
    BY <1>1, QueueTyped DEF Queues, Queued
  <2>2. now \in {lastPaintedRt[s], pick} /\ (pick = 0 => now = lastPaintedRt[s])
    BY <1>5
  <2>3. pick # 0 => /\ \E i \in 1..Len(q[s]) : pick = q[s][i]
                    /\ pick <= p
                    /\ \A i \in 1..Len(q[s]) : q[s][i] <= p => q[s][i] <= pick
    BY <1>4, <2>1, PickedFrame
  <2> DEFINE left == IF pick # 0 THEN {} ELSE late[s]
  <2>4. q'[s] = new /\ late'[s] = left
    BY <1>6
  <2> HIDE DEF now, pick
  <2>5. /\ Queued(new, now, left)
        /\ NewestOf(new) = NewestOf(q[s])
        /\ \A i \in 1..Len(new) : \E j \in 1..Len(q[s]) : new[i] = q[s][j]
    <3>1. Queued(q[s], lastPaintedRt[s], late[s])
      BY <2>1
    <3>2. now \in {lastPaintedRt[s], pick} /\ (pick = 0 => now = lastPaintedRt[s])
      BY <2>2
    <3>3. pick # 0 => \E i \in 1..Len(q[s]) : pick = q[s][i]
      BY <2>3
    <3>4. Leaves(s, lastPaintedRt[s], late[s], pick, now)
      BY <3>1, <3>2, <3>3, DrainedQueued
    <3> QED BY <3>4 DEF Leaves
  <2> HIDE DEF new, left
  <2>6. Newest(s)' = Newest(s)
    BY <2>4, <2>5 DEF Newest, NewestOf
  <2>7. now # lastPaintedRt[s]
        => now = pick /\ pick # 0 /\ (lastPaintedRt[s] <= now \/ now \in late[s])
    BY <2>1, <2>2, <2>3 DEF Queued
  <2>8. lastPaintedRt[s] \in Nat /\ now \in Nat /\ new \in Seq(Frames)
    BY <2>1, <2>5, ConstantsTyped DEF Queued
  <2>9. Shown(s, p)
    BY <2>1, <2>3, <2>4, <2>5, <2>7, <2>8 DEF Shown, now, pick
  <2> QED BY <2>4, <2>5, <2>6, <2>9 DEF now
<1>10. Stamps'
  <2>1. lastPaintedRt' \in [Streams -> 0..MaxRt]
    BY <1>5, <1>9 DEF Queued
  <2>2. paintAt' \in [Streams -> 0..MaxRt]
    BY <1>1, <1>5, <2>1 DEF Stamps
  <2>3. q' \in [Streams -> Seq(Frames)]
    BY <1>6, <1>9 DEF Queued
  <2>4. late' \in [Streams -> SUBSET Frames]
    BY <1>1, <1>6 DEF Stamps
  <2> QED BY <1>1, <1>7, <1>8, <2>1, <2>2, <2>3, <2>4 DEF Stamps
<1>11. Queues' /\ Fed'
  BY <1>1, <1>8, <1>9 DEF Queues, Fed
<1>12. Timeline'
  <2>1. P0(gts.consumed)' = P0(gts'.consumed)
    BY <1>3 DEF P0, GtsAt
  <2>2. FastIsCovered'
    BY <1>3, <1>9, <2>1 DEF FastIsCovered, Cushion
  <2> QED BY <1>3, <2>2 DEF Timeline
<1> QED BY <1>3, <1>9, <1>10, <1>11, <1>12 DEF p

-----------------------------------------------------------------------------
(* The theorems *)

LEMMA SoundStep ==
    ASSUME Sound, [Next]_vars
    PROVE  /\ Sound'
           /\ \/ lastPaintedRt' = lastPaintedRt
              \/ lastPaintedRt' = [s \in Streams |-> 0]
              \/ /\ gts'.gts0 = gts.gts0 /\ gts'.consumed \in Nat
                 /\ \A s \in Streams : Shown(s, Point(gts'.consumed))
<1>1. Keyed'
  BY KeyedStep DEF Sound
<1>2. CASE \E s \in Streams : AccessUnit(s)
  BY <1>1, <1>2, ArrivalSound DEF Sound, frames
<1>3. CASE UNCHANGED vars \/ Open \/ \E s \in Streams : Cfg(s) \/ DecoderError(s)
  BY <1>1, <1>3, QuietSound DEF Sound
<1>4. CASE Close
  <2>1. lastPaintedRt' = [s \in Streams |-> 0]
    BY <1>4 DEF Close
  <2> QED BY <1>1, <1>4, <2>1, CloseSound DEF Sound
<1>5. CASE \E s \in Streams : OnDecoded(s)
  BY <1>1, <1>5, DecodedSound DEF Sound
<1>6. CASE \E dt \in Elapsed : Present(dt)
  BY <1>1, <1>6, PresentSound DEF Sound
<1> QED BY <1>2, <1>3, <1>4, <1>5, <1>6 DEF Next

LEMMA AlwaysSound == Spec => []Sound
<1>1. Sound /\ [Next]_vars => Sound'
  BY SoundStep
<1> QED BY <1>1, InitSound, PTL DEF Spec

(* The variables of the page keep their types: for any number of streams and any
   limits, every queue is sorted and within its cap, whatever the stamps of its
   frames and the order in which they came.                                  *)
THEOREM DirectorTypeCorrect == Spec => []TypeOK
<1>1. Sound => TypeOK
  <2> SUFFICES ASSUME Sound PROVE TypeOK
    OBVIOUS
  <2>1. Keyed /\ Stamps /\ Queues /\ Fed /\ Times
    BY DEF Sound, Timeline
  <2>2. ASSUME NEW s \in Streams
        PROVE  /\ needKey[s] => decoder[s] = "none"
               /\ decoder[s] # "running" => pending[s] = <<>>
               /\ Len(q[s]) <= QueueCap
               /\ \A i \in DOMAIN q[s] : q[s][i] \in 1..MaxRt
               /\ \A i \in 2..Len(q[s]) : q[s][i - 1] <= q[s][i]
    <3>1. q[s] \in Seq(Frames) /\ Len(q[s]) <= QueueCap /\ InOrder(q[s])
      BY <2>1 DEF Queues, Queued
    <3>2. /\ Len(q[s]) \in Nat
          /\ \A i \in DOMAIN q[s] : q[s][i] \in 1..MaxRt
      BY <3>1, QueueTyped DEF Frames
    <3>3. \A i \in 2..Len(q[s]) : q[s][i - 1] <= q[s][i]
      <4> SUFFICES ASSUME NEW i \in 2..Len(q[s]) PROVE q[s][i - 1] <= q[s][i]
        OBVIOUS
      <4>1. i - 1 \in 1..Len(q[s]) /\ i \in 1..Len(q[s]) /\ i - 1 < i
        BY <3>2
      <4> QED BY <3>1, <4>1 DEF InOrder
    <3> QED BY <2>1, <3>1, <3>2, <3>3 DEF Keyed, Waiting, Fed
  <2> QED BY <2>1, <2>2 DEF TypeOK, Keyed, DecoderTyped, Stamps, Times
<1> QED BY <1>1, AlwaysSound, PTL

(* Double speed is never on when a stream has run out of frames before the point
   of the timeline, for any lags, any times between two animation frames and any
   order of the callbacks.                                                    *)
THEOREM FastStaysCovered == Spec => []FastIsCovered
<1>1. Sound => FastIsCovered
  BY DEF Sound, Timeline
<1> QED BY <1>1, AlwaysSound, PTL

(* What holds of the streams that a step paints. *)
BackOnlyLate == \A s \in Streams :
    lastPaintedRt'[s] \in 1..(lastPaintedRt[s] - 1) => lastPaintedRt'[s] \in late[s]

Behind == \A s \in Streams :
    lastPaintedRt'[s] \notin {0, lastPaintedRt[s]}
    => /\ lastPaintedRt'[s] <= gts'.gts0 + gts'.consumed
       /\ \A t \in Buffered : lastPaintedRt'[s] <= Newest(t) - PRESENT_LAG

Locked == \A s, t \in Streams :
    /\ lastPaintedRt'[s] \notin {0, lastPaintedRt[s]}
    /\ lastPaintedRt'[t] \notin {0, lastPaintedRt[t]}
    => \A i \in DOMAIN q'[s] :
          ~(lastPaintedRt'[s] < q'[s][i] /\ q'[s][i] <= lastPaintedRt'[t])

LEMMA PaintedStep ==
    ASSUME Sound, [Next]_vars
    PROVE  BackOnlyLate /\ Behind /\ Locked
<1> DEFINE p == Point(gts'.consumed)
<1>1. CASE lastPaintedRt' = lastPaintedRt
  <2>1. BackOnlyLate
    <3>1. \A s \in Streams : lastPaintedRt[s] \in Nat
      BY ConstantsTyped DEF Sound, Stamps
    <3> QED BY <1>1, <3>1 DEF BackOnlyLate
  <2> QED BY <1>1, <2>1 DEF Behind, Locked
<1>2. CASE lastPaintedRt' = [s \in Streams |-> 0]
  BY <1>2 DEF BackOnlyLate, Behind, Locked
<1>3. CASE /\ gts'.gts0 = gts.gts0 /\ gts'.consumed \in Nat
           /\ \A s \in Streams : Shown(s, p)
  <2>1. /\ p \in Int /\ p <= P0(gts'.consumed) /\ P0(gts'.consumed) \in Int
        /\ P0(gts'.consumed) <= gts'.gts0 + gts'.consumed
        /\ \A t \in Buffered : p <= Newest(t) - PRESENT_LAG
    BY <1>3, PointBounds DEF Sound, Timeline
  <2>2. /\ gts'.gts0 + gts'.consumed \in Int
        /\ \A t \in Buffered : Newest(t) - PRESENT_LAG \in Int
    <3>1. gts'.gts0 \in Nat
      BY <1>3 DEF Sound, Timeline, Times
    <3>2. \A t \in Buffered : Newest(t) \in Nat
      BY NewestTyped DEF Buffered, Sound
    <3> QED BY <1>3, <3>1, <3>2, ConstantsTyped
  <2>3. \A a, b, c \in Int : a <= b /\ b <= c => a <= c
    OBVIOUS
  <2> HIDE DEF p
  <2>4. BackOnlyLate
    BY <1>3 DEF Shown, BackOnlyLate
  <2>5. Behind
    <3> SUFFICES ASSUME NEW s \in Streams, lastPaintedRt'[s] # lastPaintedRt[s]
                 PROVE  /\ lastPaintedRt'[s] <= gts'.gts0 + gts'.consumed
                        /\ \A t \in Buffered : lastPaintedRt'[s] <= Newest(t) - PRESENT_LAG
      BY DEF Behind
    <3>1. lastPaintedRt'[s] <= p /\ lastPaintedRt'[s] \in Int
      BY <1>3 DEF Shown
    <3>2. lastPaintedRt'[s] <= gts'.gts0 + gts'.consumed
      BY <2>1, <2>2, <2>3, <3>1
    <3> QED BY <2>1, <2>2, <2>3, <3>1, <3>2
  <2>6. Locked
    <3> SUFFICES ASSUME NEW s \in Streams, NEW t \in Streams,
                        lastPaintedRt'[s] # lastPaintedRt[s],
                        lastPaintedRt'[t] # lastPaintedRt[t],
                        NEW i \in DOMAIN q'[s], q'[s][i] <= lastPaintedRt'[t]
                 PROVE  ~(lastPaintedRt'[s] < q'[s][i])
      BY DEF Locked
    <3>1. q'[s] \in Seq(Frames) /\ q[s] \in Seq(Frames)
      BY <1>3 DEF Shown
    <3>2. i \in 1..Len(q'[s])
      BY <3>1, LenProperties
    <3>3. PICK j \in 1..Len(q[s]) : q'[s][i] = q[s][j]
      BY <1>3, <3>2 DEF Shown
    <3>4. q[s][j] \in Int
      BY <3>1, QueueTyped
    <3>5. lastPaintedRt'[t] <= p /\ lastPaintedRt'[t] \in Int /\ lastPaintedRt'[s] \in Int
      BY <1>3 DEF Shown
    <3>6. q[s][j] <= p
      BY <2>1, <2>3, <3>3, <3>4, <3>5
    <3>7. q[s][j] <= lastPaintedRt'[s]
      BY <1>3, <3>6 DEF Shown
    <3> QED BY <3>3, <3>4, <3>5, <3>7
  <2> QED BY <2>4, <2>5, <2>6
<1> QED BY <1>1, <1>2, <1>3, SoundStep

(* While the connection lasts a stream goes back only to a frame that was decoded
   after a later one had been painted, and since the queue was last drained: never
   to one that was passed over, whatever the stamps and the presentation point do. *)
THEOREM NoStepBack == Spec => NeverBack
<1>1. Sound /\ [Next]_vars
      => [\A s \in Streams :
             lastPaintedRt'[s] \in 1..(lastPaintedRt[s] - 1)
             => lastPaintedRt'[s] \in late[s]]_vars
  BY PaintedStep DEF BackOnlyLate
<1> QED BY <1>1, AlwaysSound, PTL DEF Spec, NeverBack

(* No stream is painted beyond the timeline, nor closer than the lag to the end of
   what any buffered stream has decoded.                                      *)
THEOREM NothingFuture == Spec => SlowestLeads
<1>1. Sound /\ [Next]_vars
      => [\A s \in Streams :
             lastPaintedRt'[s] \notin {0, lastPaintedRt[s]}
             => /\ lastPaintedRt'[s] <= gts'.gts0 + gts'.consumed
                /\ \A t \in Buffered : lastPaintedRt'[s] <= Newest(t) - PRESENT_LAG]_vars
  BY PaintedStep DEF Behind
<1> QED BY <1>1, AlwaysSound, PTL DEF Spec, SlowestLeads

(* Of the streams painted in one step, none has a frame left between its own picture
   and that of another: they are in lock-step, for any number of streams.     *)
THEOREM LockStep == Spec => FrameLock
<1>1. Sound /\ [Next]_vars
      => [\A s, t \in Streams :
             /\ lastPaintedRt'[s] \notin {0, lastPaintedRt[s]}
             /\ lastPaintedRt'[t] \notin {0, lastPaintedRt[t]}
             => \A i \in DOMAIN q'[s] :
                   ~(lastPaintedRt'[s] < q'[s][i] /\ q'[s][i] <= lastPaintedRt'[t])]_vars
  BY PaintedStep DEF Locked
<1> QED BY <1>1, AlwaysSound, PTL DEF Spec, FrameLock
=============================================================================
