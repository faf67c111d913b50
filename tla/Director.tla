------------------------------ MODULE Director ------------------------------
(* The page src/tools/director.html: the messages of a gateway connection feed
   one WebCodecs decoder per stream, decoded frames wait in a queue per stream,
   and on every animation frame present() draws of each stream the newest frame
   that a common presentation point has reached.

   A frame is its realtime stamp (a positive number; 0 stands for null).  The
   unit of time is half a frame interval, so that the pacing at normal and at
   double speed is 2 and 1.  The browser is external: it runs one callback at a
   time; a decoder accepts a delta chunk only after a keyframe, outputs frames in
   an order of its own and may fail at any moment.  The gateway may deliver a cfg
   early, late, again or never.  Stamps are arbitrary: a clock that synchronises
   steps its stream back or forth.                                          *)
EXTENDS Integers, Sequences, FiniteSetsExt, SequencesExt

CONSTANTS
    Streams,
    LEAD, PRESENT_LAG, CACHE, ACCEL,
    Elapsed,       \* time that may pass between two animation frames
    QueueCap,      \* frames a queue holds (36000 in the code)
    MaxRt,         \* bound: stamps
    MaxConsumed,   \* bound: length of a timeline
    MaxPending     \* bound: frames in a decoder

ASSUME DirectorAssumption ==
    /\ {LEAD, PRESENT_LAG, CACHE, MaxConsumed} \subseteq Nat
    /\ {ACCEL, QueueCap, MaxRt, MaxPending} \subseteq Nat \ {0}
    /\ Elapsed \subseteq Nat

VARIABLES
    ws,                        \* the connection is open
    cfg, decoder, needKey,
    pending,                   \* frames in the decoder
    keyLost,                   \* history: a keyframe came while there was no cfg
    q, firstRt, lastPaintedRt,
    paintAt,                   \* pa.rt, the frame on the canvas
    since,                     \* time since it was painted
    late,                      \* history: frames decoded after a later one was painted,
                               \* since the queue was last drained
    gts                        \* the timeline

streams == <<cfg, decoder, needKey, pending, keyLost>>
frames  == <<q, firstRt, lastPaintedRt, paintAt, since, late>>
vars    == <<ws, streams, frames, gts>>

NoTimeline == [started |-> FALSE, gts0 |-> 0, consumed |-> 0, fast |-> FALSE, fastLeft |-> 0]

FullHold == 2    \* 0.9 of a frame interval, in half intervals
Hold(fast) == IF fast THEN 1 ELSE FullHold

Init == /\ ws = FALSE
        /\ cfg = [s \in Streams |-> FALSE]
        /\ decoder = [s \in Streams |-> "none"]
        /\ needKey = [s \in Streams |-> TRUE]
        /\ pending = [s \in Streams |-> <<>>]
        /\ keyLost = [s \in Streams |-> FALSE]
        /\ q = [s \in Streams |-> <<>>]
        /\ firstRt = [s \in Streams |-> 0]
        /\ lastPaintedRt = [s \in Streams |-> 0]
        /\ paintAt = [s \in Streams |-> 0]
        /\ since = [s \in Streams |-> FullHold]
        /\ late = [s \in Streams |-> {}]
        /\ gts = NoTimeline

-----------------------------------------------------------------------------
(* The connection *)

(* The page waits for longer than a frame is held before it connects again. *)
Open == /\ ~ws /\ ws' = TRUE
        /\ since' = [s \in Streams |-> FullHold]
        /\ UNCHANGED <<streams, q, firstRt, lastPaintedRt, paintAt, late, gts>>

(* Mutant: the timeline runs on. *)
CloseKeepingTimeline ==
         /\ ws /\ ws' = FALSE
         /\ decoder' = [s \in Streams |-> "none"]
         /\ needKey' = [s \in Streams |-> TRUE]
         /\ pending' = [s \in Streams |-> <<>>]
         /\ keyLost' = [s \in Streams |-> FALSE]
         /\ q' = [s \in Streams |-> <<>>]
         /\ firstRt' = [s \in Streams |-> 0]
         /\ lastPaintedRt' = [s \in Streams |-> 0]
         /\ late' = [s \in Streams |-> {}]
         /\ UNCHANGED <<cfg, paintAt, since, gts>>

(* onclose: decoders are closed with what they hold, queues and timeline start
   afresh; the cfgs, what is on the canvas and since when are kept.         *)
Close == /\ ws /\ ws' = FALSE
         /\ decoder' = [s \in Streams |-> "none"]
         /\ needKey' = [s \in Streams |-> TRUE]
         /\ pending' = [s \in Streams |-> <<>>]
         /\ keyLost' = [s \in Streams |-> FALSE]
         /\ q' = [s \in Streams |-> <<>>]
         /\ firstRt' = [s \in Streams |-> 0]
         /\ lastPaintedRt' = [s \in Streams |-> 0]
         /\ late' = [s \in Streams |-> {}]
         /\ gts' = NoTimeline
         /\ UNCHANGED <<cfg, paintAt, since>>

Cfg(s) == /\ ws /\ cfg' = [cfg EXCEPT ![s] = TRUE]
          /\ UNCHANGED <<ws, decoder, needKey, pending, keyLost, frames, gts>>

(* An access unit that has a stamp. *)
Arrives == ws /\ UNCHANGED <<ws, cfg, frames, gts>>

(* Waiting for a keyframe. *)
DropDelta(s) ==
    /\ Arrives /\ needKey[s]
    /\ UNCHANGED <<decoder, needKey, pending, keyLost>>

Passes(s, key) == needKey[s] => key

(* No decoder and no cfg to make one: the access unit is dropped, but if it was a
   keyframe the page has stopped waiting for one.                           *)
DropForWantOfCfg(s, key) ==
    /\ Arrives /\ Passes(s, key)
    /\ decoder[s] = "none" /\ ~cfg[s]
    /\ needKey' = [needKey EXCEPT ![s] = FALSE]
    /\ keyLost' = [keyLost EXCEPT ![s] = TRUE]
    /\ UNCHANGED <<decoder, pending>>

(* configure throws: back to waiting. *)
ConfigureFails(s, key) ==
    /\ Arrives /\ Passes(s, key)
    /\ decoder[s] = "none" /\ cfg[s]
    /\ needKey' = [needKey EXCEPT ![s] = TRUE]
    /\ keyLost' = [keyLost EXCEPT ![s] = FALSE]
    /\ UNCHANGED <<decoder, pending>>

(* decode, in a decoder made now if there is none: one that has had no keyframe
   throws on a delta chunk, which is caught.  The stamp may be any, whatever the
   stamps before it.                                                        *)
Decode(s, key, rt) ==
    /\ Arrives /\ Passes(s, key)
    /\ decoder[s] # "none" \/ cfg[s]
    /\ needKey' = [needKey EXCEPT ![s] = FALSE]
    /\ IF key \/ decoder[s] = "running"
       THEN /\ Len(pending[s]) < MaxPending
            /\ decoder' = [decoder EXCEPT ![s] = "running"]
            /\ pending' = [pending EXCEPT ![s] = Append(@, rt)]
            /\ keyLost' = [keyLost EXCEPT ![s] = FALSE]
       ELSE /\ decoder' = [decoder EXCEPT ![s] = "empty"]
            /\ UNCHANGED <<pending, keyLost>>

-----------------------------------------------------------------------------
(* The decoder's callbacks *)

(* Mutant: the decoder is given up, but the page does not wait for a keyframe. *)
ErrorKeepingGoing(s) ==
    /\ decoder[s] # "none"
    /\ decoder' = [decoder EXCEPT ![s] = "none"]
    /\ pending' = [pending EXCEPT ![s] = <<>>]
    /\ keyLost' = [keyLost EXCEPT ![s] = FALSE]
    /\ UNCHANGED <<ws, cfg, needKey, frames, gts>>

(* The error callback: the decoder is closed, with what it holds. *)
DecoderError(s) ==
    /\ decoder[s] # "none"
    /\ decoder' = [decoder EXCEPT ![s] = "none"]
    /\ needKey' = [needKey EXCEPT ![s] = TRUE]
    /\ pending' = [pending EXCEPT ![s] = <<>>]
    /\ keyLost' = [keyLost EXCEPT ![s] = FALSE]
    /\ UNCHANGED <<ws, cfg, frames, gts>>

(* In front of the first later frame, if there is one. *)
Insert(queue, rt) ==
    LET later == {i \in DOMAIN queue : queue[i] > rt}
    IN  IF later = {} THEN Append(queue, rt) ELSE InsertAt(queue, Min(later), rt)

(* Mutant: off by one. *)
CappedLate(queue) == IF Len(queue) > QueueCap + 1 THEN Tail(queue) ELSE queue

Capped(queue) == IF Len(queue) > QueueCap THEN Tail(queue) ELSE queue

(* maybeStartGts: the first frame of any stream starts the timeline. *)
Started(first) ==
    IF gts.started THEN gts
    ELSE [NoTimeline EXCEPT !.started = TRUE,
                            !.gts0 = Max({first[s] : s \in Streams}) + LEAD]

OnDecoded(s) ==
    /\ pending[s] # <<>>
    /\ LET rt == Head(pending[s])
           first == [firstRt EXCEPT ![s] = IF @ = 0 \/ rt < @ THEN rt ELSE @]
       IN  /\ q' = [q EXCEPT ![s] = Capped(Insert(@, rt))]
           /\ firstRt' = first
           /\ late' = [late EXCEPT ![s] = IF rt < lastPaintedRt[s] THEN @ \cup {rt} ELSE @]
           /\ gts' = Started(first)
    /\ pending' = [pending EXCEPT ![s] = Tail(@)]
    /\ UNCHANGED <<ws, cfg, decoder, needKey, keyLost, lastPaintedRt, paintAt, since>>

-----------------------------------------------------------------------------
(* present() *)

Newest(s) == IF q[s] = <<>> THEN 0 ELSE Last(q[s])
Buffered == {s \in Streams : q[s] # <<>>}

GtsAt(consumed) == gts.gts0 + consumed

(* The point the timeline has reached, *)
P0(consumed) == GtsAt(consumed) - LEAD - PRESENT_LAG
Cushion(s, consumed) == Newest(s) - P0(consumed)

(* Mutant: the point is that of the timeline alone. *)
PointOfTimeline(consumed) == P0(consumed)

(* and the presentation point: not beyond the newest frame of the slowest. *)
Point(consumed) == Min({P0(consumed)} \cup {Newest(s) - PRESENT_LAG : s \in Buffered})

(* The timeline dt later.  It runs at double speed while every stream has enough
   in its queue, for ACCEL at most.                                         *)
Advance(dt) ==
    LET consumed == gts.consumed + dt * (IF gts.fast THEN 2 ELSE 1)
        starts == ~gts.fast /\ \A s \in Streams : Cushion(s, consumed) >= CACHE
        left == (IF starts THEN ACCEL ELSE gts.fastLeft) - dt
        fast == /\ gts.fast \/ starts
                /\ left > 0 /\ \A s \in Streams : Cushion(s, consumed) >= 0
    IN  [gts EXCEPT !.consumed = consumed, !.fast = fast,
                    !.fastLeft = IF fast THEN left ELSE 0]

(* The frames of a queue that are due. *)
Due(s, p) == {i \in DOMAIN q[s] : q[s][i] <= p}

(* Mutant: the search begins at the old end of the queue. *)
PickOldest(s, p) == IF Due(s, p) = {} THEN 0 ELSE q[s][Min(Due(s, p))]

(* The newest frame that is due; 0 if there is none. *)
Pick(s, p) == IF Due(s, p) = {} THEN 0 ELSE q[s][Max(Due(s, p))]

(* Mutant: the queue is never drained. *)
DrainedNever(s, pick, painted) == q[s]

(* Frames before the one picked are closed, whether they were painted or not. *)
Drained(s, pick, painted) ==
    LET kept == {i \in DOMAIN q[s] : q[s][i] >= Max({painted, pick})}
    IN  IF pick = 0 THEN q[s]
        ELSE IF kept = {} THEN <<>> ELSE SubSeq(q[s], Min(kept), Len(q[s]))

Present(dt) ==
    /\ gts.started
    /\ gts.consumed + 2 * dt <= MaxConsumed
    /\ gts' = Advance(dt)
    /\ LET pick == [s \in Streams |-> Pick(s, Point(gts'.consumed))]
           waited == [s \in Streams |-> Min({FullHold, since[s] + dt})]
           paints == {s \in Streams : /\ pick[s] # 0
                                      /\ pick[s] # paintAt[s]
                                      /\ waited[s] >= Hold(gts'.fast)}
       IN  /\ lastPaintedRt' = [s \in Streams |->
                                  IF s \in paints THEN pick[s] ELSE lastPaintedRt[s]]
           /\ paintAt' = [s \in Streams |-> IF s \in paints THEN pick[s] ELSE paintAt[s]]
           /\ late' = [s \in Streams |-> IF pick[s] # 0 THEN {} ELSE late[s]]
           /\ since' = [s \in Streams |-> IF s \in paints THEN 0 ELSE waited[s]]
           /\ q' = [s \in Streams |-> Drained(s, pick[s], lastPaintedRt'[s])]
    /\ UNCHANGED <<ws, streams, firstRt>>

AccessUnit(s) ==
    \/ DropDelta(s)
    \/ \E key \in BOOLEAN : \/ DropForWantOfCfg(s, key)
                            \/ ConfigureFails(s, key)
                            \/ \E rt \in 1..MaxRt : Decode(s, key, rt)

Next == \/ Open \/ Close
        \/ \E s \in Streams : Cfg(s) \/ AccessUnit(s) \/ DecoderError(s) \/ OnDecoded(s)
        \/ \E dt \in Elapsed : Present(dt)

Spec == Init /\ [][Next]_vars

-----------------------------------------------------------------------------
(* The variables have their types; a queue is sorted and within its cap, in
   whatever order its frames came; a page that waits for a keyframe has no
   decoder.                                                                 *)
TypeOK ==
    /\ ws \in BOOLEAN
    /\ cfg \in [Streams -> BOOLEAN]
    /\ decoder \in [Streams -> {"none", "empty", "running"}]
    /\ needKey \in [Streams -> BOOLEAN] /\ keyLost \in [Streams -> BOOLEAN]
    /\ \A s \in Streams :
          /\ needKey[s] => decoder[s] = "none"
          /\ decoder[s] # "running" => pending[s] = <<>>
          /\ Len(q[s]) <= QueueCap
          /\ \A i \in DOMAIN q[s] : q[s][i] \in 1..MaxRt
          /\ \A i \in 2..Len(q[s]) : q[s][i - 1] <= q[s][i]
    /\ firstRt \in [Streams -> 0..MaxRt] /\ lastPaintedRt \in [Streams -> 0..MaxRt]
    /\ paintAt \in [Streams -> 0..MaxRt] /\ since \in [Streams -> 0..FullHold]
    /\ gts \in [started : BOOLEAN, gts0 : Nat, consumed : 0..MaxConsumed,
                fast : BOOLEAN, fastLeft : 0..ACCEL]

(* A decoder is fed although it had no keyframe in one case only, when the
   keyframe was dropped for want of a cfg, whatever errors, failed configurations
   and reconnections came before (onmessage, the error callback, onclose).  The
   comment in onmessage makes no exception: "WebCodecs must start from a keyframe:
   drop delta frames until one arrives".                                     *)
KeyframeFirst == \A s \in Streams : decoder[s] = "empty" => keyLost[s]

(* While the connection lasts the picture of a stream goes back in time only to a
   frame that was decoded after a later one had been painted, because its clock
   stepped back: never to a frame that was passed over or left behind in the
   queue, also when the presentation point goes back, which it does when a stream
   joins whose frames are older than those the others are at (present).      *)
NeverBack ==
    [][\A s \in Streams :
          lastPaintedRt'[s] \in 1..(lastPaintedRt[s] - 1)
          => lastPaintedRt'[s] \in late[s]]_vars

(* No stream is painted beyond the timeline, nor closer than the lag to the end of
   what any buffered stream has decoded, in double speed either (the comments on
   the presentation point, and "no future frame" in the header).             *)
SlowestLeads ==
    [][\A s \in Streams :
          lastPaintedRt'[s] \notin {0, lastPaintedRt[s]}
          => /\ lastPaintedRt'[s] <= gts'.gts0 + gts'.consumed
             /\ \A t \in Buffered : lastPaintedRt'[s] <= Newest(t) - PRESENT_LAG]_vars

(* Streams painted in the same step are in lock-step: none of them has a frame
   left that is later than its own picture and not later than the other's.   *)
FrameLock ==
    [][\A s, t \in Streams :
          /\ lastPaintedRt'[s] \notin {0, lastPaintedRt[s]}
          /\ lastPaintedRt'[t] \notin {0, lastPaintedRt[t]}
          => \A i \in DOMAIN q'[s] :
                ~(lastPaintedRt'[s] < q'[s][i] /\ q'[s][i] <= lastPaintedRt'[t])]_vars

(* Double speed is on only while no stream has run out of frames before the point
   the timeline has reached, whatever is decoded, dropped or lost meanwhile.  *)
FastIsCovered ==
    gts.fast => \A s \in Streams : Cushion(s, gts.consumed) >= 0
=============================================================================
