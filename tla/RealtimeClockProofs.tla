------------------------- MODULE RealtimeClockProofs -------------------------
(* Safety of the realtime clock for every set of callers and every value of the
   other constants.  The invariants the runs check are not inductive alone:
   mutual exclusion needs to know who holds the lock at each program point, and
   "freed" needs to know that a started worker left its loop before.         *)
EXTENDS RealtimeClock, TLAPS

(* The holder of the mutex is the thread that is between lock and unlock. *)
LockInv ==
    /\ (wpc \in Syncing) <=> (lock = Worker)
    /\ \A c \in Callers : (at[c] = "inside") <=> (lock = c)

(* Where the worker and the callers may be in each stage of the object's life. *)
LifeInv ==
    /\ (wpc = "off") <=> ~thread_started
    /\ clk = "live" => ~stop
    /\ wpc = "exited" => stop
    /\ clk \in {"absent", "freed"} => wpc \in {"off", "exited"}
    /\ clk # "live" => \A c \in Callers : at[c] = "idle"

(* What the exchange holds at each of its program points. *)
HoldInv ==
    /\ ai => wpc \in Exchanging
    /\ sock => wpc \in {"send", "recv", "close"}

(* The kept sample against the samples of the round so far. *)
RoundInv ==
    /\ got \subseteq Measures /\ round \subseteq Measures
    /\ any <=> round # {}
    /\ any => best \in round /\ \A m \in round : best.rtt <= m.rtt
    /\ got # {} => \E m \in Sample : got = {m}
    /\ got # {} => wpc \in {"close", "score"}
    /\ wpc \in {"publish", "flag"} =>
          any /\ (tries < Samples => \E m \in round : m.rtt < GoodRtt)

(* A caller that was told "synchronised" was told the truth, and it lasts. *)
SawInv == \A c \in Callers : saw[c] => ntp_synced

(* Without a server nothing is ever published. *)
ServerInv == ~server => ~thread_started /\ ~ntp_synced /\ offset_us = 0

(* The flag stands for an offset that was measured: once it is set, and while it
   is about to be, the offset in force is that of some exchange.             *)
OffsetInv == ntp_synced \/ wpc = "flag" => offset_us \in MeasuredOffsets

IInv == TypeOK /\ LockInv /\ LifeInv /\ HoldInv /\ RoundInv /\ SawInv /\ ServerInv
        /\ OffsetInv

-----------------------------------------------------------------------------
(* A measured sample is a record of integers. *)
LEMMA MeasuresType == Measures \subseteq Sample
<1> USE ClockAssumption DEF Sample
<1>1. ASSUME NEW d1 \in Delays, NEW s \in Services, NEW e \in SendTimes
      PROVE  Measure(d1, s, e) \in Sample
  BY DEF Measure
<1> QED BY <1>1 DEF Measures

(* The lemmas of the inductive step, one for each group of actions. *)
LEMMA InitIInv == Init => IInv
<1> SUFFICES ASSUME Init PROVE IInv
  OBVIOUS
<1>1. TypeOK
  <2>1. LifeTypes /\ FlagTypes
    BY DEF Init, LifeTypes, FlagTypes
  <2>2. CounterTypes
    BY ClockAssumption DEF Init, CounterTypes
  <2>3. WorkerTypes
    BY DEF Init, WorkerTypes, WorkerPoints, NoSample, Sample
  <2>4. CallerTypes
    BY DEF Init, CallerTypes, Getters
  <2> QED BY <2>1, <2>2, <2>3, <2>4 DEF TypeOK
<1>2. LockInv /\ LifeInv /\ HoldInv
  BY ClockAssumption DEF Init, LockInv, LifeInv, HoldInv, Syncing, Exchanging
<1>3. RoundInv /\ SawInv /\ ServerInv /\ OffsetInv
  BY DEF Init, RoundInv, SawInv, ServerInv, OffsetInv
<1> QED BY <1>1, <1>2, <1>3 DEF IInv

LEMMA OwnerStep ==
    ASSUME IInv,
           \/ \E named, threadOk \in BOOLEAN : Create(named, threadOk)
           \/ Destroy
           \/ JoinAndFree
    PROVE  IInv'
<1> USE ClockAssumption DEF IInv, Syncing, Exchanging
<1>1. ASSUME NEW named \in BOOLEAN, NEW threadOk \in BOOLEAN, Create(named, threadOk)
      PROVE  IInv'
  <2>1. TypeOK'
    <3>1. (LifeTypes /\ FlagTypes)'
      BY <1>1 DEF Create, ResetRound, LifeTypes, FlagTypes
    <3>2. CounterTypes'
      BY <1>1 DEF Create, ResetRound, CounterTypes
    <3>3. WorkerTypes'
      BY <1>1 DEF Create, ResetRound, WorkerTypes, WorkerPoints, NoSample, Sample
    <3>4. CallerTypes'
      BY <1>1 DEF Create, CallerTypes, Getters
    <3> QED BY <3>1, <3>2, <3>3, <3>4 DEF TypeOK
  <2>2. LockInv' /\ LifeInv' /\ HoldInv'
    BY <1>1 DEF Create, ResetRound, LockInv, LifeInv, HoldInv
  <2>3. RoundInv' /\ SawInv' /\ ServerInv' /\ OffsetInv'
    BY <1>1 DEF Create, ResetRound, RoundInv, SawInv, ServerInv, OffsetInv
  <2> QED BY <2>1, <2>2, <2>3
<1>2. ASSUME Destroy PROVE IInv'
  <2>1. TypeOK'
    BY <1>2 DEF Destroy, TypeOK, LifeTypes, FlagTypes, CounterTypes,
        WorkerTypes, CallerTypes, shared, work, sync, people
  <2>2. LockInv' /\ HoldInv' /\ RoundInv' /\ SawInv' /\ ServerInv' /\ OffsetInv'
    BY <1>2 DEF Destroy, shared, work, sync, people, LockInv, HoldInv,
       RoundInv, SawInv, ServerInv, OffsetInv
  <2>3. LifeInv'
    BY <1>2 DEF Destroy, work, people, LifeInv, LockInv
  <2> QED BY <2>1, <2>2, <2>3
<1>3. ASSUME JoinAndFree PROVE IInv'
  <2>1. TypeOK'
    BY <1>3 DEF JoinAndFree, TypeOK, LifeTypes, FlagTypes, CounterTypes,
        WorkerTypes, CallerTypes, shared, work, sync, people
  <2>2. LockInv' /\ HoldInv' /\ RoundInv' /\ SawInv' /\ ServerInv' /\ OffsetInv'
    BY <1>3 DEF JoinAndFree, shared, work, sync, people, LockInv, HoldInv,
       RoundInv, SawInv, ServerInv, OffsetInv
  <2>3. LifeInv'
    BY <1>3 DEF JoinAndFree, work, people, LifeInv
  <2> QED BY <2>1, <2>2, <2>3
<1> QED BY <1>1, <1>2, <1>3

(* The scheduling steps of the worker: they touch neither the exchange nor what
   is published.                                                            *)
LEMMA ScheduleStep ==
    ASSUME IInv, CheckStop \/ Wake \/ WorkerLock \/ WorkerUnlock
    PROVE  IInv'
<1> USE ClockAssumption DEF IInv
<1>1. CASE CheckStop
  <2>1. TypeOK'
    BY <1>1 DEF CheckStop, TypeOK, LifeTypes, FlagTypes, CounterTypes,
        WorkerTypes, CallerTypes, WorkerPoints, life, shared, sync, people
  <2>2. LockInv' /\ LifeInv' /\ HoldInv'
    BY <1>1 DEF CheckStop, LockInv, LifeInv, HoldInv, Syncing, Exchanging,
                life, shared, sync, people
  <2>3. RoundInv' /\ SawInv' /\ ServerInv' /\ OffsetInv'
    BY <1>1 DEF CheckStop, RoundInv, SawInv, ServerInv, OffsetInv, life, shared, sync, people
  <2> QED BY <2>1, <2>2, <2>3
<1>2. CASE Wake
  <2>1. TypeOK'
    BY <1>2 DEF Wake, TypeOK, LifeTypes, FlagTypes, CounterTypes,
        WorkerTypes, CallerTypes, WorkerPoints, life, shared, sync, people
  <2>2. LockInv' /\ LifeInv' /\ HoldInv'
    BY <1>2 DEF Wake, LockInv, LifeInv, HoldInv, Syncing, Exchanging,
                life, shared, sync, people
  <2>3. RoundInv' /\ SawInv' /\ ServerInv' /\ OffsetInv'
    BY <1>2 DEF Wake, RoundInv, SawInv, ServerInv, OffsetInv, life, shared, sync, people
  <2> QED BY <2>1, <2>2, <2>3
<1>3. CASE WorkerLock
  <2>1. TypeOK'
    BY <1>3 DEF WorkerLock, TypeOK, LifeTypes, FlagTypes, CounterTypes,
        WorkerTypes, CallerTypes, WorkerPoints, Syncing, life, shared, sync, people
  <2>2. LockInv' /\ LifeInv' /\ HoldInv'
    BY <1>3 DEF WorkerLock, LockInv, LifeInv, HoldInv, Syncing, Exchanging,
                life, shared, sync, people
  <2>3. RoundInv' /\ SawInv' /\ ServerInv' /\ OffsetInv'
    BY <1>3 DEF WorkerLock, RoundInv, SawInv, ServerInv, OffsetInv, life, shared, sync, people
  <2> QED BY <2>1, <2>2, <2>3
<1>4. CASE WorkerUnlock
  <2>1. TypeOK'
    <3>1. (LifeTypes /\ FlagTypes)'
      BY <1>4 DEF WorkerUnlock, ResetRound, TypeOK, LifeTypes, FlagTypes, life, shared
    <3>2. (CounterTypes /\ CallerTypes)'
      BY <1>4 DEF WorkerUnlock, ResetRound, TypeOK, CounterTypes, CallerTypes, shared, people
    <3>3. WorkerTypes'
      BY <1>4 DEF WorkerUnlock, ResetRound, WorkerTypes, WorkerPoints, NoSample, Sample
    <3> QED BY <3>1, <3>2, <3>3 DEF TypeOK
  <2>2. LockInv' /\ LifeInv' /\ HoldInv'
    BY <1>4 DEF WorkerUnlock, ResetRound, LockInv, LifeInv, HoldInv, TypeOK, LifeTypes, FlagTypes, CounterTypes,
        WorkerTypes, CallerTypes, Syncing,
                Exchanging, life, shared, people
  <2>3. RoundInv' /\ SawInv' /\ ServerInv' /\ OffsetInv'
    BY <1>4 DEF WorkerUnlock, ResetRound, RoundInv, SawInv, ServerInv, OffsetInv, life, shared, people
  <2> QED BY <2>1, <2>2, <2>3
<1> QED BY <1>1, <1>2, <1>3, <1>4

(* The steps of one exchange: they keep the mutex and publish nothing. *)
LEMMA ExchangeStep ==
    ASSUME IInv, Exchange
    PROVE  IInv'
<1> USE ClockAssumption DEF IInv
<1>1. TypeOK'
  <2>1. (LifeTypes /\ CounterTypes /\ CallerTypes)'
    BY DEF Exchange, Resolve, OpenSocket, SendRequest, Receive, Timeout, Close, TypeOK,
       LifeTypes, CounterTypes, CallerTypes, life, shared, sync, people
  <2>2. FlagTypes'
    BY DEF Exchange, Resolve, OpenSocket, SendRequest, Receive, Timeout, Close, TypeOK,
       FlagTypes, life, shared, sync
  <2>3. WorkerTypes'
    BY MeasuresType DEF Exchange, Resolve, OpenSocket, SendRequest, Receive, Timeout,
       Close, TypeOK, WorkerTypes, WorkerPoints, Syncing, Exchanging, sync
  <2> QED BY <2>1, <2>2, <2>3 DEF TypeOK
<1>2. LockInv' /\ LifeInv' /\ HoldInv'
  BY DEF Exchange, Resolve, OpenSocket, SendRequest, Receive, Timeout, Close,
     LockInv, LifeInv, HoldInv, Syncing, Exchanging, life, shared, sync, people
<1>3. SawInv' /\ ServerInv' /\ OffsetInv'
  BY DEF Exchange, Resolve, OpenSocket, SendRequest, Receive, Timeout, Close,
     SawInv, ServerInv, OffsetInv, life, shared, people
<1>4. RoundInv'
  <2>1. CASE Receive
    BY <2>1, MeasuresType DEF Receive, RoundInv
  <2>2. CASE Resolve \/ OpenSocket \/ SendRequest \/ Timeout \/ Close
    BY <1>1, <2>2 DEF Resolve, OpenSocket, SendRequest, Timeout, Close, RoundInv, sync
  <2> QED BY <2>1, <2>2 DEF Exchange
<1> QED BY <1>1, <1>2, <1>3, <1>4

(* Keeping the better sample maintains the minimum of the round. *)
LEMMA ScoreStep ==
    ASSUME IInv, Score
    PROVE  IInv'
<1> USE ClockAssumption DEF IInv
<1> DEFINE new == CHOOSE m \in got : TRUE
<1>1. got # {} => new \in Sample /\ got = {new}
  BY DEF RoundInv
<1>2. TypeOK'
  BY <1>1 DEF Score, KeepSample, TypeOK, LifeTypes, FlagTypes, CounterTypes,
        WorkerTypes, CallerTypes, WorkerPoints, Syncing, Exchanging, Sample,
              life, shared, people
<1>3. LockInv' /\ LifeInv' /\ HoldInv'
  BY DEF Score, LockInv, LifeInv, HoldInv, Syncing, Exchanging, life, shared, people
<1>4. SawInv' /\ ServerInv' /\ OffsetInv'
  BY DEF Score, SawInv, ServerInv, OffsetInv, life, shared, people
<1>5. RoundInv'
  <2>1. CASE got = {}
    BY <2>1 DEF Score, RoundInv, TypeOK, LifeTypes, FlagTypes, CounterTypes,
        WorkerTypes, CallerTypes
  <2>2. CASE got # {}
    <3>1. new \in Sample /\ got = {new}
      BY <1>1, <2>2
    <3>2. any' /\ round' = round \cup {new} /\ best' = KeepSample(new)
          /\ got' = {} /\ tries' = tries + 1
      BY <3>1, <2>2 DEF Score, TypeOK, LifeTypes, FlagTypes, CounterTypes,
        WorkerTypes, CallerTypes
    <3>3. best' \in round' /\ \A m \in round' : best'.rtt <= m.rtt
      BY <3>1, <3>2 DEF KeepSample, RoundInv, TypeOK, LifeTypes, FlagTypes, CounterTypes,
        WorkerTypes, CallerTypes, Sample
    <3>4. wpc' \in {"publish", "flag"} => (tries' < Samples => new.rtt < GoodRtt)
      <4>1. wpc' \in {"publish", "flag"} =>
               ~(tries + 1 < Samples /\ \A m \in got : m.rtt >= GoodRtt)
        BY DEF Score
      <4>2. (\A m \in got : m.rtt >= GoodRtt) <=> new.rtt >= GoodRtt
        BY <3>1
      <4>3. new.rtt \in Int /\ GoodRtt \in Int
        BY <3>1 DEF Sample
      <4> QED BY <3>2, <4>1, <4>2, <4>3
    <3>5. new \in round' /\ round' # {}
      BY <3>2
    <3>6. round' \subseteq Measures
      BY <3>1, <3>2 DEF RoundInv
    <3> QED BY <3>2, <3>3, <3>4, <3>5, <3>6 DEF RoundInv
  <2> QED BY <2>1, <2>2
<1> QED BY <1>2, <1>3, <1>4, <1>5

(* The three ways a round ends change the published fields under the mutex, and
   none of them withdraws the flag.                                         *)
LEMMA PublishStep ==
    ASSUME IInv, PublishOffset \/ PublishFlag \/ CountFailure
    PROVE  IInv'
<1> USE ClockAssumption DEF IInv
<1>1. TypeOK'
  <2>1. (LifeTypes /\ FlagTypes /\ CallerTypes)'
    BY DEF PublishOffset, PublishFlag, CountFailure, TypeOK, LifeTypes, FlagTypes,
       CallerTypes, life, sync, people
  <2>2. WorkerTypes'
    BY DEF PublishOffset, PublishFlag, CountFailure, TypeOK, WorkerTypes, WorkerPoints,
       Syncing, sync
  <2>3. CounterTypes'
    BY DEF PublishOffset, PublishFlag, CountFailure, TypeOK, CounterTypes, WorkerTypes,
       Sample, sync
  <2> QED BY <2>1, <2>2, <2>3 DEF TypeOK
<1>2. LockInv' /\ LifeInv' /\ HoldInv'
  BY DEF PublishOffset, PublishFlag, CountFailure, LockInv, LifeInv, HoldInv,
         Syncing, Exchanging, life, sync, people
<1>3. RoundInv' /\ SawInv'
  BY DEF PublishOffset, PublishFlag, CountFailure, RoundInv, SawInv, life, sync, people
<1>4. ServerInv'
  BY DEF PublishOffset, PublishFlag, CountFailure, ServerInv, LifeInv, life
<1>5. OffsetInv'
  <2>1. CASE PublishOffset
    <3>1. best \in Measures
      BY <2>1 DEF PublishOffset, RoundInv
    <3> QED BY <2>1, <3>1 DEF PublishOffset, OffsetInv, MeasuredOffsets
  <2>2. CASE PublishFlag \/ CountFailure
    BY <2>2 DEF PublishFlag, CountFailure, OffsetInv
  <2> QED BY <2>1, <2>2
<1> QED BY <1>1, <1>2, <1>3, <1>4, <1>5

(* A getter enters when the mutex is free and leaves it free; what it learns is
   what is published.                                                       *)
LEMMA CallerStepIInv ==
    ASSUME IInv, NEW c \in Callers, CallerStep(c)
    PROVE  IInv'
<1> USE ClockAssumption DEF IInv
<1>1. ASSUME NEW g \in Getters, Call(c, g) PROVE IInv'
  <2>1. TypeOK'
    <3>1. (LifeTypes /\ FlagTypes /\ CounterTypes /\ WorkerTypes)'
      BY <1>1 DEF Call, TypeOK, LifeTypes, FlagTypes, CounterTypes, WorkerTypes,
         life, shared, work, sync
    <3>2. (at \in [Callers -> {"idle", "wait", "inside"}] /\ call \in [Callers -> Getters])'
      BY <1>1 DEF Call, TypeOK, CallerTypes
    <3>3. (stamp \in [Callers -> Int])'
      <4>1. stamp' = stamp \/ stamp' = [stamp EXCEPT ![c] = 0]
        BY <1>1 DEF Call
      <4> QED BY <4>1 DEF TypeOK, CallerTypes
    <3>4. (saw \in [Callers -> BOOLEAN])'
      <4>1. saw' = saw \/ saw' = [saw EXCEPT ![c] = FALSE]
        BY <1>1 DEF Call
      <4> QED BY <4>1 DEF TypeOK, CallerTypes
    <3> QED BY <3>1, <3>2, <3>3, <3>4 DEF TypeOK, CallerTypes
  <2>2. LockInv' /\ LifeInv' /\ HoldInv' /\ RoundInv' /\ SawInv' /\ ServerInv' /\ OffsetInv'
    BY <1>1 DEF Call, TypeOK, LifeTypes, FlagTypes, CounterTypes,
        WorkerTypes, CallerTypes, LockInv, LifeInv, HoldInv, RoundInv, SawInv, ServerInv, OffsetInv,
                life, shared, work, sync
  <2> QED BY <2>1, <2>2
<1>2. CASE Acquire(c)
  <2>1. TypeOK'
    BY <1>2 DEF Acquire, TypeOK, LifeTypes, FlagTypes, CounterTypes,
        WorkerTypes, CallerTypes, life, shared, work, sync
  <2>2. LockInv' /\ LifeInv' /\ HoldInv' /\ RoundInv' /\ SawInv' /\ ServerInv' /\ OffsetInv'
    BY <1>2 DEF Acquire, TypeOK, LifeTypes, FlagTypes, CounterTypes,
        WorkerTypes, CallerTypes, LockInv, LifeInv, HoldInv, RoundInv, SawInv, ServerInv, OffsetInv,
                life, shared, work, sync
  <2> QED BY <2>1, <2>2
<1>3. CASE ReadAndRelease(c)
  <2>1. TypeOK'
    BY <1>3 DEF ReadAndRelease, TypeOK, LifeTypes, FlagTypes, CounterTypes,
        WorkerTypes, CallerTypes, life, shared, work, sync
  <2>2. LockInv' /\ LifeInv' /\ HoldInv' /\ RoundInv' /\ SawInv' /\ ServerInv' /\ OffsetInv'
    BY <1>3 DEF ReadAndRelease, TypeOK, LifeTypes, FlagTypes, CounterTypes,
        WorkerTypes, CallerTypes, LockInv, LifeInv, HoldInv, RoundInv, SawInv, ServerInv, OffsetInv,
                life, shared, work, sync
  <2> QED BY <2>1, <2>2
<1> QED BY <1>1, <1>2, <1>3 DEF CallerStep

(* Every step preserves the inductive invariant. *)
LEMMA StepIInv == IInv /\ [Next]_vars => IInv'
<1> SUFFICES ASSUME IInv, [Next]_vars PROVE IInv'
  OBVIOUS
<1>1. CASE UNCHANGED vars
  BY <1>1 DEF vars, life, shared, work, sync, people, IInv, TypeOK, LifeTypes, FlagTypes, CounterTypes,
        WorkerTypes, CallerTypes, LockInv, LifeInv,
              HoldInv, RoundInv, SawInv, ServerInv, OffsetInv
<1>2. CASE Next
  BY <1>2, OwnerStep, ScheduleStep, ExchangeStep, ScoreStep, PublishStep, CallerStepIInv
     DEF Next, WorkerStep
<1> QED BY <1>1, <1>2

-----------------------------------------------------------------------------
(* The inductive invariant holds in every reachable state. *)
THEOREM Invariance == Spec => []IInv
BY InitIInv, StepIInv, PTL DEF Spec

(* The variables keep the types of the fields and locals of the source. *)
THEOREM TypeCorrect == Spec => []TypeOK
<1>1. IInv => TypeOK
  BY DEF IInv
<1> QED BY <1>1, Invariance, PTL

(* Worker and getters are never together between a lock and its unlock. *)
THEOREM Exclusion == Spec => []MutualExclusion
<1>1. IInv => MutualExclusion
  BY ClockAssumption DEF IInv, LockInv, MutualExclusion
<1> QED BY <1>1, Invariance, PTL

(* realtime_clock_destroy frees an object that no thread can reach. *)
THEOREM SafeFree == Spec => []NoUseAfterFree
<1>1. IInv => NoUseAfterFree
  BY ClockAssumption DEF IInv, TypeOK, LifeTypes, FlagTypes, CounterTypes,
        WorkerTypes, CallerTypes, LockInv, LifeInv, NoUseAfterFree, Syncing, Exchanging
<1> QED BY <1>1, Invariance, PTL

(* No exchange leaves an address list or a socket behind. *)
THEOREM ExchangesClean == Spec => []NothingLeaks
<1>1. IInv => NothingLeaks
  BY DEF IInv, HoldInv, NothingLeaks, Exchanging
<1> QED BY <1>1, Invariance, PTL

(* The published offset is that of the round's lowest measured rtt. *)
THEOREM LowestRttPublished == Spec => []BestOfRound
<1>1. IInv => BestOfRound
  BY DEF IInv, RoundInv, BestOfRound
<1> QED BY <1>1, Invariance, PTL

(* After ntp_synced has said so once, now_us adds a measured offset for that caller. *)
THEOREM CorrectionLasts == Spec => SyncedStaysCorrected
<1> DEFINE Lasts(c) == saw[c] /\ call[c] = "now" /\ at[c] = "inside" /\ at'[c] = "idle"
                       => stamp'[c] \in MeasuredOffsets
<1>1. ASSUME IInv, [Next]_vars, NEW c \in Callers PROVE Lasts(c)
  <2>1. CASE at' = at
    BY <2>1
  <2>2. ASSUME NEW d \in Callers, Acquire(d) PROVE Lasts(c)
    BY <1>1, <2>2 DEF Acquire, IInv, TypeOK, LifeTypes, FlagTypes, CounterTypes,
        WorkerTypes, CallerTypes
  <2>3. ASSUME NEW d \in Callers, ReadAndRelease(d) PROVE Lasts(c)
    BY <1>1, <2>3 DEF ReadAndRelease, IInv, TypeOK, LifeTypes, FlagTypes, CounterTypes,
        WorkerTypes, CallerTypes, SawInv, ServerInv, OffsetInv
  <2>4. ASSUME NEW d \in Callers, NEW g \in Getters, Call(d, g) PROVE Lasts(c)
    BY <1>1, <2>4 DEF Call, IInv, TypeOK, LifeTypes, FlagTypes, CounterTypes,
        WorkerTypes, CallerTypes
  <2>5. ASSUME NEW named \in BOOLEAN, NEW threadOk \in BOOLEAN, Create(named, threadOk)
        PROVE  Lasts(c)
    BY <1>1, <2>5 DEF Create, IInv, LifeInv
  <2> QED
    BY <1>1, <2>1, <2>2, <2>3, <2>4, <2>5 DEF Next, CallerStep, WorkerStep, Exchange,
       Destroy, JoinAndFree, WorkerLock, CheckStop, Wake, Resolve, OpenSocket, SendRequest,
       Receive, Timeout, Close, Score, PublishOffset, PublishFlag, CountFailure,
       WorkerUnlock, people, vars
<1>2. IInv /\ [Next]_vars => [\A c \in Callers : Lasts(c)]_vars
  BY <1>1
<1> QED BY <1>2, Invariance, PTL DEF Spec, SyncedStaysCorrected

-----------------------------------------------------------------------------
(* The initial states of the clock are those of the service. *)
LEMMA InitService == Init => Service!Init
BY DEF Init, Service!Init

(* The offset and the flag become visible together, when the offset is stored;
   storing the flag, counting and every other step of the worker is invisible. *)
LEMMA WorkerRefines ==
    ASSUME IInv, WorkerLock \/ WorkerStep
    PROVE  [Service!Next]_(Service!vars)
<1> USE DEF Service!vars, WorkerTypes
<1>1. CASE PublishOffset
  <2>1. best.off \in MeasuredOffsets
    BY <1>1 DEF PublishOffset, IInv, RoundInv, MeasuredOffsets
  <2>2. Service!Publish
    BY <1>1, <2>1 DEF PublishOffset, Service!Publish, people
  <2> QED BY <2>2 DEF Service!Next
<1>2. CASE PublishFlag
  BY <1>2 DEF PublishFlag, IInv, TypeOK, FlagTypes, people
<1>3. CASE CountFailure \/ WorkerUnlock \/ Score
  BY <1>3 DEF CountFailure, WorkerUnlock, Score, shared, people
<1>4. CASE WorkerLock \/ CheckStop \/ Wake
  BY <1>4 DEF WorkerLock, CheckStop, Wake, shared, people
<1>5. CASE Exchange
  BY <1>5 DEF Exchange, Resolve, OpenSocket, SendRequest, Receive, Timeout, Close,
     shared, people
<1> QED BY <1>1, <1>2, <1>3, <1>4, <1>5 DEF WorkerStep

(* A getter returns what is published when it holds the mutex; with no server
   named it returns at once, and nothing is published then.                 *)
LEMMA CallerRefines ==
    ASSUME IInv, NEW c \in Callers, CallerStep(c)
    PROVE  [Service!Next]_(Service!vars)
<1>1. ASSUME NEW g \in Getters, Call(c, g) PROVE [Service!Next]_(Service!vars)
  <2>1. CASE g # "other" /\ ~server
    <3>1. ~ntp_synced /\ wpc # "flag" /\ offset_us = 0
      BY <2>1 DEF IInv, ServerInv, OffsetInv, LifeInv
    <3>2. g = "now" => Service!Now(c)
      BY <1>1, <2>1, <3>1 DEF Call, Service!Now, shared, work
    <3>3. g = "synced" => Service!Synced(c)
      BY <1>1, <2>1, <3>1 DEF Call, Service!Synced, shared, work
    <3> QED BY <2>1, <3>2, <3>3 DEF Service!Next, Getters
  <2>2. CASE ~(g # "other" /\ ~server)
    BY <1>1, <2>2 DEF Call, Service!vars, shared, work
  <2> QED BY <2>1, <2>2
<1>2. CASE Acquire(c)
  BY <1>2 DEF Acquire, Service!vars, shared, work
<1>3. CASE ReadAndRelease(c)
  <2>1. wpc # "flag"
    BY <1>3, ClockAssumption DEF ReadAndRelease, IInv, LockInv, Syncing
  <2>2. call[c] = "now" => Service!Now(c)
    BY <1>3, <2>1 DEF ReadAndRelease, Service!Now, shared, work
  <2>3. call[c] = "synced" => Service!Synced(c)
    BY <1>3, <2>1 DEF ReadAndRelease, Service!Synced, shared, work,
       IInv, TypeOK, FlagTypes
  <2>4. call[c] \notin {"now", "synced"} => UNCHANGED Service!vars
    BY <1>3 DEF ReadAndRelease, Service!vars, shared, work
  <2> QED BY <2>2, <2>3, <2>4 DEF Service!Next
<1> QED BY <1>1, <1>2, <1>3 DEF CallerStep

(* The clock implements the service its callers rely on: an offset and a flag
   that appear in one step, and queries that return one published pair.      *)
THEOREM Refinement == Spec => ImplementsService
<1>1. ASSUME IInv, [Next]_vars PROVE [Service!Next]_(Service!vars)
  <2>1. CASE UNCHANGED vars
    BY <2>1 DEF vars, Service!vars, shared, work, people
  <2>2. ASSUME NEW named \in BOOLEAN, NEW threadOk \in BOOLEAN, Create(named, threadOk)
        PROVE  Service!Restart
    BY <2>2 DEF Create, Service!Restart
  <2>3. CASE Destroy \/ JoinAndFree
    BY <2>3 DEF Destroy, JoinAndFree, Service!vars, shared, work, people
  <2> QED
    BY <1>1, <2>1, <2>2, <2>3, WorkerRefines, CallerRefines DEF Next, Service!Next
<1> QED BY <1>1, InitService, Invariance, PTL DEF Spec, ImplementsService, Service!Spec
=============================================================================
