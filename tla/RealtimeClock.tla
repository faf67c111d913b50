---------------------------- MODULE RealtimeClock ----------------------------
(* The realtime clock of src/src/realtime-clock.c: the object that the encoder
   creates, queries on every frame and destroys, and the worker thread that
   keeps its offset to an SNTP server.

   Three kinds of actor take steps: the owner (create, destroy), the callers
   of the getters and the worker.  They share one mutex, and the worker holds
   it over a whole synchronisation, network included.  The unit of time is a
   millisecond; the local clock and the server's differ by Skew.            *)
EXTENDS Integers

CONSTANTS
    Callers,       \* threads that query the clock
    Worker,        \* the worker thread
    NoOne,         \* the mutex is free
    Skew,          \* server time - local time
    Delays,        \* one-way network delays
    Services,      \* times the server takes between receiving and replying
    SendTimes,     \* time that passes between the two reads of the local clock
    GoodRtt,       \* rtt below which no further sample is taken
    Samples,       \* exchanges one synchronisation may try
    Period,        \* wake-ups of the worker between two synchronisations
    CountMod       \* the counters are unsigned and wrap at CountMod

ASSUME ClockAssumption ==
    /\ Worker \notin Callers /\ NoOne \notin Callers /\ NoOne # Worker
    /\ Skew \in Int /\ GoodRtt \in Int
    /\ Delays \subseteq Nat /\ Services \subseteq Nat /\ SendTimes \subseteq Nat
    /\ Samples \in Nat \ {0} /\ Period \in Nat \ {0} /\ CountMod \in Nat \ {0}

VARIABLES
    clk,            \* "absent", "live", "stopping" (destroy has begun), "freed"
    server,         \* server[0] != 0
    stop, thread_started,
    lock,           \* holder of the mutex
    offset_us, ntp_synced, sync_count, fail_count,
    wpc,            \* the worker's program point
    wakes,          \* wake-ups left before the next synchronisation is due
    ai, sock,       \* the exchange holds an address list, a socket
    got,            \* the sample of the exchange in progress, if it has one
    round,          \* history: the samples of this synchronisation
    tries,          \* exchanges of this synchronisation so far
    any, best,      \* a sample was taken; best_offset and best_rtt
    at, call,       \* at[c]: program point of caller c; call[c]: the getter
    stamp, saw      \* what now_us added to the local time, and what ntp_synced said

sync   == <<ai, sock, got, round, tries, any, best>>
shared == <<offset_us, ntp_synced, sync_count, fail_count>>
life   == <<clk, server, stop, thread_started>>
work   == <<wpc, wakes, sync>>
people == <<at, call, stamp, saw>>
vars   == <<life, lock, shared, work, people>>

Getters == {"now", "synced", "other"}
Exchanging == {"socket", "send", "recv", "close"}
Syncing == Exchanging \cup {"resolve", "score", "publish", "flag", "fail", "unlock"}

(* One exchange: t1 is read before the request is sent and t4 after it is
   sent, before the reply is awaited; the request takes d1 to arrive.  The
   field out is history: it only records d1.                                 *)
Measure(d1, s, e) ==
    LET t1 == 0
        t2 == d1 + Skew
        t3 == t2 + s
        t4 == e
        sum == (t2 - t1) + (t3 - t4)
    IN  [off |-> IF sum >= 0 THEN sum \div 2 ELSE -((-sum) \div 2),
         rtt |-> (t4 - t1) - (t3 - t2),
         out |-> d1]

Measures == {Measure(d1, s, e) : d1 \in Delays, s \in Services, e \in SendTimes}
MeasuredOffsets == {m.off : m \in Measures}
NoSample == [off |-> 0, rtt |-> 0, out |-> 0]

ResetRound == /\ ai' = FALSE /\ sock' = FALSE
              /\ got' = {} /\ round' = {}
              /\ tries' = 0
              /\ any' = FALSE
              /\ best' = NoSample

Init == /\ clk = "absent" /\ server = FALSE /\ stop = FALSE
        /\ thread_started = FALSE
        /\ lock = NoOne
        /\ offset_us = 0 /\ ntp_synced = FALSE
        /\ sync_count = 0 /\ fail_count = 0
        /\ wpc = "off" /\ wakes = 0 /\ ai = FALSE /\ sock = FALSE
        /\ got = {} /\ round = {} /\ tries = 0 /\ any = FALSE /\ best = NoSample
        /\ at = [c \in Callers |-> "idle"]
        /\ call = [c \in Callers |-> "now"]
        /\ stamp = [c \in Callers |-> 0]
        /\ saw = [c \in Callers |-> FALSE]

-----------------------------------------------------------------------------
(* The owner. *)

(* A zeroed object; the worker is started only when a server is named, and a
   thread that cannot start leaves the clock in local-time mode.            *)
Create(named, threadOk) ==
    /\ clk \in {"absent", "freed"}
    /\ clk' = "live"
    /\ server' = named
    /\ stop' = FALSE
    /\ thread_started' = (named /\ threadOk)
    /\ lock' = NoOne
    /\ offset_us' = 0 /\ ntp_synced' = FALSE
    /\ sync_count' = 0 /\ fail_count' = 0
    /\ wpc' = IF named /\ threadOk THEN "check" ELSE "off"
    /\ wakes' = 0
    /\ ResetRound
    /\ at' = [c \in Callers |-> "idle"]
    /\ call' = [c \in Callers |-> "now"]
    /\ stamp' = [c \in Callers |-> 0]
    /\ saw' = [c \in Callers |-> FALSE]

(* OBS destroys an encoder when no call into it is in progress. *)
Destroy ==
    /\ clk = "live"
    /\ \A c \in Callers : at[c] = "idle"
    /\ clk' = "stopping"
    /\ stop' = TRUE
    /\ UNCHANGED <<server, thread_started, lock, shared, work, people>>

(* Mutant: free without waiting for the worker. *)
FreeWithoutJoin ==
    /\ clk = "stopping"
    /\ clk' = "freed"
    /\ UNCHANGED <<server, stop, thread_started, lock, shared, work, people>>

JoinAndFree ==
    /\ clk = "stopping"
    /\ thread_started => wpc = "exited"
    /\ clk' = "freed"
    /\ UNCHANGED <<server, stop, thread_started, lock, shared, work, people>>

-----------------------------------------------------------------------------
(* The worker. *)

(* Mutant: the loop does not look at stop. *)
CheckForever ==
    /\ wpc = "check"
    /\ wpc' = "sleep"
    /\ UNCHANGED <<life, lock, shared, wakes, sync, people>>

CheckStop ==
    /\ wpc = "check"
    /\ wpc' = IF stop THEN "exited" ELSE "sleep"
    /\ UNCHANGED <<life, lock, shared, wakes, sync, people>>

(* Mutant: next moves with every wake-up, so it is never reached. *)
WakePostponing ==
    /\ wpc = "sleep"
    /\ wpc' = "check"
    /\ wakes' = Period
    /\ UNCHANGED <<life, lock, shared, sync, people>>

(* A 200 ms sleep ends.  At the first one the synchronisation is due; later a
   long sleep, or a long synchronisation before it, uses up several wake-ups.*)
Wake ==
    /\ wpc = "sleep"
    /\ \E left \in {n \in 0..Period : n = 0 \/ n < wakes} :
          IF left = 0
          THEN wpc' = "lock" /\ wakes' = Period
          ELSE wpc' = "check" /\ wakes' = left
    /\ UNCHANGED <<life, lock, shared, sync, people>>

WorkerLock ==
    /\ wpc = "lock" /\ lock = NoOne
    /\ wpc' = "resolve"
    /\ lock' = Worker
    /\ UNCHANGED <<life, shared, wakes, sync, people>>

(* getaddrinfo: the name resolves to a list, or the exchange is over. *)
Resolve ==
    /\ wpc = "resolve"
    /\ \E ok \in BOOLEAN : ai' = ok /\ wpc' = IF ok THEN "socket" ELSE "close"
    /\ UNCHANGED <<life, lock, shared, wakes, sock, got, round, tries, any, best, people>>

OpenSocket ==
    /\ wpc = "socket"
    /\ \E ok \in BOOLEAN : sock' = ok /\ wpc' = IF ok THEN "send" ELSE "close"
    /\ UNCHANGED <<life, lock, shared, wakes, ai, got, round, tries, any, best, people>>

SendRequest ==
    /\ wpc = "send"
    /\ wpc' \in {"recv", "close"}
    /\ UNCHANGED <<life, lock, shared, wakes, sync, people>>

(* A whole reply arrives in time. *)
Receive ==
    /\ wpc = "recv"
    /\ \E m \in Measures : got' = {m}
    /\ wpc' = "close"
    /\ UNCHANGED <<life, lock, shared, wakes, ai, sock, round, tries, any, best, people>>

(* Mutant: a missing reply returns at once, past the clean-up at "done". *)
TimeoutLeaking ==
    /\ wpc = "recv"
    /\ wpc' = "score"
    /\ UNCHANGED <<life, lock, shared, wakes, sync, people>>

(* The receive timeout expires, or the reply is short. *)
Timeout ==
    /\ wpc = "recv"
    /\ wpc' = "close"
    /\ UNCHANGED <<life, lock, shared, wakes, sync, people>>

(* "done": release what the exchange holds. *)
Close ==
    /\ wpc = "close"
    /\ ai' = FALSE /\ sock' = FALSE
    /\ wpc' = "score"
    /\ UNCHANGED <<life, lock, shared, wakes, got, round, tries, any, best, people>>

(* Mutant: a later sample wins whatever its round-trip time. *)
LatestSample(m) == m

(* The sample to keep: the one with the lower rtt, the earlier of two equals. *)
KeepSample(m) == IF ~any \/ m.rtt < best.rtt THEN m ELSE best

(* The exchange has returned: keep its sample if it is the best so far, and go
   on until the samples run out or one is good enough.                      *)
Score ==
    /\ wpc = "score"
    /\ any' = (any \/ got # {})
    /\ best' = IF got = {} THEN best ELSE KeepSample(CHOOSE m \in got : TRUE)
    /\ round' = round \cup got
    /\ tries' = tries + 1
    /\ got' = {}
    /\ wpc' = IF tries + 1 < Samples /\ \A m \in got : m.rtt >= GoodRtt
              THEN "resolve"
              ELSE IF any' THEN "publish" ELSE "fail"
    /\ UNCHANGED <<life, lock, shared, wakes, ai, sock, people>>

PublishOffset ==
    /\ wpc = "publish"
    /\ offset_us' = best.off
    /\ wpc' = "flag"
    /\ UNCHANGED <<life, lock, ntp_synced, sync_count, fail_count, wakes, sync, people>>

PublishFlag ==
    /\ wpc = "flag"
    /\ ntp_synced' = TRUE
    /\ sync_count' = (sync_count + 1) % CountMod
    /\ wpc' = "unlock"
    /\ UNCHANGED <<life, lock, offset_us, fail_count, wakes, sync, people>>

(* Mutant: a failed synchronisation withdraws the flag. *)
FailWithdrawing ==
    /\ wpc = "fail"
    /\ ntp_synced' = FALSE
    /\ fail_count' = (fail_count + 1) % CountMod
    /\ wpc' = "unlock"
    /\ UNCHANGED <<life, lock, offset_us, sync_count, wakes, sync, people>>

(* Mutant: a failed synchronisation falls back to local time, still flagged. *)
FailResetting ==
    /\ wpc = "fail"
    /\ offset_us' = 0
    /\ fail_count' = (fail_count + 1) % CountMod
    /\ wpc' = "unlock"
    /\ UNCHANGED <<life, lock, ntp_synced, sync_count, wakes, sync, people>>

(* No sample: the previous offset stays in force, and so does the flag. *)
CountFailure ==
    /\ wpc = "fail"
    /\ fail_count' = (fail_count + 1) % CountMod
    /\ wpc' = "unlock"
    /\ UNCHANGED <<life, lock, offset_us, ntp_synced, sync_count, wakes, sync, people>>

(* Mutant: a failed synchronisation returns without unlocking. *)
UnlockOnSuccess ==
    /\ wpc = "unlock"
    /\ lock' = IF any THEN NoOne ELSE lock
    /\ wpc' = "check"
    /\ ResetRound
    /\ UNCHANGED <<life, shared, wakes, people>>

(* The locals of rtc_sync_once_locked go out of scope. *)
WorkerUnlock ==
    /\ wpc = "unlock"
    /\ lock' = NoOne
    /\ wpc' = "check"
    /\ ResetRound
    /\ UNCHANGED <<life, shared, wakes, people>>

-----------------------------------------------------------------------------
(* The callers. *)

(* now_us and ntp_synced answer at once when no server is named; the other
   getters always take the lock.                                           *)
Call(c, g) ==
    /\ clk = "live" /\ at[c] = "idle"
    /\ call' = [call EXCEPT ![c] = g]
    /\ IF g # "other" /\ ~server
       THEN /\ at' = at
            /\ stamp' = IF g = "now" THEN [stamp EXCEPT ![c] = 0] ELSE stamp
            /\ saw' = IF g = "synced" THEN [saw EXCEPT ![c] = FALSE] ELSE saw
       ELSE /\ at' = [at EXCEPT ![c] = "wait"]
            /\ UNCHANGED <<stamp, saw>>
    /\ UNCHANGED <<life, lock, shared, work>>

(* Mutant: the getters do not wait for the mutex. *)
AcquireUnlocked(c) ==
    /\ at[c] = "wait"
    /\ at' = [at EXCEPT ![c] = "inside"]
    /\ UNCHANGED <<life, lock, shared, work, call, stamp, saw>>

Acquire(c) ==
    /\ at[c] = "wait" /\ lock = NoOne
    /\ lock' = c
    /\ at' = [at EXCEPT ![c] = "inside"]
    /\ UNCHANGED <<life, shared, work, call, stamp, saw>>

(* Read under the mutex, release it, return: now_us adds the offset to the local
   time and does not look at the flag.                                      *)
ReadAndRelease(c) ==
    /\ at[c] = "inside"
    /\ lock' = NoOne
    /\ at' = [at EXCEPT ![c] = "idle"]
    /\ stamp' = IF call[c] = "now" THEN [stamp EXCEPT ![c] = offset_us] ELSE stamp
    /\ saw' = IF call[c] = "synced" THEN [saw EXCEPT ![c] = ntp_synced] ELSE saw
    /\ UNCHANGED <<life, shared, work, call>>

-----------------------------------------------------------------------------
Exchange == Resolve \/ OpenSocket \/ SendRequest \/ Receive \/ Timeout \/ Close

WorkerStep == \/ CheckStop \/ Wake \/ Exchange \/ Score
              \/ PublishOffset \/ PublishFlag \/ CountFailure \/ WorkerUnlock

CallerStep(c) == Acquire(c) \/ ReadAndRelease(c) \/ \E g \in Getters : Call(c, g)

Next == \/ \E named, threadOk \in BOOLEAN : Create(named, threadOk)
        \/ Destroy
        \/ JoinAndFree
        \/ WorkerLock
        \/ WorkerStep
        \/ \E c \in Callers : CallerStep(c)

Spec == Init /\ [][Next]_vars

(* Every wait of the worker is bounded (getaddrinfo answers or gives up, the
   receive has a timeout, the sleep is 200 ms), the join waits only for the
   worker, and the mutex is not held from outside forever: a thread that waits
   for it gets it once it is free again and again.                          *)
Fairness == /\ WF_vars(WorkerStep)
            /\ SF_vars(WorkerLock)
            /\ WF_vars(JoinAndFree)
            /\ \A c \in Callers : SF_vars(Acquire(c)) /\ WF_vars(ReadAndRelease(c))

FairSpec == Spec /\ Fairness

-----------------------------------------------------------------------------
WorkerPoints == {"off", "check", "sleep", "lock", "exited"} \cup Syncing
Sample == [off : Int, rtt : Int, out : Int]

LifeTypes ==
    /\ clk \in {"absent", "live", "stopping", "freed"}
    /\ lock \in {NoOne, Worker} \cup Callers

FlagTypes ==
    /\ server \in BOOLEAN /\ stop \in BOOLEAN /\ thread_started \in BOOLEAN
    /\ ntp_synced \in BOOLEAN
    /\ ai \in BOOLEAN /\ sock \in BOOLEAN /\ any \in BOOLEAN

CounterTypes ==
    /\ offset_us \in Int
    /\ sync_count \in 0..(CountMod - 1) /\ fail_count \in 0..(CountMod - 1)
    /\ wakes \in 0..Period
    /\ tries \in Nat

WorkerTypes ==
    /\ wpc \in WorkerPoints
    /\ got \subseteq Sample /\ round \subseteq Sample
    /\ best \in Sample

CallerTypes ==
    /\ at \in [Callers -> {"idle", "wait", "inside"}]
    /\ call \in [Callers -> Getters]
    /\ stamp \in [Callers -> Int]
    /\ saw \in [Callers -> BOOLEAN]

(* The variables have the types of the fields and locals they stand for. *)
TypeOK == LifeTypes /\ FlagTypes /\ CounterTypes /\ WorkerTypes /\ CallerTypes

(* The mutex protects the published fields: whoever is between a lock and its
   unlock, worker or getter, is there alone (lock/unlock pairs of rtc_worker
   and of the getters).                                                    *)
MutualExclusion ==
    /\ \A c, d \in Callers : at[c] = "inside" /\ at[d] = "inside" => c = d
    /\ \A c \in Callers : at[c] = "inside" => wpc \notin Syncing

(* realtime_clock_destroy frees the object only when no thread can touch it any
   more: the worker has left its loop and nobody holds or awaits the mutex.  *)
NoUseAfterFree ==
    clk = "freed" => /\ wpc \in {"off", "exited"}
                     /\ lock = NoOne
                     /\ \A c \in Callers : at[c] = "idle"

(* However an exchange ends, the address list and the socket it acquired are
   released before the next one begins (the "done" label).                  *)
NothingLeaks == wpc \notin Exchanging => ~ai /\ ~sock

(* The offset about to be published is that of the sample with the lowest
   measured rtt of this synchronisation, and the round ended early only on a
   sample that was good enough.                                            *)
BestOfRound ==
    wpc \in {"publish", "flag"} =>
        /\ best \in round
        /\ \A m \in round : best.rtt <= m.rtt
        /\ tries < Samples => \E m \in round : m.rtt < GoodRtt

(* Once ntp_synced has told a caller that the clock is synchronised, every later
   now_us of that caller is the local time plus an offset that an exchange with
   the server has measured, whatever fails in between.  The two getters read
   different fields (offset_us, ntp_synced), which the worker writes one after the
   other; the encoder relies on it when it marks a frame by asking ntp_synced.  *)
SyncedStaysCorrected ==
    [][\A c \in Callers :
          saw[c] /\ call[c] = "now" /\ at[c] = "inside" /\ at'[c] = "idle"
          => stamp'[c] \in MeasuredOffsets]_vars

(* destroy returns: the join ends although the worker may be sleeping, waiting
   for the mutex or in the middle of a synchronisation when stop is set.     *)
DestroyReturns == clk = "stopping" ~> clk = "freed"

(* A getter returns, although the mutex may be held over a synchronisation with
   a dead server when it is called.  It does wait for that: realtime-clock.h says
   of realtime_clock_now_us that it "Never blocks".                          *)
GettersReturn == \A c \in Callers : at[c] = "wait" ~> at[c] = "idle"

(* The worker synchronises again and again for as long as the clock lives: a
   failed synchronisation is retried one interval later.                    *)
KeepsSynchronising ==
    (clk = "live" /\ thread_started) ~> (wpc \in Syncing \/ clk # "live")

Service == INSTANCE ClockService WITH
    Offsets <- MeasuredOffsets,
    offset <- offset_us,
    synced <- (ntp_synced \/ wpc = "flag")

(* Seen through the getters the clock is a ClockService: the offset and the flag
   change in one step, and each query returns one published pair.           *)
ImplementsService == Service!Spec

(* What realtime-clock.c says of a sample: rtt_us is "the round-trip time".  It
   should be at least as long as the request alone took to arrive.           *)
RttCoversTheTrip == \A m \in round : m.rtt >= m.out
=============================================================================
