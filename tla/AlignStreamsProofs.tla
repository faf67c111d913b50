------------------------- MODULE AlignStreamsProofs -------------------------
(* A theorem about AlignStreams: the sweep finds the nearest frames.           *)
EXTENDS AlignStreams, SequenceTheorems, TLAPS

LEMMA Constants ==
    /\ W_US \in Nat /\ Slack \in Nat /\ MinPairs \in Nat \ {0} /\ None \notin Int
BY AlignAssumption

(* A capture is a sorted sequence of numbers. *)
LEMMA CaptureSorted ==
    ASSUME NEW c \in Captures
    PROVE  /\ Len(c) \in Nat /\ DOMAIN c = 1..Len(c)
           /\ \A k \in 1..Len(c) : c[k] \in Int
           /\ \A k, l \in 1..Len(c) : k <= l => c[k] <= c[l]
           /\ c # <<>> <=> Len(c) # 0
<1>1. c \in Seq(Int) /\ \A k, l \in 1..Len(c) : k <= l => c[k] <= c[l]
  BY AlignAssumption
<1> QED BY <1>1, LenProperties, ElementOfSeq, EmptySeq

(* The distance to a fixed stamp grows on both sides of it. *)
LEMMA AbsGrows ==
    /\ \A x \in Int : abs(x) \in Nat
    /\ \A v, p, r \in Int : p <= r /\ r <= v => abs(v - r) <= abs(v - p)
    /\ \A v, p, r \in Int : v <= p /\ p <= r => abs(v - p) <= abs(v - r)
    /\ \A v, p, w \in Int : abs(v - p) <= w <=> v - w <= p /\ p <= v + w
<1>1. \A x \in Int : abs(x) \in Nat
  BY DEF abs
<1>2. \A v, p, r \in Int : p <= r /\ r <= v => abs(v - r) <= abs(v - p)
  BY DEF abs
<1>3. \A v, p, r \in Int : v <= p /\ p <= r => abs(v - p) <= abs(v - r)
  BY DEF abs
<1>4. \A v, p, w \in Int : abs(v - p) <= w <=> v - w <= p /\ p <= v + w
  BY DEF abs
<1> QED BY <1>1, <1>2, <1>3, <1>4

LEMMA InWindowDifference ==
    \A v, p, w \in Int : v - w <= p /\ p <= v + w => 0 - w <= v - p /\ v - p <= w
OBVIOUS

LEMMA TooOld ==
    \A v, p, w \in Int : p < v - w => ~(abs(v - p) <= w)
<1> SUFFICES ASSUME NEW v \in Int, NEW p \in Int, NEW w \in Int, p < v - w
             PROVE  ~(abs(v - p) <= w)
  OBVIOUS
<1>1. ~(v - w <= p)
  OBVIOUS
<1> QED BY <1>1, AbsGrows

-----------------------------------------------------------------------------
(* The inductive invariant *)

Entries == [frame : Nat \ {0}, best : Int]

Typed ==
    /\ a \in Captures /\ b \in Captures
    /\ pc \in {"start", "skip", "scan", "pair", "report", "done"}
    /\ i \in 1..(Len(b) + 1) /\ ia_lo \in 1..(Len(a) + 1) /\ ia \in 1..(Len(a) + 1)
    /\ best \in Int \cup {None} /\ pairs \in Seq(Entries)
    /\ pc \in {"skip", "scan", "pair"} => i <= Len(b)
    /\ pc = "start" => i = 1 /\ ia_lo = 1

(* What was skipped is too old for this frame of b, and what is scanned is not. *)
Behind ==
    /\ pc \in {"skip", "scan", "pair"} => \A x \in 1..(ia_lo - 1) : a[x] < lo
    /\ pc = "scan" => ia_lo <= ia /\ \A x \in ia_lo..Len(a) : lo <= a[x]

(* f is the difference to a frame of a before the n-th, and the least so far. *)
Least(f, n) ==
    /\ f \in Int /\ abs(f) <= W_US
    /\ \E x \in 1..Len(a) : x < n /\ f = b[i] - a[x]
    /\ \A y \in 1..Len(a) : y < n => abs(f) <= Distance(i, y)

Scanned ==
    /\ pc = "scan" => IF best = None THEN ia = ia_lo ELSE Least(best, ia)
    /\ pc = "pair" => IF best = None THEN Near(i) = {} ELSE Least(best, Len(a) + 1)

IInv == Typed /\ Behind /\ Scanned /\ NearestPaired

LEMMA Captured ==
    ASSUME Typed
    PROVE  /\ Len(a) \in Nat /\ DOMAIN a = 1..Len(a) /\ Len(b) \in Nat
           /\ \A x \in 1..Len(a) : a[x] \in Int
           /\ \A j \in 1..Len(b) : b[j] \in Int
           /\ \A x, y \in 1..Len(a) : x <= y => a[x] <= a[y]
           /\ \A j, k \in 1..Len(b) : j <= k => b[j] <= b[k]
           /\ a = <<>> <=> Len(a) = 0
           /\ b = <<>> <=> Len(b) = 0
           /\ pc \in {"skip", "scan", "pair"}
                 => i \in 1..Len(b) /\ bv \in Int /\ lo = bv - W_US /\ hi = bv + W_US
<1>1. a \in Captures /\ b \in Captures
  BY DEF Typed
<1>2. pc \in {"skip", "scan", "pair"} => i \in 1..Len(b)
  BY <1>1, CaptureSorted DEF Typed
<1> QED BY <1>1, <1>2, CaptureSorted DEF bv, lo, hi

LEMMA InitIInv == Init => IInv
<1> SUFFICES ASSUME Init PROVE IInv
  OBVIOUS
<1>1. Len(a) \in Nat /\ Len(b) \in Nat
  BY CaptureSorted DEF Init
<1>2. Typed
  <2>1. <<>> \in Seq(Entries)
    OBVIOUS
  <2> QED BY <1>1, <2>1 DEF Init, Typed
<1>3. NearestPaired
  BY DEF Init, NearestPaired
<1> QED BY <1>2, <1>3 DEF Init, IInv, Behind, Scanned

LEMMA StartIInv == ASSUME IInv, Start PROVE IInv'
<1>1. UNCHANGED <<a, b, i, ia_lo, ia, best, pairs>>
  BY DEF Start
<1>2. pc' = "done" \/ (pc' = "skip" /\ a # <<>> /\ b # <<>>)
  BY DEF Start
<1>3. pc = "start" /\ i = 1 /\ ia_lo = 1
  BY DEF Start, IInv, Typed
<1>4. Typed'
  <2>1. b # <<>> => 1 <= Len(b)
    BY Captured DEF IInv
  <2> QED BY <1>1, <1>2, <1>3, <2>1 DEF IInv, Typed
<1>5. NearestPaired'
  BY <1>1 DEF IInv, NearestPaired, Near, Distance
<1>6. Behind'
  BY <1>1, <1>2, <1>3 DEF Behind
<1> QED BY <1>2, <1>4, <1>5, <1>6 DEF IInv, Scanned

LEMMA SkipIInv == ASSUME IInv, SkipOlder PROVE IInv'
<1>1. /\ UNCHANGED <<a, b, pc, i, ia, best, pairs>>
      /\ pc = "skip" /\ ia_lo <= Len(a) /\ a[ia_lo] < lo /\ ia_lo' = ia_lo + 1
  BY DEF SkipOlder, Older
<1>2. lo' = lo
  BY <1>1 DEF lo, bv
<1>3. Typed'
  BY <1>1, Captured DEF IInv, Typed
<1>4. Behind'
  <2>1. ASSUME NEW x \in 1..(ia_lo' - 1) PROVE a[x] < lo
    <3>1. x \in 1..(ia_lo - 1) \/ x = ia_lo
      BY <1>1, Captured DEF IInv, Typed
    <3> QED BY <1>1, <3>1 DEF IInv, Behind
  <2> QED BY <1>1, <1>2, <2>1 DEF Behind
<1>5. NearestPaired'
  BY <1>1 DEF IInv, NearestPaired, Near, Distance
<1> QED BY <1>1, <1>3, <1>4, <1>5 DEF IInv, Scanned

LEMMA StartScanIInv == ASSUME IInv, StartScan PROVE IInv'
<1>1. /\ UNCHANGED <<a, b, i, ia_lo, pairs>>
      /\ pc = "skip" /\ pc' = "scan" /\ ia' = ia_lo /\ best' = None
      /\ ~(ia_lo <= Len(a) /\ a[ia_lo] < lo)
  BY DEF StartScan, Older
<1>2. lo' = lo
  BY <1>1 DEF lo, bv
<1>3. Typed'
  BY <1>1 DEF IInv, Typed
<1>4. Behind'
  <2>1. ASSUME NEW x \in ia_lo..Len(a) PROVE lo <= a[x]
    <3>1. /\ x \in 1..Len(a) /\ ia_lo \in 1..Len(a) /\ ia_lo <= x
      BY Captured DEF IInv, Typed
    <3>2. lo \in Int
      BY <1>1, Captured, Constants DEF IInv
    <3>3. lo <= a[ia_lo] /\ a[ia_lo] <= a[x] /\ a[ia_lo] \in Int /\ a[x] \in Int
      BY <1>1, <3>1, <3>2, Captured DEF IInv
    <3> QED BY <3>2, <3>3
  <2>2. ia_lo <= ia_lo
    BY DEF IInv, Typed
  <2> QED BY <1>1, <1>2, <2>1, <2>2 DEF IInv, Behind
<1>5. NearestPaired'
  BY <1>1 DEF IInv, NearestPaired, Near, Distance
<1> QED BY <1>1, <1>3, <1>4, <1>5 DEF IInv, Scanned

LEMMA ScanIInv == ASSUME IInv, Scan PROVE IInv'
<1> DEFINE d == bv - a[ia]
           f == best'
<1>1. /\ UNCHANGED <<a, b, i, ia_lo, pairs>>
      /\ pc = "scan" /\ ia <= Len(a) /\ a[ia] <= hi /\ ia' = ia + 1
      /\ f = Better(d)
      /\ pc' = IF abs(d) > abs(f) + Slack THEN "pair" ELSE "scan"
  BY DEF Scan, InWindow
<1>2. /\ i \in 1..Len(b) /\ bv \in Int /\ bv = b[i] /\ lo = bv - W_US /\ hi = bv + W_US
      /\ Len(a) \in Nat /\ ia \in 1..Len(a) /\ a[ia] \in Int /\ W_US \in Nat /\ Slack \in Nat
      /\ ia_lo \in 1..Len(a) /\ ia_lo <= ia
  BY <1>1, Captured, Constants DEF IInv, Typed, Behind, bv
<1>3. d \in Int /\ abs(d) \in Nat /\ abs(d) <= W_US /\ d = b[i] - a[ia]
  <2>1. lo <= a[ia]
    BY <1>1, <1>2 DEF IInv, Behind
  <2>2. d \in Int /\ d = b[i] - a[ia]
    BY <1>2
  <2>3. 0 - W_US <= d /\ d <= W_US
    <3>1. bv - W_US <= a[ia] /\ a[ia] <= bv + W_US
      BY <1>1, <1>2, <2>1
    <3>2. bv \in Int /\ a[ia] \in Int /\ W_US \in Int
      BY <1>2
    <3> QED BY <3>1, <3>2, InWindowDifference
  <2> HIDE DEF d
  <2>4. abs(d) \in Nat /\ abs(d) <= W_US
    <3>1. d \in Int /\ W_US \in Nat
      BY <1>2, <2>2
    <3> QED BY <2>3, <3>1 DEF abs
  <2> QED BY <2>2, <2>4
<1> HIDE DEF d
<1>4. \A y \in 1..Len(a) : Distance(i, y) \in Nat /\ Distance(i, y) = abs(bv - a[y])
  <2> SUFFICES ASSUME NEW y \in 1..Len(a)
               PROVE  Distance(i, y) \in Nat /\ Distance(i, y) = abs(bv - a[y])
    OBVIOUS
  <2>1. bv - a[y] \in Int
    BY <1>2, Captured DEF IInv
  <2>2. Distance(i, y) = abs(bv - a[y])
    BY <1>2 DEF Distance
  <2> QED BY <2>1, <2>2, AbsGrows
<1>5. best # None => Least(best, ia)
  BY <1>1 DEF IInv, Scanned
<1>6. Least(f, ia + 1)
  <2>1. CASE best = None
    <3>1. f = d /\ ia = ia_lo
      BY <1>1, <2>1 DEF Better, IInv, Scanned
    <3>2. ASSUME NEW y \in 1..Len(a), y < ia + 1 PROVE abs(d) <= Distance(i, y)
      <4>1. CASE y = ia
        BY <1>3, <1>4, <4>1 DEF Distance
      <4>2. CASE y # ia
        <5>1. y \in 1..(ia_lo - 1) /\ a[y] \in Int
          BY <1>2, <3>1, <3>2, <4>2, Captured DEF IInv
        <5>2. a[y] < bv - W_US
          BY <1>1, <1>2, <5>1 DEF IInv, Behind
        <5>3. ~(abs(bv - a[y]) <= W_US)
          BY <1>2, <5>1, <5>2 DEF abs
        <5> QED BY <1>2, <1>3, <1>4, <5>3
      <4> QED BY <4>1, <4>2
    <3> QED BY <1>2, <1>3, <3>1, <3>2 DEF Least
  <2>2. CASE best # None /\ abs(d) < abs(best)
    <3>1. f = d
      BY <1>1, <2>2 DEF Better
    <3>2. ASSUME NEW y \in 1..Len(a), y < ia + 1 PROVE abs(d) <= Distance(i, y)
      <4>1. CASE y = ia
        BY <1>3, <1>4, <4>1 DEF Distance
      <4>2. CASE y # ia
        <5>1. y < ia
          BY <1>2, <3>2, <4>2
        <5>2. abs(best) <= Distance(i, y) /\ abs(best) \in Nat
          BY <1>5, <2>2, <5>1, AbsGrows DEF Least
        <5> QED BY <1>3, <1>4, <2>2, <5>2
      <4> QED BY <4>1, <4>2
    <3> QED BY <1>2, <1>3, <3>1, <3>2 DEF Least
  <2>3. CASE best # None /\ ~(abs(d) < abs(best))
    <3>1. f = best
      BY <1>1, <2>3 DEF Better
    <3>2. /\ f \in Int /\ abs(f) <= W_US /\ abs(f) \in Nat
          /\ \E x \in 1..Len(a) : x < ia /\ f = b[i] - a[x]
          /\ \A y \in 1..Len(a) : y < ia => abs(f) <= Distance(i, y)
      BY <1>5, <2>3, <3>1, AbsGrows DEF Least
    <3>3. abs(f) <= Distance(i, ia)
      BY <1>2, <1>3, <2>3, <3>1, <3>2 DEF Distance
    <3>4. \A y \in 1..Len(a) : y < ia + 1 => y < ia \/ y = ia
      BY <1>2
    <3>5. \A x \in 1..Len(a) : x < ia => x < ia + 1
      BY <1>2
    <3> QED BY <3>2, <3>3, <3>4, <3>5 DEF Least
  <2> QED BY <2>1, <2>2, <2>3
<1>7. f \in Int /\ f # None /\ abs(f) \in Nat
  BY <1>6, AbsGrows, Constants DEF Least
<1>8. Typed'
  <2>1. ia' \in 1..(Len(a) + 1)
    BY <1>1, <1>2
  <2> QED BY <1>1, <1>2, <1>7, <2>1 DEF IInv, Typed
<1>9. NearestPaired'
  BY <1>1 DEF IInv, NearestPaired, Near, Distance
<1>10. CASE abs(d) > abs(f) + Slack
  <2>1. PICK x \in 1..Len(a) : x < ia + 1 /\ f = b[i] - a[x]
    BY <1>6 DEF Least
  <2>2. a[ia] > bv
    <3> SUFFICES ASSUME ~(a[ia] > bv) PROVE FALSE
      OBVIOUS
    <3>1. x <= ia /\ a[x] \in Int /\ a[x] <= a[ia]
      BY <1>2, <2>1, Captured DEF IInv
    <3>2. abs(bv - a[ia]) <= abs(bv - a[x])
      <4> DEFINE v == bv
                 p == a[x]
                 t == a[ia]
      <4>a. v \in Int /\ p \in Int /\ t \in Int
        BY <1>2, <3>1
      <4>b. p <= t
        BY <3>1
      <4>c. t <= v
        BY <4>a
      <4>1. v \in Int /\ p \in Int /\ t \in Int /\ p <= t /\ t <= v
        BY <4>a, <4>b, <4>c
      <4> HIDE DEF v, p, t
      <4>2. abs(v - t) <= abs(v - p)
        BY <4>1 DEF abs
      <4> QED BY <4>2 DEF v, p, t
    <3>3. abs(d) <= abs(f)
      BY <1>2, <1>3, <2>1, <3>2
    <3> QED BY <1>2, <1>3, <1>7, <1>10, <3>3
  <2>3. ASSUME NEW y \in 1..Len(a), y < Len(a) + 1 PROVE abs(f) <= Distance(i, y)
    <3>1. CASE y < ia + 1
      BY <1>6, <3>1 DEF Least
    <3>2. CASE ~(y < ia + 1)
      <4>1. ia <= y /\ a[y] \in Int /\ a[ia] <= a[y]
        BY <1>2, <3>2, Captured DEF IInv
      <4>2. abs(bv - a[ia]) <= abs(bv - a[y])
        <5> DEFINE v == bv
                   p == a[ia]
                   t == a[y]
        <5>1. v \in Int /\ p \in Int /\ t \in Int /\ v <= p /\ p <= t
          <6>1. bv \in Int /\ a[ia] \in Int /\ a[y] \in Int
            BY <1>2, <4>1
          <6>2. bv <= a[ia]
            BY <2>2, <6>1
          <6> QED BY <4>1, <6>1, <6>2
        <5> HIDE DEF v, p, t
        <5>2. abs(v - p) <= abs(v - t)
          BY <5>1 DEF abs
        <5> QED BY <5>2 DEF v, p, t
      <4>3. abs(d) <= Distance(i, y)
        BY <1>2, <1>3, <1>4, <4>2
      <4> QED BY <1>2, <1>3, <1>4, <1>7, <1>10, <4>3
    <3> QED BY <3>1, <3>2
  <2>4. Least(f, Len(a) + 1)
    <3>1. \A z \in 1..Len(a) : z < Len(a) + 1
      BY <1>2
    <3> QED BY <1>6, <2>3, <3>1 DEF Least
  <2>5. pc' = "pair"
    BY <1>1, <1>10
  <2>6. Scanned'
    BY <1>1, <1>7, <2>4, <2>5 DEF Scanned, Least, Distance
  <2>7. Behind'
    BY <1>1, <2>5 DEF IInv, Behind, lo, bv
  <2> QED BY <1>8, <1>9, <2>6, <2>7 DEF IInv
<1>11. CASE ~(abs(d) > abs(f) + Slack)
  <2>5. pc' = "scan"
    BY <1>1, <1>11
  <2>6. Scanned'
    BY <1>1, <1>6, <1>7, <2>5 DEF Scanned, Least, Distance
  <2>7. Behind'
    <3>1. ia_lo <= ia + 1
      BY <1>2
    <3> QED BY <1>1, <2>5, <3>1 DEF IInv, Behind, lo, bv
  <2> QED BY <1>8, <1>9, <2>6, <2>7 DEF IInv
<1> QED BY <1>10, <1>11

LEMMA EndScanIInv == ASSUME IInv, EndScan PROVE IInv'
<1>1. /\ UNCHANGED <<a, b, i, ia_lo, ia, best, pairs>>
      /\ pc = "scan" /\ pc' = "pair" /\ ~(ia <= Len(a) /\ a[ia] <= hi)
  BY DEF EndScan, InWindow
<1>2. /\ i \in 1..Len(b) /\ bv \in Int /\ bv = b[i] /\ lo = bv - W_US /\ hi = bv + W_US
      /\ Len(a) \in Nat /\ ia \in 1..(Len(a) + 1) /\ W_US \in Nat
      /\ \A x \in 1..Len(a) : a[x] \in Int /\ Distance(i, x) = abs(bv - a[x])
      /\ DOMAIN a = 1..Len(a)
  BY <1>1, Captured, Constants DEF IInv, Typed, bv, Distance
<1>3. \A y \in 1..Len(a) : ia <= y => bv + W_US < a[y]
  <2> SUFFICES ASSUME NEW y \in 1..Len(a), ia <= y PROVE bv + W_US < a[y]
    OBVIOUS
  <2>1. ia \in 1..Len(a) /\ a[ia] \in Int /\ a[y] \in Int /\ a[ia] <= a[y]
    <3>1. ia \in 1..Len(a)
      BY <1>2
    <3>2. a[ia] \in Int /\ a[y] \in Int
      BY <1>2, <3>1
    <3>3. a[ia] <= a[y]
      BY <3>1, Captured DEF IInv
    <3> QED BY <3>1, <3>2, <3>3
  <2>2. bv + W_US < a[ia]
    BY <1>1, <1>2, <2>1
  <2> QED BY <1>2, <2>1, <2>2
<1>4. \A y \in 1..Len(a) : ia <= y => Distance(i, y) \in Nat /\ ~(Distance(i, y) <= W_US)
  <2> SUFFICES ASSUME NEW y \in 1..Len(a), ia <= y
               PROVE  Distance(i, y) \in Nat /\ ~(Distance(i, y) <= W_US)
    OBVIOUS
  <2> DEFINE v == bv
             p == a[y]
  <2>1. v \in Int /\ p \in Int /\ v + W_US < p /\ Distance(i, y) = abs(v - p)
    BY <1>2, <1>3
  <2> HIDE DEF v, p
  <2>2. abs(v - p) \in Nat /\ ~(abs(v - p) <= W_US)
    BY <1>2, <2>1 DEF abs
  <2> QED BY <2>1, <2>2
<1>5. Scanned'
  <2>1. CASE best = None
    <3>1. ia = ia_lo
      BY <1>1, <2>1 DEF IInv, Scanned
    <3>2. ASSUME NEW y \in 1..Len(a) PROVE ~(Distance(i, y) <= W_US)
      <4>1. CASE ia <= y
        BY <1>4, <4>1
      <4>2. CASE ~(ia <= y)
        <5>1. y \in 1..(ia_lo - 1)
          BY <1>2, <3>1, <4>2
        <5>2. a[y] < bv - W_US
          BY <1>1, <1>2, <5>1 DEF IInv, Behind
        <5>3. bv \in Int /\ a[y] \in Int /\ W_US \in Int /\ Distance(i, y) = abs(bv - a[y])
          BY <1>2
        <5> QED BY <5>2, <5>3, TooOld
      <4> QED BY <4>1, <4>2
    <3>3. Near(i) = {}
      BY <1>2, <3>2 DEF Near
    <3>4. Near(i)' = {}
      BY <1>1, <3>3 DEF Near, Distance
    <3> QED BY <1>1, <2>1, <3>4 DEF Scanned
  <2>2. CASE best # None
    <3>1. Least(best, ia)
      BY <1>1, <2>2 DEF IInv, Scanned
    <3>2. abs(best) \in Nat /\ abs(best) <= W_US
      BY <3>1, AbsGrows DEF Least
    <3>3. ASSUME NEW y \in 1..Len(a) PROVE abs(best) <= Distance(i, y)
      <4>1. CASE ia <= y
        BY <1>2, <1>4, <3>2, <4>1
      <4>2. CASE ~(ia <= y)
        <5>1. y < ia
          BY <1>2, <4>2
        <5> QED BY <3>1, <5>1 DEF Least
      <4> QED BY <4>1, <4>2
    <3>4. \A x \in 1..Len(a) : x < Len(a) + 1
      BY <1>2
    <3>5. Least(best, Len(a) + 1)
      BY <3>1, <3>3, <3>4 DEF Least
    <3>6. Least(best, Len(a) + 1)'
      BY <1>1, <3>5 DEF Least, Distance
    <3> QED BY <1>1, <2>2, <3>6 DEF Scanned
  <2> QED BY <2>1, <2>2
<1>6. Typed'
  BY <1>1 DEF IInv, Typed
<1>7. Behind'
  BY <1>1 DEF IInv, Behind, lo, bv
<1>8. NearestPaired'
  BY <1>1 DEF IInv, NearestPaired, Near, Distance
<1> QED BY <1>5, <1>6, <1>7, <1>8 DEF IInv

(* A frame without one in the window adds nothing. *)
LEMMA PairNothing == ASSUME IInv, Pair, best = None PROVE NearestPaired'
<1>1. /\ UNCHANGED <<a, b>> /\ pc = "pair" /\ pairs' = pairs /\ i' = i + 1
  BY DEF Pair
<1>2. Near(i) = {} /\ i \in Nat
  BY <1>1, Captured DEF IInv, Scanned
<1>3. /\ \A j \in 1..i : j \in 1..(i - 1) \/ j = i
      /\ \A j \in Nat : j < i => j < i + 1
      /\ i' - 1 = i
  BY <1>1, <1>2
<1>4. \A k \in DOMAIN pairs : pairs[k].frame \in Nat
  <2>1. pairs \in Seq(Entries)
    BY DEF IInv, Typed
  <2>2. \A k \in DOMAIN pairs : pairs[k] \in Entries
    BY <2>1, LenProperties, ElementOfSeq
  <2> QED BY <2>2 DEF Entries
<1>5. /\ \A k \in DOMAIN pairs :
            /\ pairs[k].frame < i + 1
            /\ \E x \in Near(pairs[k].frame) :
                  /\ pairs[k].best = b[pairs[k].frame] - a[x]
                  /\ \A y \in DOMAIN a :
                        Distance(pairs[k].frame, x) <= Distance(pairs[k].frame, y)
      /\ \A k, l \in DOMAIN pairs : k < l => pairs[k].frame < pairs[l].frame
  BY <1>3, <1>4 DEF IInv, NearestPaired
<1>6. \A j \in 1..i : Near(j) # {} => \E k \in DOMAIN pairs : pairs[k].frame = j
  BY <1>2, <1>3 DEF IInv, NearestPaired
<1>7. \A j : Near(j)' = Near(j)
  BY <1>1 DEF Near, Distance
<1> QED BY <1>1, <1>3, <1>5, <1>6, <1>7 DEF NearestPaired, Distance

LEMMA PairNearest ==
    ASSUME IInv, Pair, best # None
    PROVE  NearestPaired' /\ pairs' \in Seq(Entries)
<1> DEFINE new == [frame |-> i, best |-> best]
           more == Append(pairs, new)
           n == Len(pairs)
<1>1. /\ UNCHANGED <<a, b>> /\ pc = "pair" /\ pairs' = more /\ i' = i + 1
  BY DEF Pair
<1>2. /\ i \in 1..Len(b) /\ i \in Nat /\ DOMAIN a = 1..Len(a)
      /\ Least(best, Len(a) + 1) /\ Len(a) \in Nat /\ pairs \in Seq(Entries)
      /\ b[i] \in Int /\ \A x \in 1..Len(a) : a[x] \in Int
  BY <1>1, Captured DEF IInv, Scanned, Typed
<1>3. new \in Entries /\ new.frame = i /\ new.best = best
  BY <1>2 DEF Entries, Least
<1> HIDE DEF new
<1>4. /\ n \in Nat /\ DOMAIN pairs = 1..n
      /\ \A k \in 1..n : pairs[k].frame \in Nat
  <2>1. n \in Nat /\ DOMAIN pairs = 1..n
    BY <1>2, LenProperties
  <2>2. \A k \in 1..n : pairs[k] \in Entries
    BY <1>2, ElementOfSeq
  <2> QED BY <2>1, <2>2 DEF Entries
<1>5. /\ more \in Seq(Entries) /\ Len(more) = n + 1 /\ DOMAIN more = 1..(n + 1)
      /\ \A k \in 1..n : more[k] = pairs[k]
      /\ more[n + 1] = new
  BY <1>2, <1>3, AppendProperties, LenProperties
<1> HIDE DEF more, n
<1>6. \A k \in 1..(n + 1) : k \in 1..n \/ k = n + 1
  BY <1>4
<1>7. \A k \in 1..n :
         /\ pairs[k].frame < i
         /\ \E x \in Near(pairs[k].frame) :
               /\ pairs[k].best = b[pairs[k].frame] - a[x]
               /\ \A y \in DOMAIN a :
                     Distance(pairs[k].frame, x) <= Distance(pairs[k].frame, y)
  BY <1>4 DEF IInv, NearestPaired
<1>8. \E x \in Near(i) : /\ best = b[i] - a[x]
                         /\ \A y \in DOMAIN a : Distance(i, x) <= Distance(i, y)
  <2>1. PICK x \in 1..Len(a) : best = b[i] - a[x]
    BY <1>2 DEF Least
  <2>2. Distance(i, x) = abs(best)
    BY <2>1 DEF Distance
  <2>3. x \in Near(i)
    BY <1>2, <2>2 DEF Near, Least
  <2>4. \A y \in 1..Len(a) : y < Len(a) + 1
    BY <1>2
  <2>5. \A y \in DOMAIN a : Distance(i, x) <= Distance(i, y)
    BY <1>2, <2>2, <2>4 DEF Least
  <2> QED BY <2>1, <2>3, <2>5
<1>9. \A j : Near(j)' = Near(j) /\ \A x : Distance(j, x)' = Distance(j, x)
  BY <1>1 DEF Near, Distance
<1>10. ASSUME NEW k \in DOMAIN more
       PROVE  /\ more[k].frame < i + 1
              /\ \E x \in Near(more[k].frame) :
                    /\ more[k].best = b[more[k].frame] - a[x]
                    /\ \A y \in DOMAIN a :
                          Distance(more[k].frame, x) <= Distance(more[k].frame, y)
  <2>1. CASE k \in 1..n
    <3>1. more[k] = pairs[k] /\ pairs[k].frame \in Nat /\ pairs[k].frame < i
      BY <1>4, <1>5, <1>7, <2>1
    <3>2. pairs[k].frame < i + 1
      BY <1>2, <3>1
    <3> QED BY <1>7, <2>1, <3>1, <3>2
  <2>2. CASE k = n + 1
    <3>1. more[k].frame = i /\ more[k].best = best /\ i < i + 1
      BY <1>2, <1>3, <1>5, <2>2
    <3> QED BY <1>8, <3>1
  <2> QED BY <1>5, <1>6, <2>1, <2>2
<1>11. ASSUME NEW j \in 1..i, Near(j) # {}
       PROVE  \E k \in DOMAIN more : more[k].frame = j
  <2>1. CASE j = i
    <3>1. n + 1 \in DOMAIN more /\ more[n + 1].frame = i
      BY <1>3, <1>4, <1>5
    <3> QED BY <2>1, <3>1
  <2>2. CASE j # i
    <3>1. j \in 1..(i - 1)
      BY <1>2, <2>2
    <3>2. PICK k \in 1..n : pairs[k].frame = j
      BY <1>4, <1>11, <3>1 DEF IInv, NearestPaired
    <3>3. k \in DOMAIN more /\ more[k].frame = j
      BY <1>4, <1>5, <3>2
    <3> QED BY <3>3
  <2> QED BY <2>1, <2>2
<1>12. ASSUME NEW k \in DOMAIN more, NEW l \in DOMAIN more, k < l
       PROVE  more[k].frame < more[l].frame
  <2>1. k \in 1..n
    BY <1>4, <1>5, <1>12
  <2>2. CASE l \in 1..n
    <3>1. pairs[k].frame < pairs[l].frame
      BY <1>4, <1>12, <2>1, <2>2 DEF IInv, NearestPaired
    <3> QED BY <1>5, <2>1, <2>2, <3>1
  <2>3. CASE l = n + 1
    BY <1>3, <1>5, <1>7, <2>1, <2>3
  <2> QED BY <1>5, <1>6, <2>2, <2>3
<1>13. i' - 1 = i
  BY <1>1, <1>2
<1> QED BY <1>1, <1>5, <1>9, <1>10, <1>11, <1>12, <1>13 DEF NearestPaired

LEMMA PairIInv == ASSUME IInv, Pair PROVE IInv'
<1>1. /\ UNCHANGED <<a, b, ia_lo, ia, best>> /\ pc = "pair" /\ i' = i + 1
      /\ pc' = (IF i = Len(b) THEN "report" ELSE "skip")
  BY DEF Pair
<1>2. NearestPaired' /\ pairs' \in Seq(Entries)
  <2>1. CASE best = None
    BY <2>1, PairNothing DEF Pair, IInv, Typed
  <2>2. CASE best # None
    BY <2>2, PairNearest
  <2> QED BY <2>1, <2>2
<1>3. i \in 1..Len(b) /\ Len(b) \in Nat /\ bv \in Int /\ lo = bv - W_US /\ W_US \in Nat
  BY <1>1, Captured, Constants DEF IInv
<1>4. Typed'
  <2>1. i + 1 \in 1..(Len(b) + 1) /\ (i # Len(b) => i + 1 <= Len(b))
    BY <1>3
  <2> QED BY <1>1, <1>2, <2>1 DEF IInv, Typed
<1>5. Behind'
  <2>1. ASSUME pc' = "skip", NEW x \in 1..(ia_lo - 1) PROVE a[x] < lo'
    <3>1. i + 1 \in 1..Len(b) /\ i <= i + 1
      BY <1>1, <1>3, <2>1
    <3>2. b[i] <= b[i + 1] /\ b[i] \in Int /\ b[i + 1] \in Int
      BY <1>3, <3>1, Captured DEF IInv
    <3>3. lo' = b[i + 1] - W_US /\ lo = b[i] - W_US
      BY <1>1 DEF lo, bv
    <3>4. a[x] < lo
      BY <1>1, <2>1 DEF IInv, Behind
    <3>5. a[x] \in Int
      BY <2>1, Captured DEF IInv, Typed
    <3> QED BY <1>3, <3>2, <3>3, <3>4, <3>5
  <2> QED BY <1>1, <2>1 DEF Behind
<1> QED BY <1>1, <1>2, <1>4, <1>5 DEF IInv, Scanned

LEMMA ReportIInv == ASSUME IInv, Report \/ UNCHANGED vars PROVE IInv'
<1>1. /\ UNCHANGED <<a, b, i, ia_lo, ia, best, pairs>>
      /\ pc' = "done" \/ pc' = pc
  BY DEF Report, vars
<1>2. Near(i)' = Near(i)
  BY <1>1 DEF Near, Distance
<1>3. \A f, n : Least(f, n) => Least(f, n)'
  BY <1>1 DEF Least, Distance
<1>4. Scanned'
  BY <1>1, <1>2, <1>3 DEF IInv, Scanned
<1> QED BY <1>1, <1>4 DEF IInv, Typed, Behind, lo, bv, NearestPaired, Near, Distance

LEMMA SweepInvariant == Spec => []IInv
<1>1. IInv /\ [Next]_vars => IInv'
  BY StartIInv, SkipIInv, StartScanIInv, ScanIInv, EndScanIInv, PairIInv, ReportIInv DEF Next
<1> QED BY <1>1, InitIInv, PTL DEF Spec

(* For any two sorted captures, any window and any slack: the sweep pairs exactly the
   frames of b that have a frame of a in the window, each with a nearest one.   *)
THEOREM SweepFindsNearest == Spec => []NearestPaired
<1>1. IInv => NearestPaired
  BY DEF IInv
<1> QED BY <1>1, SweepInvariant, PTL

-----------------------------------------------------------------------------
(* The median *)

(* Every frame of a but the partner is further away than the partner. *)
LEMMA PartnerIsNearest ==
    ASSUME IInv, NEW k \in Int, Shifted(k),
           \A y \in 2..Len(a) : 2 * abs(k) < a[y] - a[y - 1],
           NEW j \in 1..Len(a), NEW x \in 1..Len(a), x # j
    PROVE  Distance(j, x) > Distance(j, j)
<1>1. /\ Len(a) \in Nat /\ DOMAIN a = 1..Len(a) /\ \A y \in 1..Len(a) : a[y] \in Int
      /\ \A y, z \in 1..Len(a) : y <= z => a[y] <= a[z]
  BY Captured DEF IInv
<1>2. b[j] = a[j] + k
  BY <1>1 DEF Shifted
<1>3. abs(k) \in Nat
  BY AbsGrows
<1> DEFINE m == abs(k)
           p == a[j]
           q == a[x]
<1>4. p \in Int /\ q \in Int
  BY <1>1
<1>5. CASE x < j
  <2>1. j \in 2..Len(a) /\ j - 1 \in 1..Len(a) /\ x <= j - 1
    BY <1>1, <1>5
  <2>2. 2 * m < p - a[j - 1] /\ q <= a[j - 1] /\ a[j - 1] \in Int
    BY <1>1, <2>1
  <2> HIDE DEF m, p, q
  <2>3. p - q > 2 * m
    BY <1>3, <1>4, <2>2 DEF m
  <2>4. abs((p + k) - q) > abs((p + k) - p)
    BY <1>4, <2>3 DEF abs, m
  <2> QED BY <1>2, <2>4 DEF Distance, p, q
<1>6. CASE x > j
  <2>1. j + 1 \in 2..Len(a) /\ j + 1 \in 1..Len(a) /\ j + 1 <= x /\ (j + 1) - 1 = j
    BY <1>1, <1>6
  <2>2. 2 * m < a[j + 1] - p /\ a[j + 1] <= q /\ a[j + 1] \in Int
    BY <1>1, <2>1
  <2> HIDE DEF m, p, q
  <2>3. q - p > 2 * m
    BY <1>3, <1>4, <2>2 DEF m
  <2>4. abs((p + k) - q) > abs((p + k) - p)
    BY <1>4, <2>3 DEF abs, m
  <2> QED BY <1>2, <2>4 DEF Distance, p, q
<1> QED BY <1>1, <1>5, <1>6

LEMMA PairsMeasure ==
    ASSUME IInv, NEW k \in Int, Shifted(k),
           \A y \in 2..Len(a) : 2 * abs(k) < a[y] - a[y - 1],
           NEW m \in 1..Len(pairs)
    PROVE  pairs[m].best = k
<1> DEFINE p == pairs[m]
           j == p.frame
<1>1. /\ Len(a) \in Nat /\ DOMAIN a = 1..Len(a) /\ \A y \in 1..Len(a) : a[y] \in Int
      /\ Len(a) = Len(b)
  BY Captured DEF IInv, Shifted
<1>2. pairs \in Seq(Entries) /\ DOMAIN pairs = 1..Len(pairs) /\ i \in 1..(Len(a) + 1)
  BY <1>1, LenProperties DEF IInv, Typed
<1>3. p \in Entries
  BY <1>2, ElementOfSeq
<1>4. /\ j < i
      /\ \E x \in Near(j) : /\ p.best = b[j] - a[x]
                            /\ \A y \in DOMAIN a : Distance(j, x) <= Distance(j, y)
  BY <1>2 DEF IInv, NearestPaired
<1>5. PICK x \in 1..Len(a) : /\ p.best = b[j] - a[x]
                             /\ \A y \in 1..Len(a) : Distance(j, x) <= Distance(j, y)
  BY <1>1, <1>4 DEF Near
<1>6. j \in 1..Len(a)
  <2>1. j \in Nat \ {0}
    BY <1>3 DEF Entries
  <2> HIDE DEF j
  <2> QED BY <1>1, <1>2, <1>4, <2>1
<1>7. b[j] = a[j] + k /\ a[j] \in Int
  BY <1>1, <1>6 DEF Shifted
<1> HIDE DEF j
<1>8. x = j
  <2> SUFFICES ASSUME x # j PROVE FALSE
    OBVIOUS
  <2>1. Distance(j, x) > Distance(j, j)
    BY <1>6, PartnerIsNearest
  <2>2. Distance(j, x) <= Distance(j, j)
    BY <1>5, <1>6
  <2>3. Distance(j, x) \in Nat /\ Distance(j, j) \in Nat
    <3>1. a[x] \in Int /\ b[j] \in Int
      BY <1>1, <1>5, <1>7
    <3>2. b[j] - a[x] \in Int /\ b[j] - a[j] \in Int
      BY <1>7, <3>1
    <3> QED BY <3>2, AbsGrows DEF Distance
  <2> QED BY <2>1, <2>2, <2>3
<1> QED BY <1>5, <1>7, <1>8

(* Sorted, equal values are what they were. *)
LEMMA SortedConstant ==
    ASSUME NEW n \in Nat, NEW k \in Int, NEW s, s = [m \in 1..n |-> k]
    PROVE  \A m \in 1..n : sorted(s)[m] = k
<1> DEFINE D == 1..n
           InOrder(p) == \A x, y \in D : x < y => s[p[x]] <= s[p[y]]
           id == [m \in D |-> m]
           order == CHOOSE p \in Bijection(D, D) : InOrder(p)
<1>1. DOMAIN s = D /\ \A m \in D : s[m] = k
  OBVIOUS
<1>2. sorted(s) = [m \in D |-> s[order[m]]]
  BY <1>1 DEF sorted
<1>3. id \in Bijection(D, D)
  BY DEF Bijection, Injection, Surjection, IsInjective
<1>4. InOrder(id)
  BY <1>1
<1>5. order \in Bijection(D, D)
  <2> HIDE DEF id
  <2> QED BY <1>3, <1>4
<1>6. order \in [D -> D]
  <2> HIDE DEF order
  <2> QED BY <1>5 DEF Bijection, Injection
<1> QED BY <1>1, <1>2, <1>6

(* The report is made of all pairs, and nothing happens behind it. *)
Reported ==
    report # None => /\ pc = "done"
                     /\ report.overlap =>
                           /\ Len(pairs) >= MinPairs
                           /\ report.median = Median(sorted([k \in DOMAIN pairs |-> pairs[k].best]))

LEMMA ReportedAlways == Spec => []Reported
<1>1. Init => Reported
  BY DEF Init, Reported
<1>2. ASSUME Typed, Reported, [Next]_vars PROVE Reported'
  <2>1. CASE Report
    <3>1. pc' = "done" /\ pairs' = pairs /\ Len(pairs) \in Nat /\ MinPairs \in Nat
      BY <1>2, <2>1, LenProperties, Constants DEF Report, Typed
    <3> DEFINE diffs == sorted([k \in DOMAIN pairs |-> pairs[k].best])
    <3>2. report' = IF Len(pairs) < MinPairs THEN [n |-> Len(pairs), overlap |-> FALSE]
                    ELSE [n |-> Len(pairs), overlap |-> TRUE, median |-> Median(diffs)]
      BY <2>1 DEF Report
    <3> HIDE DEF diffs
    <3>3. report'.overlap => ~(Len(pairs) < MinPairs) /\ report'.median = Median(diffs)
      BY <3>2
    <3>4. report'.overlap => Len(pairs) >= MinPairs
      BY <3>1, <3>3
    <3> QED BY <3>1, <3>3, <3>4 DEF Reported, diffs
  <2>2. CASE UNCHANGED vars
    BY <1>2, <2>2 DEF vars, Reported
  <2>3. CASE Start \/ SkipOlder \/ StartScan \/ Scan \/ EndScan \/ Pair
    <3>1. pc # "done" /\ report' = report
      BY <2>3 DEF Start, SkipOlder, StartScan, Scan, EndScan, Pair
    <3> QED BY <1>2, <3>1 DEF Reported
  <2> QED BY <1>2, <2>1, <2>2, <2>3 DEF Next
<1>3. IInv => Typed
  BY DEF IInv
<1> QED BY <1>1, <1>2, <1>3, SweepInvariant, PTL DEF Spec

(* If capture b is capture a with every stamp shifted by the same difference, and
   that is less than half of every interval between frames, then the median of the
   report is exactly the difference.                                         *)
THEOREM Spec_SmallShiftMeasured == Spec => []SmallShiftMeasured
<1>1. ASSUME IInv, Reported PROVE SmallShiftMeasured
  <2> DEFINE k == b[1] - a[1]
             diffs == [m \in DOMAIN pairs |-> pairs[m].best]
             n == Len(pairs)
  <2> SUFFICES ASSUME report # None, report.overlap, Shifted(k),
                      \A y \in 2..Len(a) : 2 * abs(k) < a[y] - a[y - 1]
               PROVE  report.median = k
    BY DEF SmallShiftMeasured, Overlap
  <2>1. report.median = Median(sorted(diffs)) /\ n >= MinPairs
    BY <1>1 DEF Reported
  <2>2. n \in Nat /\ DOMAIN pairs = 1..n /\ pairs \in Seq(Entries)
    BY <1>1, LenProperties DEF IInv, Typed
  <2>3. n >= 1
    BY <2>1, <2>2, Constants
  <2>4. k \in Int
    <3>1. i \in 1..(Len(b) + 1) /\ Len(a) \in Nat /\ Len(a) = Len(b)
          /\ (\A x \in 1..Len(a) : a[x] \in Int) /\ (\A x \in 1..Len(b) : b[x] \in Int)
      BY <1>1, Captured DEF IInv, Typed, Shifted
    <3>2. pairs[1] \in Entries /\ pairs[1].frame < i
      BY <1>1, <2>2, <2>3, ElementOfSeq DEF IInv, NearestPaired
    <3>3. pairs[1].frame \in Nat \ {0}
      BY <3>2 DEF Entries
    <3>4. 1 \in 1..Len(a) /\ 1 \in 1..Len(b)
      <4> DEFINE f == pairs[1].frame
      <4>1. f \in Nat \ {0} /\ f < i
        BY <3>2, <3>3
      <4> HIDE DEF f
      <4> QED BY <3>1, <4>1
    <3> QED BY <3>1, <3>4
  <2> HIDE DEF k
  <2>5. \A m \in 1..n : pairs[m].best = k
    BY <1>1, <2>4, PairsMeasure
  <2>6. diffs = [m \in 1..n |-> k]
    BY <2>2, <2>5
  <2> HIDE DEF diffs, n
  <2>7. \A m \in 1..n : sorted(diffs)[m] = k
    BY <2>2, <2>4, <2>6, SortedConstant
  <2>8. Len(sorted(diffs)) = n
    <3>1. DOMAIN diffs = 1..n
      BY <2>6
    <3>2. DOMAIN sorted(diffs) = 1..n
      BY <3>1 DEF sorted
    <3>3. sorted(diffs) \in Seq(Int)
      <4>1. sorted(diffs) = [m \in 1..n |-> sorted(diffs)[m]]
        BY <3>1 DEF sorted
      <4>2. sorted(diffs) \in [1..n -> Int]
        BY <2>4, <2>7, <4>1
      <4> QED BY <2>2, <4>2
    <3> QED BY <2>2, <3>2, <3>3, LenProperties
  <2>9. n \div 2 + 1 \in 1..n
    BY <2>2, <2>3
  <2>10. Median(sorted(diffs)) = k
    BY <2>7, <2>8, <2>9 DEF Median
  <2> QED BY <2>1, <2>10
<1> QED BY <1>1, ReportedAlways, SweepInvariant, PTL
=============================================================================
