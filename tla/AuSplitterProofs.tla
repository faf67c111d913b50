-------------------------- MODULE AuSplitterProofs ---------------------------
(* Theorems about SeiPayload, H26xUtil and AuSplitter, for any width of the fields,
   any video and any sizes of the reads: first of the bytes of a stamp, then of
   the splitter, of the parameter sets, of packets, and of what becomes of a stamp.

   The operators are loops over bytes, written as recursive functions.  Each is
   shown to exist (LoopExists), and what it computes by Induction over the bytes. *)
EXTENDS AuSplitter, SequenceTheorems, NaturalsInduction, WellFoundedInduction, TLAPS

Byte == 0..255

-----------------------------------------------------------------------------
(* Numbers, induction and recursion *)

(* A set of numbers that is not empty has a first one. *)
LEMMA FirstNumber ==
    ASSUME NEW T, T \subseteq Nat, T # {}
    PROVE  \E x \in T : \A y \in T : x <= y
<1> DEFINE R == OpToRel(<, Nat)
<1>1. IsWellFoundedOn(R, Nat)
  BY NatLessThanWellFounded, Zenon
<1> HIDE DEF R
<1>2. PICK x \in T : \A y \in T : ~(<<y, x>> \in R)
  BY <1>1, WFMin
<1>3. \A m, n \in Nat : n < m => <<n, m>> \in R
  BY DEF R, OpToRel
<1>4. \A y \in T : ~(y < x)
  BY <1>2, <1>3
<1> QED BY <1>4

LEMMA MinIsFirst ==
    ASSUME NEW T, T \subseteq Nat, T # {}
    PROVE  Min(T) \in T /\ \A y \in T : Min(T) <= y
BY FirstNumber DEF Min

LEMMA MaxIsLast ==
    ASSUME NEW T, T \subseteq Nat, T # {}, NEW high \in Nat, \A x \in T : x <= high
    PROVE  Max(T) \in T /\ \A y \in T : y <= Max(T)
<1> DEFINE D == {high - x : x \in T}
<1>1. D \subseteq Nat /\ D # {}
  <2>1. \A x \in T : high - x \in Nat
    OBVIOUS
  <2> QED BY <2>1
<1>2. PICK d \in D : \A e \in D : d <= e
  <2> HIDE DEF D
  <2> QED BY <1>1, FirstNumber
<1>3. PICK x \in T : d = high - x
  BY <1>2
<1>4. \A y \in T : y <= x
  <2> TAKE y \in T
  <2>1. high - y \in D
    OBVIOUS
  <2>2. high - x <= high - y
    <3> HIDE DEF D
    <3> QED BY <1>2, <1>3, <2>1
  <2> QED BY <2>2
<1> QED BY <1>4 DEF Max

(* What holds of 0, and of n + 1 if it does of n, holds up to any number. *)
LEMMA Induction ==
    ASSUME NEW n \in Nat, NEW T, 0 \in T,
           \A i \in 0..(n - 1) : i \in T => i + 1 \in T
    PROVE  \A i \in 0..n : i \in T
<1> DEFINE M == {i \in 0..n : i \notin T}
<1> SUFFICES ASSUME M # {} PROVE FALSE
  OBVIOUS
<1>1. PICK x \in M : \A y \in M : x <= y
  <2>1. M \subseteq Nat
    OBVIOUS
  <2> HIDE DEF M
  <2> QED BY <2>1, FirstNumber
<1>2. x \in 1..n /\ x \notin T
  OBVIOUS
<1>3. x - 1 \in 0..(n - 1) /\ x - 1 \in 0..n /\ (x - 1) + 1 = x
  BY <1>2
<1>4. x - 1 \in T
  <2> SUFFICES ASSUME x - 1 \notin T PROVE FALSE
    OBVIOUS
  <2>1. x <= x - 1
    BY <1>1, <1>3
  <2> QED BY <1>2, <2>1
<1> QED BY <1>2, <1>3, <1>4

(* A loop: a state before the first turn, and what the i-th turn makes of it. *)
IsLoop(f, n, S, s0, F) ==
    /\ f \in [0..n -> S] /\ f[0] = s0
    /\ \A i \in 1..n : f[i] = F[<<i, f[i - 1]>>]

LEMMA LoopExists ==
    ASSUME NEW S, NEW s0 \in S, NEW n \in Nat, NEW F \in [(1..n) \X S -> S]
    PROVE  \E f : IsLoop(f, n, S, s0, F)
<1> DEFINE T == {m \in 0..n : \E f : IsLoop(f, m, S, s0, F)}
<1>1. 0 \in T
  <2>1. IsLoop([i \in 0..0 |-> s0], 0, S, s0, F)
    BY DEF IsLoop
  <2> QED BY <2>1
<1>2. ASSUME NEW m \in 0..(n - 1), m \in T PROVE m + 1 \in T
  <2>1. PICK f : IsLoop(f, m, S, s0, F)
    BY <1>2
  <2> DEFINE g == [i \in 0..(m + 1) |-> IF i <= m THEN f[i] ELSE F[<<m + 1, f[m]>>]]
  <2>2. f[m] \in S /\ m + 1 \in 1..n
    BY <2>1 DEF IsLoop
  <2>3. F[<<m + 1, f[m]>>] \in S
    BY <2>2
  <2>4. g \in [0..(m + 1) -> S] /\ g[0] = s0
    BY <2>1, <2>3 DEF IsLoop
  <2>5. ASSUME NEW i \in 1..(m + 1) PROVE g[i] = F[<<i, g[i - 1]>>]
    <3>1. i - 1 \in 0..m /\ g[i - 1] = f[i - 1]
      OBVIOUS
    <3>2. CASE i <= m
      BY <2>1, <3>1, <3>2 DEF IsLoop
    <3>3. CASE ~(i <= m)
      <4>1. i = m + 1 /\ g[i] = F[<<m + 1, f[m]>>]
        BY <3>3
      <4>2. i - 1 = m
        BY <4>1
      <4> QED BY <3>1, <4>1, <4>2
    <3> QED BY <3>2, <3>3
  <2>6. IsLoop(g, m + 1, S, s0, F)
    <3> HIDE DEF g
    <3> QED BY <2>4, <2>5 DEF IsLoop
  <2> QED BY <2>2, <2>6
<1>3. n \in T
  <2> HIDE DEF T
  <2>1. \A i \in 0..n : i \in T
    BY <1>1, <1>2, Induction
  <2> QED BY <2>1
<1> QED BY <1>3

(* A function that obeys the equation of a loop, where that is known to stay in
   S, is that loop.                                                         *)
LEMMA LoopTyped ==
    ASSUME NEW S, NEW s0 \in S, NEW n \in Nat, NEW F \in [(1..n) \X S -> S],
           NEW e, e = [i \in 0..n |-> e[i]], e[0] = s0,
           \A i \in 1..n : e[i - 1] \in S => e[i] = F[<<i, e[i - 1]>>]
    PROVE  IsLoop(e, n, S, s0, F)
<1> DEFINE T == {i \in 0..n : e[i] \in S}
<1>1. 0 \in T
  OBVIOUS
<1>2. ASSUME NEW i \in 0..(n - 1), i \in T PROVE i + 1 \in T
  <2>1. i + 1 \in 1..n /\ (i + 1) - 1 = i /\ e[i] \in S
    BY <1>2
  <2>2. e[i + 1] = F[<<i + 1, e[i]>>]
    BY <2>1
  <2> QED BY <2>1, <2>2
<1>3. \A i \in 0..n : e[i] \in S
  <2> HIDE DEF T
  <2>1. \A i \in 0..n : i \in T
    BY <1>1, <1>2, Induction
  <2> QED BY <2>1 DEF T
<1>4. e \in [0..n -> S]
  BY <1>3
<1>5. \A i \in 1..n : i - 1 \in 0..n
  OBVIOUS
<1> QED BY <1>3, <1>4, <1>5 DEF IsLoop

-----------------------------------------------------------------------------
(* The loops of SeiPayload *)

State == [out : Seq(Byte), zeros : Nat]

EscapeStep(bytes) ==
    [q \in (1..Len(bytes)) \X State |-> EscapeByte(q[2], bytes[q[1]])]

LEMMA EscapeByteTyped ==
    ASSUME NEW s \in State, NEW b \in Byte
    PROVE  EscapeByte(s, b) \in State
<1>1. 3 \in Byte /\ s.out \in Seq(Byte) /\ s.zeros \in Nat
  BY DEF Byte, State
<1>2. Append(s.out, b) \in Seq(Byte) /\ s.out \o <<3, b>> \in Seq(Byte)
  <2>1. <<3, b>> \in Seq(Byte)
    BY <1>1
  <2> QED BY <1>1, <2>1, AppendProperties, ConcatProperties
<1>3. \A z \in Nat : ZerosAfter(z, b) \in Nat
  BY DEF ZerosAfter
<1> QED BY <1>1, <1>2, <1>3 DEF EscapeByte, State

LEMMA EscapeLoop ==
    ASSUME NEW before \in Nat, NEW bytes \in Seq(Byte)
    PROVE  \E f : /\ IsLoop(f, Len(bytes), State, [out |-> <<>>, zeros |-> before],
                            EscapeStep(bytes))
                  /\ Escape(before, bytes) = f[Len(bytes)].out
<1> DEFINE n == Len(bytes)
           s0 == [out |-> <<>>, zeros |-> before]
           F == EscapeStep(bytes)
           P(f) == f = [i \in 0..n |-> IF i = 0 THEN s0 ELSE EscapeByte(f[i - 1], bytes[i])]
           e == CHOOSE f : P(f)
<1>1. n \in Nat /\ s0 \in State /\ \A i \in 1..n : bytes[i] \in Byte
  BY LenProperties, ElementOfSeq, EmptySeq DEF State
<1>2. F \in [(1..n) \X State -> State]
  BY <1>1, EscapeByteTyped DEF EscapeStep
<1>3. \A i \in 1..n, s \in State : F[<<i, s>>] = EscapeByte(s, bytes[i])
  BY DEF EscapeStep
<1>4. Escape(before, bytes) = e[n].out
  BY DEF Escape
<1> HIDE DEF n, s0, F
<1>5. PICK f : IsLoop(f, n, State, s0, F)
  BY <1>1, <1>2, LoopExists
<1>6. P(f)
  <2>1. f \in [0..n -> State] /\ f[0] = s0
    BY <1>5 DEF IsLoop
  <2>2. \A i \in 0..n : i # 0 => i \in 1..n /\ i - 1 \in 0..n
    BY <1>1
  <2>3. \A i \in 1..n : i - 1 \in 0..n => f[i] = EscapeByte(f[i - 1], bytes[i])
    BY <1>3, <1>5, <2>1 DEF IsLoop
  <2> QED BY <2>1, <2>2, <2>3
<1>7. P(e)
  BY <1>6
<1> HIDE DEF e
<1>8. e = [i \in 0..n |-> e[i]] /\ e[0] = s0
  BY <1>1, <1>7
<1>9. \A i \in 1..n : e[i] = EscapeByte(e[i - 1], bytes[i])
  BY <1>1, <1>7
<1>10. IsLoop(e, n, State, s0, F)
  BY <1>1, <1>2, <1>3, <1>8, <1>9, LoopTyped
<1> QED BY <1>4, <1>10 DEF n, s0, F

-----------------------------------------------------------------------------
(* The bytes of a SEI *)

LEMMA Joined ==
    ASSUME NEW s \in Seq(Byte), NEW t \in Seq(Byte)
    PROVE  s \o t \in Seq(Byte) /\ Len(s \o t) = Len(s) + Len(t)
BY ConcatProperties

LEMMA JoinedAt ==
    ASSUME NEW s \in Seq(Byte), NEW t \in Seq(Byte), NEW i \in 1..Len(s \o t)
    PROVE  (s \o t)[i] = IF i <= Len(s) THEN s[i] ELSE t[i - Len(s)]
<1>1. i \in 1..(Len(s) + Len(t))
  BY Joined
<1> QED BY <1>1, ConcatProperties

ShiftStep(w) == [q \in (1..w) \X Int |-> q[2] \div 256]

LEMMA ShiftLoop ==
    ASSUME NEW v \in Int, NEW w \in Nat
    PROVE  IsLoop(Shifted(v, w), w, Int, v, ShiftStep(w))
<1> DEFINE F == ShiftStep(w)
           P(f) == f = [k \in 0..w |-> IF k = 0 THEN v ELSE f[k - 1] \div 256]
           e == CHOOSE f : P(f)
<1>1. F \in [(1..w) \X Int -> Int] /\ \A k \in 1..w, x \in Int : F[<<k, x>>] = x \div 256
  BY DEF ShiftStep
<1>2. Shifted(v, w) = e
  BY DEF Shifted
<1> HIDE DEF F
<1>3. PICK f : IsLoop(f, w, Int, v, F)
  BY <1>1, LoopExists
<1>4. P(f)
  <2>1. f \in [0..w -> Int] /\ f[0] = v
    BY <1>3 DEF IsLoop
  <2>2. \A k \in 0..w : k # 0 => k \in 1..w /\ k - 1 \in 0..w
    OBVIOUS
  <2>3. \A k \in 1..w : k - 1 \in 0..w => f[k] = f[k - 1] \div 256
    <3> TAKE k \in 1..w
    <3> HAVE k - 1 \in 0..w
    <3>1. f[k] = F[<<k, f[k - 1]>>] /\ f[k - 1] \in Int
      BY <1>3, <2>1 DEF IsLoop
    <3> QED BY <1>1, <3>1
  <2> QED BY <2>1, <2>2, <2>3
<1>5. P(e)
  BY <1>4
<1> HIDE DEF e
<1>6. e = [k \in 0..w |-> e[k]] /\ e[0] = v
  BY <1>5
<1>7. \A k \in 1..w : e[k - 1] \in Int => e[k] = F[<<k, e[k - 1]>>]
  <2>1. \A k \in 1..w : e[k] = e[k - 1] \div 256
    BY <1>5
  <2> QED BY <1>1, <2>1
<1>8. IsLoop(e, w, Int, v, F)
  BY <1>1, <1>6, <1>7, LoopTyped
<1> QED BY <1>2, <1>8 DEF F

LEMMA BigEndianTyped ==
    ASSUME NEW v \in Int, NEW w \in Nat
    PROVE  BigEndian(v, w) \in Seq(Byte) /\ Len(BigEndian(v, w)) = w
<1>1. Shifted(v, w) \in [0..w -> Int]
  BY ShiftLoop DEF IsLoop
<1>2. \A i \in 1..w : w - i \in 0..w
  OBVIOUS
<1>3. \A i \in 1..w : Shifted(v, w)[w - i] % 256 \in Byte
  <2>1. \A x \in Int : x % 256 \in Byte
    BY DEF Byte
  <2>2. \A i \in 1..w : Shifted(v, w)[w - i] \in Int
    BY <1>1, <1>2
  <2> QED BY <2>1, <2>2
<1>4. BigEndian(v, w) \in [1..w -> Byte]
  BY <1>3 DEF BigEndian
<1> QED BY <1>4

(* What a stamp may contain: what VideosAssumption says of it. *)
Infos == [key : BOOLEAN, ntp : BOOLEAN, seq : Nat, pts : Int, rt : Int]

LEMMA PayloadSizeNat ==
    Len(UUID) \in Nat /\ PayloadSize \in Nat /\ UUID \in Seq(Byte)
<1>1. UUID \in Seq(Byte) /\ SeqBytes \in Nat /\ TimeBytes \in Nat
  BY PayloadAssumption DEF Byte
<1> QED BY <1>1, LenProperties DEF PayloadSize

LEMMA RawPayloadTyped ==
    ASSUME NEW info \in Infos
    PROVE  RawPayload(info) \in Seq(Byte) /\ Len(RawPayload(info)) = PayloadSize
<1> DEFINE head == <<1, Flags(info)>>
           seq == BigEndian(info.seq, SeqBytes)
           pts == BigEndian(info.pts, TimeBytes)
           rt == BigEndian(info.rt, TimeBytes)
<1>1. SeqBytes \in Nat /\ TimeBytes \in Nat /\ UUID \in Seq(Byte) /\ Len(UUID) \in Nat
  BY PayloadSizeNat, PayloadAssumption
<1>2. Flags(info) \in Byte
  BY DEF Flags, Byte
<1>3. head \in Seq(Byte) /\ Len(head) = 2
  <2>1. 1 \in Byte
    BY DEF Byte
  <2> QED BY <1>2, <2>1
<1>4. info.seq \in Int /\ info.pts \in Int /\ info.rt \in Int
  BY DEF Infos
<1>5. /\ seq \in Seq(Byte) /\ Len(seq) = SeqBytes
      /\ pts \in Seq(Byte) /\ Len(pts) = TimeBytes
      /\ rt \in Seq(Byte) /\ Len(rt) = TimeBytes
  BY <1>1, <1>4, BigEndianTyped
<1>6. RawPayload(info) = UUID \o head \o seq \o pts \o rt
  BY DEF RawPayload
<1> HIDE DEF head, seq, pts, rt
<1>7. UUID \o head \in Seq(Byte) /\ Len(UUID \o head) = Len(UUID) + 2
  BY <1>1, <1>3, Joined
<1>8. /\ UUID \o head \o seq \in Seq(Byte)
      /\ Len(UUID \o head \o seq) = Len(UUID) + 2 + SeqBytes
  BY <1>5, <1>7, Joined
<1>9. /\ UUID \o head \o seq \o pts \in Seq(Byte)
      /\ Len(UUID \o head \o seq \o pts) = Len(UUID) + 2 + SeqBytes + TimeBytes
  BY <1>5, <1>8, Joined
<1>10. /\ UUID \o head \o seq \o pts \o rt \in Seq(Byte)
       /\ Len(UUID \o head \o seq \o pts \o rt) = Len(UUID) + 2 + SeqBytes + TimeBytes + TimeBytes
  BY <1>5, <1>9, Joined
<1> QED BY <1>1, <1>6, <1>10 DEF PayloadSize

LEMMA TrailingZerosProperties ==
    ASSUME NEW bytes \in Seq(Byte)
    PROVE  /\ TrailingZeros(bytes) \in Nat
           /\ \A k \in 1..Len(bytes) :
                 (\A i \in k..Len(bytes) : bytes[i] = 0)
                    => TrailingZeros(bytes) >= Len(bytes) - k + 1
<1> DEFINE n == Len(bytes)
           I == {i \in 1..n : bytes[i] # 0}
<1>1. n \in Nat /\ I \subseteq Nat /\ (\A i \in I : i <= n) /\ I \subseteq 1..n
  BY LenProperties
<1>2. TrailingZeros(bytes) = n - (IF I # {} THEN Max(I) ELSE 0)
  BY DEF TrailingZeros, SelectLastInSeq
<1>3. \A k \in 1..n : (\A i \in k..n : bytes[i] = 0) => \A i \in I : i <= k - 1
  <2> TAKE k \in 1..n
  <2> HAVE \A i \in k..n : bytes[i] = 0
  <2> TAKE i \in I
  <2>1. i \in 1..n /\ i \notin k..n
    OBVIOUS
  <2> HIDE DEF I, n
  <2> QED BY <1>1, <2>1
<1> HIDE DEF I, n
<1>4. CASE I # {}
  <2>1. Max(I) \in I
    BY <1>1, <1>4, MaxIsLast
  <2>2. Max(I) \in 1..n /\ TrailingZeros(bytes) = n - Max(I)
    BY <1>1, <1>2, <1>4, <2>1
  <2>3. \A k \in 1..n : (\A i \in k..n : bytes[i] = 0) => Max(I) <= k - 1
    BY <1>3, <2>1
  <2> QED BY <1>1, <2>2, <2>3 DEF n
<1>5. CASE I = {}
  BY <1>1, <1>2, <1>5 DEF n
<1> QED BY <1>4, <1>5

(* What has been written, and how many zeros the next byte is written behind:
   behind the first start code no start code, nor what could be one.         *)
NothingLike(d) ==
    \A i \in 3..(Len(d) - 2) : d[i] = 0 /\ d[i + 1] = 0 => d[i + 2] >= 3

Escaped(d, zeros) ==
    /\ d \in Seq(Byte) /\ zeros \in Nat /\ Len(d) >= 4
    /\ NothingLike(d)
    /\ d[Len(d)] = 0 => zeros >= 1
    /\ d[Len(d)] = 0 /\ d[Len(d) - 1] = 0 => zeros >= 2

(* A byte that needs no stuffing. *)
LEMMA EscapedPlain ==
    ASSUME NEW d, NEW zeros, Escaped(d, zeros), NEW b \in Byte, ~NeedsStuffing(zeros, b)
    PROVE  Escaped(Append(d, b), ZerosAfter(zeros, b))
<1> DEFINE n == Len(d)
           e == Append(d, b)
<1>1. d \in Seq(Byte) /\ zeros \in Nat /\ n \in Nat /\ n >= 4
  BY LenProperties DEF Escaped
<1>2. e \in Seq(Byte) /\ Len(e) = n + 1 /\ e[n + 1] = b /\ \A i \in 1..n : e[i] = d[i]
  BY <1>1, AppendProperties
<1>3. (d[n] = 0 => zeros >= 1) /\ (d[n] = 0 /\ d[n - 1] = 0 => zeros >= 2)
  BY DEF Escaped
<1>4. \A i \in 3..(n - 2) : d[i] = 0 /\ d[i + 1] = 0 => d[i + 2] >= 3
  BY DEF Escaped, NothingLike
<1>5. zeros < 2 \/ b > 3
  BY <1>1 DEF NeedsStuffing, Byte
<1> HIDE DEF n, e
<1>6. e[n] = d[n] /\ e[n - 1] = d[n - 1]
  BY <1>1, <1>2
<1>7. ASSUME NEW i \in 3..(n - 1), e[i] = 0, e[i + 1] = 0 PROVE e[i + 2] >= 3
  <2>1. CASE i <= n - 2
    <3>1. i \in 3..(n - 2) /\ i \in 1..n /\ i + 1 \in 1..n /\ i + 2 \in 1..n
      BY <1>1, <2>1
    <3>2. e[i] = d[i] /\ e[i + 1] = d[i + 1] /\ e[i + 2] = d[i + 2]
      BY <1>2, <3>1
    <3> QED BY <1>4, <1>7, <3>1, <3>2
  <2>2. CASE i = n - 1
    <3>1. i + 1 = n /\ i + 2 = n + 1
      BY <1>1, <2>2
    <3>2. d[n] = 0 /\ d[n - 1] = 0
      BY <1>6, <1>7, <2>2, <3>1
    <3>3. e[i + 2] = b
      BY <1>2, <3>1
    <3> QED BY <1>1, <1>3, <1>5, <3>2, <3>3 DEF Byte
  <2> QED BY <1>1, <2>1, <2>2
<1>8. NothingLike(e)
  <2>1. Len(e) - 2 = n - 1
    BY <1>1, <1>2
  <2> QED BY <1>7, <2>1 DEF NothingLike
<1>9. ZerosAfter(zeros, b) \in Nat /\ (b = 0 => ZerosAfter(zeros, b) = zeros + 1)
  BY <1>1 DEF ZerosAfter
<1>10. e[Len(e)] = 0 => ZerosAfter(zeros, b) >= 1
  BY <1>1, <1>2, <1>9
<1>11. e[Len(e)] = 0 /\ e[Len(e) - 1] = 0 => ZerosAfter(zeros, b) >= 2
  <2> SUFFICES ASSUME e[Len(e)] = 0, e[Len(e) - 1] = 0 PROVE ZerosAfter(zeros, b) >= 2
    OBVIOUS
  <2>1. Len(e) - 1 = n
    BY <1>1, <1>2
  <2>2. b = 0 /\ d[n] = 0
    BY <1>2, <1>6, <2>1
  <2> QED BY <1>1, <1>3, <1>9, <2>2
<1>12. Len(e) >= 4
  BY <1>1, <1>2
<1> QED BY <1>2, <1>8, <1>9, <1>10, <1>11, <1>12 DEF Escaped, e

(* A byte behind a 3, which no start code contains. *)
LEMMA EscapedStuffed ==
    ASSUME NEW d, NEW zeros, Escaped(d, zeros), NEW b \in Byte
    PROVE  Escaped(Append(Append(d, 3), b), ZerosAfter(0, b))
<1>1. d \in Seq(Byte) /\ zeros \in Nat
  BY DEF Escaped
<1> DEFINE n == Len(d)
           e == Append(d, 3)
<1>2. e \in Seq(Byte) /\ Len(e) = n + 1 /\ e[n + 1] = 3 /\ \A i \in 1..n : e[i] = d[i]
  <2>1. 3 \in Byte
    BY DEF Byte
  <2> QED BY <1>1, <2>1, AppendProperties
<1>3. n \in Nat /\ n >= 4
  BY <1>1, LenProperties DEF Escaped
<1>4. \A i \in 3..(n - 2) : d[i] = 0 /\ d[i + 1] = 0 => d[i + 2] >= 3
  BY DEF Escaped, NothingLike
<1> HIDE DEF n, e
<1>5. ASSUME NEW i \in 3..(n - 1), e[i] = 0, e[i + 1] = 0 PROVE e[i + 2] >= 3
  <2>1. CASE i <= n - 2
    <3>1. i \in 3..(n - 2) /\ i \in 1..n /\ i + 1 \in 1..n /\ i + 2 \in 1..n
      BY <1>3, <2>1
    <3>2. e[i] = d[i] /\ e[i + 1] = d[i + 1] /\ e[i + 2] = d[i + 2]
      BY <1>2, <3>1
    <3> QED BY <1>4, <1>5, <3>1, <3>2
  <2>2. CASE i = n - 1
    <3>1. i + 2 = n + 1
      BY <1>3, <2>2
    <3> QED BY <1>2, <3>1
  <2> QED BY <1>3, <2>1, <2>2
<1>6. NothingLike(e)
  <2>1. Len(e) - 2 = n - 1
    BY <1>2, <1>3
  <2> QED BY <1>5, <2>1 DEF NothingLike
<1>7. e[Len(e)] = 3 /\ Len(e) >= 4
  BY <1>2, <1>3
<1>8. Escaped(e, 0)
  BY <1>2, <1>6, <1>7 DEF Escaped
<1>9. ~NeedsStuffing(0, b)
  BY DEF NeedsStuffing
<1> QED BY <1>8, <1>9, EscapedPlain DEF e

LEMMA Associative ==
    ASSUME NEW s \in Seq(Byte), NEW t \in Seq(Byte), NEW u \in Seq(Byte)
    PROVE  s \o (t \o u) = (s \o t) \o u
BY ConcatAssociative

LEMMA Regrouped ==
    ASSUME NEW s \in Seq(Byte), NEW t \in Seq(Byte), NEW b \in Byte
    PROVE  s \o Append(t, b) = Append(s \o t, b)
<1>1. Append(t, b) = t \o <<b>> /\ s \o t \in Seq(Byte) /\ <<b>> \in Seq(Byte)
  BY Joined, AppendIsConcat
<1>2. Append(s \o t, b) = (s \o t) \o <<b>>
  BY <1>1, AppendIsConcat
<1> QED BY <1>1, <1>2, ConcatAssociative

LEMMA PairProperties ==
    ASSUME NEW s \in Seq(Byte), NEW b \in Byte
    PROVE  /\ s \o <<3, b>> = Append(Append(s, 3), b)
           /\ s \o <<3, b>> \in Seq(Byte)
           /\ Len(s \o <<3, b>>) = Len(s) + 2
<1>1. 3 \in Byte
  BY DEF Byte
<1>2. <<3>> \in Seq(Byte) /\ <<3, b>> \in Seq(Byte) /\ Len(<<3, b>>) = 2
  BY <1>1
<1>3. <<3, b>> = Append(<<3>>, b)
  OBVIOUS
<1>4. s \o Append(<<3>>, b) = Append(s \o <<3>>, b)
  BY <1>2, Regrouped
<1>5. s \o <<3>> = Append(s, 3)
  BY <1>1, AppendIsConcat
<1> QED BY <1>2, <1>3, <1>4, <1>5, Joined

LEMMA RegroupedPair ==
    ASSUME NEW s \in Seq(Byte), NEW t \in Seq(Byte), NEW b \in Byte
    PROVE  /\ t \o <<3, b>> = Append(Append(t, 3), b)
           /\ s \o (t \o <<3, b>>) = Append(Append(s \o t, 3), b)
<1>1. 3 \in Byte
  BY DEF Byte
<1>2. Append(t, 3) \in Seq(Byte)
  BY <1>1, AppendProperties
<1>3. t \o <<3, b>> = Append(Append(t, 3), b)
  BY PairProperties
<1>4. s \o Append(t, 3) = Append(s \o t, 3)
  BY <1>1, Regrouped
<1>5. s \o Append(Append(t, 3), b) = Append(s \o Append(t, 3), b)
  BY <1>2, Regrouped
<1> QED BY <1>3, <1>4, <1>5

(* Whatever the bytes, what is written stays free of emulated start codes, and
   at most one byte is stuffed before each.                                  *)
LEMMA EscapeKeepsEscaped ==
    ASSUME NEW head, NEW before, Escaped(head, before), NEW bytes \in Seq(Byte)
    PROVE  /\ Escape(before, bytes) \in Seq(Byte)
           /\ Len(Escape(before, bytes)) <= 2 * Len(bytes)
           /\ \E zeros : Escaped(head \o Escape(before, bytes), zeros)
<1> DEFINE n == Len(bytes)
           s0 == [out |-> <<>>, zeros |-> before]
           F == EscapeStep(bytes)
<1>1. head \in Seq(Byte) /\ before \in Nat
  BY DEF Escaped
<1>2. n \in Nat /\ \A i \in 1..n : bytes[i] \in Byte
  BY LenProperties, ElementOfSeq
<1>3. PICK f : IsLoop(f, n, State, s0, F) /\ Escape(before, bytes) = f[n].out
  BY <1>1, EscapeLoop
<1>4. \A i \in 1..n, s \in State : F[<<i, s>>] = EscapeByte(s, bytes[i])
  BY DEF EscapeStep
<1>5. f[0].out = <<>> /\ f[0].zeros = before /\ f \in [0..n -> State]
  BY <1>3 DEF IsLoop
<1>6. ASSUME NEW i \in 0..(n - 1)
      PROVE  i \in 0..n /\ i + 1 \in 0..n /\ f[i] \in State
             /\ bytes[i + 1] \in Byte /\ f[i + 1] = EscapeByte(f[i], bytes[i + 1])
  <2> HIDE DEF n, s0, F
  <2>1. i \in 0..n /\ i + 1 \in 1..n /\ i + 1 \in 0..n /\ (i + 1) - 1 = i
    BY <1>2
  <2>2. f[i] \in State
    BY <1>5, <2>1
  <2>3. f[i + 1] = F[<<i + 1, f[i]>>]
    BY <1>3, <2>1 DEF IsLoop
  <2> QED BY <1>2, <1>4, <2>1, <2>2, <2>3
<1> HIDE DEF n, s0, F
<1> DEFINE T == {i \in 0..n : /\ Escaped(head \o f[i].out, f[i].zeros)
                              /\ Len(f[i].out) <= 2 * i}
<1>7. 0 \in T
  <2>1. head \o <<>> = head /\ Len(<<>>) = 0
    BY <1>1, ConcatEmptySeq
  <2> QED BY <1>2, <1>5, <2>1
<1>8. ASSUME NEW i \in 0..(n - 1), i \in T PROVE i + 1 \in T
  <2> DEFINE b == bytes[i + 1]
             out == f[i].out
             zeros == f[i].zeros
  <2>1. Escaped(head \o out, zeros) /\ Len(out) <= 2 * i
    BY <1>8
  <2>2. b \in Byte /\ f[i] \in State /\ i + 1 \in 0..n
        /\ f[i + 1] = EscapeByte(f[i], b)
    BY <1>6
  <2>3. out \in Seq(Byte) /\ Len(out) \in Nat
    BY <2>2, LenProperties DEF State
  <2> HIDE DEF b, out, zeros
  <2>4. CASE ~NeedsStuffing(zeros, b)
    <3>1. f[i + 1] = [out |-> Append(out, b), zeros |-> ZerosAfter(zeros, b)]
      BY <2>2, <2>4 DEF EscapeByte, out, zeros
    <3>2. head \o Append(out, b) = Append(head \o out, b)
      BY <1>1, <2>2, <2>3, Regrouped
    <3>3. Escaped(head \o Append(out, b), ZerosAfter(zeros, b))
      BY <2>1, <2>2, <2>4, <3>2, EscapedPlain
    <3>4. Len(Append(out, b)) = Len(out) + 1
      BY <2>2, <2>3, AppendProperties
    <3>5. Len(Append(out, b)) <= 2 * (i + 1)
      BY <2>1, <2>3, <3>4
    <3>6. f[i + 1].out = Append(out, b) /\ f[i + 1].zeros = ZerosAfter(zeros, b)
      BY <3>1
    <3> QED BY <2>2, <3>3, <3>5, <3>6
  <2>5. CASE NeedsStuffing(zeros, b)
    <3>1. f[i + 1] = [out |-> out \o <<3, b>>, zeros |-> ZerosAfter(0, b)]
      BY <2>2, <2>5 DEF EscapeByte, out, zeros
    <3>2. /\ out \o <<3, b>> = Append(Append(out, 3), b)
          /\ head \o (out \o <<3, b>>) = Append(Append(head \o out, 3), b)
      BY <1>1, <2>2, <2>3, RegroupedPair
    <3>3. Escaped(head \o (out \o <<3, b>>), ZerosAfter(0, b))
      BY <2>1, <2>2, <3>2, EscapedStuffed
    <3>4. Len(out \o <<3, b>>) = Len(out) + 2
      BY <2>2, <2>3, PairProperties
    <3>5. Len(out \o <<3, b>>) <= 2 * (i + 1)
      BY <2>1, <2>3, <3>4
    <3>6. f[i + 1].out = out \o <<3, b>> /\ f[i + 1].zeros = ZerosAfter(0, b)
      BY <3>1
    <3> QED BY <2>2, <3>3, <3>5, <3>6
  <2> QED BY <2>4, <2>5
<1>9. n \in T
  <2> HIDE DEF T
  <2>1. \A i \in 0..n : i \in T
    BY <1>2, <1>7, <1>8, Induction
  <2> QED BY <1>2, <2>1
<1>10. f[n].out \in Seq(Byte)
  BY <1>2, <1>5 DEF State
<1> QED BY <1>3, <1>9, <1>10 DEF n

(* The SEI's first bytes. *)
SeiHead(codec) == StartCode \o NalHeader(codec) \o VarUint(5) \o VarUint(PayloadSize)

Chain(d) == \A i \in 1..(Len(d) - 1) : d[i] = 255

LEMMA VarUintTyped ==
    ASSUME NEW v \in Nat
    PROVE  /\ VarUint(v) \in Seq(Byte) /\ Len(VarUint(v)) = (v \div 255) + 1
           /\ Chain(VarUint(v))
           /\ VarUint(v)[(v \div 255) + 1] = v % 255
<1> DEFINE k == v \div 255
           full == [i \in 1..k |-> 255]
<1>1. k \in Nat /\ v % 255 \in Byte /\ 255 \in Byte
  BY DEF Byte
<1>2. VarUint(v) = full \o <<v % 255>>
  BY DEF VarUint
<1> HIDE DEF k
<1>3. full \in Seq(Byte) /\ Len(full) = k /\ \A i \in 1..k : full[i] = 255
  BY <1>1
<1> DEFINE last == v % 255
<1>4. <<last>> \in Seq(Byte) /\ Len(<<last>>) = 1 /\ <<last>>[1] = last
  BY <1>1
<1> HIDE DEF full, last
<1>5. full \o <<last>> = Append(full, last)
  BY <1>1, <1>3, AppendIsConcat DEF last
<1> DEFINE all == Append(full, last)
<1>6. /\ all \in Seq(Byte) /\ Len(all) = Len(full) + 1 /\ all[Len(full) + 1] = last
      /\ \A i \in 1..Len(full) : all[i] = full[i]
  BY <1>1, <1>3, AppendProperties DEF last
<1> HIDE DEF all
<1>7. VarUint(v) = all
  BY <1>2, <1>5 DEF last, all
<1>8. \A i \in 1..(Len(all) - 1) : all[i] = 255
  BY <1>1, <1>3, <1>6
<1> QED BY <1>1, <1>3, <1>6, <1>7, <1>8 DEF k, last, Chain

(* Behind the first start code no byte of it is 0, but for the last one when the
   size is a multiple of 255.                                                *)
LEMMA SeiHeadProperties ==
    ASSUME NEW codec
    PROVE  /\ SeiHead(codec) \in Seq(Byte)
           /\ Len(SeiHead(codec)) = 4 + Len(NalHeader(codec)) + Len(VarUint(5))
                                      + Len(VarUint(PayloadSize))
           /\ Len(SeiHead(codec)) \in Nat /\ Len(SeiHead(codec)) >= 4
           /\ \A i \in 4..(Len(SeiHead(codec)) - 1) : SeiHead(codec)[i] # 0
<1> DEFINE nal == NalHeader(codec)
           five == VarUint(5)
           size == VarUint(PayloadSize)
<1>1. StartCode \in Seq(Byte) /\ Len(StartCode) = 4 /\ StartCode[4] = 1
  <2>1. 0 \in Byte /\ 1 \in Byte
    BY DEF Byte
  <2> QED BY <2>1 DEF StartCode
<1>2. nal \in Seq(Byte) /\ Len(nal) \in Nat /\ Len(nal) >= 1 /\ \A i \in 1..Len(nal) : nal[i] # 0
  <2>1. 6 \in Byte /\ 78 \in Byte /\ 1 \in Byte
    BY DEF Byte
  <2>2. CASE codec = "h264"
    <3>1. nal = <<6>>
      BY <2>2 DEF NalHeader
    <3>2. <<6>> \in Seq(Byte) /\ Len(<<6>>) = 1 /\ <<6>>[1] = 6
      BY <2>1
    <3> HIDE DEF nal
    <3> QED BY <3>1, <3>2
  <2>3. CASE codec # "h264"
    <3>1. nal = <<78, 1>>
      BY <2>3 DEF NalHeader
    <3>2. <<78, 1>> \in Seq(Byte) /\ Len(<<78, 1>>) = 2 /\ <<78, 1>>[1] = 78 /\ <<78, 1>>[2] = 1
      BY <2>1
    <3> HIDE DEF nal
    <3> QED BY <3>1, <3>2
  <2> QED BY <2>2, <2>3
<1>3. five \in Seq(Byte) /\ Len(five) = 1 /\ five[1] = 5
  <2>1. 5 \div 255 = 0 /\ 5 % 255 = 5 /\ 5 \in Nat
    OBVIOUS
  <2>2. five \in Seq(Byte) /\ Len(five) = (5 \div 255) + 1 /\ five[(5 \div 255) + 1] = 5 % 255
    BY <2>1, VarUintTyped
  <2> HIDE DEF five
  <2> QED BY <2>1, <2>2
<1>4. /\ size \in Seq(Byte) /\ Len(size) \in Nat /\ Len(size) >= 1
      /\ \A i \in 1..(Len(size) - 1) : size[i] = 255
  <2>1. PayloadSize \in Nat
    BY PayloadSizeNat
  <2>2. size \in Seq(Byte) /\ Len(size) = (PayloadSize \div 255) + 1
    BY <2>1, VarUintTyped
  <2>3. Len(size) \in Nat /\ Len(size) >= 1
    <3> HIDE DEF size
    <3> QED BY <2>1, <2>2
  <2>4. Chain(size)
    BY <2>1, VarUintTyped
  <2> QED BY <2>2, <2>3, <2>4 DEF Chain
<1>5. SeiHead(codec) = StartCode \o nal \o five \o size
  BY DEF SeiHead
<1> HIDE DEF nal, five, size
<1> DEFINE s == StartCode \o nal
           t == s \o five
<1>6. /\ s \in Seq(Byte) /\ Len(s) = 4 + Len(nal)
      /\ \A i \in 1..Len(s) : s[i] = IF i <= 4 THEN StartCode[i] ELSE nal[i - 4]
  <2>1. s \in Seq(Byte) /\ Len(s) = Len(StartCode) + Len(nal)
    BY <1>1, <1>2, Joined
  <2>2. \A i \in 1..Len(s) :
           s[i] = IF i <= Len(StartCode) THEN StartCode[i] ELSE nal[i - Len(StartCode)]
    BY <1>1, <1>2, JoinedAt
  <2> HIDE DEF s
  <2> QED BY <1>1, <2>1, <2>2
<1> HIDE DEF s
<1>7. \A i \in 4..Len(s) : s[i] # 0
  BY <1>1, <1>2, <1>6
<1>8. /\ t \in Seq(Byte) /\ Len(t) = Len(s) + 1
      /\ \A i \in 1..Len(t) : t[i] = IF i <= Len(s) THEN s[i] ELSE five[i - Len(s)]
  <2>1. s \in Seq(Byte)
    BY <1>6
  <2>2. t \in Seq(Byte) /\ Len(t) = Len(s) + Len(five)
    BY <1>3, <2>1, Joined
  <2>3. \A i \in 1..Len(t) : t[i] = IF i <= Len(s) THEN s[i] ELSE five[i - Len(s)]
    BY <1>3, <2>1, JoinedAt
  <2> HIDE DEF t
  <2> QED BY <1>3, <2>2, <2>3
<1> HIDE DEF t
<1>9. \A i \in 4..Len(t) : t[i] # 0
  BY <1>2, <1>3, <1>6, <1>7, <1>8
<1> DEFINE h == t \o size
<1>10. /\ h \in Seq(Byte) /\ Len(h) = Len(t) + Len(size)
       /\ \A i \in 1..Len(h) : h[i] = IF i <= Len(t) THEN t[i] ELSE size[i - Len(t)]
  <2>1. t \in Seq(Byte) /\ size \in Seq(Byte)
    BY <1>4, <1>8
  <2> QED BY <2>1, Joined, JoinedAt
<1> HIDE DEF h
<1>11. \A i \in 4..(Len(h) - 1) : h[i] # 0
  <2>1. Len(t) \in Nat /\ Len(t) >= 4 /\ Len(size) \in Nat
    BY <1>2, <1>4, <1>6, <1>8
  <2> DEFINE lt == Len(t)
             ls == Len(size)
  <2>2. ASSUME NEW i \in 4..(lt + ls - 1) PROVE h[i] # 0
    <3>1. CASE i <= lt
      BY <1>9, <1>10, <2>1, <3>1
    <3>2. CASE i > lt
      <4>1. i - lt \in 1..(ls - 1) /\ i \in 1..(lt + ls)
        BY <2>1, <3>2
      <4>2. h[i] = size[i - lt] /\ size[i - lt] = 255
        BY <1>4, <1>10, <2>1, <3>2, <4>1
      <4> QED BY <4>2
    <3> QED BY <2>1, <3>1, <3>2
  <2> QED BY <1>10, <2>2
<1>12. SeiHead(codec) = h
  BY <1>5 DEF h, t, s
<1>13. /\ Len(h) = 4 + Len(nal) + Len(five) + Len(size) /\ Len(h) \in Nat /\ Len(h) >= 4
  BY <1>2, <1>3, <1>4, <1>6, <1>8, <1>10
<1> QED BY <1>10, <1>11, <1>12, <1>13 DEF nal, five, size

LEMMA SeiHeadEscaped ==
    ASSUME NEW codec
    PROVE  Escaped(SeiHead(codec), TrailingZeros(SeiHead(codec)))
<1> DEFINE h == SeiHead(codec)
           n == Len(h)
           z == TrailingZeros(h)
<1>1. h \in Seq(Byte) /\ n \in Nat /\ n >= 4 /\ \A i \in 4..(n - 1) : h[i] # 0
  BY SeiHeadProperties
<1>2. z \in Nat /\ \A k \in 1..n : (\A i \in k..n : h[i] = 0) => z >= n - k + 1
  BY <1>1, TrailingZerosProperties
<1> HIDE DEF h, n, z
<1>3. h[n] = 0 => z >= 1
  <2> SUFFICES ASSUME h[n] = 0 PROVE z >= 1
    OBVIOUS
  <2>1. n \in 1..n /\ \A i \in n..n : i = n
    BY <1>1
  <2> QED BY <1>1, <1>2, <2>1
<1>4. h[n] = 0 /\ h[n - 1] = 0 => z >= 2
  <2> SUFFICES ASSUME h[n] = 0, h[n - 1] = 0 PROVE z >= 2
    OBVIOUS
  <2>1. n - 1 \in 1..n /\ \A i \in (n - 1)..n : i = n \/ i = n - 1
    BY <1>1
  <2>2. z >= n - (n - 1) + 1
    BY <1>2, <2>1
  <2> QED BY <1>1, <1>2, <2>2
<1>5. \A i \in 3..(n - 2) : h[i] = 0 /\ h[i + 1] = 0 => h[i + 2] >= 3
  <2> TAKE i \in 3..(n - 2)
  <2>1. i + 1 \in 4..(n - 1)
    BY <1>1
  <2> QED BY <1>1, <2>1
<1> QED BY <1>1, <1>2, <1>3, <1>4, <1>5 DEF Escaped, NothingLike, h, n, z

LEMMA BuildNalClean ==
    ASSUME NEW codec, NEW info \in Infos
    PROVE  /\ BuildNal(codec, info) \in Seq(Byte)
           /\ NothingLike(BuildNal(codec, info))
           /\ Len(BuildNal(codec, info)) <= MaxTotal(codec)
<1> DEFINE h == SeiHead(codec)
           raw == RawPayload(info)
           e == Escape(TrailingZeros(h), raw)
           d == h \o e
<1>1. BuildNal(codec, info) = d \o <<128>>
  BY DEF BuildNal, SeiHead
<1>2. Escaped(h, TrailingZeros(h))
  BY SeiHeadEscaped
<1>3. raw \in Seq(Byte) /\ Len(raw) = PayloadSize /\ PayloadSize \in Nat
  BY RawPayloadTyped, PayloadSizeNat
<1>4. /\ h \in Seq(Byte) /\ Len(h) \in Nat
      /\ Len(h) = 4 + Len(NalHeader(codec)) + Len(VarUint(5)) + Len(VarUint(PayloadSize))
  BY SeiHeadProperties
<1> HIDE DEF h, raw
<1>5. e \in Seq(Byte) /\ Len(e) <= 2 * PayloadSize /\ \E zeros : Escaped(d, zeros)
  BY <1>2, <1>3, EscapeKeepsEscaped
<1> HIDE DEF e
<1>6. PICK zeros : Escaped(d, zeros)
  BY <1>5
<1>7. d \in Seq(Byte) /\ Len(d) = Len(h) + Len(e)
  BY <1>4, <1>5, Joined
<1> HIDE DEF d
<1>8. 128 \in Byte /\ zeros \in Nat
  BY <1>6 DEF Byte, Escaped
<1>9. ~NeedsStuffing(zeros, 128)
  BY DEF NeedsStuffing
<1>10. Escaped(Append(d, 128), ZerosAfter(zeros, 128))
  BY <1>6, <1>8, <1>9, EscapedPlain
<1>11. BuildNal(codec, info) = Append(d, 128)
  BY <1>1, <1>7, <1>8, AppendIsConcat
<1>12. Len(Append(d, 128)) = Len(d) + 1
  BY <1>7, <1>8, AppendProperties
<1>13. Len(e) \in Nat /\ MaxTotal(codec) = Len(h) + 2 * PayloadSize + 1
  BY <1>4, <1>5, LenProperties DEF MaxTotal
<1>14. Len(BuildNal(codec, info)) <= MaxTotal(codec)
  BY <1>3, <1>4, <1>5, <1>7, <1>11, <1>12, <1>13
<1> QED BY <1>10, <1>11, <1>14 DEF Escaped

LEMMA VideoFixed == Spec => [](video \in Videos)
<1>1. Init => video \in Videos
  BY DEF Init
<1>2. video \in Videos /\ [Next]_vars => (video \in Videos)'
  BY DEF Next, vars, Read, Yield, Flush, EndOfFile
<1> QED BY <1>1, <1>2, PTL DEF Spec

LEMMA VideoTyped ==
    ASSUME NEW v \in Videos
    PROVE  /\ v.codec \in Codecs /\ v.extradata \in Seq(Byte)
           /\ Len(v.frames) \in Nat /\ DOMAIN v.frames = 1..Len(v.frames)
           /\ \A i \in DOMAIN v.frames :
                 /\ v.frames[i].info \in Infos /\ v.frames[i].packet \in Seq(Byte)
                 /\ v.frames[i].before \in Seq(Byte) /\ v.frames[i].slices \in Seq(Seq(Byte))
                 /\ v.frames[i].info # NoInfo
<1> DEFINE S == [info : Infos, packet : Seq(Byte), before : Seq(Byte), slices : Seq(Seq(Byte))]
<1>1. v.codec \in Codecs /\ v.extradata \in Seq(Byte) /\ v.frames \in Seq(S)
      /\ \A i \in DOMAIN v.frames : v.frames[i].info # NoInfo
  BY VideosAssumption DEF Infos, Byte
<1>2. \A r \in S : /\ r.info \in Infos /\ r.packet \in Seq(Byte)
                   /\ r.before \in Seq(Byte) /\ r.slices \in Seq(Seq(Byte))
  OBVIOUS
<1> HIDE DEF S
<1>3. /\ Len(v.frames) \in Nat /\ DOMAIN v.frames = 1..Len(v.frames)
      /\ \A i \in 1..Len(v.frames) : v.frames[i] \in S
  BY <1>1, LenProperties, ElementOfSeq
<1> QED BY <1>1, <1>2, <1>3

(* Whatever the fields of a stamp contain, its SEI contains no start code and
   nothing that a demuxer could take for one (build_nal stuffs a byte wherever it
   has to), and build_nal writes no more than it allocated.                  *)
THEOREM Spec_NoEmulation == Spec => []NoEmulation
<1>1. ASSUME video \in Videos PROVE NoEmulation
  <2> SUFFICES ASSUME NEW f \in Range(video.frames)
               PROVE  LET nal == BuildNal(video.codec, f.info)
                      IN  /\ \A i \in 3..(Len(nal) - 2) :
                                nal[i] = 0 /\ nal[i + 1] = 0 => nal[i + 2] >= 3
                          /\ Len(nal) <= MaxTotal(video.codec)
    BY DEF NoEmulation
  <2>1. f.info \in Infos
    BY <1>1, VideoTyped DEF Range
  <2> QED BY <2>1, BuildNalClean DEF NothingLike
<1> QED BY <1>1, VideoFixed, PTL

-----------------------------------------------------------------------------
(* Sequences one behind the other *)

FlattenStep(S, seqs) == [q \in (1..Len(seqs)) \X Seq(S) |-> q[2] \o seqs[q[1]]]

LEMMA FlattenLoop ==
    ASSUME NEW S, NEW seqs \in Seq(Seq(S))
    PROVE  \E g : /\ IsLoop(g, Len(seqs), Seq(S), <<>>, FlattenStep(S, seqs))
                  /\ FlattenSeq(seqs) = g[Len(seqs)]
<1> DEFINE n == Len(seqs)
           F == FlattenStep(S, seqs)
           P(f) == f = [i \in 1..n |-> IF i = 1 THEN seqs[i] ELSE f[i - 1] \o seqs[i]]
           e == CHOOSE f : P(f)
<1>1. n \in Nat /\ \A i \in 1..n : seqs[i] \in Seq(S)
  BY LenProperties, ElementOfSeq
<1>2. <<>> \in Seq(S) /\ \A s, t \in Seq(S) : s \o t \in Seq(S)
  BY EmptySeq, ConcatProperties
<1>3. F \in [(1..n) \X Seq(S) -> Seq(S)]
  BY <1>1, <1>2 DEF FlattenStep
<1>4. \A i \in 1..n, s \in Seq(S) : F[<<i, s>>] = s \o seqs[i]
  BY DEF FlattenStep
<1>5. FlattenSeq(seqs) = IF n = 0 THEN seqs ELSE e[n]
  BY DEF FlattenSeq
<1>6. n = 0 => seqs = <<>>
  BY EmptySeq
<1> HIDE DEF n, F
<1>7. PICK g : IsLoop(g, n, Seq(S), <<>>, F)
  BY <1>1, <1>2, <1>3, LoopExists
<1>8. g \in [0..n -> Seq(S)] /\ g[0] = <<>>
  BY <1>7 DEF IsLoop
<1>9. \A i \in 1..n : i - 1 \in 0..n /\ i \in 0..n /\ (i # 1 => i - 1 \in 1..n)
  BY <1>1
<1>10. \A i \in 1..n : g[i] = g[i - 1] \o seqs[i]
  BY <1>4, <1>7, <1>8, <1>9 DEF IsLoop
<1>11. \A i \in 1..n : i = 1 => g[i] = seqs[i]
  <2> SUFFICES ASSUME 1 \in 1..n PROVE g[1] = seqs[1]
    OBVIOUS
  <2>1. g[1] = g[0] \o seqs[1]
    <3>1. \A i \in 1..n : i - 1 = 0 => g[i] = g[0] \o seqs[i]
      BY <1>10
    <3>2. 1 \in 1..n /\ 1 - 1 = 0
      OBVIOUS
    <3> QED BY <3>1, <3>2
  <2>2. <<>> \o seqs[1] = seqs[1]
    BY <1>1, ConcatEmptySeq
  <2> QED BY <1>8, <2>1, <2>2
<1> DEFINE h == [i \in 1..n |-> g[i]]
<1>12. P(h)
  BY <1>9, <1>10, <1>11, Zenon
<1>13. P(e)
  <2> HIDE DEF h
  <2> QED BY <1>12, Zenon
<1> HIDE DEF e, h
<1>14. \A i \in 1..n : e[i] = IF i = 1 THEN seqs[i] ELSE e[i - 1] \o seqs[i]
  BY <1>13
<1>15. CASE n = 0
  BY <1>1, <1>5, <1>6, <1>7, <1>8, <1>15 DEF n, F
<1>16. CASE n # 0
  <2> DEFINE T == {i \in 0..n : i = 0 \/ e[i] = g[i]}
  <2>1. 0 \in T
    BY <1>1
  <2>2. ASSUME NEW i \in 0..(n - 1), i \in T PROVE i + 1 \in T
    <3>1. i + 1 \in 1..n /\ i + 1 \in 0..n /\ (i + 1) - 1 = i
      BY <1>1
    <3>2. CASE i = 0
      <4>1. e[1] = seqs[1] /\ g[1] = seqs[1] /\ i + 1 = 1
        BY <1>11, <1>14, <3>1, <3>2
      <4> QED BY <3>1, <4>1
    <3>3. CASE i # 0
      <4>1. e[i] = g[i] /\ i + 1 # 1
        BY <2>2, <3>3
      <4>2. e[i + 1] = e[i] \o seqs[i + 1]
        BY <1>14, <3>1, <4>1
      <4>3. g[i + 1] = g[i] \o seqs[i + 1]
        BY <1>10, <3>1
      <4> QED BY <3>1, <4>1, <4>2, <4>3
    <3> QED BY <3>2, <3>3
  <2>3. n \in T
    <3> HIDE DEF T
    <3>1. \A i \in 0..n : i \in T
      BY <1>1, <2>1, <2>2, Induction
    <3> QED BY <1>1, <3>1
  <2>4. e[n] = g[n]
    BY <1>16, <2>3
  <2> QED BY <1>5, <1>7, <1>16, <2>4 DEF n, F
<1> QED BY <1>15, <1>16

LEMMA FlattenTyped ==
    ASSUME NEW S, NEW seqs \in Seq(Seq(S))
    PROVE  FlattenSeq(seqs) \in Seq(S)
<1>1. PICK g : /\ IsLoop(g, Len(seqs), Seq(S), <<>>, FlattenStep(S, seqs))
               /\ FlattenSeq(seqs) = g[Len(seqs)]
  BY FlattenLoop
<1>2. Len(seqs) \in 0..Len(seqs)
  BY LenProperties
<1> QED BY <1>1, <1>2 DEF IsLoop

LEMMA FlattenAppend ==
    ASSUME NEW S, NEW seqs \in Seq(Seq(S)), NEW s \in Seq(S)
    PROVE  FlattenSeq(Append(seqs, s)) = FlattenSeq(seqs) \o s
<1> DEFINE n == Len(seqs)
           more == Append(seqs, s)
<1>1. n \in Nat
  BY LenProperties
<1>2. /\ more \in Seq(Seq(S)) /\ Len(more) = n + 1 /\ more[n + 1] = s
      /\ \A i \in 1..n : more[i] = seqs[i]
  BY AppendProperties
<1> HIDE DEF more
<1>3. PICK g : IsLoop(g, n, Seq(S), <<>>, FlattenStep(S, seqs)) /\ FlattenSeq(seqs) = g[n]
  BY FlattenLoop
<1>4. PICK h : /\ IsLoop(h, n + 1, Seq(S), <<>>, FlattenStep(S, more))
               /\ FlattenSeq(more) = h[n + 1]
  BY <1>2, FlattenLoop
<1>5. g \in [0..n -> Seq(S)] /\ h \in [0..(n + 1) -> Seq(S)] /\ g[0] = h[0]
  BY <1>3, <1>4 DEF IsLoop
<1>6. \A i \in 1..n, t \in Seq(S) : FlattenStep(S, seqs)[<<i, t>>] = t \o seqs[i]
  BY DEF FlattenStep
<1>7. \A i \in 1..(n + 1), t \in Seq(S) : FlattenStep(S, more)[<<i, t>>] = t \o more[i]
  BY <1>2 DEF FlattenStep
<1> HIDE DEF n
<1>8. \A i \in 1..n : g[i] = g[i - 1] \o seqs[i]
  <2>1. \A i \in 1..n : i - 1 \in 0..n
    BY <1>1
  <2> QED BY <1>3, <1>5, <1>6, <2>1 DEF IsLoop
<1>9. \A i \in 1..(n + 1) : h[i] = h[i - 1] \o more[i]
  <2>1. \A i \in 1..(n + 1) : i - 1 \in 0..(n + 1)
    BY <1>1
  <2> QED BY <1>4, <1>5, <1>7, <2>1 DEF IsLoop
<1> DEFINE T == {i \in 0..n : g[i] = h[i]}
<1>10. 0 \in T
  BY <1>1, <1>5
<1>11. ASSUME NEW i \in 0..(n - 1), i \in T PROVE i + 1 \in T
  <2>1. i + 1 \in 1..n /\ i + 1 \in 0..n /\ i + 1 \in 1..(n + 1) /\ (i + 1) - 1 = i
    BY <1>1
  <2>2. g[i + 1] = g[i] \o seqs[i + 1] /\ h[i + 1] = h[i] \o more[i + 1]
    BY <1>8, <1>9, <2>1
  <2> QED BY <1>2, <1>11, <2>1, <2>2 DEF n
<1>12. n \in T
  <2> HIDE DEF T
  <2>1. \A i \in 0..n : i \in T
    BY <1>1, <1>10, <1>11, Induction
  <2> QED BY <1>1, <2>1
<1>13. h[n + 1] = h[n] \o s
  <2>1. n + 1 \in 1..(n + 1) /\ (n + 1) - 1 = n
    BY <1>1
  <2> QED BY <1>2, <1>9, <2>1
<1> QED BY <1>3, <1>4, <1>12, <1>13 DEF more

-----------------------------------------------------------------------------
(* The bytes of a packet and of the stream *)

Blob == [at : Nat, out : Seq(Byte)]

LEMMA PartTyped ==
    ASSUME NEW d \in Seq(Byte), NEW m \in Int, NEW n \in Int, m >= 1, n <= Len(d)
    PROVE  SubSeq(d, m, n) \in Seq(Byte)
<1>1. \A i \in m..n : i \in 1..Len(d)
  BY LenProperties
<1>2. \A i \in m..n : d[i] \in Byte
  BY <1>1, ElementOfSeq
<1> QED BY <1>2, SubSeqProperties

LEMMA StartCodeTyped == StartCode \in Seq(Byte)
<1>1. 0 \in Byte /\ 1 \in Byte
  BY DEF Byte
<1> QED BY <1>1 DEF StartCode

LEMMA ByteIsNat == \A b \in Byte : b \in Nat
BY DEF Byte

LEMMA Number16Typed ==
    ASSUME NEW xd \in Seq(Byte), NEW at \in Nat, at >= 1, at + 1 <= Len(xd)
    PROVE  Number16(xd, at) \in Nat
<1>1. at \in 1..Len(xd) /\ at + 1 \in 1..Len(xd)
  BY LenProperties
<1>2. xd[at] \in Byte /\ xd[at + 1] \in Byte
  BY <1>1, ElementOfSeq
<1>3. \A x, y \in Byte : 256 * x + y \in Nat
  BY DEF Byte
<1> QED BY <1>2, <1>3 DEF Number16

LEMMA SizedUnitTyped ==
    ASSUME NEW xd \in Seq(Byte), NEW s \in Blob
    PROVE  SizedUnit(xd, s) \in Blob
<1>1. s.at \in Nat /\ s.out \in Seq(Byte) /\ Len(xd) \in Nat
  BY LenProperties DEF Blob
<1> DEFINE at == s.at
           len == Number16(xd, at)
           unit == SubSeq(xd, at + 2, at + 1 + len)
<1>2. CASE at = 0 \/ at + 1 > Len(xd) \/ at + 1 + len > Len(xd)
  <2>1. SizedUnit(xd, s) = Beyond
    BY <1>2 DEF SizedUnit
  <2> QED BY <2>1, EmptySeq DEF Beyond, Blob
<1>3. CASE ~(at = 0 \/ at + 1 > Len(xd) \/ at + 1 + len > Len(xd))
  <2>1. SizedUnit(xd, s) = [at |-> at + 2 + len, out |-> s.out \o StartCode \o unit]
    BY <1>3 DEF SizedUnit
  <2>2. at \in Nat /\ at >= 1 /\ at + 1 <= Len(xd)
    BY <1>1, <1>3
  <2>3. len \in Nat
    BY <2>2, Number16Typed
  <2> HIDE DEF len
  <2>4. at + 2 \in Int /\ at + 1 + len \in Int /\ at + 2 >= 1 /\ at + 1 + len <= Len(xd)
        /\ at + 2 + len \in Nat
    BY <1>1, <1>3, <2>2, <2>3, SMTT(30)
  <2>5. unit \in Seq(Byte)
    BY <2>4, PartTyped
  <2>6. s.out \o StartCode \o unit \in Seq(Byte)
    BY <1>1, <2>5, StartCodeTyped, Joined
  <2> QED BY <2>1, <2>4, <2>6 DEF Blob
<1> QED BY <1>2, <1>3

SizedStep(xd, n) == [q \in (1..n) \X Blob |-> SizedUnit(xd, q[2])]

LEMMA SizedLoop ==
    ASSUME NEW xd \in Seq(Byte), NEW at \in Nat, NEW n \in Nat
    PROVE  \E e : /\ IsLoop(e, n, Blob, [at |-> at, out |-> <<>>], SizedStep(xd, n))
                  /\ Sized(xd, at, n) = e[n]
<1> DEFINE s0 == [at |-> at, out |-> <<>>]
           F == SizedStep(xd, n)
           P(f) == f = [i \in 0..n |-> IF i = 0 THEN s0 ELSE SizedUnit(xd, f[i - 1])]
           e == CHOOSE f : P(f)
<1>1. s0 \in Blob
  BY EmptySeq DEF Blob
<1>2. F \in [(1..n) \X Blob -> Blob] /\ \A i \in 1..n, s \in Blob : F[<<i, s>>] = SizedUnit(xd, s)
  BY SizedUnitTyped DEF SizedStep
<1>3. Sized(xd, at, n) = e[n]
  BY DEF Sized
<1> HIDE DEF s0, F
<1>4. PICK f : IsLoop(f, n, Blob, s0, F)
  BY <1>1, <1>2, LoopExists
<1>5. f \in [0..n -> Blob] /\ f[0] = s0
  BY <1>4 DEF IsLoop
<1>6. \A i \in 0..n : i # 0 => i \in 1..n /\ i - 1 \in 0..n
  OBVIOUS
<1>7. \A i \in 1..n : i - 1 \in 0..n => f[i] = SizedUnit(xd, f[i - 1])
  BY <1>2, <1>4, <1>5 DEF IsLoop
<1>8. P(f)
  BY <1>5, <1>6, <1>7
<1>9. P(e)
  BY <1>8
<1> HIDE DEF e
<1>10. e = [i \in 0..n |-> e[i]] /\ e[0] = s0
  BY <1>9
<1>11. \A i \in 1..n : e[i] = SizedUnit(xd, e[i - 1])
  BY <1>9
<1>12. IsLoop(e, n, Blob, s0, F)
  BY <1>1, <1>2, <1>10, <1>11, LoopTyped
<1> QED BY <1>3, <1>12 DEF s0, F

LEMMA SizedTyped ==
    ASSUME NEW xd \in Seq(Byte), NEW at \in Nat, NEW n \in Nat
    PROVE  Sized(xd, at, n) \in Blob
<1>1. PICK e : /\ IsLoop(e, n, Blob, [at |-> at, out |-> <<>>], SizedStep(xd, n))
               /\ Sized(xd, at, n) = e[n]
  BY SizedLoop
<1>2. e \in [0..n -> Blob] /\ n \in 0..n
  BY <1>1 DEF IsLoop
<1> QED BY <1>1, <1>2

LEMMA UnitArrayTyped ==
    ASSUME NEW xd \in Seq(Byte), NEW s \in Blob
    PROVE  UnitArray(xd, s) \in Blob
<1> DEFINE n == Number16(xd, s.at + 1)
           units == Sized(xd, s.at + 3, n)
<1>1. s.at \in Nat /\ s.at + 3 \in Nat /\ s.out \in Seq(Byte)
  BY DEF Blob
<1>2. CASE s.at = 0 \/ s.at + 2 > Len(xd) \/ n \notin 1..64 \/ units.at = 0
  <2>1. UnitArray(xd, s) = Beyond
    BY <1>2 DEF UnitArray
  <2> QED BY <2>1, EmptySeq DEF Beyond, Blob
<1>3. CASE ~(s.at = 0 \/ s.at + 2 > Len(xd) \/ n \notin 1..64 \/ units.at = 0)
  <2>1. UnitArray(xd, s) = [at |-> units.at, out |-> s.out \o units.out]
    BY <1>3 DEF UnitArray
  <2>2. n \in Nat
    <3>1. n \in 1..64
      BY <1>3
    <3> HIDE DEF n
    <3> QED BY <3>1
  <2>3. units \in Blob
    BY <1>1, <2>2, SizedTyped
  <2> HIDE DEF units
  <2>4. units.at \in Nat /\ units.out \in Seq(Byte)
    BY <2>3 DEF Blob
  <2>5. s.out \o units.out \in Seq(Byte)
    BY <1>1, <2>4, Joined
  <2> QED BY <2>1, <2>4, <2>5 DEF Blob
<1> QED BY <1>2, <1>3

ArrayStep(xd, n) == [q \in (1..n) \X Blob |-> UnitArray(xd, q[2])]

LEMMA ArraysLoop ==
    ASSUME NEW xd \in Seq(Byte), NEW n \in Nat
    PROVE  \E e : /\ IsLoop(e, n, Blob, [at |-> 24, out |-> <<>>], ArrayStep(xd, n))
                  /\ UnitArrays(xd, n) = e[n]
<1> DEFINE s0 == [at |-> 24, out |-> <<>>]
           F == ArrayStep(xd, n)
           P(f) == f = [a \in 0..n |-> IF a = 0 THEN s0 ELSE UnitArray(xd, f[a - 1])]
           e == CHOOSE f : P(f)
<1>1. s0 \in Blob
  BY EmptySeq DEF Blob
<1>2. F \in [(1..n) \X Blob -> Blob] /\ \A i \in 1..n, s \in Blob : F[<<i, s>>] = UnitArray(xd, s)
  BY UnitArrayTyped DEF ArrayStep
<1>3. UnitArrays(xd, n) = e[n]
  BY DEF UnitArrays
<1> HIDE DEF s0, F
<1>4. PICK f : IsLoop(f, n, Blob, s0, F)
  BY <1>1, <1>2, LoopExists
<1>5. f \in [0..n -> Blob] /\ f[0] = s0
  BY <1>4 DEF IsLoop
<1>6. \A i \in 0..n : i # 0 => i \in 1..n /\ i - 1 \in 0..n
  OBVIOUS
<1>7. \A i \in 1..n : i - 1 \in 0..n => f[i] = UnitArray(xd, f[i - 1])
  BY <1>2, <1>4, <1>5 DEF IsLoop
<1>8. P(f)
  BY <1>5, <1>6, <1>7
<1>9. P(e)
  BY <1>8
<1> HIDE DEF e
<1>10. e = [i \in 0..n |-> e[i]] /\ e[0] = s0
  BY <1>9
<1>11. \A i \in 1..n : e[i] = UnitArray(xd, e[i - 1])
  BY <1>9
<1>12. IsLoop(e, n, Blob, s0, F)
  BY <1>1, <1>2, <1>10, <1>11, LoopTyped
<1> QED BY <1>3, <1>12 DEF s0, F

LEMMA UnitArraysTyped ==
    ASSUME NEW xd \in Seq(Byte), NEW n \in Nat
    PROVE  UnitArrays(xd, n) \in Blob
<1>1. PICK e : /\ IsLoop(e, n, Blob, [at |-> 24, out |-> <<>>], ArrayStep(xd, n))
               /\ UnitArrays(xd, n) = e[n]
  BY ArraysLoop
<1>2. e \in [0..n -> Blob] /\ n \in 0..n
  BY <1>1 DEF IsLoop
<1> QED BY <1>1, <1>2

(* Whatever the extradata is, what is made of it are bytes, or nothing: no field is
   read beyond its end.                                                      *)
LEMMA HeadersTyped ==
    ASSUME NEW codec, NEW xd \in Seq(Byte)
    PROVE  ExtradataToAnnexb(codec, xd) \in Seq(Byte) \cup {NotRecognised}
<1>1. Len(xd) \in Nat /\ \A i \in 1..Len(xd) : xd[i] \in Byte
  BY LenProperties, ElementOfSeq
<1>2. ASSUME Len(xd) >= 7, ParseAvcc(xd) # NotRecognised PROVE ParseAvcc(xd) \in Seq(Byte)
  <2> DEFINE sps == Sized(xd, 7, xd[6] % 32)
             pps == Sized(xd, sps.at + 1, xd[sps.at])
  <2>1. 6 \in 1..Len(xd)
    BY <1>1, <1>2
  <2>2. xd[6] % 32 \in Nat
    <3>1. \A b \in Byte : b % 32 \in Nat
      BY DEF Byte
    <3> QED BY <1>1, <2>1, <3>1
  <2>3. sps \in Blob
    BY <2>2, SizedTyped
  <2>4. /\ ~(sps.at = 0 \/ sps.at > Len(xd))
        /\ ParseAvcc(xd) = sps.out \o pps.out
    BY <1>2, Zenon DEF ParseAvcc
  <2> HIDE DEF sps
  <2>5. sps.at \in 1..Len(xd) /\ sps.at + 1 \in Nat /\ sps.out \in Seq(Byte)
    BY <1>1, <2>3, <2>4 DEF Blob
  <2>6. xd[sps.at] \in Nat
    BY <1>1, <2>5, ByteIsNat
  <2>7. pps \in Blob
    BY <2>5, <2>6, SizedTyped
  <2> HIDE DEF pps
  <2>8. pps.out \in Seq(Byte)
    BY <2>7 DEF Blob
  <2> QED BY <2>4, <2>5, <2>8, Joined
<1>3. ParseAvcc(xd) # NotRecognised => Len(xd) >= 7
  <2>1. ParseAvcc(xd) # NotRecognised => ~(Len(xd) < 7)
    BY Zenon DEF ParseAvcc
  <2> QED BY <1>1, <2>1
<1>4. ASSUME Len(xd) >= 23, ParseHvcc(xd) # NotRecognised PROVE ParseHvcc(xd) \in Seq(Byte)
  <2>1. 23 \in 1..Len(xd)
    BY <1>1, <1>4
  <2>2. xd[23] \in Nat
    BY <1>1, <2>1, ByteIsNat
  <2>3. UnitArrays(xd, xd[23]) \in Blob
    BY <2>2, UnitArraysTyped
  <2>4. ParseHvcc(xd) = UnitArrays(xd, xd[23]).out
    BY <1>4 DEF ParseHvcc
  <2> QED BY <2>3, <2>4 DEF Blob
<1>5. ParseHvcc(xd) # NotRecognised => Len(xd) >= 23
  <2>1. ParseHvcc(xd) # NotRecognised => ~(Len(xd) < 23)
    BY DEF ParseHvcc
  <2> QED BY <1>1, <2>1
<1> QED BY <1>2, <1>3, <1>4, <1>5 DEF ExtradataToAnnexb

(* The prefix is a part of the packet. *)
LEMMA PrefixWithin ==
    ASSUME NEW codec, NEW d \in Seq(Byte)
    PROVE  PrefixNalBytes(codec, d) \in 0..Len(d)
<1> DEFINE Plain(p) == NalType(codec, d[NalStart(d, p)]) \notin PrefixTypes(codec)
           empty == {p \in Starts(d) : NalStart(d, p) > Len(d)}
           first == {p \in Starts(d) \ empty : Plain(p)}
<1>1. Len(d) \in Nat
  BY LenProperties
<1>2. first \subseteq 1..Len(d)
  BY DEF Starts
<1>3. PrefixNalBytes(codec, d) = CASE CodeAt(d, 1) = 0 \/ (first = {} /\ empty # {}) -> 0
                                   [] CodeAt(d, 1) # 0 /\ first # {} -> Min(first) - 1
                                   [] OTHER -> Len(d)
  BY DEF PrefixNalBytes
<1> HIDE DEF first, empty
<1>4. first # {} => Min(first) \in first
  <2>1. first \subseteq Nat
    BY <1>2
  <2> QED BY <2>1, MinIsFirst
<1>5. first # {} => Min(first) - 1 \in 0..Len(d)
  <2> DEFINE m == Min(first)
  <2>1. first # {} => m \in 1..Len(d)
    BY <1>2, <1>4
  <2> HIDE DEF m
  <2>2. first # {} => m - 1 \in 0..Len(d)
    BY <1>1, <2>1
  <2> QED BY <2>2 DEF m
<1> DEFINE n == PrefixNalBytes(codec, d)
<1>6. n = 0 \/ n = Len(d) \/ (first # {} /\ n = Min(first) - 1)
  BY <1>3
<1> HIDE DEF n
<1>7. n \in 0..Len(d)
  BY <1>1, <1>5, <1>6
<1> QED BY <1>7 DEF n

LEMMA PacketTyped ==
    ASSUME NEW codec, NEW packet \in Seq(Byte), NEW headers \in Seq(Byte) \cup {NotRecognised},
           NEW info \in Infos
    PROVE  AssemblePacket(codec, packet, headers, info) \in Seq(Byte)
<1> DEFINE prefix == PrefixNalBytes(codec, packet)
           a == SubSeq(packet, 1, prefix)
           b == IF info.key /\ headers # NotRecognised THEN headers ELSE <<>>
           c == BuildNal(codec, info)
           d == SubSeq(packet, prefix + 1, Len(packet))
<1>1. AssemblePacket(codec, packet, headers, info) = a \o b \o c \o d
  BY DEF AssemblePacket
<1>2. prefix \in 0..Len(packet) /\ Len(packet) \in Nat
  BY PrefixWithin, LenProperties
<1> HIDE DEF prefix
<1>3. 1 \in Int /\ prefix \in Int /\ prefix <= Len(packet) /\ 1 >= 1
      /\ prefix + 1 \in Int /\ prefix + 1 >= 1 /\ Len(packet) \in Int /\ Len(packet) <= Len(packet)
  BY <1>2
<1>4. a \in Seq(Byte) /\ d \in Seq(Byte)
  BY <1>3, PartTyped
<1>5. b \in Seq(Byte)
  BY EmptySeq
<1>6. c \in Seq(Byte)
  BY BuildNalClean
<1> HIDE DEF a, b, c, d
<1>7. a \o b \in Seq(Byte)
  BY <1>4, <1>5, Joined
<1>8. a \o b \o c \in Seq(Byte)
  BY <1>6, <1>7, Joined
<1> QED BY <1>1, <1>4, <1>8, Joined

LEMMA StreamTyped ==
    ASSUME NEW v \in Videos
    PROVE  /\ Packets(v) \in Seq(Seq(Byte))
           /\ FlattenSeq(Packets(v)) \in Seq(Byte)
<1>1. Headers(v) \in Seq(Byte) \cup {NotRecognised}
  BY VideoTyped, HeadersTyped DEF Headers
<1>2. \A i \in DOMAIN v.frames : Packets(v)[i] \in Seq(Byte)
  BY <1>1, VideoTyped, PacketTyped DEF Packets
<1> DEFINE n == Len(v.frames)
<1>3. n \in Nat /\ DOMAIN v.frames = 1..n
  BY VideoTyped
<1>4. Packets(v) = [i \in 1..n |-> Packets(v)[i]]
  BY <1>3 DEF Packets
<1> HIDE DEF n
<1>5. Packets(v) \in [1..n -> Seq(Byte)]
  BY <1>2, <1>3, <1>4
<1>6. Packets(v) \in Seq(Seq(Byte))
  BY <1>3, <1>5
<1> QED BY <1>6, FlattenTyped

-----------------------------------------------------------------------------
(* The access-unit splitter *)

LEMMA CutInTwo ==
    ASSUME NEW d \in Seq(Byte), NEW k \in 0..Len(d)
    PROVE  /\ SubSeq(d, 1, k) \in Seq(Byte) /\ SubSeq(d, k + 1, Len(d)) \in Seq(Byte)
           /\ Len(SubSeq(d, 1, k)) = k /\ Len(SubSeq(d, k + 1, Len(d))) = Len(d) - k
           /\ SubSeq(d, 1, k) \o SubSeq(d, k + 1, Len(d)) = d
<1> DEFINE n == Len(d)
<1>1. n \in Nat /\ k \in Nat /\ k <= n /\ \A i \in 1..n : d[i] \in Byte
  BY LenProperties, ElementOfSeq
<1>2. 1 \in 1..(n + 1) /\ k \in (1 - 1)..n /\ n \in k..n
  BY <1>1
<1>3. SubSeq(d, 1, k) \o SubSeq(d, k + 1, n) = SubSeq(d, 1, n)
  BY <1>2, ConcatAdjacentSubSeq
<1>4. SubSeq(d, 1, n) = d
  BY SubSeqFull
<1>5. /\ 1 \in Int /\ k \in Int /\ k + 1 \in Int /\ n \in Int
      /\ \A i \in 1..k : d[i] \in Byte
      /\ \A i \in (k + 1)..n : d[i] \in Byte
  BY <1>1
<1>6. SubSeq(d, 1, k) \in Seq(Byte) /\ Len(SubSeq(d, 1, k)) = IF 1 <= k THEN k - 1 + 1 ELSE 0
  BY <1>5, SubSeqProperties
<1>7. /\ SubSeq(d, k + 1, n) \in Seq(Byte)
      /\ Len(SubSeq(d, k + 1, n)) = IF k + 1 <= n THEN n - (k + 1) + 1 ELSE 0
  BY <1>5, SubSeqProperties
<1> DEFINE a == Len(SubSeq(d, 1, k))
           b == Len(SubSeq(d, k + 1, n))
<1>8. a = k /\ b = n - k
  <2>1. a = IF 1 <= k THEN k - 1 + 1 ELSE 0
    BY <1>6
  <2>2. b = IF k + 1 <= n THEN n - (k + 1) + 1 ELSE 0
    BY <1>7
  <2> HIDE DEF a, b, n
  <2> QED BY <1>1, <2>1, <2>2
<1> QED BY <1>3, <1>4, <1>6, <1>7, <1>8, Zenon

LEMMA StartsWithin ==
    ASSUME NEW d
    PROVE  Starts(d) \subseteq 1..Len(d)
BY DEF Starts

LEMMA BoundaryWithin ==
    ASSUME NEW d \in Seq(Byte), NEW end \in FirstAuEnd(d)
    PROVE  end \in 0..Len(d)
<1> DEFINE T == Following(d, Min(Slices(d)))
           m == Min(T)
<1>1. T # {} /\ end = m - 1
  BY DEF FirstAuEnd
<1>2. T \subseteq 1..Len(d)
  BY StartsWithin DEF Following
<1> HIDE DEF T
<1>3. m \in 1..Len(d)
  <2>1. T \subseteq Nat
    BY <1>2
  <2> QED BY <1>1, <1>2, <2>1, MinIsFirst
<1> HIDE DEF m
<1> QED BY <1>1, <1>3

(* The inductive invariant: with NothingLost, what the sequences are. *)
SplitterTyped ==
    /\ stream \in Seq(Byte) /\ pos \in 0..Len(stream)
    /\ buf \in Seq(Byte) /\ aus \in Seq(Seq(Byte))

SplitterInv == SplitterTyped /\ NothingLost

LEMMA SplitterInit == Init => SplitterInv
<1> SUFFICES ASSUME Init PROVE SplitterInv
  OBVIOUS
<1>1. stream \in Seq(Byte) /\ pos = 0 /\ buf = <<>> /\ aus = <<>>
  BY StreamTyped DEF Init
<1>2. <<>> \in Seq(Byte) /\ <<>> \in Seq(Seq(Byte)) /\ Len(<<>>) = 0
  BY EmptySeq
<1>3. FlattenSeq(<<>>) = <<>>
  BY <1>2 DEF FlattenSeq
<1>4. <<>> \o <<>> = <<>>
  BY <1>2, ConcatEmptySeq
<1>5. SubSeq(stream, 1, 0) = <<>>
  BY SubSeqEmpty
<1>6. 0 \in 0..Len(stream)
  BY <1>1, LenProperties
<1> QED BY <1>1, <1>2, <1>3, <1>4, <1>5, <1>6 DEF SplitterInv, SplitterTyped, NothingLost

LEMMA MinOfTwo ==
    ASSUME NEW a \in Nat, NEW b \in Nat
    PROVE  /\ Min({a, b}) \in Nat /\ Min({a, b}) <= a /\ Min({a, b}) <= b
           /\ Min({a, b}) \in {a, b}
<1> DEFINE T == {a, b}
<1>1. T \subseteq Nat /\ T # {}
  OBVIOUS
<1>2. a \in T /\ b \in T
  OBVIOUS
<1>3. Min(T) \in T /\ \A y \in T : Min(T) <= y
  <2> HIDE DEF T
  <2> QED BY <1>1, MinIsFirst
<1> QED BY <1>1, <1>2, <1>3

LEMMA SplitterRead ==
    ASSUME SplitterInv, Read
    PROVE  SplitterInv'
<1>1. /\ stream \in Seq(Byte) /\ pos \in 0..Len(stream) /\ Len(stream) \in Nat
      /\ buf \in Seq(Byte) /\ aus \in Seq(Seq(Byte)) /\ NothingLost
  BY LenProperties DEF SplitterInv, SplitterTyped
<1>2. PICK k \in Chunks : /\ buf' = buf \o SubSeq(stream, pos + 1, Min({pos + k, Len(stream)}))
                          /\ pos' = Min({pos + k, Len(stream)})
                          /\ stream' = stream /\ aus' = aus
  BY DEF Read
<1> DEFINE n == Len(stream)
           to == Min({pos + k, n})
           more == SubSeq(stream, pos + 1, to)
           done == FlattenSeq(aus)
<1>3. to \in 0..n /\ pos <= to /\ to \in Int
  <2>1. k \in Nat /\ pos \in Nat /\ n \in Nat /\ pos <= n
    BY <1>1, SplitterAssumption
  <2>2. pos + k \in Nat /\ pos <= pos + k
    BY <2>1
  <2>3. to \in Nat /\ to <= n /\ to \in {pos + k, n}
    BY <2>1, <2>2, MinOfTwo
  <2> HIDE DEF to, n
  <2> QED BY <2>1, <2>2, <2>3
<1>4. buf' = buf \o more /\ pos' = to
  BY <1>2
<1>5. done \o buf = SubSeq(stream, 1, pos)
  BY <1>1 DEF NothingLost
<1>6. done \in Seq(Byte)
  BY <1>1, FlattenTyped
<1> HIDE DEF to, done
<1>7. more \in Seq(Byte)
  <2>1. pos + 1 \in Int /\ pos + 1 >= 1 /\ to <= Len(stream)
    BY <1>1, <1>3
  <2> QED BY <1>1, <1>3, <2>1, PartTyped
<1>8. SubSeq(stream, 1, pos) \o more = SubSeq(stream, 1, to)
  <2>1. 1 \in 1..(n + 1) /\ pos \in (1 - 1)..n /\ to \in pos..n
    BY <1>1, <1>3
  <2> QED BY <1>1, <2>1, ConcatAdjacentSubSeq
<1> HIDE DEF more
<1>9. done \o (buf \o more) = (done \o buf) \o more
  <2>1. done \in Seq(Byte) /\ buf \in Seq(Byte) /\ more \in Seq(Byte)
    BY <1>1, <1>6, <1>7
  <2> QED BY <2>1, ConcatAssociative
<1>10. buf \o more \in Seq(Byte)
  BY <1>1, <1>7, Joined
<1>11. NothingLost'
  BY <1>2, <1>4, <1>5, <1>8, <1>9 DEF NothingLost, done
<1> QED BY <1>1, <1>2, <1>3, <1>4, <1>10, <1>11 DEF SplitterInv, SplitterTyped

(* A part of the buffer, or all of it, becomes an access unit. *)
LEMMA SplitterMoves ==
    ASSUME SplitterInv, NEW k \in 0..Len(buf),
           aus' = Append(aus, SubSeq(buf, 1, k)), buf' = SubSeq(buf, k + 1, Len(buf)),
           pos' = pos, stream' = stream
    PROVE  SplitterInv'
<1>1. buf \in Seq(Byte) /\ aus \in Seq(Seq(Byte)) /\ NothingLost
  BY DEF SplitterInv, SplitterTyped
<1> DEFINE a == SubSeq(buf, 1, k)
           b == SubSeq(buf, k + 1, Len(buf))
           done == FlattenSeq(aus)
<1>2. a \in Seq(Byte) /\ b \in Seq(Byte) /\ a \o b = buf
  BY <1>1, CutInTwo
<1>3. done \in Seq(Byte) /\ FlattenSeq(Append(aus, a)) = done \o a
  BY <1>1, <1>2, FlattenTyped, FlattenAppend
<1>4. Append(aus, a) \in Seq(Seq(Byte))
  BY <1>1, <1>2, AppendProperties
<1>5. aus' = Append(aus, a) /\ buf' = b
  OBVIOUS
<1>6. done \o buf = SubSeq(stream, 1, pos)
  BY <1>1 DEF NothingLost
<1> HIDE DEF a, b
<1>7. done \o (a \o b) = (done \o a) \o b
  <2> HIDE DEF done
  <2>1. done \in Seq(Byte) /\ a \in Seq(Byte) /\ b \in Seq(Byte)
    BY <1>2, <1>3
  <2> QED BY <2>1, Associative
<1>8. NothingLost'
  BY <1>2, <1>3, <1>5, <1>6, <1>7 DEF NothingLost
<1> QED BY <1>2, <1>4, <1>5, <1>8 DEF SplitterInv, SplitterTyped

LEMMA SplitterAlways == Spec => []SplitterInv
<1>1. SplitterInv /\ [Next]_vars => SplitterInv'
  <2> SUFFICES ASSUME SplitterInv, [Next]_vars PROVE SplitterInv'
    OBVIOUS
  <2>1. CASE Read
    BY <2>1, SplitterRead
  <2>2. CASE Yield
    <3>1. PICK end \in FirstAuEnd(buf) :
             /\ aus' = Append(aus, SubSeq(buf, 1, end))
             /\ buf' = SubSeq(buf, end + 1, Len(buf))
             /\ pos' = pos /\ stream' = stream
      BY <2>2 DEF Yield
    <3>2. end \in 0..Len(buf)
      BY BoundaryWithin DEF SplitterInv, SplitterTyped
    <3> QED BY <3>1, <3>2, SplitterMoves
  <2>3. ASSUME aus' = Append(aus, buf), buf' = <<>>, pos' = pos, stream' = stream
        PROVE  SplitterInv'
    <3>1. buf \in Seq(Byte)
      BY DEF SplitterInv, SplitterTyped
    <3>2. Len(buf) \in 0..Len(buf) /\ Len(buf) \in Int /\ Len(buf) < Len(buf) + 1
      BY <3>1, LenProperties
    <3>3. SubSeq(buf, 1, Len(buf)) = buf /\ SubSeq(buf, Len(buf) + 1, Len(buf)) = <<>>
      BY <3>1, <3>2, SubSeqFull, SubSeqEmpty
    <3> QED BY <2>3, <3>2, <3>3, SplitterMoves
  <2>4. CASE Flush
    BY <2>3, <2>4 DEF Flush
  <2>5. CASE EndOfFile
    <3>1. CASE buf = <<>>
      BY <2>5, <3>1 DEF EndOfFile, SplitterInv, SplitterTyped, NothingLost
    <3>2. CASE buf # <<>>
      BY <2>3, <2>5, <3>2 DEF EndOfFile
    <3> QED BY <3>1, <3>2
  <2>6. CASE UNCHANGED vars
    BY <2>6 DEF vars, SplitterInv, SplitterTyped, NothingLost
  <2> QED BY <2>1, <2>2, <2>4, <2>5, <2>6 DEF Next
<1> QED BY <1>1, SplitterInit, PTL DEF Spec

(* No byte is lost, doubled or moved, wherever the reads cut the stream and however
   small the cap is: what split_aus has yielded and what it still has in its buffer
   are, one behind the other, exactly what it has read.                      *)
THEOREM Spec_NothingLost == Spec => []NothingLost
<1>1. SplitterInv => NothingLost
  BY DEF SplitterInv
<1> QED BY <1>1, SplitterAlways, PTL

-----------------------------------------------------------------------------
(* Where the access units end does not depend on the reads *)

LEMMA MinIs ==
    ASSUME NEW T, T \subseteq Nat, NEW x \in T, \A y \in T : x <= y
    PROVE  Min(T) = x
<1> DEFINE m == Min(T)
<1>1. m \in T /\ m <= x
  BY MinIsFirst
<1> HIDE DEF m
<1>2. x <= m /\ x \in Nat /\ m \in Nat
  BY <1>1
<1>3. m = x
  BY <1>1, <1>2
<1> QED BY <1>3 DEF m

LEMMA ShortCode ==
    ASSUME NEW d \in Seq(Byte), NEW p \in Nat, p >= 1, p + 2 <= Len(d)
    PROVE  SubSeq(d, p, p + 2) = <<0, 0, 1>> <=> d[p] = 0 /\ d[p + 1] = 0 /\ d[p + 2] = 1
<1> DEFINE c == SubSeq(d, p, p + 2)
<1>1. \A i \in p..(p + 2) : i \in 1..Len(d)
  BY LenProperties
<1>2. \A i \in p..(p + 2) : d[i] \in Byte
  BY <1>1, ElementOfSeq
<1>3. c \in Seq(Byte) /\ Len(c) = (IF p <= p + 2 THEN (p + 2) - p + 1 ELSE 0)
      /\ \A i \in 1..((p + 2) - p + 1) : c[i] = d[p + i - 1]
  BY <1>2, SubSeqProperties
<1> HIDE DEF c
<1>4. Len(c) = 3 /\ c[1] = d[p] /\ c[2] = d[p + 1] /\ c[3] = d[p + 2]
  <2>1. (p + 2) - p + 1 = 3 /\ p + 1 - 1 = p /\ p + 2 - 1 = p + 1 /\ p + 3 - 1 = p + 2
    OBVIOUS
  <2>2. Len(c) = 3 /\ \A i \in 1..3 : c[i] = d[p + i - 1]
    <3>1. p <= p + 2 /\ \A i \in 1..3 : i \in 1..((p + 2) - p + 1)
      OBVIOUS
    <3>2. Len(c) = 3
      BY <1>3, <2>1, <3>1
    <3> QED BY <1>3, <3>1, <3>2
  <2>3. 1 \in 1..3 /\ 2 \in 1..3 /\ 3 \in 1..3
    OBVIOUS
  <2>4. c[1] = d[p + 1 - 1] /\ c[2] = d[p + 2 - 1] /\ c[3] = d[p + 3 - 1]
    BY <2>2, <2>3
  <2> QED BY <2>1, <2>2, <2>4
<1> DEFINE e == <<0, 0, 1>>
<1>5. e \in Seq(Byte) /\ Len(e) = 3 /\ e[1] = 0 /\ e[2] = 0 /\ e[3] = 1
  <2>1. 0 \in Byte /\ 1 \in Byte
    BY DEF Byte
  <2> QED BY <2>1
<1> HIDE DEF e
<1>6. c = e <=> c[1] = e[1] /\ c[2] = e[2] /\ c[3] = e[3]
  <2> SUFFICES ASSUME c[1] = e[1], c[2] = e[2], c[3] = e[3] PROVE c = e
    OBVIOUS
  <2>1. \A i \in 1..Len(c) : c[i] = e[i]
    <3>1. \A i \in 1..Len(c) : i = 1 \/ i = 2 \/ i = 3
      BY <1>4
    <3> QED BY <3>1
  <2> QED BY <1>3, <1>4, <1>5, <2>1, SeqEqual
<1> QED BY <1>4, <1>5, <1>6 DEF c, e

LEMMA LongCode ==
    ASSUME NEW d \in Seq(Byte), NEW p \in Nat, p >= 1, p + 3 <= Len(d)
    PROVE  SubSeq(d, p, p + 3) = StartCode
              <=> d[p] = 0 /\ d[p + 1] = 0 /\ d[p + 2] = 0 /\ d[p + 3] = 1
<1> DEFINE c == SubSeq(d, p, p + 3)
<1>1. \A i \in p..(p + 3) : i \in 1..Len(d)
  BY LenProperties
<1>2. \A i \in p..(p + 3) : d[i] \in Byte
  BY <1>1, ElementOfSeq
<1>3. c \in Seq(Byte) /\ Len(c) = (IF p <= p + 3 THEN (p + 3) - p + 1 ELSE 0)
      /\ \A i \in 1..((p + 3) - p + 1) : c[i] = d[p + i - 1]
  BY <1>2, SubSeqProperties
<1> HIDE DEF c
<1>4. Len(c) = 4 /\ c[1] = d[p] /\ c[2] = d[p + 1] /\ c[3] = d[p + 2] /\ c[4] = d[p + 3]
  <2>1. /\ (p + 3) - p + 1 = 4 /\ p + 1 - 1 = p /\ p + 2 - 1 = p + 1
        /\ p + 3 - 1 = p + 2 /\ p + 4 - 1 = p + 3
    OBVIOUS
  <2>2. Len(c) = 4 /\ \A i \in 1..4 : c[i] = d[p + i - 1]
    <3>1. p <= p + 3 /\ \A i \in 1..4 : i \in 1..((p + 3) - p + 1)
      OBVIOUS
    <3>2. Len(c) = 4
      BY <1>3, <2>1, <3>1
    <3> QED BY <1>3, <3>1, <3>2
  <2>3. 1 \in 1..4 /\ 2 \in 1..4 /\ 3 \in 1..4 /\ 4 \in 1..4
    OBVIOUS
  <2>4. c[1] = d[p + 1 - 1] /\ c[2] = d[p + 2 - 1] /\ c[3] = d[p + 3 - 1] /\ c[4] = d[p + 4 - 1]
    BY <2>2, <2>3
  <2> QED BY <2>1, <2>2, <2>4
<1>5. /\ StartCode \in Seq(Byte) /\ Len(StartCode) = 4 /\ StartCode[1] = 0 /\ StartCode[2] = 0
      /\ StartCode[3] = 0 /\ StartCode[4] = 1
  BY StartCodeTyped DEF StartCode
<1>6. c = StartCode <=> /\ c[1] = StartCode[1] /\ c[2] = StartCode[2]
                        /\ c[3] = StartCode[3] /\ c[4] = StartCode[4]
  <2> SUFFICES ASSUME c[1] = StartCode[1], c[2] = StartCode[2],
                      c[3] = StartCode[3], c[4] = StartCode[4]
               PROVE  c = StartCode
    OBVIOUS
  <2>1. \A i \in 1..Len(c) : c[i] = StartCode[i]
    <3>1. \A i \in 1..Len(c) : i = 1 \/ i = 2 \/ i = 3 \/ i = 4
      BY <1>4
    <3> QED BY <3>1
  <2> QED BY <1>3, <1>4, <1>5, <2>1, SeqEqual
<1> QED BY <1>4, <1>5, <1>6 DEF c

(* What a start code is, byte by byte. *)
HasShort(d, p) == p + 2 <= Len(d) /\ d[p] = 0 /\ d[p + 1] = 0 /\ d[p + 2] = 1
HasLong(d, p) == p + 3 <= Len(d) /\ d[p] = 0 /\ d[p + 1] = 0 /\ d[p + 2] = 0 /\ d[p + 3] = 1

LEMMA CodeAtBytes ==
    ASSUME NEW d \in Seq(Byte), NEW p \in Nat, p >= 1
    PROVE  CodeAt(d, p) = IF HasShort(d, p) THEN 3 ELSE IF HasLong(d, p) THEN 4 ELSE 0
<1> DEFINE Short == p + 2 <= Len(d) /\ SubSeq(d, p, p + 2) = <<0, 0, 1>>
           Long == p + 3 <= Len(d) /\ SubSeq(d, p, p + 3) = StartCode
<1>1. Short <=> HasShort(d, p)
  BY ShortCode DEF HasShort
<1>2. Long <=> HasLong(d, p)
  BY LongCode DEF HasLong
<1>3. CodeAt(d, p) = CASE Short -> 3 [] Long -> 4 [] OTHER -> 0
  BY DEF CodeAt
<1>4. ~(Short /\ Long)
  BY <1>1, <1>2 DEF HasShort, HasLong
<1> HIDE DEF Short, Long
<1>5. CodeAt(d, p) = IF Short THEN 3 ELSE IF Long THEN 4 ELSE 0
  BY <1>3, <1>4
<1> QED BY <1>1, <1>2, <1>5

(* d is what has been read of D. *)
Begins(d, D) ==
    d \in Seq(Byte) /\ D \in Seq(Byte) /\ Len(d) <= Len(D) /\ \A i \in 1..Len(d) : D[i] = d[i]

LEMMA StartsStay ==
    ASSUME NEW d, NEW D, Begins(d, D)
    PROVE  /\ \A p \in Starts(d) : /\ p \in Starts(D) /\ CodeAt(D, p) = CodeAt(d, p)
                                   /\ p + 2 <= Len(d) /\ CodeAt(d, p) \in {3, 4}
           /\ \A p \in Starts(D) : p \in Starts(d) \/ p >= Len(d) - 2
<1>1. d \in Seq(Byte) /\ D \in Seq(Byte) /\ Len(d) \in Nat /\ Len(D) \in Nat /\ Len(d) <= Len(D)
      /\ \A i \in 1..Len(d) : D[i] = d[i]
  BY LenProperties DEF Begins
<1>2. \A p \in 1..Len(d) : HasShort(d, p) => HasShort(D, p) /\ p + 2 <= Len(d)
  <2> TAKE p \in 1..Len(d)
  <2> HAVE HasShort(d, p)
  <2>1. p + 2 <= Len(d) /\ p + 1 \in 1..Len(d) /\ p + 2 \in 1..Len(d) /\ p + 2 <= Len(D)
    BY <1>1 DEF HasShort
  <2>2. D[p] = d[p] /\ D[p + 1] = d[p + 1] /\ D[p + 2] = d[p + 2]
    BY <1>1, <2>1
  <2> QED BY <2>1, <2>2 DEF HasShort
<1>3. \A p \in 1..Len(d) : HasLong(d, p) => HasLong(D, p) /\ p + 2 <= Len(d)
  <2> TAKE p \in 1..Len(d)
  <2> HAVE HasLong(d, p)
  <2>1. /\ p + 3 <= Len(d) /\ p + 1 \in 1..Len(d) /\ p + 2 \in 1..Len(d) /\ p + 3 \in 1..Len(d)
        /\ p + 3 <= Len(D) /\ p + 2 <= Len(d)
    BY <1>1 DEF HasLong
  <2>2. D[p] = d[p] /\ D[p + 1] = d[p + 1] /\ D[p + 2] = d[p + 2] /\ D[p + 3] = d[p + 3]
    BY <1>1, <2>1
  <2> QED BY <2>1, <2>2 DEF HasLong
<1>4. \A p \in 1..Len(d) : ~(HasShort(D, p) /\ HasLong(D, p))
  BY DEF HasShort, HasLong
<1>5. \A p \in 1..Len(D) : p + 3 <= Len(d) =>
         (HasShort(D, p) <=> HasShort(d, p)) /\ (HasLong(D, p) <=> HasLong(d, p))
  <2> TAKE p \in 1..Len(D)
  <2> HAVE p + 3 <= Len(d)
  <2>1. /\ p \in 1..Len(d) /\ p + 1 \in 1..Len(d) /\ p + 2 \in 1..Len(d) /\ p + 3 \in 1..Len(d)
        /\ p + 3 <= Len(D) /\ p + 2 <= Len(d) /\ p + 2 <= Len(D)
    BY <1>1
  <2>2. D[p] = d[p] /\ D[p + 1] = d[p + 1] /\ D[p + 2] = d[p + 2] /\ D[p + 3] = d[p + 3]
    BY <1>1, <2>1
  <2> QED BY <2>1, <2>2 DEF HasShort, HasLong
<1>6. \A p \in 1..Len(d) :
         CodeAt(d, p) = IF HasShort(d, p) THEN 3 ELSE IF HasLong(d, p) THEN 4 ELSE 0
  BY <1>1, CodeAtBytes
<1>7. \A p \in 1..Len(D) :
         CodeAt(D, p) = IF HasShort(D, p) THEN 3 ELSE IF HasLong(D, p) THEN 4 ELSE 0
  BY <1>1, CodeAtBytes
<1>8. \A p \in 1..Len(d) : p \in 1..Len(D) /\ (p > 1 => D[p - 1] = d[p - 1])
  BY <1>1
<1>9. ASSUME NEW p \in Starts(d)
      PROVE  /\ p \in Starts(D) /\ CodeAt(D, p) = CodeAt(d, p)
             /\ p + 2 <= Len(d) /\ CodeAt(d, p) \in {3, 4}
  <2>1. p \in 1..Len(d) /\ CodeAt(d, p) > 0 /\ (CodeAt(d, p) = 3 /\ p > 1 => d[p - 1] # 0)
    BY DEF Starts
  <2>2. HasShort(d, p) \/ HasLong(d, p)
    BY <1>6, <2>1
  <2>3. p + 2 <= Len(d) /\ CodeAt(d, p) \in {3, 4} /\ CodeAt(D, p) = CodeAt(d, p)
    BY <1>2, <1>3, <1>4, <1>6, <1>7, <1>8, <2>1, <2>2
  <2> QED BY <1>8, <2>1, <2>3 DEF Starts
<1>10. ASSUME NEW p \in Starts(D), ~(p >= Len(d) - 2) PROVE p \in Starts(d)
  <2>1. p \in 1..Len(D) /\ CodeAt(D, p) > 0 /\ (CodeAt(D, p) = 3 /\ p > 1 => D[p - 1] # 0)
    BY DEF Starts
  <2>2. p + 3 <= Len(d) /\ p \in 1..Len(d)
    BY <1>1, <1>10, <2>1
  <2>3. CodeAt(d, p) = CodeAt(D, p)
    BY <1>5, <1>6, <1>7, <2>1, <2>2
  <2> QED BY <1>8, <2>1, <2>2, <2>3 DEF Starts
<1> QED BY <1>9, <1>10

(* A boundary that is found is final: whatever is read behind it, it stays where it
   is.  (find_start_codes is called on the buffer, whose end may lie within a start
   code, or between a start code and the type of its NAL unit.)              *)
LEMMA BoundaryFinal ==
    ASSUME NEW d, NEW D, Begins(d, D), FirstAuEnd(d) # {}
    PROVE  FirstAuEnd(D) = FirstAuEnd(d)
<1>1. d \in Seq(Byte) /\ D \in Seq(Byte) /\ Len(d) \in Nat /\ Len(D) \in Nat /\ Len(d) <= Len(D)
      /\ \A i \in 1..Len(d) : D[i] = d[i]
  BY LenProperties DEF Begins
<1> DEFINE s == Min(Slices(d))
           f == Min(Following(d, s))
<1>2. Slices(d) # {} /\ Following(d, s) # {} /\ FirstAuEnd(d) = {f - 1}
  BY DEF FirstAuEnd
<1>3. /\ Starts(d) \subseteq 1..Len(d) /\ Starts(D) \subseteq 1..Len(D)
      /\ Starts(d) \subseteq Nat /\ Starts(D) \subseteq Nat
  BY StartsWithin
<1>4. Slices(d) \subseteq Starts(d) /\ Slices(D) \subseteq Starts(D)
  BY DEF Slices
<1>5. s \in Slices(d) /\ \A y \in Slices(d) : s <= y
  <2>1. Slices(d) \subseteq Nat
    BY <1>3, <1>4
  <2> QED BY <1>2, <2>1, MinIsFirst
<1> HIDE DEF s
<1>6. f \in Following(d, s) /\ \A y \in Following(d, s) : f <= y
  <2>1. Following(d, s) \subseteq Nat
    BY <1>3 DEF Following
  <2> QED BY <1>2, <2>1, MinIsFirst
<1> HIDE DEF f
<1>7. \A p \in Starts(d) : /\ p \in Starts(D) /\ NalStart(D, p) = NalStart(d, p)
                           /\ NalStart(d, p) \in {p + 3, p + 4} /\ p + 2 <= Len(d)
  BY <1>1, StartsStay DEF NalStart
<1>8. \A p \in Starts(D) : p \in Starts(d) \/ p >= Len(d) - 2
  BY <1>1, StartsStay
<1>9. /\ s \in Starts(d) /\ NalStart(d, s) <= Len(d)
      /\ NalType("h264", d[NalStart(d, s)]) \in {1, 5}
  BY <1>5 DEF Slices
<1>10. s \in 1..Len(d) /\ s <= Len(d) - 3 /\ NalStart(d, s) \in 1..Len(d)
  <2> DEFINE m == NalStart(d, s)
  <2>1. s \in 1..Len(d) /\ m <= Len(d) /\ m \in {s + 3, s + 4}
    BY <1>3, <1>7, <1>9
  <2> HIDE DEF m
  <2>2. s <= Len(d) - 3 /\ m \in 1..Len(d)
    BY <1>1, <2>1
  <2> QED BY <2>1, <2>2 DEF m
<1>11. s \in Slices(D)
  <2>1. s \in Starts(D) /\ NalStart(D, s) = NalStart(d, s)
    BY <1>7, <1>9
  <2>2. D[NalStart(D, s)] = d[NalStart(d, s)]
    BY <1>1, <1>10, <2>1
  <2>3. NalStart(D, s) <= Len(D)
    BY <1>1, <1>10, <2>1
  <2> QED BY <1>9, <2>1, <2>2, <2>3 DEF Slices
<1>12. ASSUME NEW t \in Slices(D) PROVE s <= t
  <2>1. t \in Starts(D) /\ NalType("h264", D[NalStart(D, t)]) \in {1, 5} /\ t \in Nat
    BY <1>3 DEF Slices
  <2>2. CASE t \notin Starts(d)
    <3>1. t >= Len(d) - 2
      BY <1>8, <2>1, <2>2
    <3> QED BY <1>1, <1>10, <2>1, <3>1
  <2>3. CASE t \in Starts(d) /\ ~(NalStart(d, t) <= Len(d))
    <3> DEFINE m == NalStart(d, t)
    <3>1. m \in {t + 3, t + 4} /\ ~(m <= Len(d))
      BY <1>7, <2>3
    <3> HIDE DEF m
    <3> QED BY <1>1, <1>10, <2>1, <3>1
  <2>4. CASE t \in Starts(d) /\ NalStart(d, t) <= Len(d)
    <3> DEFINE m == NalStart(d, t)
    <3>1. m \in {t + 3, t + 4} /\ m <= Len(d) /\ NalStart(D, t) = m /\ t \in 1..Len(d)
      BY <1>3, <1>7, <2>4
    <3>2. m \in 1..Len(d)
      <4> HIDE DEF m
      <4> QED BY <1>1, <3>1
    <3>3. D[NalStart(D, t)] = d[m]
      BY <1>1, <3>1, <3>2
    <3>4. t \in Slices(d)
      BY <2>1, <2>4, <3>3 DEF Slices
    <3> QED BY <1>5, <3>4
  <2> QED BY <2>2, <2>3, <2>4
<1>13. Min(Slices(D)) = s
  <2>1. Slices(D) \subseteq Nat
    BY <1>3, <1>4
  <2> QED BY <1>11, <1>12, <2>1, MinIs
<1>14. f \in Starts(d) /\ f > s
  BY <1>6 DEF Following
<1>15. f \in Following(D, s)
  BY <1>7, <1>14 DEF Following
<1>16. ASSUME NEW q \in Following(D, s) PROVE f <= q
  <2>1. q \in Starts(D) /\ q > s /\ q \in Nat
    BY <1>3 DEF Following
  <2>2. CASE q \in Starts(d)
    BY <1>6, <2>1, <2>2 DEF Following
  <2>3. CASE q \notin Starts(d)
    <3>1. q >= Len(d) - 2
      BY <1>8, <2>1, <2>3
    <3>2. f + 2 <= Len(d) /\ f \in Nat
      BY <1>3, <1>7, <1>14
    <3> QED BY <1>1, <2>1, <3>1, <3>2
  <2> QED BY <2>2, <2>3
<1>17. Min(Following(D, s)) = f
  <2>1. Following(D, s) \subseteq Nat
    BY <1>3 DEF Following
  <2> QED BY <1>15, <1>16, <2>1, MinIs
<1>18. Slices(D) # {} /\ Following(D, Min(Slices(D))) # {}
  BY <1>11, <1>13, <1>15
<1>19. FirstAuEnd(D) = {Min(Following(D, Min(Slices(D)))) - 1}
  BY <1>18 DEF FirstAuEnd
<1> QED BY <1>2, <1>13, <1>17, <1>19

(* All bytes that are not part of an access unit yet, read or not. *)
Rest == SubSeq(stream, Len(FlattenSeq(aus)) + 1, Len(stream))

(* The boundary found in what has been read is that of the whole rest. *)
CutsWhereDue == FirstAuEnd(buf) # {} => FirstAuEnd(Rest) = FirstAuEnd(buf)

LEMMA BufferBeginsRest ==
    ASSUME SplitterInv
    PROVE  Begins(buf, Rest)
<1> DEFINE done == FlattenSeq(aus)
           tail == SubSeq(stream, pos + 1, Len(stream))
           more == buf \o tail
<1>1. stream \in Seq(Byte) /\ pos \in 0..Len(stream) /\ buf \in Seq(Byte)
      /\ done \in Seq(Byte) /\ done \o buf = SubSeq(stream, 1, pos)
  BY FlattenTyped DEF SplitterInv, SplitterTyped, NothingLost
<1>2. tail \in Seq(Byte) /\ SubSeq(stream, 1, pos) \o tail = stream
  BY <1>1, CutInTwo
<1> HIDE DEF done, tail, more
<1>3. /\ more \in Seq(Byte) /\ Len(more) = Len(buf) + Len(tail)
      /\ \A i \in 1..Len(more) : more[i] = IF i <= Len(buf) THEN buf[i] ELSE tail[i - Len(buf)]
  BY <1>1, <1>2, Joined, JoinedAt DEF more
<1>4. done \o more = stream
  <2>1. done \o (buf \o tail) = (done \o buf) \o tail
    BY <1>1, <1>2, Associative
  <2> QED BY <1>1, <1>2, <2>1 DEF more
<1>5. Len(buf) \in Nat /\ Len(tail) \in Nat /\ Len(done) \in Nat /\ Len(stream) \in Nat
  BY <1>1, <1>2, LenProperties
<1>6. /\ Len(stream) = Len(done) + Len(more)
      /\ \A i \in 1..Len(stream) : stream[i] = IF i <= Len(done) THEN done[i] ELSE more[i - Len(done)]
  BY <1>1, <1>3, <1>4, Joined, JoinedAt
<1> DEFINE k == Len(done)
<1>7. k \in 0..Len(stream)
  BY <1>3, <1>5, <1>6
<1>8. Rest = SubSeq(stream, k + 1, Len(stream))
  BY DEF Rest, done
<1> HIDE DEF k
<1>9. /\ Rest \in Seq(Byte) /\ Len(Rest) = Len(stream) - k
  BY <1>1, <1>7, <1>8, CutInTwo
<1>10. Len(buf) <= Len(Rest)
  BY <1>3, <1>5, <1>6, <1>9 DEF k
<1>11. \A i \in 1..Len(buf) : Rest[i] = buf[i]
  <2> TAKE i \in 1..Len(buf)
  <2>1. \A j \in (k + 1)..Len(stream) : stream[j] \in Byte
    <3>1. \A j \in (k + 1)..Len(stream) : j \in 1..Len(stream)
      BY <1>7
    <3> QED BY <1>1, <3>1, ElementOfSeq
  <2>2. k + 1 \in Int /\ Len(stream) \in Int
    BY <1>5, <1>7
  <2>3. \A j \in 1..(Len(stream) - (k + 1) + 1) : Rest[j] = stream[(k + 1) + j - 1]
    BY <1>8, <2>1, <2>2, SubSeqProperties
  <2>4. i \in 1..(Len(stream) - (k + 1) + 1) /\ (k + 1) + i - 1 = k + i
    BY <1>5, <1>7, <1>9, <1>10
  <2>5. Rest[i] = stream[k + i]
    BY <2>3, <2>4
  <2>6. /\ k + i \in 1..Len(stream) /\ ~(k + i <= k) /\ k + i - k = i
        /\ i \in 1..Len(more) /\ i <= Len(buf)
    BY <1>3, <1>5, <1>6, <1>7 DEF k
  <2>7. stream[k + i] = more[i]
    BY <1>6, <2>6 DEF k
  <2> QED BY <1>3, <2>5, <2>6, <2>7
<1> QED BY <1>1, <1>9, <1>10, <1>11 DEF Begins

(* Where split_aus cuts does not depend on how ffmpeg's output was cut into reads:
   whenever it finds the end of an access unit in its buffer, that is where the
   first access unit of everything it has not yielded yet ends, the bytes that are
   still to come included.                                                   *)
THEOREM Spec_CutsWhereDue == Spec => []CutsWhereDue
<1>1. SplitterInv => CutsWhereDue
  BY BufferBeginsRest, BoundaryFinal DEF CutsWhereDue
<1> QED BY <1>1, SplitterAlways, PTL

-----------------------------------------------------------------------------
(* What is read back *)

(* Two loops whose turns do the same are the same as far as both go. *)
LEMMA LoopsAgree ==
    ASSUME NEW S, NEW s0, NEW n \in Nat, NEW m \in Nat, n <= m, NEW F, NEW G, NEW f, NEW g,
           IsLoop(f, n, S, s0, F), IsLoop(g, m, S, s0, G),
           \A i \in 1..n, s \in S : F[<<i, s>>] = G[<<i, s>>]
    PROVE  f[n] = g[n]
<1> DEFINE T == {i \in 0..n : f[i] = g[i]}
<1>1. f \in [0..n -> S] /\ f[0] = g[0]
  BY DEF IsLoop
<1>2. 0 \in T
  BY <1>1
<1>3. ASSUME NEW i \in 0..(n - 1), i \in T PROVE i + 1 \in T
  <2>1. i \in 0..n /\ i + 1 \in 0..n /\ i + 1 \in 1..n /\ i + 1 \in 1..m /\ (i + 1) - 1 = i
    OBVIOUS
  <2>2. f[i] \in S /\ g[i] = f[i]
    BY <1>1, <1>3, <2>1
  <2>3. f[i + 1] = F[<<i + 1, f[i]>>] /\ g[i + 1] = G[<<i + 1, g[i]>>]
    BY <2>1 DEF IsLoop
  <2> QED BY <2>1, <2>2, <2>3
<1>4. n \in T
  <2> HIDE DEF T
  <2>1. \A i \in 0..n : i \in T
    BY <1>2, <1>3, Induction
  <2> QED BY <2>1
<1> QED BY <1>4

IsStep(G, S, B) == G \in [S \X B -> S]

(* What G makes of s0, one element of x after the other. *)
Turns(G, S, x) == [q \in (1..Len(x)) \X S |-> G[<<q[2], x[q[1]]>>]]

Folded(G, S, s0, x) ==
    CHOOSE s : \E f : IsLoop(f, Len(x), S, s0, Turns(G, S, x)) /\ s = f[Len(x)]

LEMMA FoldedIs ==
    ASSUME NEW S, NEW B, NEW s0 \in S, NEW G, IsStep(G, S, B), NEW x \in Seq(B), NEW f,
           IsLoop(f, Len(x), S, s0, Turns(G, S, x))
    PROVE  Folded(G, S, s0, x) = f[Len(x)] /\ Folded(G, S, s0, x) \in S
<1> DEFINE n == Len(x)
           P(s) == \E g : IsLoop(g, n, S, s0, Turns(G, S, x)) /\ s = g[n]
<1>1. n \in Nat /\ n <= n
  BY LenProperties
<1>2. P(f[n])
  OBVIOUS
<1>3. \A s : P(s) => s = f[n]
  BY <1>1, LoopsAgree
<1>4. Folded(G, S, s0, x) = CHOOSE s : P(s)
  BY DEF Folded
<1>5. f[n] \in S
  BY <1>1 DEF IsLoop
<1> HIDE DEF P, n
<1>6. (CHOOSE s : P(s)) = f[n]
  BY <1>2, <1>3
<1> QED BY <1>4, <1>5, <1>6 DEF n

LEMMA FoldedLoop ==
    ASSUME NEW S, NEW B, NEW s0 \in S, NEW G, IsStep(G, S, B), NEW x \in Seq(B)
    PROVE  \E f : /\ IsLoop(f, Len(x), S, s0, Turns(G, S, x))
                  /\ Folded(G, S, s0, x) = f[Len(x)]
<1>1. Len(x) \in Nat /\ \A i \in 1..Len(x) : x[i] \in B
  BY LenProperties, ElementOfSeq
<1>2. Turns(G, S, x) \in [(1..Len(x)) \X S -> S]
  BY <1>1 DEF Turns, IsStep
<1>3. PICK f : IsLoop(f, Len(x), S, s0, Turns(G, S, x))
  BY <1>1, <1>2, LoopExists
<1>4. Folded(G, S, s0, x) = f[Len(x)]
  BY <1>3, FoldedIs
<1> QED BY <1>3, <1>4

LEMMA FoldedTyped ==
    ASSUME NEW S, NEW B, NEW s0 \in S, NEW G, IsStep(G, S, B), NEW x \in Seq(B)
    PROVE  Folded(G, S, s0, x) \in S
BY FoldedLoop, FoldedIs

LEMMA FoldedEmpty ==
    ASSUME NEW S, NEW B, NEW s0 \in S, NEW G, IsStep(G, S, B)
    PROVE  Folded(G, S, s0, <<>>) = s0
<1> DEFINE x == <<>>
<1>0. Len(x) = 0
  BY EmptySeq
<1>1. x \in Seq(B)
  BY EmptySeq
<1> HIDE DEF x
<1>2. PICK f : IsLoop(f, Len(x), S, s0, Turns(G, S, x)) /\ Folded(G, S, s0, x) = f[Len(x)]
  BY <1>1, FoldedLoop
<1>3. Folded(G, S, s0, x) = s0
  BY <1>0, <1>2 DEF IsLoop
<1> QED BY <1>3 DEF x

LEMMA FoldedAppend ==
    ASSUME NEW S, NEW B, NEW s0 \in S, NEW G, IsStep(G, S, B), NEW x \in Seq(B), NEW y \in B
    PROVE  Folded(G, S, s0, Append(x, y)) = G[<<Folded(G, S, s0, x), y>>]
<1> DEFINE n == Len(x)
           z == Append(x, y)
<1>1. n \in Nat /\ z \in Seq(B) /\ Len(z) = n + 1 /\ z[n + 1] = y /\ \A i \in 1..n : z[i] = x[i]
  BY LenProperties, AppendProperties
<1> HIDE DEF z
<1>2. PICK f : IsLoop(f, n, S, s0, Turns(G, S, x)) /\ Folded(G, S, s0, x) = f[n]
  BY FoldedLoop
<1>3. PICK g : IsLoop(g, n + 1, S, s0, Turns(G, S, z)) /\ Folded(G, S, s0, z) = g[n + 1]
  BY <1>1, FoldedLoop
<1>4. \A i \in 1..n, s \in S : Turns(G, S, x)[<<i, s>>] = G[<<s, x[i]>>]
  BY DEF Turns
<1>5. \A i \in 1..(n + 1), s \in S : Turns(G, S, z)[<<i, s>>] = G[<<s, z[i]>>]
  BY <1>1 DEF Turns
<1> HIDE DEF n
<1>6. n + 1 \in Nat /\ n <= n + 1 /\ \A i \in 1..n : i \in 1..(n + 1)
  BY <1>1
<1>7. f[n] = g[n]
  <2>1. \A i \in 1..n, s \in S : Turns(G, S, x)[<<i, s>>] = Turns(G, S, z)[<<i, s>>]
    <3> TAKE i \in 1..n, s \in S
    <3>1. i \in 1..(n + 1) /\ z[i] = x[i]
      BY <1>1, <1>6 DEF n
    <3>2. Turns(G, S, x)[<<i, s>>] = G[<<s, x[i]>>]
      BY <1>4
    <3>3. Turns(G, S, z)[<<i, s>>] = G[<<s, z[i]>>]
      BY <1>5, <3>1
    <3> QED BY <3>1, <3>2, <3>3
  <2> QED BY <1>1, <1>2, <1>3, <1>6, <2>1, LoopsAgree
<1>8. g[n] \in S /\ g[n + 1] = Turns(G, S, z)[<<n + 1, g[n]>>]
  <2>1. n \in 0..(n + 1) /\ n + 1 \in 1..(n + 1) /\ (n + 1) - 1 = n
    BY <1>1
  <2>2. g \in [0..(n + 1) -> S]
        /\ \A i \in 1..(n + 1) : g[i] = Turns(G, S, z)[<<i, g[i - 1]>>]
    BY <1>3 DEF IsLoop
  <2> QED BY <2>1, <2>2
<1>9. g[n + 1] = G[<<g[n], z[n + 1]>>]
  <2>1. n + 1 \in 1..(n + 1)
    BY <1>1
  <2> QED BY <1>5, <1>8, <2>1
<1> QED BY <1>1, <1>2, <1>3, <1>7, <1>9 DEF z

-----------------------------------------------------------------------------
(* Escaping and unescaping *)

EscapeFcn == [q \in State \X Byte |-> EscapeByte(q[1], q[2])]
UnescapeFcn(want) == [q \in State \X Byte |-> UnescapeByte(q[1], q[2], want)]

Fresh(zeros) == [out |-> <<>>, zeros |-> zeros]
AfterEscape(x) == Folded(EscapeFcn, State, Fresh(0), x)
AfterUnescape(x, want) == Folded(UnescapeFcn(want), State, Fresh(0), x)

LEMMA FreshTyped == Fresh(0) \in State
BY EmptySeq DEF Fresh, State

LEMMA UnescapeByteTyped ==
    ASSUME NEW s \in State, NEW b \in Byte, NEW want \in Nat
    PROVE  UnescapeByte(s, b, want) \in State
<1>1. s.out \in Seq(Byte) /\ s.zeros \in Nat
  BY DEF State
<1>2. Append(s.out, b) \in Seq(Byte) /\ Len(s.out) \in Nat
  BY <1>1, AppendProperties, LenProperties
<1>3. \A z \in Nat : ZerosAfter(z, b) \in Nat
  BY DEF ZerosAfter
<1>4. Len(s.out) >= want \/ Len(s.out) < want
  BY <1>2
<1>5. UnescapeByte(s, b, want) \in
         {s, [out |-> s.out, zeros |-> 0],
          [out |-> Append(s.out, b), zeros |-> ZerosAfter(s.zeros, b)]}
  BY <1>2, <1>4 DEF UnescapeByte
<1>6. [out |-> s.out, zeros |-> 0] \in State
  BY <1>1 DEF State
<1>7. [out |-> Append(s.out, b), zeros |-> ZerosAfter(s.zeros, b)] \in State
  BY <1>1, <1>2, <1>3 DEF State
<1> QED BY <1>5, <1>6, <1>7

LEMMA FcnsTyped ==
    ASSUME NEW want \in Nat
    PROVE  IsStep(EscapeFcn, State, Byte) /\ IsStep(UnescapeFcn(want), State, Byte)
BY EscapeByteTyped, UnescapeByteTyped DEF EscapeFcn, UnescapeFcn, IsStep

LEMMA EscapeIsFolded ==
    ASSUME NEW bytes \in Seq(Byte)
    PROVE  Escape(0, bytes) = AfterEscape(bytes).out
<1>1. PICK f : /\ IsLoop(f, Len(bytes), State, Fresh(0), EscapeStep(bytes))
               /\ Escape(0, bytes) = f[Len(bytes)].out
  BY EscapeLoop DEF Fresh
<1>2. \A i \in 1..Len(bytes) : bytes[i] \in Byte
  BY ElementOfSeq
<1>3. EscapeStep(bytes) = Turns(EscapeFcn, State, bytes)
  BY <1>2 DEF EscapeStep, Turns, EscapeFcn
<1>4. 0 \in Nat
  OBVIOUS
<1>5. AfterEscape(bytes) = f[Len(bytes)]
  BY <1>1, <1>3, <1>4, FreshTyped, FcnsTyped, FoldedIs, SMTT(30) DEF AfterEscape
<1> QED BY <1>1, <1>5

LEMMA UnescapeIsFolded ==
    ASSUME NEW bytes \in Seq(Byte), NEW want \in Nat
    PROVE  Unescape(bytes, want) = AfterUnescape(bytes, want).out
<1> DEFINE n == Len(bytes)
           s0 == Fresh(0)
           F == Turns(UnescapeFcn(want), State, bytes)
           P(f) == f = [i \in 0..n |-> IF i = 0 THEN s0 ELSE UnescapeByte(f[i - 1], bytes[i], want)]
           e == CHOOSE f : P(f)
<1>1. n \in Nat /\ \A i \in 1..n : bytes[i] \in Byte
  BY LenProperties, ElementOfSeq
<1>2. s0 \in State /\ IsStep(UnescapeFcn(want), State, Byte)
  BY FreshTyped, FcnsTyped
<1>3. F \in [(1..n) \X State -> State]
  BY <1>1, <1>2 DEF Turns, IsStep
<1>4. \A i \in 1..n, s \in State : F[<<i, s>>] = UnescapeByte(s, bytes[i], want)
  BY <1>1 DEF Turns, UnescapeFcn
<1>5. Unescape(bytes, want) = e[n].out
  BY DEF Unescape, Fresh
<1> HIDE DEF n, s0, F
<1>6. PICK f : IsLoop(f, n, State, s0, F)
  BY <1>1, <1>2, <1>3, LoopExists
<1>7. P(f)
  <2>1. f \in [0..n -> State] /\ f[0] = s0
    BY <1>6 DEF IsLoop
  <2>2. \A i \in 0..n : i # 0 => i \in 1..n /\ i - 1 \in 0..n
    BY <1>1
  <2>3. \A i \in 1..n : i - 1 \in 0..n => f[i] = UnescapeByte(f[i - 1], bytes[i], want)
    BY <1>4, <1>6, <2>1 DEF IsLoop
  <2> QED BY <2>1, <2>2, <2>3
<1>8. P(e)
  BY <1>7
<1> HIDE DEF e
<1>9. e = [i \in 0..n |-> e[i]] /\ e[0] = s0
  BY <1>1, <1>8
<1>10. \A i \in 1..n : e[i] = UnescapeByte(e[i - 1], bytes[i], want)
  BY <1>1, <1>8
<1>11. IsLoop(e, n, State, s0, F)
  BY <1>1, <1>2, <1>3, <1>4, <1>9, <1>10, LoopTyped
<1>12. AfterUnescape(bytes, want) = e[n]
  BY <1>2, <1>11, FoldedIs DEF AfterUnescape, n, s0, F
<1> QED BY <1>5, <1>12

LEMMA AfterEscapeTyped ==
    ASSUME NEW x \in Seq(Byte)
    PROVE  AfterEscape(x) \in State
<1>1. 0 \in Nat
  OBVIOUS
<1> QED BY <1>1, FreshTyped, FcnsTyped, FoldedTyped DEF AfterEscape

LEMMA AfterEscapeAppend ==
    ASSUME NEW x \in Seq(Byte), NEW b \in Byte
    PROVE  AfterEscape(Append(x, b)) = EscapeByte(AfterEscape(x), b)
<1>1. 0 \in Nat
  OBVIOUS
<1>2. AfterEscape(Append(x, b)) = EscapeFcn[<<AfterEscape(x), b>>]
  BY <1>1, FreshTyped, FcnsTyped, FoldedAppend DEF AfterEscape
<1> QED BY <1>2, AfterEscapeTyped DEF EscapeFcn

LEMMA AfterUnescapeTyped ==
    ASSUME NEW x \in Seq(Byte), NEW want \in Nat
    PROVE  AfterUnescape(x, want) \in State
BY FreshTyped, FcnsTyped, FoldedTyped DEF AfterUnescape

LEMMA AfterUnescapeAppend ==
    ASSUME NEW x \in Seq(Byte), NEW b \in Byte, NEW want \in Nat
    PROVE  AfterUnescape(Append(x, b), want) = UnescapeByte(AfterUnescape(x, want), b, want)
<1>1. AfterUnescape(Append(x, b), want) = UnescapeFcn(want)[<<AfterUnescape(x, want), b>>]
  BY FreshTyped, FcnsTyped, FoldedAppend DEF AfterUnescape
<1> QED BY <1>1, AfterUnescapeTyped DEF UnescapeFcn

LEMMA OneByteMore ==
    ASSUME NEW x \in Seq(Byte), NEW i \in 0..(Len(x) - 1)
    PROVE  /\ SubSeq(x, 1, i) \in Seq(Byte) /\ Len(SubSeq(x, 1, i)) = i /\ i < Len(x)
           /\ x[i + 1] \in Byte
           /\ SubSeq(x, 1, i + 1) = Append(SubSeq(x, 1, i), x[i + 1])
<1>1. Len(x) \in Nat /\ i \in 0..Len(x) /\ i + 1 \in 1..Len(x) /\ 1 \in 1..Len(x) /\ i < Len(x)
      /\ (i + 1) - 1 = i
  BY LenProperties
<1>2. SubSeq(x, 1, i) \in Seq(Byte) /\ Len(SubSeq(x, 1, i)) = i /\ x[i + 1] \in Byte
  BY <1>1, CutInTwo, ElementOfSeq
<1>3. SubSeq(x, 1, i + 1) = SubSeq(x, 1, i) \o <<x[i + 1]>>
  <2> DEFINE k == i + 1
  <2>1. k \in 1..Len(x) /\ 1 \in 1..Len(x) /\ k \in 1..Len(x)
    BY <1>1
  <2> HIDE DEF k
  <2>2. SubSeq(x, 1, k) = SubSeq(x, 1, k - 1) \o <<x[k]>>
    BY <2>1, SubSeqRecursiveSecond
  <2> QED BY <1>1, <2>2 DEF k
<1> QED BY <1>1, <1>2, <1>3, AppendIsConcat

(* The reader undoes the writer's stuffing byte for byte: both know the same
   number of zeros.                                                          *)
LEMMA LockStep ==
    ASSUME NEW raw \in Seq(Byte), NEW want \in Nat, Len(raw) <= want
    PROVE  AfterUnescape(AfterEscape(raw).out, want)
              = [out |-> raw, zeros |-> AfterEscape(raw).zeros]
<1> DEFINE n == Len(raw)
           p(i) == SubSeq(raw, 1, i)
           e(i) == AfterEscape(p(i))
           Same(q, x) == AfterUnescape(x.out, want) = [out |-> q, zeros |-> x.zeros]
           T == {i \in 0..n : Same(p(i), e(i))}
<1>1. n \in Nat /\ n <= want
  BY LenProperties
<1>2. 0 \in T
  <2>1. p(0) = <<>>
    BY SubSeqEmpty
  <2>2. AfterEscape(<<>>) = Fresh(0) /\ AfterUnescape(<<>>, want) = Fresh(0)
    BY FreshTyped, FcnsTyped, FoldedEmpty DEF AfterEscape, AfterUnescape
  <2>3. Fresh(0).out = <<>> /\ Fresh(0).zeros = 0 /\ Fresh(0) = [out |-> <<>>, zeros |-> 0]
    BY DEF Fresh
  <2>4. Same(<<>>, AfterEscape(<<>>))
    BY <2>2, <2>3
  <2>5. Same(p(0), e(0))
    <3> HIDE DEF Same
    <3> QED BY <2>1, <2>4
  <2>6. 0 \in 0..n
    BY <1>1
  <2> HIDE DEF Same
  <2> QED BY <2>5, <2>6
<1>3. ASSUME NEW i \in 0..(n - 1), i \in T PROVE i + 1 \in T
  <2> DEFINE b == raw[i + 1]
             s == p(i)
             out == e(i).out
             z == e(i).zeros
  <2>1. s \in Seq(Byte) /\ Len(s) = i /\ i < n /\ b \in Byte /\ p(i + 1) = Append(s, b)
    BY OneByteMore
  <2>2. e(i) \in State
    BY <2>1, AfterEscapeTyped
  <2>3. out \in Seq(Byte) /\ z \in Nat
    BY <2>2 DEF State
  <2>4. AfterUnescape(out, want) = [out |-> s, zeros |-> z]
    <3>1. Same(s, e(i))
      BY <1>3
    <3> QED BY <3>1
  <2>5. e(i + 1) = EscapeByte(e(i), b)
    BY <2>1, AfterEscapeAppend
  <2>6. Len(s) < want /\ ~(Len(s) >= want) /\ i + 1 \in 0..n
    BY <1>1, <2>1
  <2> HIDE DEF b, s
  <2>7. CASE ~NeedsStuffing(z, b)
    <3>1. e(i + 1) = [out |-> Append(out, b), zeros |-> ZerosAfter(z, b)]
      BY <2>5, <2>7 DEF EscapeByte
    <3>2. ~(z >= 2 /\ b = 3)
      BY <2>7 DEF NeedsStuffing
    <3> HIDE DEF out, z
    <3>3. AfterUnescape(Append(out, b), want) = UnescapeByte([out |-> s, zeros |-> z], b, want)
      BY <2>1, <2>3, <2>4, AfterUnescapeAppend
    <3>4. UnescapeByte([out |-> s, zeros |-> z], b, want)
             = [out |-> Append(s, b), zeros |-> ZerosAfter(z, b)]
      BY <2>6, <3>2 DEF UnescapeByte
    <3>5. AfterUnescape(Append(out, b), want) = [out |-> Append(s, b), zeros |-> ZerosAfter(z, b)]
      BY <3>3, <3>4
    <3>6. e(i + 1).out = Append(out, b) /\ e(i + 1).zeros = ZerosAfter(z, b)
      BY <3>1
    <3>7. Same(Append(s, b), e(i + 1))
      BY <3>5, <3>6
    <3> QED BY <2>1, <2>6, <3>7
  <2>8. CASE NeedsStuffing(z, b)
    <3>1. e(i + 1) = [out |-> out \o <<3, b>>, zeros |-> ZerosAfter(0, b)]
      BY <2>5, <2>8 DEF EscapeByte
    <3>2. z >= 2
      BY <2>8 DEF NeedsStuffing
    <3> HIDE DEF out, z
    <3>3. out \o <<3, b>> = Append(Append(out, 3), b)
      BY <2>1, <2>3, PairProperties
    <3>4. 3 \in Byte /\ Append(out, 3) \in Seq(Byte)
      <4>1. 3 \in Byte
        BY DEF Byte
      <4> QED BY <2>3, <4>1, AppendProperties
    <3>5. AfterUnescape(Append(out, 3), want) = UnescapeByte([out |-> s, zeros |-> z], 3, want)
      BY <2>3, <2>4, <3>4, AfterUnescapeAppend
    <3>6. UnescapeByte([out |-> s, zeros |-> z], 3, want) = [out |-> s, zeros |-> 0]
      BY <2>6, <3>2 DEF UnescapeByte
    <3>7. AfterUnescape(Append(Append(out, 3), b), want)
             = UnescapeByte([out |-> s, zeros |-> 0], b, want)
      BY <2>1, <3>4, <3>5, <3>6, AfterUnescapeAppend, Zenon
    <3>8. UnescapeByte([out |-> s, zeros |-> 0], b, want)
             = [out |-> Append(s, b), zeros |-> ZerosAfter(0, b)]
      BY <2>6 DEF UnescapeByte
    <3>9. AfterUnescape(out \o <<3, b>>, want) = [out |-> Append(s, b), zeros |-> ZerosAfter(0, b)]
      BY <3>3, <3>7, <3>8
    <3>10. e(i + 1).out = out \o <<3, b>> /\ e(i + 1).zeros = ZerosAfter(0, b)
      <4> DEFINE pair == out \o <<3, b>>
                 after == e(i + 1)
      <4>1. after = [out |-> pair, zeros |-> ZerosAfter(0, b)]
        BY <3>1
      <4> HIDE DEF pair, after
      <4>2. after.out = pair /\ after.zeros = ZerosAfter(0, b)
        BY <4>1
      <4> QED BY <4>2 DEF pair, after
    <3>11. Same(Append(s, b), e(i + 1))
      BY <3>9, <3>10
    <3> QED BY <2>1, <2>6, <3>11
  <2> QED BY <2>7, <2>8
<1>4. n \in T
  <2> HIDE DEF T
  <2>1. \A i \in 0..n : i \in T
    BY <1>1, <1>2, <1>3, Induction
  <2> QED BY <1>1, <2>1
<1>5. p(n) = raw
  BY SubSeqFull
<1> QED BY <1>4, <1>5

(* The reader stops once it has what it wants. *)
LEMMA EnoughIsEnough ==
    ASSUME NEW x \in Seq(Byte), NEW rest \in Seq(Byte), NEW want \in Nat,
           Len(AfterUnescape(x, want).out) >= want
    PROVE  AfterUnescape(x \o rest, want) = AfterUnescape(x, want)
<1> DEFINE n == Len(rest)
           p(i) == SubSeq(rest, 1, i)
           u == AfterUnescape(x, want)
           T == {i \in 0..n : AfterUnescape(x \o p(i), want) = u}
<1>1. n \in Nat
  BY LenProperties
<1>2. 0 \in T
  <2>1. p(0) = <<>>
    BY SubSeqEmpty
  <2>2. x \o <<>> = x
    BY ConcatEmptySeq
  <2>3. x \o p(0) = x
    BY <2>1, <2>2
  <2>4. AfterUnescape(x \o p(0), want) = u
    BY <2>3
  <2> QED BY <1>1, <2>4
<1>3. ASSUME NEW i \in 0..(n - 1), i \in T PROVE i + 1 \in T
  <2>1. p(i) \in Seq(Byte) /\ rest[i + 1] \in Byte /\ p(i + 1) = Append(p(i), rest[i + 1])
    BY OneByteMore
  <2>2. x \o p(i + 1) = Append(x \o p(i), rest[i + 1]) /\ x \o p(i) \in Seq(Byte)
    BY <2>1, Regrouped, Joined
  <2>3. AfterUnescape(x \o p(i + 1), want)
           = UnescapeByte(AfterUnescape(x \o p(i), want), rest[i + 1], want)
    BY <2>1, <2>2, AfterUnescapeAppend
  <2>4. AfterUnescape(x \o p(i), want) = u
    BY <1>3
  <2>5. UnescapeByte(u, rest[i + 1], want) = u
    <3> HIDE DEF u
    <3>1. u \in State /\ Len(u.out) >= want
      BY AfterUnescapeTyped DEF u
    <3>2. Len(u.out) \in Nat
      BY <3>1, LenProperties DEF State
    <3>3. ~(Len(u.out) < want)
      BY <3>1, <3>2
    <3> QED BY <3>1, <3>3 DEF UnescapeByte
  <2>6. i + 1 \in 0..n
    BY <1>1
  <2> QED BY <2>3, <2>4, <2>5, <2>6
<1>4. n \in T
  <2> HIDE DEF T
  <2>1. \A i \in 0..n : i \in T
    BY <1>1, <1>2, <1>3, Induction
  <2> QED BY <1>1, <2>1
<1>5. p(n) = rest
  BY SubSeqFull
<1> QED BY <1>4, <1>5

(* Whatever the bytes, and whatever stands behind them: unescaping what escaping
   made of them gives them back, where the head before them does not end in 0.  *)
THEOREM UnescapeOfEscape ==
    ASSUME NEW raw \in Seq(Byte), NEW rest \in Seq(Byte)
    PROVE  Unescape(Escape(0, raw) \o rest, Len(raw)) = raw
<1> DEFINE e == Escape(0, raw)
           n == Len(raw)
           x == e \o rest
<1>1. n \in Nat /\ n <= n
  BY LenProperties
<1>2. e = AfterEscape(raw).out /\ e \in Seq(Byte)
  BY EscapeIsFolded, AfterEscapeTyped DEF State
<1>3. AfterUnescape(e, n) = [out |-> raw, zeros |-> AfterEscape(raw).zeros]
  BY <1>1, <1>2, LockStep
<1> HIDE DEF e, n
<1>4. AfterUnescape(e, n).out = raw
  BY <1>3
<1>5. Len(AfterUnescape(e, n).out) >= n
  BY <1>1, <1>4 DEF n
<1>6. AfterUnescape(x, n) = AfterUnescape(e, n)
  BY <1>1, <1>2, <1>5, EnoughIsEnough
<1>7. x \in Seq(Byte)
  BY <1>2, Joined
<1> HIDE DEF x
<1>8. Unescape(x, n) = AfterUnescape(x, n).out
  BY <1>1, <1>7, UnescapeIsFolded
<1> QED BY <1>4, <1>6, <1>8 DEF x, e, n

-----------------------------------------------------------------------------
(* Numbers *)

(* The values read so far, and the values still to write. *)
Reads(f, ahead, bytes) ==
    /\ f \in [0..Len(bytes) -> Int] /\ f[0] = ahead
    /\ \A i \in 1..Len(bytes) : f[i] = 256 * f[i - 1] + bytes[i]
    /\ Number(ahead, bytes) = f[Len(bytes)]

Halves(s, v, w) ==
    s \in [0..w -> Int] /\ s[0] = v /\ \A k \in 1..w : s[k] = s[k - 1] \div 256

LEMMA NumberLoop ==
    ASSUME NEW ahead \in Int, NEW bytes \in Seq(Byte)
    PROVE  \E f : Reads(f, ahead, bytes)
<1> DEFINE n == Len(bytes)
           F == [q \in (1..n) \X Int |-> 256 * q[2] + bytes[q[1]]]
           P(f) == f = [i \in 0..n |-> IF i = 0 THEN ahead ELSE 256 * f[i - 1] + bytes[i]]
           e == CHOOSE f : P(f)
<1>1. n \in Nat /\ \A i \in 1..n : bytes[i] \in Int
  <2>1. Byte \subseteq Int
    BY ByteIsNat
  <2> QED BY <2>1, LenProperties, ElementOfSeq
<1>2. F \in [(1..n) \X Int -> Int]
  <2>1. \A x, y \in Int : 256 * x + y \in Int
    OBVIOUS
  <2> QED BY <1>1, <2>1
<1>3. \A i \in 1..n, x \in Int : F[<<i, x>>] = 256 * x + bytes[i]
  OBVIOUS
<1>4. Number(ahead, bytes) = e[n]
  BY DEF Number
<1> HIDE DEF n, F
<1>5. PICK f : IsLoop(f, n, Int, ahead, F)
  BY <1>1, <1>2, LoopExists
<1>6. P(f)
  <2>1. f \in [0..n -> Int] /\ f[0] = ahead
    BY <1>5 DEF IsLoop
  <2>2. \A i \in 0..n : i # 0 => i \in 1..n /\ i - 1 \in 0..n
    BY <1>1
  <2>3. \A i \in 1..n : i - 1 \in 0..n => f[i] = 256 * f[i - 1] + bytes[i]
    <3> TAKE i \in 1..n
    <3> HAVE i - 1 \in 0..n
    <3>1. f[i - 1] \in Int /\ f[i] = F[<<i, f[i - 1]>>]
      BY <1>5, <2>1 DEF IsLoop
    <3> QED BY <1>3, <3>1
  <2> QED BY <2>1, <2>2, <2>3
<1>7. P(e)
  BY <1>6, Zenon
<1> HIDE DEF e
<1>8. e = [i \in 0..n |-> e[i]] /\ e[0] = ahead
  BY <1>1, <1>7
<1>9. \A i \in 1..n : e[i] = 256 * e[i - 1] + bytes[i]
  BY <1>1, <1>7
<1>10. \A i \in 1..n : e[i - 1] \in Int => e[i] = F[<<i, e[i - 1]>>]
  BY <1>3, <1>9
<1>11. e \in [0..n -> Int]
  <2>1. IsLoop(e, n, Int, ahead, F)
    BY <1>1, <1>2, <1>8, <1>10, LoopTyped
  <2> QED BY <2>1 DEF IsLoop
<1>12. Reads(e, ahead, bytes)
  BY <1>4, <1>8, <1>9, <1>11 DEF n, Reads
<1> QED BY <1>12

LEMMA ShiftedProperties ==
    ASSUME NEW v \in Int, NEW w \in Nat
    PROVE  Halves(Shifted(v, w), v, w)
<1>1. IsLoop(Shifted(v, w), w, Int, v, ShiftStep(w))
  BY ShiftLoop
<1>2. Shifted(v, w) \in [0..w -> Int] /\ Shifted(v, w)[0] = v
  BY <1>1 DEF IsLoop
<1>3. \A k \in 1..w : Shifted(v, w)[k] = Shifted(v, w)[k - 1] \div 256
  <2> TAKE k \in 1..w
  <2>1. k - 1 \in 0..w
    OBVIOUS
  <2>2. Shifted(v, w)[k - 1] \in Int
    BY <1>2, <2>1
  <2>3. Shifted(v, w)[k] = ShiftStep(w)[<<k, Shifted(v, w)[k - 1]>>]
    BY <1>1 DEF IsLoop
  <2> QED BY <2>2, <2>3 DEF ShiftStep
<1> QED BY <1>2, <1>3 DEF Halves

LEMMA QuotientAndRest ==
    \A x \in Int : x \div 256 \in Int /\ x % 256 \in Int /\ 256 * (x \div 256) + (x % 256) = x
OBVIOUS

(* Reading what was written, with what was shifted out ahead of it. *)
LEMMA NumberOfBigEndian ==
    ASSUME NEW v \in Int, NEW w \in Nat
    PROVE  Number(Shifted(v, w)[w], BigEndian(v, w)) = v
<1> DEFINE s == Shifted(v, w)
           bytes == BigEndian(v, w)
<1>1. s \in [0..w -> Int] /\ s[0] = v /\ \A k \in 1..w : s[k] = s[k - 1] \div 256
  <2> HIDE DEF s
  <2>1. Halves(s, v, w)
    BY ShiftedProperties DEF s
  <2> QED BY <2>1 DEF Halves
<1>2. bytes \in Seq(Byte) /\ Len(bytes) = w /\ \A i \in 1..w : bytes[i] = s[w - i] % 256
  BY BigEndianTyped DEF BigEndian
<1>3. s[w] \in Int
  BY <1>1
<1> DEFINE ahead == s[w]
<1> HIDE DEF s, bytes
<1>4. PICK f : Reads(f, ahead, bytes)
  <2>1. ahead \in Int
    BY <1>3
  <2> HIDE DEF ahead
  <2> QED BY <1>2, <2>1, NumberLoop
<1>10. /\ f \in [0..w -> Int] /\ f[0] = s[w]
       /\ \A i \in 1..w : f[i] = 256 * f[i - 1] + bytes[i]
       /\ Number(s[w], bytes) = f[w]
  BY <1>2, <1>4 DEF Reads
<1> DEFINE T == {i \in 0..w : f[i] = s[w - i]}
<1>5. 0 \in T
  BY <1>10
<1>6. ASSUME NEW i \in 0..(w - 1), i \in T PROVE i + 1 \in T
  <2> DEFINE x == s[w - (i + 1)]
  <2>1. /\ i + 1 \in 1..w /\ i + 1 \in 0..w /\ (i + 1) - 1 = i /\ w - i \in 1..w
        /\ (w - i) - 1 = w - (i + 1) /\ w - (i + 1) \in 0..w
    OBVIOUS
  <2>2. f[i + 1] = 256 * f[i] + bytes[i + 1]
    BY <1>10, <2>1
  <2>3. bytes[i + 1] = x % 256
    BY <1>2, <2>1
  <2>4. f[i] = s[w - i]
    BY <1>6
  <2>5. s[w - i] = x \div 256
    BY <1>1, <2>1
  <2>6. x \in Int
    BY <1>1, <2>1
  <2>8. f[i + 1] = x
    <3> DEFINE quotient == x \div 256
               rest == x % 256
    <3>1. f[i] = quotient /\ bytes[i + 1] = rest
      BY <2>3, <2>4, <2>5
    <3>2. 256 * quotient + rest = x
      BY <2>6, QuotientAndRest
    <3> HIDE DEF x, quotient, rest
    <3> QED BY <2>2, <3>1, <3>2
  <2> QED BY <2>1, <2>8
<1>7. w \in T
  <2> HIDE DEF T
  <2>1. \A i \in 0..w : i \in T
    BY <1>5, <1>6, Induction
  <2> QED BY <2>1
<1>8. f[w] = s[w - w] /\ w - w = 0
  BY <1>7
<1>9. f[w] = v
  BY <1>1, <1>8
<1> QED BY <1>9, <1>10 DEF s, bytes

LEMMA UnsignedBack ==
    ASSUME NEW v \in Int, NEW w \in Nat, FitsUnsigned(v, w)
    PROVE  Unsigned(BigEndian(v, w)) = v
BY NumberOfBigEndian DEF FitsUnsigned, Unsigned

LEMMA SignedBack ==
    ASSUME NEW v \in Int, NEW w \in Nat, w >= 1, FitsSigned(v, w)
    PROVE  Signed(BigEndian(v, w)) = v
<1> DEFINE s == Shifted(v, w)
           x == s[w - 1]
           bytes == BigEndian(v, w)
<1>1. s \in [0..w -> Int] /\ \A k \in 1..w : s[k] = s[k - 1] \div 256
  <2> HIDE DEF s
  <2>1. Halves(s, v, w)
    BY ShiftedProperties DEF s
  <2> QED BY <2>1 DEF Halves
<1>2. x \in (-128)..127
  BY DEF FitsSigned
<1>3. bytes[1] = x % 256
  <2>1. 1 \in 1..w
    OBVIOUS
  <2> QED BY <2>1 DEF BigEndian
<1>4. s[w] = x \div 256
  BY <1>1
<1>5. s[w] = IF bytes[1] >= 128 THEN -1 ELSE 0
  <2> HIDE DEF x, s, bytes
  <2>1. CASE x < 0
    <3>1. x % 256 = x + 256 /\ x \div 256 = -1
      BY <1>2, <2>1
    <3>2. bytes[1] >= 128
      BY <1>2, <1>3, <3>1
    <3> QED BY <1>4, <3>1, <3>2
  <2>2. CASE x >= 0
    <3>1. x % 256 = x /\ x \div 256 = 0
      BY <1>2, <2>2
    <3>2. ~(bytes[1] >= 128)
      BY <1>2, <1>3, <3>1
    <3> QED BY <1>4, <3>1, <3>2
  <2> QED BY <1>2, <2>1, <2>2
<1>6. Signed(bytes) = Number(s[w], bytes)
  BY <1>5 DEF Signed
<1> QED BY <1>6, NumberOfBigEndian

-----------------------------------------------------------------------------
(* What is written is read back *)

(* b stands in d, behind its first k bytes. *)
Stands(b, d, k) ==
    /\ b \in Seq(Byte) /\ d \in Seq(Byte) /\ k \in Nat /\ k + Len(b) <= Len(d)
    /\ \A i \in 1..Len(b) : d[k + i] = b[i]

LEMMA StandsCut ==
    ASSUME NEW b, NEW d, NEW k, Stands(b, d, k)
    PROVE  SubSeq(d, k + 1, k + Len(b)) = b
<1> DEFINE n == Len(b)
           m == Len(d)
           c == SubSeq(d, k + 1, k + n)
<1>1. /\ b \in Seq(Byte) /\ d \in Seq(Byte) /\ k \in Nat /\ n \in Nat /\ m \in Nat /\ k + n <= m
      /\ \A i \in 1..n : d[k + i] = b[i]
  BY LenProperties DEF Stands
<1>2. \A i \in (k + 1)..(k + n) : d[i] \in Byte
  <2>1. \A i \in 1..m : d[i] \in Byte
    BY <1>1, ElementOfSeq
  <2> HIDE DEF n, m
  <2>2. (k + 1)..(k + n) \subseteq 1..m
    BY <1>1
  <2> QED BY <2>1, <2>2
<1>3. /\ c \in Seq(Byte)
      /\ Len(c) = IF k + 1 <= k + n THEN (k + n) - (k + 1) + 1 ELSE 0
      /\ \A i \in 1..((k + n) - (k + 1) + 1) : c[i] = d[(k + 1) + i - 1]
  <2> HIDE DEF n
  <2>1. k + 1 \in Int /\ k + n \in Int
    BY <1>1
  <2> QED BY <1>2, <2>1, SubSeqProperties
<1> HIDE DEF n, c
<1>4. Len(c) = n /\ \A i \in 1..n : c[i] = d[k + i]
  <2>1. (k + n) - (k + 1) + 1 = n /\ \A i \in 1..n : (k + 1) + i - 1 = k + i
    BY <1>1
  <2> QED BY <1>1, <1>3, <2>1
<1>5. Len(c) = Len(b) /\ \A i \in 1..Len(c) : c[i] = b[i]
  BY <1>1, <1>4 DEF n
<1>6. c = b
  BY <1>1, <1>3, <1>5, SeqEqual
<1> QED BY <1>6 DEF c, n

LEMMA StandsKept ==
    ASSUME NEW b, NEW d, NEW k, Stands(b, d, k), NEW t \in Seq(Byte)
    PROVE  Stands(b, d \o t, k)
<1> DEFINE n == Len(b)
           m == Len(d)
           l == Len(t)
           c == d \o t
<1>1. /\ b \in Seq(Byte) /\ d \in Seq(Byte) /\ k \in Nat /\ n \in Nat /\ m \in Nat /\ k + n <= m
      /\ l \in Nat /\ \A i \in 1..n : d[k + i] = b[i]
  BY LenProperties DEF Stands
<1>2. /\ c \in Seq(Byte) /\ Len(c) = m + l
      /\ \A i \in 1..Len(c) : c[i] = IF i <= m THEN d[i] ELSE t[i - m]
  BY <1>1, Joined, JoinedAt
<1> HIDE DEF n, m, l, c
<1>3. k + n <= Len(c) /\ \A i \in 1..n : k + i \in 1..Len(c) /\ k + i <= m
  BY <1>1, <1>2
<1>4. \A i \in 1..n : c[k + i] = b[i]
  BY <1>1, <1>2, <1>3
<1> QED BY <1>1, <1>2, <1>3, <1>4 DEF Stands, n, c

LEMMA StandsBehind ==
    ASSUME NEW b, NEW d, NEW k, Stands(b, d, k), NEW t \in Seq(Byte)
    PROVE  Stands(b, t \o d, Len(t) + k)
<1> DEFINE n == Len(b)
           m == Len(d)
           l == Len(t)
           c == t \o d
<1>1. /\ b \in Seq(Byte) /\ d \in Seq(Byte) /\ k \in Nat /\ n \in Nat /\ m \in Nat /\ k + n <= m
      /\ l \in Nat /\ \A i \in 1..n : d[k + i] = b[i]
  BY LenProperties DEF Stands
<1>2. /\ c \in Seq(Byte) /\ Len(c) = l + m
      /\ \A i \in 1..Len(c) : c[i] = IF i <= l THEN t[i] ELSE d[i - l]
  BY <1>1, Joined, JoinedAt
<1> HIDE DEF n, m, l, c
<1>3. /\ l + k \in Nat /\ (l + k) + n <= Len(c)
      /\ \A i \in 1..n : (l + k) + i \in 1..Len(c) /\ ~((l + k) + i <= l)
                           /\ ((l + k) + i) - l = k + i
  BY <1>1, <1>2
<1>4. \A i \in 1..n : c[(l + k) + i] = b[i]
  BY <1>1, <1>2, <1>3
<1> QED BY <1>1, <1>2, <1>3, <1>4 DEF Stands, n, c, l

(* The last part of something stands behind the others. *)
LEMMA StandsLast ==
    ASSUME NEW d \in Seq(Byte), NEW b \in Seq(Byte)
    PROVE  Stands(b, d \o b, Len(d)) /\ Stands(d, d \o b, 0)
<1>1. Stands(b, b, 0) /\ Stands(d, d, 0)
  <2>1. \A s \in Seq(Byte) : Len(s) \in Nat
    BY LenProperties
  <2> QED BY <2>1 DEF Stands
<1>2. Len(d) + 0 = Len(d)
  BY LenProperties
<1> QED BY <1>1, <1>2, StandsBehind, StandsKept

LEMMA StandsFromTo ==
    ASSUME NEW b, NEW d, NEW k, Stands(b, d, k),
           NEW i \in Int, NEW j \in Int, i = k + 1, j = k + Len(b)
    PROVE  SubSeq(d, i, j) = b
BY StandsCut

LEMMA RawPayloadLayout ==
    ASSUME NEW info \in Infos
    PROVE  /\ Stands(UUID, RawPayload(info), 0)
           /\ Stands(<<1, Flags(info)>>, RawPayload(info), Len(UUID))
           /\ Stands(BigEndian(info.seq, SeqBytes), RawPayload(info), Len(UUID) + 2)
           /\ Stands(BigEndian(info.pts, TimeBytes), RawPayload(info), Len(UUID) + 2 + SeqBytes)
           /\ Stands(BigEndian(info.rt, TimeBytes), RawPayload(info),
                     Len(UUID) + 2 + SeqBytes + TimeBytes)
<1> DEFINE head == <<1, Flags(info)>>
           seq == BigEndian(info.seq, SeqBytes)
           pts == BigEndian(info.pts, TimeBytes)
           rt == BigEndian(info.rt, TimeBytes)
<1>1. SeqBytes \in Nat /\ TimeBytes \in Nat /\ UUID \in Seq(Byte) /\ Len(UUID) \in Nat
  BY PayloadSizeNat, PayloadAssumption
<1>2. Flags(info) \in Byte /\ 1 \in Byte
  BY DEF Flags, Byte
<1>3. head \in Seq(Byte) /\ Len(head) = 2
  BY <1>2
<1>4. info.seq \in Int /\ info.pts \in Int /\ info.rt \in Int
  BY DEF Infos
<1>5. /\ seq \in Seq(Byte) /\ Len(seq) = SeqBytes
      /\ pts \in Seq(Byte) /\ Len(pts) = TimeBytes
      /\ rt \in Seq(Byte) /\ Len(rt) = TimeBytes
  BY <1>1, <1>4, BigEndianTyped
<1>6. RawPayload(info) = UUID \o head \o seq \o pts \o rt
  BY DEF RawPayload
<1> HIDE DEF head, seq, pts, rt
<1> DEFINE a == UUID \o head
           b == a \o seq
           c == b \o pts
           r == c \o rt
<1>7. /\ a \in Seq(Byte) /\ Len(a) = Len(UUID) + 2
      /\ Stands(UUID, a, 0) /\ Stands(head, a, Len(UUID))
  BY <1>1, <1>3, Joined, StandsLast
<1> HIDE DEF a
<1>8. /\ b \in Seq(Byte) /\ Len(b) = Len(UUID) + 2 + SeqBytes
      /\ Stands(UUID, b, 0) /\ Stands(head, b, Len(UUID)) /\ Stands(seq, b, Len(UUID) + 2)
  BY <1>5, <1>7, Joined, StandsKept, StandsLast, Zenon
<1> HIDE DEF b
<1>9. /\ c \in Seq(Byte) /\ Len(c) = Len(UUID) + 2 + SeqBytes + TimeBytes
      /\ Stands(UUID, c, 0) /\ Stands(head, c, Len(UUID)) /\ Stands(seq, c, Len(UUID) + 2)
      /\ Stands(pts, c, Len(UUID) + 2 + SeqBytes)
  <2>1. c \in Seq(Byte) /\ Len(c) = Len(b) + Len(pts)
    BY <1>5, <1>8, Joined
  <2>2. Stands(UUID, c, 0) /\ Stands(head, c, Len(UUID)) /\ Stands(seq, c, Len(UUID) + 2)
    BY <1>5, <1>8, StandsKept
  <2>3. Stands(pts, c, Len(b))
    BY <1>5, <1>8, StandsLast
  <2> HIDE DEF c
  <2> QED BY <1>5, <1>8, <2>1, <2>2, <2>3
<1> HIDE DEF c
<1>10. /\ Stands(UUID, r, 0) /\ Stands(head, r, Len(UUID)) /\ Stands(seq, r, Len(UUID) + 2)
       /\ Stands(pts, r, Len(UUID) + 2 + SeqBytes)
       /\ Stands(rt, r, Len(UUID) + 2 + SeqBytes + TimeBytes)
  BY <1>5, <1>9, StandsKept, StandsLast
<1>11. RawPayload(info) = r
  BY <1>6 DEF a, b, c
<1> QED BY <1>10, <1>11 DEF head, seq, pts, rt

(* What sei_ts_build_raw_payload writes, sei_ts_parse_raw_payload gives back. *)
THEOREM ParseOfRawPayload ==
    ASSUME NEW info \in Infos, Fits(info)
    PROVE  ParseRawPayload(RawPayload(info)) = info
<1> DEFINE r == RawPayload(info)
           n == Len(UUID)
           at == n + 3 + SeqBytes
           flags == Flags(info)
<1>1. /\ SeqBytes \in Nat /\ SeqBytes >= 1 /\ TimeBytes \in Nat /\ TimeBytes >= 1 /\ n \in Nat
      /\ UUID \in Seq(Byte)
  BY PayloadSizeNat, PayloadAssumption
<1>2. info.seq \in Int /\ info.pts \in Int /\ info.rt \in Int
  BY DEF Infos
<1>3. /\ Len(BigEndian(info.seq, SeqBytes)) = SeqBytes
      /\ Len(BigEndian(info.pts, TimeBytes)) = TimeBytes
      /\ Len(BigEndian(info.rt, TimeBytes)) = TimeBytes
  BY <1>1, <1>2, BigEndianTyped
<1>4. Len(r) = PayloadSize /\ PayloadSize \in Nat
  BY RawPayloadTyped, PayloadSizeNat
<1> HIDE DEF n
<1>5. SubSeq(r, 1, n) = UUID
  <2>1. Stands(UUID, r, 0)
    BY RawPayloadLayout
  <2>2. n = 0 + Len(UUID) /\ 1 = 0 + 1
    BY <1>1 DEF n
  <2> HIDE DEF r
  <2> QED BY <1>1, <2>1, <2>2, StandsFromTo
<1>6. r[n + 1] = 1 /\ r[n + 2] = flags
  <2>1. Stands(<<1, flags>>, r, n)
    BY RawPayloadLayout DEF n
  <2>2. Len(<<1, flags>>) = 2 /\ <<1, flags>>[1] = 1 /\ <<1, flags>>[2] = flags
    OBVIOUS
  <2> HIDE DEF r, flags
  <2>3. \A i \in 1..2 : r[n + i] = <<1, flags>>[i]
    BY <2>1, <2>2 DEF Stands
  <2> QED BY <2>2, <2>3
<1>7. SubSeq(r, n + 3, n + 2 + SeqBytes) = BigEndian(info.seq, SeqBytes)
  <2>1. Stands(BigEndian(info.seq, SeqBytes), r, n + 2)
    BY RawPayloadLayout DEF n
  <2>2. n + 3 = (n + 2) + 1
    BY <1>1
  <2> HIDE DEF r
  <2> QED BY <1>1, <1>3, <2>1, <2>2, StandsFromTo
<1>8. SubSeq(r, at, at + TimeBytes - 1) = BigEndian(info.pts, TimeBytes)
  <2> DEFINE k == n + 2 + SeqBytes
             b == BigEndian(info.pts, TimeBytes)
  <2>1. Stands(b, r, k)
    BY RawPayloadLayout DEF n
  <2>2. at = k + 1 /\ at + TimeBytes - 1 = k + TimeBytes /\ k + 1 \in Int /\ k + TimeBytes \in Int
    BY <1>1
  <2>3. Len(b) = TimeBytes
    BY <1>3
  <2> HIDE DEF r, k, b, at
  <2> QED BY <2>1, <2>2, <2>3, StandsFromTo DEF b
<1>9. SubSeq(r, at + TimeBytes, at + 2 * TimeBytes - 1) = BigEndian(info.rt, TimeBytes)
  <2> DEFINE k == n + 2 + SeqBytes + TimeBytes
             b == BigEndian(info.rt, TimeBytes)
  <2>1. Stands(b, r, k)
    BY RawPayloadLayout DEF n
  <2>2. /\ at + TimeBytes = k + 1 /\ at + 2 * TimeBytes - 1 = k + TimeBytes
        /\ k + 1 \in Int /\ k + TimeBytes \in Int
    BY <1>1
  <2>3. Len(b) = TimeBytes
    BY <1>3
  <2> HIDE DEF r, k, b, at
  <2> QED BY <2>1, <2>2, <2>3, StandsFromTo DEF b
<1>10. (flags % 2 = 1) = info.key /\ ((flags \div 2) % 2 = 1) = info.ntp
  <2>1. info.key \in BOOLEAN /\ info.ntp \in BOOLEAN
    BY DEF Infos
  <2> DEFINE k == IF info.key THEN 1 ELSE 0
             t == IF info.ntp THEN 2 ELSE 0
  <2>2. flags = k + t
    BY DEF Flags
  <2>3. k \in 0..1 /\ (k = 1 <=> info.key) /\ t \in {0, 2} /\ (t = 2 <=> info.ntp)
    OBVIOUS
  <2> HIDE DEF k, t, flags
  <2>4. (flags % 2 = 1 <=> k = 1) /\ ((flags \div 2) % 2 = 1 <=> t = 2)
    BY <2>2, <2>3
  <2> QED BY <2>1, <2>3, <2>4
<1>11. Unsigned(BigEndian(info.seq, SeqBytes)) = info.seq
  BY <1>1, <1>2, UnsignedBack DEF Fits
<1>12. Signed(BigEndian(info.pts, TimeBytes)) = info.pts
  BY <1>1, <1>2, SignedBack DEF Fits
<1>13. Signed(BigEndian(info.rt, TimeBytes)) = info.rt
  BY <1>1, <1>2, SignedBack DEF Fits
<1>14. info = [key |-> info.key, ntp |-> info.ntp, seq |-> info.seq, pts |-> info.pts, rt |-> info.rt]
  BY DEF Infos
<1>15. ParseRawPayload(r) =
           [key |-> flags % 2 = 1, ntp |-> (flags \div 2) % 2 = 1,
            seq |-> Unsigned(BigEndian(info.seq, SeqBytes)),
            pts |-> Signed(BigEndian(info.pts, TimeBytes)),
            rt |-> Signed(BigEndian(info.rt, TimeBytes))]
  <2> HIDE DEF r, flags
  <2>1. ~(Len(r) < PayloadSize)
    BY <1>4
  <2>2. ParseRawPayload(r) =
           [key |-> r[n + 2] % 2 = 1, ntp |-> (r[n + 2] \div 2) % 2 = 1,
            seq |-> Unsigned(SubSeq(r, n + 3, n + 2 + SeqBytes)),
            pts |-> Signed(SubSeq(r, at, at + TimeBytes - 1)),
            rt |-> Signed(SubSeq(r, at + TimeBytes, at + 2 * TimeBytes - 1))]
    BY <1>5, <1>6, <2>1, Zenon DEF ParseRawPayload, n
  <2> HIDE DEF at
  <2> QED BY <1>6, <1>7, <1>8, <1>9, <2>2
<1> QED BY <1>10, <1>11, <1>12, <1>13, <1>14, <1>15

LEMMA StandsIn ==
    ASSUME NEW b, NEW h, NEW k, Stands(b, h, k), NEW d, NEW m, Stands(h, d, m)
    PROVE  Stands(b, d, m + k)
<1> DEFINE n == Len(b)
           l == Len(h)
<1>1. /\ b \in Seq(Byte) /\ d \in Seq(Byte) /\ k \in Nat /\ n \in Nat /\ k + n <= l
      /\ l \in Nat /\ m \in Nat /\ Len(d) \in Nat /\ m + l <= Len(d)
      /\ \A i \in 1..n : h[k + i] = b[i]
      /\ \A i \in 1..l : d[m + i] = h[i]
  BY LenProperties DEF Stands
<1> HIDE DEF n, l
<1>2. /\ m + k \in Nat /\ (m + k) + n <= Len(d)
      /\ \A i \in 1..n : k + i \in 1..l /\ (m + k) + i = m + (k + i)
  BY <1>1
<1>3. \A i \in 1..n : d[(m + k) + i] = b[i]
  BY <1>1, <1>2
<1> QED BY <1>1, <1>2, <1>3 DEF Stands, n

(* The first of the bytes that a chain of 255s ends with is found. *)
LEMMA ReadBack ==
    ASSUME NEW v \in Nat, NEW d, NEW k, Stands(VarUint(v), d, k),
           NEW end \in Nat, end >= k + Len(VarUint(v))
    PROVE  ReadVarUint(d, k + 1, end) = [value |-> v, next |-> k + Len(VarUint(v)) + 1]
<1> DEFINE x == VarUint(v)
           q == v \div 255
           rest == v % 255
           n == q + 1
           I == {i \in (k + 1)..end : d[i] # 255}
           last == SelectInSubSeq(d, k + 1, end, LAMBDA b : b # 255)
<1>1. x \in Seq(Byte) /\ Len(x) = n /\ Chain(x) /\ x[n] = rest
  BY VarUintTyped
<1>2. q \in Nat /\ rest \in 0..254 /\ 255 * q + rest = v
  OBVIOUS
<1>3. last = IF I # {} THEN Min(I) ELSE 0
  BY DEF SelectInSubSeq
<1>4. ReadVarUint(d, k + 1, end) =
        IF last = 0 THEN [value |-> 0, next |-> 0]
                    ELSE [value |-> 255 * (last - (k + 1)) + d[last], next |-> last + 1]
  BY DEF ReadVarUint
<1> HIDE DEF x, q, rest, last
<1>5. /\ k \in Nat /\ end >= k + n
      /\ \A i \in 1..n : d[k + i] = x[i]
  BY <1>1 DEF Stands, x
<1>6. /\ n \in 1..n /\ d[k + n] = rest
      /\ \A i \in 1..(n - 1) : d[k + i] = 255
  <2>1. \A i \in 1..(n - 1) : x[i] = 255 /\ i \in 1..n
    BY <1>1, <1>2 DEF Chain
  <2>2. n \in 1..n
    BY <1>2
  <2> QED BY <1>1, <1>5, <2>1, <2>2
<1>7. k + n \in I
  BY <1>2, <1>5, <1>6
<1>8. \A i \in I : i >= k + n
  <2> SUFFICES ASSUME NEW i \in I, i < k + n PROVE FALSE
    BY <1>2, <1>5
  <2>1. i - k \in 1..(n - 1) /\ k + (i - k) = i
    BY <1>2, <1>5
  <2>2. d[k + (i - k)] = 255
    BY <1>6, <2>1
  <2> QED BY <2>1, <2>2
<1>9. I \subseteq Nat
  BY <1>5
<1> HIDE DEF I
<1>10. Min(I) \in I /\ \A y \in I : Min(I) <= y
  BY <1>7, <1>9, MinIsFirst
<1>11. Min(I) = k + n
  <2>1. Min(I) <= k + n /\ Min(I) >= k + n
    BY <1>7, <1>8, <1>10
  <2>2. Min(I) \in Nat
    BY <1>9, <1>10
  <2> QED BY <1>2, <1>5, <2>1, <2>2
<1>12. last = k + n
  BY <1>3, <1>7, <1>11
<1>13. last # 0 /\ 255 * (last - (k + 1)) + d[last] = v /\ last + 1 = k + n + 1
  <2>1. last - (k + 1) = q
    BY <1>2, <1>5, <1>12
  <2>2. d[last] = rest
    BY <1>6, <1>12
  <2> QED BY <1>2, <1>5, <1>12, <2>1, <2>2
<1>14. ReadVarUint(d, k + 1, end) = [value |-> v, next |-> k + n + 1]
  BY <1>4, <1>13
<1> QED BY <1>1, <1>14 DEF x

LEMMA SeiHeadLayout ==
    ASSUME NEW codec
    PROVE  /\ Stands(StartCode, SeiHead(codec), 0)
           /\ Stands(NalHeader(codec), SeiHead(codec), 4)
           /\ Stands(VarUint(5), SeiHead(codec), 4 + Len(NalHeader(codec)))
           /\ Stands(VarUint(PayloadSize), SeiHead(codec),
                     4 + Len(NalHeader(codec)) + Len(VarUint(5)))
<1> DEFINE nal == NalHeader(codec)
           five == VarUint(5)
           size == VarUint(PayloadSize)
<1>1. StartCode \in Seq(Byte) /\ Len(StartCode) = 4
  BY StartCodeTyped DEF StartCode
<1>2. nal \in Seq(Byte) /\ Len(nal) \in Nat
  <2>1. <<6>> \in Seq(Byte) /\ <<78, 1>> \in Seq(Byte)
    <3>1. 6 \in Byte /\ 78 \in Byte /\ 1 \in Byte
      BY DEF Byte
    <3> QED BY <3>1
  <2>2. nal \in Seq(Byte)
    BY <2>1 DEF NalHeader
  <2> QED BY <2>2, LenProperties
<1>3. five \in Seq(Byte) /\ Len(five) \in Nat
  <2>1. five \in Seq(Byte)
    BY VarUintTyped
  <2> QED BY <2>1, LenProperties
<1>4. size \in Seq(Byte)
  BY PayloadSizeNat, VarUintTyped
<1>5. SeiHead(codec) = StartCode \o nal \o five \o size
  BY DEF SeiHead
<1> HIDE DEF nal, five, size
<1> DEFINE a == StartCode \o nal
           b == a \o five
           h == b \o size
<1>6. a \in Seq(Byte) /\ Len(a) = 4 + Len(nal) /\ Stands(StartCode, a, 0) /\ Stands(nal, a, 4)
  <2>1. a \in Seq(Byte) /\ Len(a) = Len(StartCode) + Len(nal)
    BY <1>1, <1>2, Joined
  <2>2. Stands(StartCode, a, 0) /\ Stands(nal, a, Len(StartCode))
    BY <1>1, <1>2, StandsLast
  <2> QED BY <1>1, <2>1, <2>2
<1> HIDE DEF a
<1>7. /\ b \in Seq(Byte) /\ Len(b) = 4 + Len(nal) + Len(five)
      /\ Stands(StartCode, b, 0) /\ Stands(nal, b, 4) /\ Stands(five, b, 4 + Len(nal))
  <2>1. b \in Seq(Byte) /\ Len(b) = Len(a) + Len(five)
    BY <1>3, <1>6, Joined
  <2>2. Stands(StartCode, b, 0) /\ Stands(nal, b, 4)
    BY <1>3, <1>6, StandsKept
  <2>3. Stands(five, b, Len(a))
    BY <1>3, <1>6, StandsLast
  <2> QED BY <1>2, <1>3, <1>6, <2>1, <2>2, <2>3
<1> HIDE DEF b
<1>8. /\ Stands(StartCode, h, 0) /\ Stands(nal, h, 4) /\ Stands(five, h, 4 + Len(nal))
      /\ Stands(size, h, 4 + Len(nal) + Len(five))
  <2>1. Stands(StartCode, h, 0) /\ Stands(nal, h, 4) /\ Stands(five, h, 4 + Len(nal))
    BY <1>4, <1>7, StandsKept
  <2>2. Stands(size, h, Len(b))
    BY <1>4, <1>7, StandsLast
  <2> QED BY <1>7, <2>1, <2>2
<1>9. SeiHead(codec) = h
  BY <1>5 DEF a, b
<1> QED BY <1>8, <1>9 DEF nal, five, size

LEMMA NoTrailingZeros ==
    ASSUME NEW bytes \in Seq(Byte), NEW n \in Nat, n = Len(bytes), n >= 1, bytes[n] # 0
    PROVE  TrailingZeros(bytes) = 0
<1> DEFINE I == {i \in 1..n : bytes[i] # 0}
<1>1. TrailingZeros(bytes) = n - (IF I # {} THEN Max(I) ELSE 0)
  BY DEF TrailingZeros, SelectLastInSeq
<1>2. n \in I /\ I \subseteq Nat /\ \A i \in I : i <= n
  OBVIOUS
<1> HIDE DEF I
<1>3. Max(I) \in I /\ \A i \in I : i <= Max(I)
  BY <1>2, MaxIsLast
<1>4. Max(I) = n
  <2> DEFINE m == Max(I)
  <2>1. m \in Nat /\ m <= n /\ n <= m
    BY <1>2, <1>3
  <2> HIDE DEF m
  <2>2. m = n
    BY <2>1
  <2> QED BY <2>2 DEF m
<1> QED BY <1>1, <1>2, <1>4

LEMMA HeadEndsInNoZero ==
    ASSUME NEW codec, PlainSize
    PROVE  TrailingZeros(SeiHead(codec)) = 0
<1> DEFINE h == SeiHead(codec)
           n == Len(h)
           size == VarUint(PayloadSize)
           k == 4 + Len(NalHeader(codec)) + Len(VarUint(5))
           q == PayloadSize \div 255
<1>1. h \in Seq(Byte) /\ n \in Nat /\ n >= 4 /\ n = k + Len(size)
  BY SeiHeadProperties
<1>2. Stands(size, h, k)
  BY SeiHeadLayout
<1>3. Len(size) = q + 1 /\ size[q + 1] = PayloadSize % 255
  BY PayloadSizeNat, VarUintTyped
<1>4. q \in Nat
  BY PayloadSizeNat
<1> HIDE DEF h, n, size, k, q
<1>5. h[k + (q + 1)] = size[q + 1]
  <2>1. q + 1 \in 1..Len(size)
    BY <1>3, <1>4
  <2> QED BY <1>2, <2>1 DEF Stands
<1>6. h[n] # 0
  BY <1>1, <1>3, <1>5 DEF PlainSize
<1>7. TrailingZeros(h) = 0
  BY <1>1, <1>6, NoTrailingZeros DEF n
<1> QED BY <1>7 DEF h

(* The SEI in two parts: what says that it is one, and the escaped record. *)
LEMMA BuildNalLayout ==
    ASSUME NEW codec, NEW info \in Infos, PlainSize
    PROVE  /\ BuildNal(codec, info) \in Seq(Byte)
           /\ Stands(SeiHead(codec), BuildNal(codec, info), 0)
           /\ Stands(Escape(0, RawPayload(info)), BuildNal(codec, info), Len(SeiHead(codec)))
           /\ Len(Escape(0, RawPayload(info))) <= 2 * PayloadSize
<1> DEFINE h == SeiHead(codec)
           raw == RawPayload(info)
           e == Escape(0, raw)
           d == h \o e
<1>1. TrailingZeros(h) = 0
  BY HeadEndsInNoZero
<1>2. BuildNal(codec, info) = d \o <<128>>
  BY <1>1 DEF BuildNal, SeiHead
<1>3. Escaped(h, 0)
  BY <1>1, SeiHeadEscaped
<1>4. raw \in Seq(Byte) /\ Len(raw) = PayloadSize
  BY RawPayloadTyped
<1>5. h \in Seq(Byte)
  BY SeiHeadProperties
<1> HIDE DEF h, raw
<1>6. e \in Seq(Byte) /\ Len(e) <= 2 * PayloadSize
  BY <1>3, <1>4, EscapeKeepsEscaped
<1> HIDE DEF e
<1>7. d \in Seq(Byte) /\ Stands(h, d, 0) /\ Stands(e, d, Len(h))
  BY <1>5, <1>6, Joined, StandsLast
<1> HIDE DEF d
<1>8. <<128>> \in Seq(Byte)
  <2>1. 128 \in Byte
    BY DEF Byte
  <2> QED BY <2>1
<1>9. d \o <<128>> \in Seq(Byte) /\ Stands(h, d \o <<128>>, 0) /\ Stands(e, d \o <<128>>, Len(h))
  BY <1>7, <1>8, Joined, StandsKept
<1> QED BY <1>2, <1>6, <1>9 DEF h, e, raw

(* What is cut out of d from k + 1 on begins with what stands there. *)
Continues(c, b) == \E rest \in Seq(Byte) : c = b \o rest

LEMMA CutBegins ==
    ASSUME NEW b, NEW d, NEW k, Stands(b, d, k),
           NEW end \in Nat, end >= k + Len(b), end <= Len(d)
    PROVE  Continues(SubSeq(d, k + 1, end), b)
<1> DEFINE n == Len(b)
           m == Len(d)
           rest == SubSeq(d, k + n + 1, end)
<1>1. /\ d \in Seq(Byte) /\ k \in Nat /\ n \in Nat /\ m \in Nat
      /\ k + n <= m /\ end >= k + n /\ end <= m
  BY LenProperties DEF Stands
<1>2. SubSeq(d, k + 1, k + n) = b
  BY StandsCut
<1>3. \A i \in 1..m : d[i] \in Byte
  BY <1>1, ElementOfSeq
<1> HIDE DEF n
<1>4. rest \in Seq(Byte)
  <2>1. k + n + 1 \in Int /\ end \in Int /\ (k + n + 1)..end \subseteq 1..m
    BY <1>1
  <2> HIDE DEF m
  <2>2. \A i \in (k + n + 1)..end : d[i] \in Byte
    BY <1>3, <2>1
  <2> QED BY <2>1, <2>2, SubSeqProperties
<1>5. SubSeq(d, k + 1, k + n) \o SubSeq(d, (k + n) + 1, end) = SubSeq(d, k + 1, end)
  <2>1. k + 1 \in 1..(m + 1) /\ k + n \in ((k + 1) - 1)..m /\ end \in (k + n)..m
    BY <1>1
  <2> QED BY <1>1, <2>1, ConcatAdjacentSubSeq
<1>6. SubSeq(d, k + 1, end) = b \o rest
  BY <1>2, <1>5
<1> QED BY <1>4, <1>6 DEF Continues

(* Which NAL unit stands behind the start code at d[k + 1]. *)
LEMMA SeiRecognised ==
    ASSUME NEW codec \in Codecs, NEW d, NEW k, Stands(SeiHead(codec), d, k)
    PROVE  /\ NalStart(d, k + 1) = k + 5
           /\ IsSei(codec, d[k + 5])
<1> DEFINE h == SeiHead(codec)
           nal == NalHeader(codec)
<1>1. Stands(StartCode, h, 0) /\ Stands(nal, h, 4)
  BY SeiHeadLayout
<1>2. k \in Nat /\ d \in Seq(Byte) /\ Len(d) \in Nat
  BY LenProperties DEF Stands
<1>3. Stands(StartCode, d, k + 0) /\ Stands(nal, d, k + 4)
  BY <1>1, StandsIn
<1>4. /\ k + 4 <= Len(d)
      /\ d[k + 1] = 0 /\ d[k + 2] = 0 /\ d[k + 3] = 0 /\ d[k + 4] = 1
  <2>1. Len(StartCode) = 4 /\ StartCode[1] = 0 /\ StartCode[2] = 0 /\ StartCode[3] = 0 /\ StartCode[4] = 1
    BY DEF StartCode
  <2>2. k + 0 = k
    BY <1>2
  <2>3. k + Len(StartCode) <= Len(d) /\ \A i \in 1..Len(StartCode) : d[k + i] = StartCode[i]
    BY <1>3, <2>2 DEF Stands
  <2> HIDE DEF StartCode
  <2>4. \A i \in 1..4 : d[k + i] = StartCode[i]
    BY <2>1, <2>3
  <2> QED BY <2>1, <2>3, <2>4
<1>5. NalStart(d, k + 1) = k + 5
  <2> DEFINE p == k + 1
  <2>1. p \in Nat /\ p >= 1 /\ p + 1 = k + 2 /\ p + 2 = k + 3 /\ p + 3 = k + 4
    BY <1>2
  <2>2. ~HasShort(d, p)
    BY <1>4, <2>1 DEF HasShort
  <2>3. HasLong(d, p)
    BY <1>4, <2>1 DEF HasLong
  <2> HIDE DEF p
  <2>4. CodeAt(d, p) = 4
    BY <1>2, <2>1, <2>2, <2>3, CodeAtBytes
  <2>5. NalStart(d, p) = p + 4
    BY <2>4 DEF NalStart
  <2> QED BY <2>5, <1>2 DEF p
<1>6. d[k + 5] = nal[1]
  <2>1. Len(nal) \in Nat /\ Len(nal) >= 1
    <3>1. Len(<<6>>) = 1 /\ Len(<<78, 1>>) = 2
      OBVIOUS
    <3> QED BY <3>1 DEF NalHeader
  <2> HIDE DEF nal
  <2>2. 1 \in 1..Len(nal) /\ (k + 4) + 1 = k + 5
    BY <1>2, <2>1
  <2>3. \A i \in 1..Len(nal) : d[(k + 4) + i] = nal[i]
    BY <1>3 DEF Stands
  <2>4. d[(k + 4) + 1] = nal[1]
    BY <2>2, <2>3
  <2> QED BY <2>2, <2>4
<1>7. IsSei(codec, nal[1])
  <2>1. CASE codec = "h264"
    <3>1. nal[1] = 6 /\ 6 % 32 = 6
      BY <2>1 DEF NalHeader
    <3> HIDE DEF nal
    <3> QED BY <2>1, <3>1 DEF IsSei, NalType
  <2>2. CASE codec = "hevc"
    <3>1. nal[1] = 78 /\ (78 \div 2) % 64 = 39
      BY <2>2 DEF NalHeader
    <3> HIDE DEF nal
    <3> QED BY <2>2, <3>1 DEF IsSei, NalType
  <2> QED BY <2>1, <2>2 DEF Codecs
<1> QED BY <1>5, <1>6, <1>7

(* A bound within d, and behind what stands there. *)
Reaches(b, d, k, end) == end \in Nat /\ end >= k + Len(b) /\ end <= Len(d)

ReadBy(codec, d, k, end, strict, info) == Message(codec, d, k + 1, end, strict) = info

(* Wherever the SEI of a stamp stands in a stream of bytes, the parsers read
   from it, and the bound up to which they may look only has to lie behind it,
   exactly what was put in: the C parser (strict) and the Python one.        *)
THEOREM StampReadable ==
    ASSUME NEW codec \in Codecs, NEW info \in Infos, Fits(info), PlainSize,
           NEW d, NEW k, Stands(BuildNal(codec, info), d, k),
           NEW end, Reaches(BuildNal(codec, info), d, k, end)
    PROVE  ReadBy(codec, d, k, end, TRUE, info) /\ ReadBy(codec, d, k, end, FALSE, info)
<1> SUFFICES ASSUME NEW strict \in BOOLEAN
             PROVE  Message(codec, d, k + 1, end, strict) = info
  BY DEF ReadBy
<1> DEFINE whole == BuildNal(codec, info)
           h == SeiHead(codec)
           raw == RawPayload(info)
           e == Escape(0, raw)
           nal == Len(NalHeader(codec))
           five == VarUint(5)
           size == VarUint(PayloadSize)
           at == k + 4 + nal
           at2 == at + Len(five)
           at3 == k + Len(h)
<1>1. /\ whole \in Seq(Byte) /\ Stands(h, whole, 0) /\ Stands(e, whole, Len(h))
      /\ Len(e) <= 2 * PayloadSize
  BY BuildNalLayout
<1>2. PayloadSize \in Nat /\ raw \in Seq(Byte) /\ Len(raw) = PayloadSize
  BY PayloadSizeNat, RawPayloadTyped
<1>3. /\ h \in Seq(Byte) /\ Len(h) \in Nat /\ Len(h) = 4 + nal + Len(five) + Len(size)
      /\ Stands(five, h, 4 + nal) /\ Stands(size, h, 4 + nal + Len(five))
  BY SeiHeadProperties, SeiHeadLayout
<1>4. /\ nal \in Nat /\ Len(five) \in Nat /\ Len(size) \in Nat /\ Len(whole) \in Nat /\ Len(e) \in Nat
      /\ k \in Nat /\ d \in Seq(Byte) /\ Len(d) \in Nat /\ Len(h) + Len(e) <= Len(whole)
  <2>1. Len(five) \in Nat /\ Len(size) \in Nat
    BY <1>3, LenProperties DEF Stands
  <2>2. nal \in Nat
    <3>1. Len(<<6>>) = 1 /\ Len(<<78, 1>>) = 2
      OBVIOUS
    <3> QED BY <3>1 DEF NalHeader
  <2>3. k \in Nat /\ d \in Seq(Byte) /\ e \in Seq(Byte) /\ Len(h) + Len(e) <= Len(whole)
    BY <1>1 DEF Stands
  <2>4. Len(whole) \in Nat /\ Len(e) \in Nat /\ Len(d) \in Nat
    BY <1>1, <2>3, LenProperties
  <2> QED BY <2>1, <2>2, <2>3, <2>4
<1>5. Stands(whole, d, k) /\ end >= k + Len(whole) /\ end \in Nat /\ end <= Len(d)
  BY DEF Reaches
<1> HIDE DEF whole, h, raw, e, nal, five, size
<1>6. Stands(h, d, k) /\ Stands(e, d, at3)
  <2>1. Stands(h, d, k + 0) /\ Stands(e, d, at3)
    BY <1>1, <1>5, StandsIn
  <2>2. k + 0 = k
    BY <1>4
  <2> QED BY <2>1, <2>2
<1>7. Stands(five, d, at) /\ Stands(size, d, at2)
  <2>1. Stands(five, d, k + (4 + nal)) /\ Stands(size, d, k + (4 + nal + Len(five)))
    BY <1>3, <1>6, StandsIn
  <2>2. k + (4 + nal) = at /\ k + (4 + nal + Len(five)) = at2
    BY <1>4
  <2> QED BY <2>1, <2>2
<1>8. /\ at3 = at2 + Len(size) /\ at3 + Len(e) <= end /\ at2 + Len(size) <= end
      /\ at + Len(five) <= end /\ at <= end
      /\ at \in Nat /\ at2 \in Nat /\ at3 \in Nat /\ end \in Nat /\ end <= Len(d)
  BY <1>3, <1>4, <1>5
<1>9. NalStart(d, k + 1) = k + 5 /\ IsSei(codec, d[k + 5])
  BY <1>6, SeiRecognised DEF h
<1>10. (k + 5) + nal = at + 1
  BY <1>4
<1> HIDE DEF at, at2, at3
<1>11. ReadVarUint(d, at + 1, end) = [value |-> 5, next |-> at2 + 1]
  <2>1. end >= at + Len(five)
    BY <1>4, <1>8
  <2>2. ReadVarUint(d, at + 1, end) = [value |-> 5, next |-> at + Len(five) + 1]
    BY <1>7, <1>8, <2>1, ReadBack DEF five
  <2> QED BY <2>2 DEF at2
<1>12. ReadVarUint(d, at2 + 1, end) = [value |-> PayloadSize, next |-> at3 + 1]
  <2>1. end >= at2 + Len(size)
    BY <1>4, <1>8
  <2>2. ReadVarUint(d, at2 + 1, end) = [value |-> PayloadSize, next |-> at2 + Len(size) + 1]
    BY <1>2, <1>7, <1>8, <2>1, ReadBack DEF size
  <2> QED BY <1>8, <2>2
<1> DEFINE far == Min({end, (at3 + 1) + 2 * PayloadSize + 7})
           to == IF strict THEN end ELSE far
<1>13. to \in Nat /\ to >= at3 + Len(e) /\ to <= Len(d)
  <2> DEFINE limit == (at3 + 1) + 2 * PayloadSize + 7
  <2>1. limit \in Nat /\ limit >= at3 + Len(e)
    BY <1>1, <1>2, <1>4, <1>8, SMTT(30)
  <2>2. end \in Nat /\ end >= at3 + Len(e) /\ end <= Len(d)
    BY <1>4, <1>8
  <2> HIDE DEF limit
  <2>3. Min({end, limit}) \in {end, limit} /\ \A y \in {end, limit} : Min({end, limit}) <= y
    <3>1. {end, limit} \subseteq Nat /\ {end, limit} # {}
      BY <2>1, <2>2
    <3> QED BY <3>1, MinIsFirst
  <2>4. far = Min({end, limit})
    BY DEF limit
  <2> HIDE DEF far
  <2>5. far \in {end, limit} /\ far <= end
    BY <2>3, <2>4
  <2>6. far \in Nat /\ far >= at3 + Len(e) /\ far <= Len(d)
    BY <1>4, <1>8, <2>1, <2>2, <2>5
  <2> QED BY <2>2, <2>6
<1> HIDE DEF far, to
<1>14. PICK rest \in Seq(Byte) : SubSeq(d, at3 + 1, to) = e \o rest
  <2>1. Stands(e, d, at3) /\ to \in Nat /\ to >= at3 + Len(e) /\ to <= Len(d)
    BY <1>6, <1>13
  <2>2. Continues(SubSeq(d, at3 + 1, to), e)
    BY <2>1, CutBegins
  <2> QED BY <2>2 DEF Continues
<1>15. Unescape(SubSeq(d, at3 + 1, to), PayloadSize) = raw
  <2>1. Unescape(e \o rest, Len(raw)) = raw
    BY <1>2, <1>14, UnescapeOfEscape DEF e
  <2> QED BY <1>2, <1>14, <2>1
<1>16. ParseRawPayload(raw) = info
  BY ParseOfRawPayload DEF raw
<1>17. Message(codec, d, k + 1, end, strict) =
           ParseRawPayload(Unescape(SubSeq(d, at3 + 1, to), PayloadSize))
  <2> DEFINE type == ReadVarUint(d, at + 1, end)
             len == ReadVarUint(d, type.next, end)
  <2>1. type.next = at2 + 1 /\ type.value = 5
    BY <1>11
  <2>2. len = ReadVarUint(d, at2 + 1, end)
    BY <2>1
  <2>3. len.next = at3 + 1 /\ len.value = PayloadSize
    BY <1>12, <2>2
  <2>4. ReadVarUint(d, NalStart(d, k + 1) + Len(NalHeader(codec)), end) = type
    BY <1>9, <1>10 DEF nal
  <2>5. Message(codec, d, k + 1, end, strict) =
          IF \/ end < (k + 5) + nal \/ ~IsSei(codec, d[k + 5])
             \/ type.next = 0 \/ len.next = 0
             \/ len.value < PayloadSize
             \/ strict /\ (type.value # 5 \/ len.value > PayloadSize + 8)
          THEN NoInfo
          ELSE ParseRawPayload(
                 Unescape(SubSeq(d, len.next,
                                 IF strict THEN end
                                 ELSE Min({end, len.next + 2 * len.value + 7})),
                          len.value))
    BY <1>9, <2>4, Zenon DEF Message, nal
  <2> HIDE DEF type, len
  <2>6. /\ ~(end < (k + 5) + nal) /\ IsSei(codec, d[k + 5])
        /\ type.next # 0 /\ len.next # 0 /\ ~(len.value < PayloadSize)
        /\ type.value = 5 /\ ~(len.value > PayloadSize + 8)
    <3>1. (k + 5) + nal <= end
      <4>1. at + 1 <= end
        <5>1. Len(size) >= 1
          <6>1. Len(VarUint(PayloadSize)) = (PayloadSize \div 255) + 1
            BY <1>2, VarUintTyped
          <6>2. PayloadSize \div 255 \in Nat
            BY <1>2
          <6> QED BY <6>1, <6>2 DEF size
        <5>2. at2 = at + Len(five)
          BY DEF at2
        <5> QED BY <1>4, <1>8, <5>1, <5>2
      <4> QED BY <1>10, <4>1
    <3>2. at2 + 1 # 0 /\ at3 + 1 # 0
      BY <1>8
    <3>3. ~(end < (k + 5) + nal)
      BY <1>4, <1>8, <1>10, <3>1
    <3>4. ~(PayloadSize < PayloadSize) /\ ~(PayloadSize > PayloadSize + 8)
      BY <1>2
    <3> QED BY <1>9, <2>1, <2>3, <3>2, <3>3, <3>4
  <2>7. to = IF strict THEN end ELSE Min({end, len.next + 2 * len.value + 7})
    BY <2>3 DEF to, far
  <2>8. Message(codec, d, k + 1, end, strict) =
           ParseRawPayload(Unescape(SubSeq(d, len.next, to), len.value))
    BY <2>5, <2>6, <2>7, Zenon
  <2> QED BY <2>3, <2>8
<1> QED BY <1>15, <1>16, <1>17

LEMMA BuildNalEnds ==
    ASSUME NEW codec, NEW info \in Infos
    PROVE  LET nal == BuildNal(codec, info)
           IN  Len(nal) \in Nat /\ Len(nal) >= 5 /\ nal[Len(nal)] = 128
<1> DEFINE h == SeiHead(codec)
           e == Escape(TrailingZeros(h), RawPayload(info))
           d == h \o e
           nal == BuildNal(codec, info)
<1>1. nal = d \o <<128>>
  BY DEF BuildNal, SeiHead
<1>2. h \in Seq(Byte) /\ Len(h) \in Nat /\ Len(h) >= 4
  BY SeiHeadProperties
<1>3. RawPayload(info) \in Seq(Byte)
  BY RawPayloadTyped
<1>4. e \in Seq(Byte) /\ Len(e) \in Nat
  <2>1. e \in Seq(Byte)
    <3>1. Escaped(h, TrailingZeros(h))
      BY SeiHeadEscaped
    <3> QED BY <1>3, <3>1, EscapeKeepsEscaped
  <2> QED BY <2>1, LenProperties
<1> HIDE DEF h, e
<1>5. d \in Seq(Byte) /\ Len(d) = Len(h) + Len(e)
  BY <1>2, <1>4, Joined
<1>6. 128 \in Byte
  BY DEF Byte
<1> HIDE DEF d, nal
<1>7. nal = Append(d, 128)
  BY <1>1, <1>5, <1>6, AppendIsConcat
<1>8. Len(nal) = Len(d) + 1 /\ nal[Len(d) + 1] = 128
  BY <1>5, <1>6, <1>7, AppendProperties
<1>9. Len(nal) \in Nat /\ Len(nal) >= 5 /\ nal[Len(nal)] = 128
  BY <1>2, <1>4, <1>5, <1>8
<1> QED BY <1>9 DEF nal

(* No NAL unit begins within the SEI of a stamp: the next one is behind it. *)
LEMMA EndsBehind ==
    ASSUME NEW codec, NEW info \in Infos, NEW d, NEW k, Stands(BuildNal(codec, info), d, k)
    PROVE  /\ NalEnd(d, k + 1) \in Nat /\ NalEnd(d, k + 1) <= Len(d)
           /\ NalEnd(d, k + 1) >= k + Len(BuildNal(codec, info))
<1> DEFINE x == BuildNal(codec, info)
           n == Len(x)
           p == k + 1
           F == Following(d, p)
<1>1. /\ k \in Nat /\ d \in Seq(Byte) /\ Len(d) \in Nat /\ k + n <= Len(d)
      /\ \A i \in 1..n : d[k + i] = x[i]
  BY LenProperties DEF Stands
<1>2. n \in Nat /\ n >= 5 /\ x[n] = 128 /\ x[1] = 0 /\ x[4] = 1
  <2>1. n \in Nat /\ n >= 5 /\ x[n] = 128
    BY BuildNalEnds
  <2>2. x[1] = 0 /\ x[4] = 1
    <3>1. Stands(StartCode, SeiHead(codec), 0) /\ Stands(SeiHead(codec), x, 0)
      <4>1. SeiHead(codec) \in Seq(Byte)
        BY SeiHeadProperties
      <4> DEFINE e == Escape(TrailingZeros(SeiHead(codec)), RawPayload(info))
                 y == SeiHead(codec) \o e
      <4>2. e \in Seq(Byte)
        BY SeiHeadEscaped, RawPayloadTyped, EscapeKeepsEscaped
      <4>3. x = y \o <<128>>
        BY DEF BuildNal, SeiHead
      <4>4. <<128>> \in Seq(Byte)
        <5>1. 128 \in Byte
          BY DEF Byte
        <5> QED BY <5>1
      <4> HIDE DEF e, x
      <4>5. Stands(SeiHead(codec), y, 0)
        BY <4>1, <4>2, StandsLast
      <4> HIDE DEF y
      <4> QED BY <4>3, <4>4, <4>5, SeiHeadLayout, StandsKept
    <3>2. Stands(StartCode, x, 0 + 0)
      BY <3>1, StandsIn
    <3>3. Len(StartCode) = 4 /\ StartCode[1] = 0 /\ StartCode[4] = 1
      BY DEF StartCode
    <3> HIDE DEF x, StartCode
    <3>4. \A i \in 1..4 : x[(0 + 0) + i] = StartCode[i]
      BY <3>2, <3>3 DEF Stands
    <3>5. x[1] = StartCode[1] /\ x[4] = StartCode[4]
      BY <3>4
    <3> QED BY <3>3, <3>5
  <2> QED BY <2>1, <2>2
<1>3. \A i \in 3..(n - 2) : x[i] = 0 /\ x[i + 1] = 0 => x[i + 2] >= 3
  BY BuildNalClean DEF NothingLike
<1> HIDE DEF n
<1>4. F \subseteq Nat /\ \A q \in F : q <= Len(d)
  <2>1. F \subseteq Starts(d)
    BY DEF Following
  <2>2. Starts(d) \subseteq 1..Len(d)
    BY StartsWithin
  <2> HIDE DEF F
  <2> QED BY <1>1, <2>1, <2>2
<1>5. ASSUME NEW q \in F, q <= k + n PROVE FALSE
  <2> DEFINE i == q - k
  <2>1. q > p /\ q \in Starts(d) /\ q \in Nat
    BY <1>4 DEF Following
  <2>2. i \in 2..n /\ q = k + i
    BY <1>1, <1>2, <1>5, <2>1
  <2>3. CodeAt(d, q) > 0 /\ (CodeAt(d, q) = 3 /\ q > 1 => d[q - 1] # 0)
    BY <2>1 DEF Starts
  <2>4. CodeAt(d, q) = IF HasShort(d, q) THEN 3 ELSE IF HasLong(d, q) THEN 4 ELSE 0
    BY <1>1, <2>1, CodeAtBytes
  <2>5. HasShort(d, q) \/ HasLong(d, q)
    BY <2>3, <2>4
  <2>6. d[q] = 0 /\ d[q + 1] = 0 /\ (d[q + 2] = 1 \/ d[q + 2] = 0)
    BY <2>5 DEF HasShort, HasLong
  <2> HIDE DEF i, x
  <2>7. i # n /\ i # n - 1
    <3>1. CASE i = n
      BY <1>1, <1>2, <2>2, <2>6, <3>1
    <3>2. CASE i = n - 1
      <4>1. q + 1 = k + n
        BY <1>1, <1>2, <2>2, <3>2
      <4>2. d[k + n] = x[n]
        BY <1>1, <1>2
      <4> QED BY <1>2, <2>6, <4>1, <4>2
    <3> QED BY <3>1, <3>2
  <2>8. i \in 2..(n - 2) /\ q + 1 = k + (i + 1) /\ q + 2 = k + (i + 2)
    BY <1>1, <1>2, <2>2, <2>7
  <2>9. x[i] = 0 /\ x[i + 1] = 0 /\ (x[i + 2] = 1 \/ x[i + 2] = 0)
    <3>1. i \in 1..n /\ i + 1 \in 1..n /\ i + 2 \in 1..n
      BY <1>2, <2>8
    <3>2. d[k + i] = x[i] /\ d[k + (i + 1)] = x[i + 1] /\ d[k + (i + 2)] = x[i + 2]
      BY <1>1, <3>1
    <3> QED BY <2>2, <2>6, <2>8, <3>2
  <2>10. CASE i = 2
    <3>1. x[2 + 2] = 1 /\ d[q + 2] = 1
      BY <1>1, <1>2, <2>2, <2>8, <2>10
    <3>2. HasShort(d, q)
      BY <2>5, <3>1 DEF HasShort, HasLong
    <3>3. q - 1 = k + 1 /\ q > 1 /\ 1 \in 1..n
      BY <1>1, <1>2, <2>2, <2>10
    <3>4. d[q - 1] = 0
      BY <1>1, <1>2, <3>3
    <3> QED BY <2>3, <2>4, <3>2, <3>3, <3>4
  <2>11. CASE i # 2
    <3>1. i \in 3..(n - 2)
      BY <1>2, <2>8, <2>11
    <3>2. x[i + 2] >= 3
      BY <1>3, <2>9, <3>1
    <3> QED BY <2>9, <3>2
  <2> QED BY <2>10, <2>11
<1>6. NalEnd(d, p) = IF F = {} THEN Len(d) ELSE Min(F) - 1
  BY DEF NalEnd
<1> DEFINE m == Min(F)
<1>7. F # {} => m \in F
  BY <1>4, MinIsFirst
<1> HIDE DEF F, m
<1>8. F # {} => m \in Nat /\ m > k + n /\ m <= Len(d)
  <2> SUFFICES ASSUME F # {} PROVE m \in Nat /\ m > k + n /\ m <= Len(d)
    OBVIOUS
  <2>1. m \in F /\ m \in Nat /\ m <= Len(d)
    BY <1>4, <1>7
  <2>2. ~(m <= k + n)
    BY <1>5, <2>1
  <2> QED BY <1>1, <1>2, <2>1, <2>2
<1>9. NalEnd(d, p) = IF F = {} THEN Len(d) ELSE m - 1
  BY <1>6 DEF m
<1> DEFINE end == NalEnd(d, p)
<1> HIDE DEF end
<1>10. end \in Nat /\ end <= Len(d) /\ end >= k + n
  <2>1. end = IF F = {} THEN Len(d) ELSE m - 1
    BY <1>9 DEF end
  <2> HIDE DEF p, x
  <2> QED BY <1>1, <1>2, <1>8, <2>1
<1> QED BY <1>10 DEF end, n

(* Both readers find the stamp in a packet: the C parser looks as far as the
   packet goes, the Python ones as far as the NAL unit does.                 *)
ReadAt(codec, packet, s, info) ==
    /\ s \in Starts(packet)
    /\ Message(codec, packet, s, Len(packet), TRUE) = info
    /\ Message(codec, packet, s, NalEnd(packet, s), FALSE) = info

Readable(codec, packet, info) == \E s : ReadAt(codec, packet, s, info)

StampsReadable ==
    \A i \in DOMAIN video.frames :
        Readable(video.codec, Packets(video)[i], video.frames[i].info)

LEMMA StandingIsRead ==
    ASSUME NEW codec \in Codecs, NEW info \in Infos, Fits(info), PlainSize,
           NEW d, NEW k, Stands(BuildNal(codec, info), d, k)
    PROVE  ReadAt(codec, d, k + 1, info)
<1> DEFINE n == Len(BuildNal(codec, info))
           p == k + 1
<1>1. k \in Nat /\ d \in Seq(Byte) /\ Len(d) \in Nat /\ k + n <= Len(d)
  BY LenProperties DEF Stands
<1>2. Message(codec, d, p, Len(d), TRUE) = info
  <2> DEFINE end == Len(d)
  <2>1. end \in Nat /\ end >= k + Len(BuildNal(codec, info)) /\ end <= Len(d)
    BY <1>1, BuildNalEnds
  <2> HIDE DEF end
  <2>2. Reaches(BuildNal(codec, info), d, k, end)
    BY <2>1 DEF Reaches
  <2>3. ReadBy(codec, d, k, end, TRUE, info)
    BY <2>2, StampReadable
  <2> QED BY <2>3 DEF end, ReadBy
<1>3. Message(codec, d, p, NalEnd(d, p), FALSE) = info
  <2> DEFINE end == NalEnd(d, p)
  <2>1. end \in Nat /\ end >= k + Len(BuildNal(codec, info)) /\ end <= Len(d)
    BY EndsBehind
  <2> HIDE DEF end
  <2>2. Reaches(BuildNal(codec, info), d, k, end)
    BY <2>1 DEF Reaches
  <2>3. ReadBy(codec, d, k, end, FALSE, info)
    BY <2>2, StampReadable
  <2> QED BY <2>3 DEF end, ReadBy
<1>4. p \in Starts(d)
  <2>1. Stands(SeiHead(codec), d, k)
    <3> DEFINE e == Escape(0, RawPayload(info))
    <3>1. Stands(SeiHead(codec), BuildNal(codec, info), 0)
      BY BuildNalLayout
    <3>2. Stands(SeiHead(codec), d, k + 0)
      BY <3>1, StandsIn
    <3> QED BY <1>1, <3>2
  <2>2. NalStart(d, p) = k + 5
    BY <2>1, SeiRecognised
  <2>3. CodeAt(d, p) \in {0, 3, 4}
    BY <1>1, CodeAtBytes
  <2>4. CodeAt(d, p) = 4
    <3> DEFINE c == CodeAt(d, p)
    <3>1. p + c = k + 5
      BY <2>2 DEF NalStart
    <3>2. c \in Int
      BY <2>3
    <3> HIDE DEF c
    <3>3. c = 4
      BY <1>1, <3>1, <3>2
    <3> QED BY <3>3 DEF c
  <2>5. p \in 1..Len(d)
    <3>1. n \in Nat /\ n >= 5
      BY BuildNalEnds
    <3> QED BY <1>1, <3>1
  <2> QED BY <2>4, <2>5 DEF Starts
<1> QED BY <1>2, <1>3, <1>4 DEF ReadAt

LEMMA StandingIsReadable ==
    ASSUME NEW codec \in Codecs, NEW info \in Infos, Fits(info), PlainSize,
           NEW d, NEW k, Stands(BuildNal(codec, info), d, k)
    PROVE  Readable(codec, d, info)
BY StandingIsRead DEF Readable

(* The stamp's SEI is in the packet as it was built. *)
LEMMA StandsInPacket ==
    ASSUME NEW codec, NEW packet \in Seq(Byte), NEW headers \in Seq(Byte) \cup {NotRecognised},
           NEW info \in Infos
    PROVE  \E k : Stands(BuildNal(codec, info), AssemblePacket(codec, packet, headers, info), k)
<1> DEFINE prefix == PrefixNalBytes(codec, packet)
           a == SubSeq(packet, 1, prefix)
           b == IF info.key /\ headers # NotRecognised THEN headers ELSE <<>>
           c == BuildNal(codec, info)
           d == SubSeq(packet, prefix + 1, Len(packet))
<1>1. AssemblePacket(codec, packet, headers, info) = a \o b \o c \o d
  BY DEF AssemblePacket
<1>2. prefix \in 0..Len(packet) /\ Len(packet) \in Nat
  BY PrefixWithin, LenProperties
<1> HIDE DEF prefix
<1>3. 1 \in Int /\ prefix \in Int /\ prefix <= Len(packet) /\ 1 >= 1
      /\ prefix + 1 \in Int /\ prefix + 1 >= 1 /\ Len(packet) \in Int /\ Len(packet) <= Len(packet)
  BY <1>2
<1>4. a \in Seq(Byte) /\ d \in Seq(Byte)
  BY <1>3, PartTyped
<1>5. b \in Seq(Byte)
  BY EmptySeq
<1>6. c \in Seq(Byte)
  BY BuildNalClean
<1> HIDE DEF a, b, c, d
<1>7. a \o b \in Seq(Byte)
  BY <1>4, <1>5, Joined
<1>8. Stands(c, (a \o b) \o c, Len(a \o b))
  BY <1>6, <1>7, StandsLast
<1>9. Stands(c, ((a \o b) \o c) \o d, Len(a \o b))
  BY <1>4, <1>8, StandsKept
<1> QED BY <1>1, <1>9 DEF c

(* Every packet that the encoder hands over, keyframe or not, H.264 or HEVC, and
   whatever the codec made, contains a SEI from which sei_ts_parse_from_access_unit
   and the Python tools' parser get exactly the fields of that frame's stamp.
   The fields fit their types, and the record is 38 bytes long in the code.   *)
THEOREM Spec_StampsReadable ==
    ASSUME PlainSize,
           \A v \in Videos : \A i \in DOMAIN v.frames : Fits(v.frames[i].info)
    PROVE  Spec => []StampsReadable
<1>1. ASSUME video \in Videos PROVE StampsReadable
  <2> SUFFICES ASSUME NEW i \in DOMAIN video.frames
               PROVE  Readable(video.codec, Packets(video)[i], video.frames[i].info)
    BY DEF StampsReadable
  <2> DEFINE f == video.frames[i]
             headers == Headers(video)
  <2>1. video.codec \in Codecs /\ f.info \in Infos /\ f.packet \in Seq(Byte) /\ Fits(f.info)
    BY <1>1, VideoTyped
  <2>2. headers \in Seq(Byte) \cup {NotRecognised}
    BY <1>1, VideoTyped, HeadersTyped DEF Headers
  <2>3. Packets(video)[i] = AssemblePacket(video.codec, f.packet, headers, f.info)
    BY DEF Packets
  <2> HIDE DEF f, headers
  <2>4. PICK k : Stands(BuildNal(video.codec, f.info),
                        AssemblePacket(video.codec, f.packet, headers, f.info), k)
    BY <2>1, <2>2, StandsInPacket
  <2>5. Readable(video.codec, AssemblePacket(video.codec, f.packet, headers, f.info), f.info)
    BY <2>1, <2>4, StandingIsReadable
  <2> QED BY <2>3, <2>5 DEF f
<1> QED BY <1>1, VideoFixed, PTL

-----------------------------------------------------------------------------
(* Parameter sets, as a container keeps them and as a stream does *)

(* The first i of x, and one more. *)
First(x, i) == SubSeq(x, 1, i)

LEMMA OneMore ==
    ASSUME NEW D, NEW x \in Seq(D)
    PROVE  /\ First(x, 0) = <<>> /\ First(x, Len(x)) = x /\ Len(x) \in Nat
           /\ \A i \in 0..(Len(x) - 1) :
                 /\ First(x, i) \in Seq(D) /\ x[i + 1] \in D
                 /\ First(x, i + 1) = Append(First(x, i), x[i + 1])
<1>1. Len(x) \in Nat /\ \A i \in 1..Len(x) : x[i] \in D
  BY LenProperties, ElementOfSeq
<1>2. First(x, 0) = <<>>
  BY SubSeqEmpty DEF First
<1>3. First(x, Len(x)) = x
  BY SubSeqFull DEF First
<1>4. ASSUME NEW i \in 0..(Len(x) - 1)
      PROVE  /\ First(x, i) \in Seq(D) /\ x[i + 1] \in D
             /\ First(x, i + 1) = Append(First(x, i), x[i + 1])
  <2> DEFINE k == i + 1
  <2>1. k \in 1..Len(x) /\ 1 \in 1..Len(x) /\ k - 1 = i /\ 1..i \subseteq 1..Len(x)
        /\ 1 \in Int /\ i \in Int
    BY <1>1
  <2>2. First(x, i) \in Seq(D)
    <3>1. \A j \in 1..i : x[j] \in D
      BY <1>1, <2>1
    <3> QED BY <2>1, <3>1, SubSeqProperties DEF First
  <2> HIDE DEF k
  <2>3. x[k] \in D
    BY <1>1, <2>1
  <2>4. SubSeq(x, 1, k) = SubSeq(x, 1, k - 1) \o <<x[k]>>
    <3>1. k \in 1..Len(x) /\ 1 \in 1..Len(x) /\ k \in 1..k
      BY <2>1
    <3> QED BY <2>1, <3>1, SubSeqRecursiveSecond
  <2>5. First(x, k) = First(x, i) \o <<x[k]>>
    BY <2>1, <2>4 DEF First
  <2>6. First(x, k) = Append(First(x, i), x[k])
    BY <2>2, <2>3, <2>5, AppendIsConcat
  <2> QED BY <2>2, <2>3, <2>6 DEF k
<1> QED BY <1>1, <1>2, <1>3, <1>4

(* What becomes of each, one behind the other. *)
Forms(G, units) == FlattenSeq([i \in DOMAIN units |-> G[units[i]]])

InSteps(D, S, G, units) ==
    /\ Forms(G, units) \in Seq(S)
    /\ \A u \in D : Forms(G, Append(units, u)) = Forms(G, units) \o G[u]

LEMMA AnyForms ==
    ASSUME NEW D, NEW S, NEW G \in [D -> Seq(S)], NEW units \in Seq(D)
    PROVE  InSteps(D, S, G, units)
<1> DEFINE n == Len(units)
           seqs == [i \in DOMAIN units |-> G[units[i]]]
<1>1. n \in Nat /\ DOMAIN units = 1..n /\ \A i \in 1..n : units[i] \in D
  BY LenProperties, ElementOfSeq
<1>2. seqs \in Seq(Seq(S)) /\ Len(seqs) = n /\ \A i \in 1..n : seqs[i] = G[units[i]]
  <2>1. seqs = [i \in 1..n |-> G[units[i]]]
    BY <1>1
  <2>2. \A i \in 1..n : G[units[i]] \in Seq(S)
    BY <1>1
  <2> HIDE DEF n, seqs
  <2>3. seqs \in [1..n -> Seq(S)]
    BY <2>1, <2>2
  <2> QED BY <1>1, <2>1, <2>3
<1>3. Forms(G, units) = FlattenSeq(seqs)
  BY DEF Forms
<1> HIDE DEF seqs
<1>4. ASSUME NEW u \in D PROVE Forms(G, Append(units, u)) = FlattenSeq(seqs) \o G[u]
  <2> DEFINE more == Append(units, u)
             forms == [i \in DOMAIN more |-> G[more[i]]]
             g == G[u]
  <2>1. /\ more \in Seq(D) /\ Len(more) = n + 1 /\ more[n + 1] = u
        /\ \A i \in 1..n : more[i] = units[i]
    BY AppendProperties
  <2>2. DOMAIN more = 1..(n + 1)
    BY <2>1, LenProperties
  <2>3. g \in Seq(S)
    OBVIOUS
  <2>4. Forms(G, Append(units, u)) = FlattenSeq(forms)
    BY DEF Forms
  <2> HIDE DEF more, n
  <2>5. forms = [i \in 1..(n + 1) |-> IF i = n + 1 THEN g ELSE seqs[i]]
    <3>1. \A i \in 1..(n + 1) : G[more[i]] = IF i = n + 1 THEN g ELSE seqs[i]
      <4> TAKE i \in 1..(n + 1)
      <4>1. i = n + 1 \/ i \in 1..n
        BY <1>1
      <4>2. i \in 1..n => i # n + 1
        BY <1>1
      <4> QED BY <1>2, <2>1, <4>1, <4>2
    <3> QED BY <2>2, <3>1
  <2> HIDE DEF forms, g
  <2>6. Append(seqs, g) = [i \in 1..(n + 1) |-> IF i = n + 1 THEN g ELSE seqs[i]]
    <3>1. /\ Append(seqs, g) \in Seq(Seq(S)) /\ Len(Append(seqs, g)) = n + 1
          /\ Append(seqs, g)[n + 1] = g /\ \A i \in 1..n : Append(seqs, g)[i] = seqs[i]
      BY <1>2, <2>3, AppendProperties
    <3> DEFINE x == Append(seqs, g)
    <3>2. x = [i \in 1..(n + 1) |-> x[i]]
      <4>1. x \in Seq(Seq(S)) /\ Len(x) = n + 1
        BY <3>1
      <4> HIDE DEF x
      <4>2. DOMAIN x = 1..(n + 1) /\ x = [i \in DOMAIN x |-> x[i]]
        BY <4>1
      <4> QED BY <4>2
    <3> HIDE DEF x
    <3>3. \A i \in 1..(n + 1) : x[i] = IF i = n + 1 THEN g ELSE seqs[i]
      <4> TAKE i \in 1..(n + 1)
      <4>1. i = n + 1 \/ i \in 1..n
        BY <1>1
      <4>2. i \in 1..n => i # n + 1
        BY <1>1
      <4> QED BY <3>1, <4>1, <4>2 DEF x
    <3> QED BY <3>2, <3>3 DEF x
  <2>7. FlattenSeq(Append(seqs, g)) = FlattenSeq(seqs) \o g
    BY <1>2, <2>3, FlattenAppend
  <2> QED BY <2>4, <2>5, <2>6, <2>7 DEF g
<1> QED BY <1>2, <1>3, <1>4, FlattenTyped DEF InSteps

LEMMA FormsBySteps ==
    ASSUME NEW D, NEW G \in [D -> Seq(Byte)], NEW units \in Seq(D)
    PROVE  /\ Forms(G, units) \in Seq(Byte)
           /\ \A u \in D : Forms(G, Append(units, u)) = Forms(G, units) \o G[u]
<1>1. InSteps(D, Byte, G, units)
  BY AnyForms
<1> QED BY <1>1 DEF InSteps

LEMMA FormsEmpty ==
    ASSUME NEW G
    PROVE  Forms(G, <<>>) = <<>>
<1>1. [i \in DOMAIN <<>> |-> G[<<>>[i]]] = <<>>
  OBVIOUS
<1> QED BY <1>1 DEF Forms, FlattenSeq

Regroups(s, t, u) == s \o (t \o u) = (s \o t) \o u

LEMMA AnyAssociative ==
    ASSUME NEW D, NEW s \in Seq(D), NEW t \in Seq(D), NEW u \in Seq(D)
    PROVE  Regroups(s, t, u)
BY ConcatAssociative, SMTT(30) DEF Regroups

FormsMeet(G, s, t) == Forms(G, s \o t) = Forms(G, s) \o Forms(G, t)

LEMMA AnyFormsJoined ==
    ASSUME NEW D, NEW S, NEW G \in [D -> Seq(S)], NEW s \in Seq(D), NEW t \in Seq(D)
    PROVE  FormsMeet(G, s, t)
<1> DEFINE n == Len(t)
           T == {i \in 0..n : Forms(G, s \o First(t, i)) = Forms(G, s) \o Forms(G, First(t, i))}
<1>1. n \in Nat /\ First(t, 0) = <<>> /\ First(t, n) = t
  BY OneMore
<1>2. Forms(G, s) \in Seq(S)
  BY AnyForms DEF InSteps
<1>3. 0 \in T
  <2>1. s \o <<>> = s /\ Forms(G, s) \o <<>> = Forms(G, s)
    BY <1>2, ConcatEmptySeq
  <2>2. First(t, 0) = <<>> /\ Forms(G, <<>>) = <<>>
    BY <1>1, FormsEmpty
  <2>3. Forms(G, s \o First(t, 0)) = Forms(G, s) \o Forms(G, First(t, 0))
    BY <2>1, <2>2
  <2> QED BY <1>1, <2>3
<1>4. ASSUME NEW i \in 0..(n - 1), i \in T PROVE i + 1 \in T
  <2> DEFINE p == First(t, i)
             u == t[i + 1]
  <2>1. p \in Seq(D) /\ u \in D /\ First(t, i + 1) = Append(p, u)
    BY OneMore
  <2>2. Forms(G, s \o p) = Forms(G, s) \o Forms(G, p)
    BY <1>4
  <2> HIDE DEF p, u
  <2>3. s \o p \in Seq(D) /\ s \o Append(p, u) = Append(s \o p, u)
    <3>1. s \o p \in Seq(D) /\ <<u>> \in Seq(D)
      BY <2>1, ConcatProperties
    <3>2. Append(p, u) = p \o <<u>> /\ Append(s \o p, u) = (s \o p) \o <<u>>
      BY <2>1, <3>1, AppendIsConcat
    <3>3. s \o (p \o <<u>>) = (s \o p) \o <<u>>
      <4> DEFINE w == <<u>>
      <4>1. s \in Seq(D) /\ p \in Seq(D) /\ w \in Seq(D)
        BY <2>1, <3>1
      <4> HIDE DEF w
      <4>2. Regroups(s, p, w)
        BY <4>1, AnyAssociative
      <4> QED BY <4>2 DEF w, Regroups
    <3> QED BY <3>1, <3>2, <3>3
  <2>4. Forms(G, Append(s \o p, u)) = Forms(G, s \o p) \o G[u]
    <3> DEFINE q == s \o p
    <3>1. q \in Seq(D)
      BY <2>3
    <3> HIDE DEF q
    <3>2. InSteps(D, S, G, q)
      BY <3>1, AnyForms
    <3> QED BY <2>1, <3>2 DEF q, InSteps
  <2>5. Forms(G, Append(p, u)) = Forms(G, p) \o G[u] /\ Forms(G, p) \in Seq(S)
    <3>1. InSteps(D, S, G, p)
      BY <2>1, AnyForms
    <3> QED BY <2>1, <3>1 DEF InSteps
  <2>6. (Forms(G, s) \o Forms(G, p)) \o G[u] = Forms(G, s) \o (Forms(G, p) \o G[u])
    <3> DEFINE a == Forms(G, s)
               b == Forms(G, p)
               c == G[u]
    <3>1. a \in Seq(S) /\ b \in Seq(S) /\ c \in Seq(S)
      BY <1>2, <2>1, <2>5
    <3> HIDE DEF a, b, c
    <3>2. Regroups(a, b, c)
      BY <3>1, AnyAssociative
    <3> QED BY <3>2 DEF a, b, c, Regroups
  <2>7. i + 1 \in 0..n
    BY <1>1
  <2> QED BY <2>1, <2>2, <2>3, <2>4, <2>5, <2>6, <2>7
<1>5. n \in T
  <2> HIDE DEF T
  <2>1. \A i \in 0..n : i \in T
    BY <1>1, <1>3, <1>4, Induction
  <2> QED BY <1>1, <2>1
<1> QED BY <1>1, <1>5 DEF FormsMeet

LEMMA FormsJoined ==
    ASSUME NEW D, NEW G \in [D -> Seq(Byte)], NEW s \in Seq(D), NEW t \in Seq(D)
    PROVE  Forms(G, s \o t) = Forms(G, s) \o Forms(G, t)
<1>1. FormsMeet(G, s, t)
  BY AnyFormsJoined
<1> QED BY <1>1 DEF FormsMeet

(* A parameter set: its length has to fit 16 bits. *)
Units == {u \in Seq(Byte) : Len(u) <= 65535}

WithCode == [u \in Units |-> StartCode \o u]
WithSize == [u \in Units |-> <<Len(u) \div 256, Len(u) % 256>> \o u]

LEMMA SizeTyped ==
    ASSUME NEW u \in Units
    PROVE  LET size == <<Len(u) \div 256, Len(u) % 256>>
           IN  /\ size \in Seq(Byte) /\ Len(size) = 2
               /\ size[1] \in Nat /\ size[2] \in Nat /\ 256 * size[1] + size[2] = Len(u)
<1> DEFINE n == Len(u)
           hi == n \div 256
           lo == n % 256
<1>1. n \in Nat /\ n <= 65535
  BY LenProperties DEF Units
<1> HIDE DEF n
<1>2. hi \in 0..255 /\ lo \in 0..255 /\ 256 * hi + lo = n
  BY <1>1
<1> HIDE DEF hi, lo
<1>3. hi \in Byte /\ lo \in Byte /\ hi \in Nat /\ lo \in Nat
  BY <1>2 DEF Byte
<1>4. <<hi, lo>> \in Seq(Byte) /\ Len(<<hi, lo>>) = 2 /\ <<hi, lo>>[1] = hi /\ <<hi, lo>>[2] = lo
  BY <1>3
<1> QED BY <1>2, <1>3, <1>4 DEF hi, lo, n

LEMMA WithTyped ==
    WithCode \in [Units -> Seq(Byte)] /\ WithSize \in [Units -> Seq(Byte)]
<1>1. \A u \in Units : u \in Seq(Byte)
  BY DEF Units
<1>2. \A u \in Units : StartCode \o u \in Seq(Byte)
  BY <1>1, StartCodeTyped, Joined
<1>3. ASSUME NEW u \in Units PROVE <<Len(u) \div 256, Len(u) % 256>> \o u \in Seq(Byte)
  <2> DEFINE size == <<Len(u) \div 256, Len(u) % 256>>
  <2>1. size \in Seq(Byte)
    BY SizeTyped
  <2> HIDE DEF size
  <2>2. size \o u \in Seq(Byte)
    BY <1>1, <2>1, Joined
  <2> QED BY <2>2 DEF size
<1> QED BY <1>2, <1>3 DEF WithCode, WithSize

(* What stands somewhere does so in parts. *)
LEMMA StandsInParts ==
    ASSUME NEW a \in Seq(Byte), NEW b \in Seq(Byte), NEW d, NEW k, Stands(a \o b, d, k)
    PROVE  Stands(a, d, k) /\ Stands(b, d, k + Len(a))
<1>1. Stands(a, a \o b, 0) /\ Stands(b, a \o b, Len(a))
  BY StandsLast
<1>2. Stands(a, d, k + 0) /\ Stands(b, d, k + Len(a))
  BY <1>1, StandsIn
<1>3. k + 0 = k
  BY DEF Stands
<1> QED BY <1>2, <1>3

(* One parameter set is read as it was written. *)
LEMMA SizedUnitRead ==
    ASSUME NEW u \in Units, NEW xd, NEW k, Stands(WithSize[u], xd, k),
           NEW s \in Blob, s.at = k + 1
    PROVE  SizedUnit(xd, s) = [at |-> k + 1 + Len(WithSize[u]), out |-> s.out \o WithCode[u]]
<1> DEFINE size == <<Len(u) \div 256, Len(u) % 256>>
           n == Len(u)
           len == Number16(xd, s.at)
<1>1. u \in Seq(Byte) /\ n \in Nat
  BY LenProperties DEF Units
<1>2. size \in Seq(Byte) /\ Len(size) = 2 /\ 256 * size[1] + size[2] = n
  BY SizeTyped
<1>3. WithSize[u] = size \o u /\ WithCode[u] = StartCode \o u
  BY DEF WithSize, WithCode
<1> HIDE DEF size, n
<1>4. Len(WithSize[u]) = 2 + n
  BY <1>1, <1>2, <1>3, Joined DEF n
<1>5. Stands(size, xd, k) /\ Stands(u, xd, k + 2)
  BY <1>1, <1>2, <1>3, StandsInParts
<1>6. k \in Nat /\ Len(xd) \in Nat /\ k + 2 + n <= Len(xd)
  <2>1. k \in Nat /\ xd \in Seq(Byte) /\ (k + 2) + Len(u) <= Len(xd)
    BY <1>5 DEF Stands
  <2> QED BY <2>1, LenProperties DEF n
<1>7. xd[k + 1] = size[1] /\ xd[k + 2] = size[2]
  <2>1. \A i \in 1..2 : xd[k + i] = size[i]
    BY <1>2, <1>5 DEF Stands
  <2> QED BY <2>1
<1>8. len = n
  <2>1. len = 256 * xd[k + 1] + xd[k + 2]
    <3>1. (k + 1) + 1 = k + 2
      BY <1>6
    <3> QED BY <3>1 DEF Number16
  <2> QED BY <1>2, <1>7, <2>1
<1>9. ~(s.at = 0 \/ s.at + 1 > Len(xd) \/ s.at + 1 + n > Len(xd))
      /\ s.at + 2 = (k + 2) + 1 /\ s.at + 1 + n = (k + 2) + n
      /\ s.at + 2 + n = k + 1 + (2 + n) /\ (k + 2) + 1 \in Int /\ (k + 2) + n \in Int
  BY <1>1, <1>6
<1>10. SubSeq(xd, (k + 2) + 1, (k + 2) + n) = u
  BY <1>5, StandsCut DEF n
<1>11. SizedUnit(xd, s) =
          IF s.at = 0 \/ s.at + 1 > Len(xd) \/ s.at + 1 + len > Len(xd)
          THEN Beyond
          ELSE [at |-> s.at + 2 + len,
                out |-> s.out \o StartCode \o SubSeq(xd, s.at + 2, s.at + 1 + len)]
  BY DEF SizedUnit
<1> HIDE DEF len
<1>12. SizedUnit(xd, s) = [at |-> k + 1 + (2 + n), out |-> s.out \o StartCode \o u]
  <2> DEFINE part == SubSeq(xd, s.at + 2, s.at + 1 + len)
             out == s.out \o StartCode \o part
             at == s.at + 2 + len
  <2>1. part = u /\ at = k + 1 + (2 + n)
    BY <1>8, <1>9, <1>10
  <2>2. SizedUnit(xd, s) = [at |-> at, out |-> out]
    BY <1>8, <1>9, <1>11
  <2> HIDE DEF part, at
  <2> QED BY <2>1, <2>2
<1>13. s.out \o StartCode \o u = s.out \o WithCode[u]
  <2> DEFINE out == s.out
             c == StartCode
  <2>1. out \in Seq(Byte) /\ c \in Seq(Byte)
    BY StartCodeTyped DEF Blob
  <2> HIDE DEF out, c
  <2>2. out \o (c \o u) = (out \o c) \o u
    BY <1>1, <2>1, Associative
  <2> QED BY <1>3, <2>2 DEF out, c
<1> QED BY <1>4, <1>12, <1>13

(* The loop, one turn at a time. *)
LEMMA SizedRecursion ==
    ASSUME NEW xd \in Seq(Byte), NEW at \in Nat
    PROVE  /\ Sized(xd, at, 0) = [at |-> at, out |-> <<>>]
           /\ \A n \in Nat : Sized(xd, at, n + 1) = SizedUnit(xd, Sized(xd, at, n))
<1> DEFINE s0 == [at |-> at, out |-> <<>>]
<1>1. Sized(xd, at, 0) = s0
  <2>1. 0 \in Nat
    OBVIOUS
  <2>2. PICK e : IsLoop(e, 0, Blob, s0, SizedStep(xd, 0)) /\ Sized(xd, at, 0) = e[0]
    BY <2>1, SizedLoop
  <2> QED BY <2>2 DEF IsLoop
<1>2. ASSUME NEW n \in Nat PROVE Sized(xd, at, n + 1) = SizedUnit(xd, Sized(xd, at, n))
  <2> DEFINE m == n + 1
  <2>1. m \in Nat /\ n <= m /\ m \in 1..m /\ m - 1 = n /\ n \in 0..m /\ 1..n \subseteq 1..m
    OBVIOUS
  <2>2. PICK f : IsLoop(f, n, Blob, s0, SizedStep(xd, n)) /\ Sized(xd, at, n) = f[n]
    BY SizedLoop
  <2> HIDE DEF m, s0
  <2>3. PICK g : IsLoop(g, m, Blob, s0, SizedStep(xd, m)) /\ Sized(xd, at, m) = g[m]
    BY <2>1, SizedLoop DEF s0
  <2>4. \A i \in 1..n, t \in Blob : SizedStep(xd, n)[<<i, t>>] = SizedStep(xd, m)[<<i, t>>]
    BY <2>1 DEF SizedStep
  <2>5. f[n] = g[n]
    BY <2>1, <2>2, <2>3, <2>4, LoopsAgree
  <2>6. g \in [0..m -> Blob] /\ \A i \in 1..m : g[i] = SizedStep(xd, m)[<<i, g[i - 1]>>]
    BY <2>3 DEF IsLoop
  <2>7. g[n] \in Blob /\ g[m] = SizedStep(xd, m)[<<m, g[n]>>]
    BY <2>1, <2>6
  <2>8. g[m] = SizedUnit(xd, g[n])
    BY <2>1, <2>7 DEF SizedStep
  <2> QED BY <2>2, <2>3, <2>5, <2>8 DEF m
<1> QED BY <1>1, <1>2

(* The unit number k + 1 of what stands from a position on, behind the others. *)
LEMMA SizedPart ==
    ASSUME NEW units \in Seq(Units), NEW i \in 0..(Len(units) - 1), NEW xd, NEW k,
           Stands(Forms(WithSize, First(units, i + 1)), xd, k)
    PROVE  /\ Stands(Forms(WithSize, First(units, i)), xd, k)
           /\ Stands(WithSize[units[i + 1]], xd, k + Len(Forms(WithSize, First(units, i))))
<1> DEFINE p == First(units, i)
           u == units[i + 1]
<1>1. p \in Seq(Units) /\ u \in Units /\ First(units, i + 1) = Append(p, u)
  BY OneMore
<1> HIDE DEF p, u
<1>2. /\ Forms(WithSize, p) \in Seq(Byte) /\ WithSize[u] \in Seq(Byte)
      /\ Forms(WithSize, Append(p, u)) = Forms(WithSize, p) \o WithSize[u]
  BY <1>1, WithTyped, FormsBySteps
<1>3. Stands(Forms(WithSize, p) \o WithSize[u], xd, k)
  BY <1>1, <1>2
<1>4. Stands(Forms(WithSize, p), xd, k) /\ Stands(WithSize[u], xd, k + Len(Forms(WithSize, p)))
  BY <1>2, <1>3, StandsInParts
<1> QED BY <1>4 DEF p, u

Behind(x, k) == k + 1 + Len(x)

(* Parameter sets with their lengths are read as they were written. *)
LEMMA SizedRead ==
    ASSUME NEW units \in Seq(Units), NEW xd, NEW k, Stands(Forms(WithSize, units), xd, k)
    PROVE  Sized(xd, k + 1, Len(units)) =
              [at |-> Behind(Forms(WithSize, units), k), out |-> Forms(WithCode, units)]
<1> DEFINE n == Len(units)
           at == k + 1
           Size(i) == Forms(WithSize, First(units, i))
           Code(i) == Forms(WithCode, First(units, i))
           Result(i) == [at |-> Behind(Size(i), k), out |-> Code(i)]
           T == {i \in 0..n : Stands(Size(i), xd, k) => Sized(xd, at, i) = Result(i)}
<1>1. n \in Nat /\ xd \in Seq(Byte) /\ k \in Nat /\ at \in Nat
  BY LenProperties DEF Stands
<1>2. First(units, 0) = <<>> /\ First(units, n) = units
  BY OneMore
<1>3. 0 \in T
  <2>1. Size(0) = <<>> /\ Code(0) = <<>>
    BY <1>2, FormsEmpty
  <2>2. Len(<<>>) = 0
    OBVIOUS
  <2>3. Behind(Size(0), k) = at
    BY <1>1, <2>1, <2>2 DEF Behind
  <2> HIDE DEF at, Size, Code
  <2>4. Sized(xd, at, 0) = [at |-> at, out |-> <<>>]
    BY <1>1, SizedRecursion
  <2>5. Sized(xd, at, 0) = Result(0)
    BY <2>1, <2>3, <2>4
  <2> QED BY <1>1, <2>5
<1>4. ASSUME NEW i \in 0..(n - 1), i \in T PROVE i + 1 \in T
  <2> SUFFICES ASSUME Stands(Size(i + 1), xd, k) PROVE Sized(xd, at, i + 1) = Result(i + 1)
    BY <1>1
  <2> DEFINE p == First(units, i)
             u == units[i + 1]
             before == Size(i)
  <2>1. p \in Seq(Units) /\ u \in Units /\ First(units, i + 1) = Append(p, u) /\ i \in Nat
    BY <1>1, OneMore
  <2>2. Stands(before, xd, k) /\ Stands(WithSize[u], xd, k + Len(before))
    BY SizedPart
  <2>3. Sized(xd, at, i) = Result(i)
    BY <1>4, <2>2
  <2>4. before \in Seq(Byte) /\ Code(i) \in Seq(Byte)
    BY <2>1, WithTyped, FormsBySteps
  <2>5. Size(i + 1) = before \o WithSize[u] /\ Code(i + 1) = Code(i) \o WithCode[u]
    BY <2>1, WithTyped, FormsBySteps
  <2>6. WithSize[u] \in Seq(Byte)
    BY <2>1, WithTyped
  <2> DEFINE l == Len(before)
             s == Result(i)
             m == Len(WithSize[u])
  <2>7. l \in Nat /\ m \in Nat
    BY <2>4, <2>6, LenProperties
  <2>8. s \in Blob /\ s.at = (k + l) + 1 /\ s.out = Code(i)
    <3>1. Behind(before, k) = (k + l) + 1 /\ Behind(before, k) \in Nat
      BY <1>1, <2>7 DEF Behind
    <3> DEFINE b == Behind(before, k)
               c == Code(i)
    <3>2. s = [at |-> b, out |-> c]
      OBVIOUS
    <3> HIDE DEF before, l, b, c, s
    <3>3. b \in Nat /\ b = (k + l) + 1 /\ c \in Seq(Byte)
      BY <2>4, <3>1 DEF b, c
    <3>4. s \in Blob /\ s.at = b /\ s.out = c
      BY <3>2, <3>3 DEF Blob
    <3> QED BY <3>3, <3>4 DEF c
  <2>9. SizedUnit(xd, s) = [at |-> (k + l) + 1 + m, out |-> s.out \o WithCode[u]]
    <3> HIDE DEF s, u, before
    <3> QED BY <2>1, <2>2, <2>8, SizedUnitRead
  <2>10. Sized(xd, at, i + 1) = SizedUnit(xd, Sized(xd, at, i))
    BY <1>1, <2>1, SizedRecursion
  <2>11. Behind(Size(i + 1), k) = (k + l) + 1 + m
    <3>1. Len(Size(i + 1)) = l + m
      BY <2>4, <2>5, <2>6, Joined
    <3> HIDE DEF l, m, Size
    <3> QED BY <1>1, <2>7, <3>1 DEF Behind
  <2>12. Sized(xd, at, i + 1) = SizedUnit(xd, s)
    BY <2>3, <2>10
  <2> HIDE DEF Size, Code, at, l, m, s, u
  <2> QED BY <2>5, <2>8, <2>9, <2>11, <2>12
<1>5. n \in T
  <2> HIDE DEF T
  <2>1. \A i \in 0..n : i \in T
    BY <1>1, <1>3, <1>4, Induction
  <2> QED BY <1>1, <2>1
<1> QED BY <1>1, <1>2, <1>5

-----------------------------------------------------------------------------
(* Extradata that is cut short *)

(* Of d, which D begins with, as much is read as of D, or reading has failed. *)
Agrees(d, s, t) == s = Beyond \/ (s = t /\ s.at <= Len(d) + 1)

LEMMA SameCut ==
    ASSUME NEW d, NEW D, Begins(d, D), NEW m \in Int, NEW n \in Int, m >= 1, n <= Len(d)
    PROVE  SubSeq(d, m, n) = SubSeq(D, m, n)
<1> DEFINE l == IF m <= n THEN n - m + 1 ELSE 0
           a == SubSeq(d, m, n)
           b == SubSeq(D, m, n)
<1>1. /\ d \in Seq(Byte) /\ D \in Seq(Byte) /\ Len(d) \in Nat /\ Len(D) \in Nat
      /\ Len(d) <= Len(D) /\ \A i \in 1..Len(d) : D[i] = d[i]
  BY LenProperties DEF Begins
<1>2. \A i \in m..n : i \in 1..Len(d) /\ i \in 1..Len(D)
  BY <1>1
<1>3. \A i \in m..n : d[i] \in Byte /\ D[i] \in Byte /\ D[i] = d[i]
  BY <1>1, <1>2, ElementOfSeq
<1>4. a \in Seq(Byte) /\ Len(a) = l /\ \A i \in 1..(n - m + 1) : a[i] = d[m + i - 1]
  BY <1>3, SubSeqProperties
<1>5. b \in Seq(Byte) /\ Len(b) = l /\ \A i \in 1..(n - m + 1) : b[i] = D[m + i - 1]
  BY <1>3, SubSeqProperties
<1> HIDE DEF a, b
<1>6. \A i \in 1..l : i \in 1..(n - m + 1) /\ m + i - 1 \in m..n
  OBVIOUS
<1> HIDE DEF l
<1>7. Len(a) = Len(b) /\ \A i \in 1..Len(a) : a[i] = b[i]
  BY <1>3, <1>4, <1>5, <1>6
<1>8. a = b
  BY <1>4, <1>5, <1>7, SeqEqual
<1> QED BY <1>8 DEF a, b

LEMMA SizedUnitCut ==
    ASSUME NEW d, NEW D, Begins(d, D), NEW s \in Blob, NEW t \in Blob, Agrees(d, s, t)
    PROVE  Agrees(d, SizedUnit(d, s), SizedUnit(D, t))
<1> DEFINE at == s.at
           len == Number16(d, at)
<1>1. /\ d \in Seq(Byte) /\ D \in Seq(Byte) /\ Len(d) \in Nat /\ Len(D) \in Nat
      /\ Len(d) <= Len(D) /\ \A i \in 1..Len(d) : D[i] = d[i]
  BY LenProperties DEF Begins
<1>2. CASE at = 0 \/ at + 1 > Len(d) \/ at + 1 + len > Len(d)
  <2>1. SizedUnit(d, s) = Beyond
    BY <1>2 DEF SizedUnit
  <2> QED BY <2>1 DEF Agrees
<1>3. CASE ~(at = 0 \/ at + 1 > Len(d) \/ at + 1 + len > Len(d))
  <2>1. s = t
    <3>1. Beyond.at = 0
      BY DEF Beyond
    <3> QED BY <1>3, <3>1 DEF Agrees
  <2>2. at \in Nat /\ at >= 1 /\ at + 1 <= Len(d)
    <3>1. at \in Nat
      BY DEF Blob
    <3> QED BY <1>1, <1>3, <3>1
  <2>3. Number16(D, at) = len
    <3>1. at \in 1..Len(d) /\ at + 1 \in 1..Len(d)
      BY <1>1, <2>2
    <3>2. D[at] = d[at] /\ D[at + 1] = d[at + 1]
      BY <1>1, <3>1
    <3> QED BY <3>2 DEF Number16
  <2>4. len \in Nat
    BY <1>1, <2>2, Number16Typed
  <2>5. SizedUnit(d, s) =
           [at |-> at + 2 + len, out |-> s.out \o StartCode \o SubSeq(d, at + 2, at + 1 + len)]
    BY <1>3 DEF SizedUnit
  <2>6. SizedUnit(D, t) =
           IF at = 0 \/ at + 1 > Len(D) \/ at + 1 + len > Len(D)
           THEN Beyond
           ELSE [at |-> at + 2 + len,
                 out |-> s.out \o StartCode \o SubSeq(D, at + 2, at + 1 + len)]
    BY <2>1, <2>3 DEF SizedUnit
  <2> HIDE DEF len
  <2>7. /\ ~(at = 0 \/ at + 1 > Len(D) \/ at + 1 + len > Len(D))
        /\ at + 2 \in Int /\ at + 1 + len \in Int /\ at + 2 >= 1 /\ at + 1 + len <= Len(d)
        /\ at + 2 + len <= Len(d) + 1
    BY <1>1, <1>3, <2>2, <2>4
  <2>8. SubSeq(d, at + 2, at + 1 + len) = SubSeq(D, at + 2, at + 1 + len)
    BY <2>7, SameCut
  <2> HIDE DEF at
  <2>9. SizedUnit(d, s) = SizedUnit(D, t) /\ SizedUnit(d, s).at <= Len(d) + 1
    <3> DEFINE next == at + 2 + len
               out == s.out \o StartCode \o SubSeq(d, at + 2, at + 1 + len)
               blob == [at |-> next, out |-> out]
    <3>1. SizedUnit(d, s) = blob
      BY <2>5
    <3>2. SizedUnit(D, t) = blob
      BY <2>6, <2>7, <2>8
    <3>3. next <= Len(d) + 1
      BY <2>7
    <3> HIDE DEF next, out
    <3>4. blob.at = next
      OBVIOUS
    <3> QED BY <3>1, <3>2, <3>3, <3>4
  <2> QED BY <2>9 DEF Agrees
<1> QED BY <1>2, <1>3

LEMMA SizedCut ==
    ASSUME NEW d, NEW D, Begins(d, D), NEW at \in Nat, at <= Len(d) + 1, NEW n \in Nat
    PROVE  Agrees(d, Sized(d, at, n), Sized(D, at, n))
<1> DEFINE T == {i \in 0..n : Agrees(d, Sized(d, at, i), Sized(D, at, i))}
<1>1. d \in Seq(Byte) /\ D \in Seq(Byte)
  BY DEF Begins
<1>2. 0 \in T
  <2>1. Sized(d, at, 0) = [at |-> at, out |-> <<>>] /\ Sized(D, at, 0) = [at |-> at, out |-> <<>>]
    BY <1>1, SizedRecursion
  <2>2. Agrees(d, Sized(d, at, 0), Sized(D, at, 0))
    BY <2>1 DEF Agrees
  <2> QED BY <2>2
<1>3. ASSUME NEW i \in 0..(n - 1), i \in T PROVE i + 1 \in T
  <2>1. i \in Nat /\ i + 1 \in 0..n
    OBVIOUS
  <2>2. Sized(d, at, i) \in Blob /\ Sized(D, at, i) \in Blob
    BY <1>1, <2>1, SizedTyped
  <2>3. Agrees(d, SizedUnit(d, Sized(d, at, i)), SizedUnit(D, Sized(D, at, i)))
    BY <1>3, <2>2, SizedUnitCut
  <2>4. /\ Sized(d, at, i + 1) = SizedUnit(d, Sized(d, at, i))
        /\ Sized(D, at, i + 1) = SizedUnit(D, Sized(D, at, i))
    BY <1>1, <2>1, SizedRecursion
  <2> QED BY <2>1, <2>3, <2>4
<1>4. n \in T
  <2> HIDE DEF T
  <2>1. \A i \in 0..n : i \in T
    BY <1>2, <1>3, Induction
  <2> QED BY <2>1
<1> QED BY <1>4

(* The loop over the arrays, one turn at a time. *)
LEMMA ArraysRecursion ==
    ASSUME NEW xd \in Seq(Byte)
    PROVE  /\ UnitArrays(xd, 0) = [at |-> 24, out |-> <<>>]
           /\ \A n \in Nat : UnitArrays(xd, n + 1) = UnitArray(xd, UnitArrays(xd, n))
<1> DEFINE s0 == [at |-> 24, out |-> <<>>]
<1>1. UnitArrays(xd, 0) = s0
  <2>1. 0 \in Nat
    OBVIOUS
  <2>2. PICK e : IsLoop(e, 0, Blob, s0, ArrayStep(xd, 0)) /\ UnitArrays(xd, 0) = e[0]
    BY <2>1, ArraysLoop
  <2> QED BY <2>2 DEF IsLoop
<1>2. ASSUME NEW n \in Nat PROVE UnitArrays(xd, n + 1) = UnitArray(xd, UnitArrays(xd, n))
  <2> DEFINE m == n + 1
  <2>1. m \in Nat /\ n <= m /\ m \in 1..m /\ m - 1 = n /\ n \in 0..m /\ 1..n \subseteq 1..m
    OBVIOUS
  <2>2. PICK f : IsLoop(f, n, Blob, s0, ArrayStep(xd, n)) /\ UnitArrays(xd, n) = f[n]
    BY ArraysLoop
  <2> HIDE DEF m, s0
  <2>3. PICK g : IsLoop(g, m, Blob, s0, ArrayStep(xd, m)) /\ UnitArrays(xd, m) = g[m]
    BY <2>1, ArraysLoop DEF s0
  <2>4. \A i \in 1..n, t \in Blob : ArrayStep(xd, n)[<<i, t>>] = ArrayStep(xd, m)[<<i, t>>]
    BY <2>1 DEF ArrayStep
  <2>5. f[n] = g[n]
    BY <2>1, <2>2, <2>3, <2>4, LoopsAgree
  <2>6. g \in [0..m -> Blob] /\ \A i \in 1..m : g[i] = ArrayStep(xd, m)[<<i, g[i - 1]>>]
    BY <2>3 DEF IsLoop
  <2>7. g[n] \in Blob /\ g[m] = ArrayStep(xd, m)[<<m, g[n]>>]
    BY <2>1, <2>6
  <2>8. g[m] = UnitArray(xd, g[n])
    BY <2>1, <2>7 DEF ArrayStep
  <2> QED BY <2>2, <2>3, <2>5, <2>8 DEF m
<1> QED BY <1>1, <1>2

LEMMA UnitArrayCut ==
    ASSUME NEW d, NEW D, Begins(d, D), NEW s \in Blob, NEW t \in Blob, Agrees(d, s, t)
    PROVE  Agrees(d, UnitArray(d, s), UnitArray(D, t))
<1> DEFINE at == s.at
           n == Number16(d, at + 1)
           units == Sized(d, at + 3, n)
<1>1. /\ d \in Seq(Byte) /\ D \in Seq(Byte) /\ Len(d) \in Nat /\ Len(D) \in Nat
      /\ Len(d) <= Len(D) /\ \A i \in 1..Len(d) : D[i] = d[i]
  BY LenProperties DEF Begins
<1>2. CASE at = 0 \/ at + 2 > Len(d) \/ n \notin 1..64 \/ units.at = 0
  <2>1. UnitArray(d, s) = Beyond
    BY <1>2 DEF UnitArray
  <2> QED BY <2>1 DEF Agrees
<1>3. CASE ~(at = 0 \/ at + 2 > Len(d) \/ n \notin 1..64 \/ units.at = 0)
  <2>1. s = t
    <3>1. Beyond.at = 0
      BY DEF Beyond
    <3> QED BY <1>3, <3>1 DEF Agrees
  <2>2. /\ at + 1 \in 1..Len(d) /\ (at + 1) + 1 \in 1..Len(d)
        /\ at + 3 \in Nat /\ at + 3 <= Len(d) + 1 /\ ~(at = 0 \/ at + 2 > Len(D))
    <3>1. at \in Nat
      BY DEF Blob
    <3> HIDE DEF n, units
    <3> QED BY <1>1, <1>3, <3>1
  <2>3. Number16(D, at + 1) = n
    <3>1. D[at + 1] = d[at + 1] /\ D[(at + 1) + 1] = d[(at + 1) + 1]
      BY <1>1, <2>2
    <3> QED BY <3>1 DEF Number16
  <2>4. n \in 1..64
    BY <1>3
  <2>5. n \in Nat
    <3> HIDE DEF n
    <3> QED BY <2>4
  <2>6. Agrees(d, units, Sized(D, at + 3, n))
    <3> HIDE DEF n, at
    <3> QED BY <2>2, <2>5, SizedCut
  <2>7. units # Beyond
    BY <1>3 DEF Beyond
  <2>8. Sized(D, at + 3, n) = units /\ units.at <= Len(d) + 1
    BY <2>6, <2>7 DEF Agrees
  <2>9. UnitArray(d, s) = [at |-> units.at, out |-> s.out \o units.out]
    BY <1>3 DEF UnitArray
  <2>10. UnitArray(D, t) =
            IF at = 0 \/ at + 2 > Len(D) \/ n \notin 1..64 \/ units.at = 0
            THEN Beyond
            ELSE [at |-> units.at, out |-> s.out \o units.out]
    BY <2>1, <2>3, <2>8 DEF UnitArray
  <2>11. UnitArray(D, t) = [at |-> units.at, out |-> s.out \o units.out]
    BY <1>3, <2>2, <2>10
  <2>12. UnitArray(d, s) = UnitArray(D, t) /\ UnitArray(d, s).at <= Len(d) + 1
    <3> HIDE DEF units, n, at
    <3> QED BY <2>8, <2>9, <2>11
  <2> QED BY <2>12 DEF Agrees
<1> QED BY <1>2, <1>3

LEMMA UnitArraysCut ==
    ASSUME NEW d, NEW D, Begins(d, D), 23 <= Len(d), NEW n \in Nat
    PROVE  Agrees(d, UnitArrays(d, n), UnitArrays(D, n))
<1> DEFINE T == {i \in 0..n : Agrees(d, UnitArrays(d, i), UnitArrays(D, i))}
<1>1. d \in Seq(Byte) /\ D \in Seq(Byte) /\ 24 <= Len(d) + 1
  <2>1. d \in Seq(Byte) /\ D \in Seq(Byte)
    BY DEF Begins
  <2> QED BY <2>1, LenProperties
<1>2. 0 \in T
  <2>1. UnitArrays(d, 0) = [at |-> 24, out |-> <<>>] /\ UnitArrays(D, 0) = [at |-> 24, out |-> <<>>]
    BY <1>1, ArraysRecursion
  <2>2. Agrees(d, UnitArrays(d, 0), UnitArrays(D, 0))
    BY <1>1, <2>1 DEF Agrees
  <2> QED BY <2>2
<1>3. ASSUME NEW i \in 0..(n - 1), i \in T PROVE i + 1 \in T
  <2>1. i \in Nat /\ i + 1 \in 0..n
    OBVIOUS
  <2>2. UnitArrays(d, i) \in Blob /\ UnitArrays(D, i) \in Blob
    BY <1>1, <2>1, UnitArraysTyped
  <2>3. Agrees(d, UnitArray(d, UnitArrays(d, i)), UnitArray(D, UnitArrays(D, i)))
    BY <1>3, <2>2, UnitArrayCut
  <2>4. /\ UnitArrays(d, i + 1) = UnitArray(d, UnitArrays(d, i))
        /\ UnitArrays(D, i + 1) = UnitArray(D, UnitArrays(D, i))
    BY <1>1, <2>1, ArraysRecursion
  <2> QED BY <2>1, <2>3, <2>4
<1>4. n \in T
  <2> HIDE DEF T
  <2>1. \A i \in 0..n : i \in T
    BY <1>2, <1>3, Induction
  <2> QED BY <2>1
<1> QED BY <1>4

-----------------------------------------------------------------------------
(* Extradata of each form, and what is made of it *)

(* An array of hvcC: a type, and some parameter sets of it. *)
Arrays == [type : Byte, units : {x \in Seq(Units) : Len(x) \in 1..64}]

ArrayUnits == [a \in Arrays |-> a.units]
ArrayCode == [a \in Arrays |-> Forms(WithCode, a.units)]
ArraySize == [a \in Arrays |-> <<a.type, 0, Len(a.units)>> \o Forms(WithSize, a.units)]

LEMMA ArrayTyped ==
    ASSUME NEW a \in Arrays
    PROVE  /\ a.units \in Seq(Units) /\ Len(a.units) \in 1..64
           /\ Forms(WithSize, a.units) \in Seq(Byte) /\ Forms(WithCode, a.units) \in Seq(Byte)
           /\ LET head == <<a.type, 0, Len(a.units)>>
              IN  head \in Seq(Byte) /\ Len(head) = 3 /\ head[2] = 0 /\ head[3] = Len(a.units)
<1>1. a.units \in Seq(Units) /\ Len(a.units) \in 1..64 /\ a.type \in Byte
  BY DEF Arrays
<1>2. Forms(WithSize, a.units) \in Seq(Byte) /\ Forms(WithCode, a.units) \in Seq(Byte)
  BY <1>1, WithTyped, FormsBySteps
<1> DEFINE n == Len(a.units)
           type == a.type
<1> HIDE DEF n, type
<1>3. n \in Byte /\ 0 \in Byte /\ type \in Byte
  BY <1>1 DEF Byte, n, type
<1>4. <<type, 0, n>> \in Seq(Byte) /\ Len(<<type, 0, n>>) = 3 /\ <<type, 0, n>>[2] = 0
      /\ <<type, 0, n>>[3] = n
  BY <1>3
<1> QED BY <1>1, <1>2, <1>4 DEF n, type

LEMMA ArrayFormsTyped ==
    /\ ArrayCode \in [Arrays -> Seq(Byte)] /\ ArraySize \in [Arrays -> Seq(Byte)]
    /\ ArrayUnits \in [Arrays -> Seq(Units)]
<1>1. ASSUME NEW a \in Arrays
      PROVE  <<a.type, 0, Len(a.units)>> \o Forms(WithSize, a.units) \in Seq(Byte)
  <2> DEFINE head == <<a.type, 0, Len(a.units)>>
  <2>1. head \in Seq(Byte) /\ Forms(WithSize, a.units) \in Seq(Byte)
    BY ArrayTyped
  <2> HIDE DEF head
  <2>2. head \o Forms(WithSize, a.units) \in Seq(Byte)
    BY <2>1, Joined
  <2> QED BY <2>2 DEF head
<1>2. \A a \in Arrays : Forms(WithCode, a.units) \in Seq(Byte) /\ a.units \in Seq(Units)
  BY ArrayTyped
<1> QED BY <1>1, <1>2 DEF ArrayCode, ArraySize, ArrayUnits

(* One array is read as it was written. *)
LEMMA UnitArrayRead ==
    ASSUME NEW a \in Arrays, NEW xd, NEW k, Stands(ArraySize[a], xd, k),
           NEW s \in Blob, s.at = k + 1
    PROVE  UnitArray(xd, s) = [at |-> k + 1 + Len(ArraySize[a]), out |-> s.out \o ArrayCode[a]]
<1> DEFINE head == <<a.type, 0, Len(a.units)>>
           units == a.units
           n == Len(units)
           size == Forms(WithSize, units)
           code == Forms(WithCode, units)
           m == Len(size)
<1>1. /\ units \in Seq(Units) /\ n \in 1..64 /\ size \in Seq(Byte) /\ code \in Seq(Byte)
      /\ head \in Seq(Byte) /\ Len(head) = 3 /\ head[2] = 0 /\ head[3] = n
  BY ArrayTyped
<1>2. ArraySize[a] = head \o size /\ ArrayCode[a] = code
  BY DEF ArraySize, ArrayCode
<1> HIDE DEF head, units, size, code
<1>3. Stands(head, xd, k) /\ Stands(size, xd, k + 3)
  BY <1>1, <1>2, StandsInParts
<1>4. m \in Nat /\ Len(ArraySize[a]) = 3 + m
  BY <1>1, <1>2, Joined, LenProperties
<1>5. k \in Nat /\ Len(xd) \in Nat /\ k + 3 <= Len(xd)
  <2>1. k \in Nat /\ xd \in Seq(Byte) /\ k + Len(head) <= Len(xd)
    BY <1>3 DEF Stands
  <2> QED BY <1>1, <2>1, LenProperties
<1>6. xd[k + 2] = 0 /\ xd[k + 3] = n
  <2>1. \A i \in 1..3 : xd[k + i] = head[i]
    BY <1>1, <1>3 DEF Stands
  <2> QED BY <1>1, <2>1
<1> HIDE DEF n, m
<1>7. Number16(xd, (k + 1) + 1) = n
  <2>1. (k + 1) + 1 = k + 2 /\ (k + 2) + 1 = k + 3 /\ 256 * 0 + n = n
    BY <1>1, <1>5
  <2> QED BY <1>6, <2>1 DEF Number16
<1>8. Sized(xd, (k + 3) + 1, n) = [at |-> (k + 3) + 1 + m, out |-> code]
  <2>1. Sized(xd, (k + 3) + 1, Len(units)) = [at |-> Behind(size, k + 3), out |-> code]
    BY <1>1, <1>3, SizedRead DEF size, code
  <2> QED BY <2>1 DEF Behind, n, m
<1>9. (k + 1) + 3 = (k + 3) + 1 /\ (k + 3) + 1 + m = k + 1 + (3 + m) /\ k + 1 + (3 + m) # 0
      /\ ~(k + 1 = 0 \/ (k + 1) + 2 > Len(xd))
  BY <1>4, <1>5
<1> DEFINE found == Sized(xd, (k + 3) + 1, n)
           end == k + 1 + (3 + m)
<1>10. found.at = end /\ found.out = code
  BY <1>8, <1>9
<1>11. UnitArray(xd, s) =
          IF k + 1 = 0 \/ (k + 1) + 2 > Len(xd) \/ n \notin 1..64 \/ found.at = 0
          THEN Beyond
          ELSE [at |-> found.at, out |-> s.out \o found.out]
  BY <1>7, <1>9 DEF UnitArray
<1> HIDE DEF found, end
<1>12. end # 0
  BY <1>9 DEF end
<1>13. UnitArray(xd, s) = [at |-> end, out |-> s.out \o code]
  BY <1>1, <1>9, <1>10, <1>11, <1>12
<1> QED BY <1>2, <1>4, <1>13 DEF end

LEMMA ArrayPart ==
    ASSUME NEW arrays \in Seq(Arrays), NEW i \in 0..(Len(arrays) - 1), NEW xd, NEW k,
           Stands(Forms(ArraySize, First(arrays, i + 1)), xd, k)
    PROVE  /\ Stands(Forms(ArraySize, First(arrays, i)), xd, k)
           /\ Stands(ArraySize[arrays[i + 1]], xd, k + Len(Forms(ArraySize, First(arrays, i))))
<1> DEFINE p == First(arrays, i)
           u == arrays[i + 1]
<1>1. p \in Seq(Arrays) /\ u \in Arrays /\ First(arrays, i + 1) = Append(p, u)
  BY OneMore
<1> HIDE DEF p, u
<1>2. /\ Forms(ArraySize, p) \in Seq(Byte) /\ ArraySize[u] \in Seq(Byte)
      /\ Forms(ArraySize, Append(p, u)) = Forms(ArraySize, p) \o ArraySize[u]
  BY <1>1, ArrayFormsTyped, FormsBySteps
<1>3. Stands(Forms(ArraySize, p) \o ArraySize[u], xd, k)
  BY <1>1, <1>2
<1>4. Stands(Forms(ArraySize, p), xd, k) /\ Stands(ArraySize[u], xd, k + Len(Forms(ArraySize, p)))
  BY <1>2, <1>3, StandsInParts
<1> QED BY <1>4 DEF p, u

(* All arrays, which stand behind the 23 bytes of the head. *)
LEMMA ArraysRead ==
    ASSUME NEW arrays \in Seq(Arrays), NEW xd, Stands(Forms(ArraySize, arrays), xd, 23)
    PROVE  UnitArrays(xd, Len(arrays)) =
              [at |-> Behind(Forms(ArraySize, arrays), 23), out |-> Forms(ArrayCode, arrays)]
<1> DEFINE n == Len(arrays)
           k == 23
           Size(i) == Forms(ArraySize, First(arrays, i))
           Code(i) == Forms(ArrayCode, First(arrays, i))
           Result(i) == [at |-> Behind(Size(i), k), out |-> Code(i)]
           T == {i \in 0..n : Stands(Size(i), xd, k) => UnitArrays(xd, i) = Result(i)}
<1>1. n \in Nat /\ xd \in Seq(Byte) /\ k \in Nat
  BY LenProperties DEF Stands
<1>2. First(arrays, 0) = <<>> /\ First(arrays, n) = arrays
  BY OneMore
<1>3. 0 \in T
  <2>1. Size(0) = <<>> /\ Code(0) = <<>>
    BY <1>2, FormsEmpty
  <2>2. Len(<<>>) = 0
    OBVIOUS
  <2>3. Behind(Size(0), k) = 24
    BY <1>1, <2>1, <2>2 DEF Behind
  <2> HIDE DEF Size, Code
  <2>4. UnitArrays(xd, 0) = [at |-> 24, out |-> <<>>]
    BY <1>1, ArraysRecursion
  <2>5. UnitArrays(xd, 0) = Result(0)
    BY <2>1, <2>3, <2>4
  <2> QED BY <1>1, <2>5
<1>4. ASSUME NEW i \in 0..(n - 1), i \in T PROVE i + 1 \in T
  <2> SUFFICES ASSUME Stands(Size(i + 1), xd, k) PROVE UnitArrays(xd, i + 1) = Result(i + 1)
    BY <1>1
  <2> DEFINE p == First(arrays, i)
             u == arrays[i + 1]
             before == Size(i)
  <2>1. p \in Seq(Arrays) /\ u \in Arrays /\ First(arrays, i + 1) = Append(p, u) /\ i \in Nat
    BY <1>1, OneMore
  <2>2. Stands(before, xd, k) /\ Stands(ArraySize[u], xd, k + Len(before))
    <3> HIDE DEF k
    <3> QED BY ArrayPart
  <2>3. UnitArrays(xd, i) = Result(i)
    BY <1>4, <2>2
  <2>4. before \in Seq(Byte) /\ Code(i) \in Seq(Byte)
    BY <2>1, ArrayFormsTyped, FormsBySteps
  <2>5. Size(i + 1) = before \o ArraySize[u] /\ Code(i + 1) = Code(i) \o ArrayCode[u]
    <3> HIDE DEF p, u
    <3>1. Forms(ArraySize, Append(p, u)) = Forms(ArraySize, p) \o ArraySize[u]
      BY <2>1, ArrayFormsTyped, FormsBySteps, Zenon
    <3>2. Forms(ArrayCode, Append(p, u)) = Forms(ArrayCode, p) \o ArrayCode[u]
      BY <2>1, ArrayFormsTyped, FormsBySteps
    <3> QED BY <2>1, <3>1, <3>2 DEF p
  <2>6. ArraySize[u] \in Seq(Byte)
    BY <2>1, ArrayFormsTyped
  <2> DEFINE l == Len(before)
             s == Result(i)
             m == Len(ArraySize[u])
  <2> HIDE DEF k
  <2>7. l \in Nat /\ m \in Nat
    BY <2>4, <2>6, LenProperties
  <2>8. s \in Blob /\ s.at = (k + l) + 1 /\ s.out = Code(i)
    <3>1. Behind(before, k) = (k + l) + 1 /\ Behind(before, k) \in Nat
      BY <1>1, <2>7 DEF Behind
    <3> DEFINE b == Behind(before, k)
               c == Code(i)
    <3>2. s = [at |-> b, out |-> c]
      OBVIOUS
    <3> HIDE DEF before, l, b, c, s
    <3>3. b \in Nat /\ b = (k + l) + 1 /\ c \in Seq(Byte)
      BY <2>4, <3>1 DEF b, c
    <3>4. s \in Blob /\ s.at = b /\ s.out = c
      BY <3>2, <3>3 DEF Blob
    <3> QED BY <3>3, <3>4 DEF c
  <2>9. UnitArray(xd, s) = [at |-> (k + l) + 1 + m, out |-> s.out \o ArrayCode[u]]
    <3> HIDE DEF s, u, before
    <3> QED BY <2>1, <2>2, <2>8, UnitArrayRead
  <2>10. UnitArrays(xd, i + 1) = UnitArray(xd, UnitArrays(xd, i))
    BY <1>1, <2>1, ArraysRecursion
  <2>11. Behind(Size(i + 1), k) = (k + l) + 1 + m
    <3>1. Len(Size(i + 1)) = l + m
      BY <2>4, <2>5, <2>6, Joined
    <3> HIDE DEF l, m, Size
    <3> QED BY <1>1, <2>7, <3>1 DEF Behind
  <2>12. UnitArrays(xd, i + 1) = UnitArray(xd, s)
    BY <2>3, <2>10
  <2> HIDE DEF Size, Code, l, m, s, u
  <2> QED BY <2>5, <2>8, <2>9, <2>11, <2>12
<1>5. n \in T
  <2> HIDE DEF T
  <2>1. \A i \in 0..n : i \in T
    BY <1>1, <1>3, <1>4, Induction
  <2> QED BY <1>1, <2>1
<1> QED BY <1>1, <1>2, <1>5

(* The parameter sets of all arrays, in Annex-B form, are those of each in turn. *)
LEMMA CodeOfArrays ==
    ASSUME NEW arrays \in Seq(Arrays)
    PROVE  /\ Forms(ArrayUnits, arrays) \in Seq(Units)
           /\ Forms(WithCode, Forms(ArrayUnits, arrays)) = Forms(ArrayCode, arrays)
<1> DEFINE n == Len(arrays)
           Sets(i) == Forms(ArrayUnits, First(arrays, i))
           Code(i) == Forms(ArrayCode, First(arrays, i))
           T == {i \in 0..n : Forms(WithCode, Sets(i)) = Code(i)}
<1>1. n \in Nat /\ First(arrays, 0) = <<>> /\ First(arrays, n) = arrays
  BY OneMore
<1>2. 0 \in T
  <2>1. Sets(0) = <<>> /\ Code(0) = <<>> /\ Forms(WithCode, <<>>) = <<>>
    BY <1>1, FormsEmpty
  <2>2. Forms(WithCode, Sets(0)) = Code(0)
    BY <2>1
  <2> QED BY <1>1, <2>2
<1>3. ASSUME NEW i \in 0..(n - 1), i \in T PROVE i + 1 \in T
  <2> DEFINE p == First(arrays, i)
             a == arrays[i + 1]
  <2>1. p \in Seq(Arrays) /\ a \in Arrays /\ First(arrays, i + 1) = Append(p, a) /\ i + 1 \in 0..n
    BY <1>1, OneMore
  <2>2. Forms(WithCode, Forms(ArrayUnits, p)) = Forms(ArrayCode, p)
    BY <1>3
  <2> HIDE DEF p, a
  <2>3. /\ Forms(ArrayUnits, p) \in Seq(Units)
        /\ Forms(ArrayUnits, Append(p, a)) = Forms(ArrayUnits, p) \o ArrayUnits[a]
    <3>1. ArrayUnits \in [Arrays -> Seq(Units)]
      BY ArrayFormsTyped
    <3>2. InSteps(Arrays, Units, ArrayUnits, p)
      BY <2>1, <3>1, AnyForms
    <3> QED BY <2>1, <3>2 DEF InSteps
  <2>4. Forms(ArrayCode, Append(p, a)) = Forms(ArrayCode, p) \o ArrayCode[a]
    BY <2>1, ArrayFormsTyped, FormsBySteps
  <2>5. ArrayUnits[a] \in Seq(Units) /\ ArrayCode[a] = Forms(WithCode, ArrayUnits[a])
    BY <2>1, ArrayTyped DEF ArrayUnits, ArrayCode
  <2>6. Forms(WithCode, Forms(ArrayUnits, p) \o ArrayUnits[a])
           = Forms(WithCode, Forms(ArrayUnits, p)) \o Forms(WithCode, ArrayUnits[a])
    BY <2>3, <2>5, WithTyped, FormsJoined
  <2>7. Forms(WithCode, Sets(i + 1)) = Code(i + 1)
    BY <2>1, <2>2, <2>3, <2>4, <2>5, <2>6
  <2> QED BY <2>1, <2>7
<1>4. n \in T
  <2> HIDE DEF T
  <2>1. \A i \in 0..n : i \in T
    BY <1>1, <1>2, <1>3, Induction
  <2> QED BY <1>1, <2>1
<1>5. Forms(ArrayUnits, arrays) \in Seq(Units)
  <2>1. InSteps(Arrays, Units, ArrayUnits, arrays)
    BY ArrayFormsTyped, AnyForms
  <2> QED BY <2>1 DEF InSteps
<1> QED BY <1>1, <1>4, <1>5

(* In Annex-B form, whatever parameter sets there are begin with a start code. *)
LEMMA CodeFirst ==
    ASSUME NEW sets \in Seq(Units), sets # <<>>
    PROVE  Stands(StartCode, Forms(WithCode, sets), 0)
<1> DEFINE n == Len(sets)
           T == {i \in 0..n : i = 0 \/ Stands(StartCode, Forms(WithCode, First(sets, i)), 0)}
<1>1. n \in Nat /\ First(sets, 0) = <<>> /\ First(sets, n) = sets
  BY OneMore
<1>2. n # 0
  BY EmptySeq
<1>3. 0 \in T
  BY <1>1
<1>4. ASSUME NEW i \in 0..(n - 1), i \in T PROVE i + 1 \in T
  <2> DEFINE p == First(sets, i)
             u == sets[i + 1]
  <2>1. p \in Seq(Units) /\ u \in Units /\ First(sets, i + 1) = Append(p, u) /\ i + 1 \in 0..n
    BY <1>1, OneMore
  <2>2. i = 0 \/ Stands(StartCode, Forms(WithCode, p), 0)
    BY <1>4
  <2>3. i = 0 => p = <<>>
    BY <1>1
  <2> HIDE DEF p, u
  <2>4. /\ Forms(WithCode, p) \in Seq(Byte) /\ WithCode[u] \in Seq(Byte)
        /\ Forms(WithCode, Append(p, u)) = Forms(WithCode, p) \o WithCode[u]
    BY <2>1, WithTyped, FormsBySteps
  <2>5. CASE i = 0
    <3>1. Forms(WithCode, p) = <<>>
      BY <2>3, <2>5, FormsEmpty
    <3>2. <<>> \o WithCode[u] = WithCode[u]
      BY <2>4, ConcatEmptySeq
    <3>3. WithCode[u] = StartCode \o u /\ u \in Seq(Byte)
      BY <2>1 DEF WithCode, Units
    <3>4. Stands(StartCode, StartCode \o u, 0)
      BY <3>3, StartCodeTyped, StandsLast
    <3>5. Stands(StartCode, Forms(WithCode, Append(p, u)), 0)
      BY <2>4, <3>1, <3>2, <3>3, <3>4
    <3> QED BY <2>1, <3>5
  <2>6. CASE i # 0
    <3>1. Stands(StartCode, Forms(WithCode, p) \o WithCode[u], 0)
      BY <2>2, <2>4, <2>6, StandsKept
    <3> QED BY <2>1, <2>4, <3>1
  <2> QED BY <2>5, <2>6
<1>5. n \in T
  <2> HIDE DEF T
  <2>1. \A i \in 0..n : i \in T
    BY <1>1, <1>3, <1>4, Induction
  <2> QED BY <1>1, <2>1
<1> QED BY <1>1, <1>2, <1>5

LEMMA CodeNotEmpty ==
    ASSUME NEW sets \in Seq(Units), sets # <<>>
    PROVE  Forms(WithCode, sets) # <<>>
<1>1. Stands(StartCode, Forms(WithCode, sets), 0)
  BY CodeFirst
<1>2. Len(StartCode) = 4
  BY DEF StartCode
<1>3. 0 + 4 <= Len(Forms(WithCode, sets))
  BY <1>1, <1>2 DEF Stands
<1>4. Len(<<>>) = 0
  OBVIOUS
<1> QED BY <1>3, <1>4

(* avcC: a head that counts the SPS, the SPS, the number of PPS, the PPS. *)
Avcc(head, sps, pps) ==
    head \o Forms(WithSize, sps) \o <<Len(pps)>> \o Forms(WithSize, pps)

IsAvccHead(head, sps) ==
    /\ head \in Seq(Byte) /\ Len(head) = 6 /\ head[1] = 1 /\ head[6] % 32 = Len(sps)

FoundSps(xd) == Sized(xd, 7, xd[6] % 32)
FoundPps(xd) == Sized(xd, FoundSps(xd).at + 1, xd[FoundSps(xd).at])

LEMMA AvccParts ==
    ASSUME NEW sps \in Seq(Units), NEW pps \in Seq(Units), Len(pps) <= 255,
           NEW head, IsAvccHead(head, sps), NEW xd, Stands(Avcc(head, sps, pps), xd, 0)
    PROVE  /\ Len(xd) >= 7 /\ xd[1] = 1
           /\ FoundSps(xd).at \in 1..Len(xd) /\ FoundSps(xd).out = Forms(WithCode, sps)
           /\ FoundPps(xd).at = Len(Avcc(head, sps, pps)) + 1
           /\ FoundPps(xd).out = Forms(WithCode, pps)
<1> DEFINE a == Forms(WithSize, sps)
           c == <<Len(pps)>>
           b == Forms(WithSize, pps)
           n == Len(pps)
           l == Len(a)
           m == Len(b)
           blob == Avcc(head, sps, pps)
<1>1. a \in Seq(Byte) /\ b \in Seq(Byte) /\ l \in Nat /\ m \in Nat /\ n \in 0..255
  <2>1. a \in Seq(Byte) /\ b \in Seq(Byte)
    BY WithTyped, FormsBySteps
  <2>2. l \in Nat /\ m \in Nat
    BY <2>1, LenProperties
  <2>3. Len(pps) \in Nat
    BY LenProperties
  <2> HIDE DEF a, b, l, m
  <2>4. n \in 0..255
    <3>1. \A k \in Nat : k <= 255 => k \in 0..255
      OBVIOUS
    <3>2. Len(pps) \in 0..255
      BY <2>3, <3>1, Zenon
    <3> QED BY <3>2
  <2> QED BY <2>1, <2>2, <2>4
<1>2. c \in Seq(Byte) /\ Len(c) = 1 /\ c[1] = n
  <2> HIDE DEF n
  <2>1. n \in Byte
    BY <1>1 DEF Byte
  <2>2. <<n>> \in Seq(Byte) /\ Len(<<n>>) = 1 /\ <<n>>[1] = n
    BY <2>1
  <2> QED BY <2>2 DEF n
<1>3. head \in Seq(Byte) /\ Len(head) = 6 /\ head[1] = 1 /\ head[6] % 32 = Len(sps)
  BY DEF IsAvccHead
<1>4. blob = ((head \o a) \o c) \o b
  BY DEF Avcc
<1> HIDE DEF a, b, c, blob
<1>5. /\ head \o a \in Seq(Byte) /\ Len(head \o a) = 6 + l
      /\ (head \o a) \o c \in Seq(Byte) /\ Len((head \o a) \o c) = (6 + l) + 1
      /\ Len(blob) = (6 + l) + 1 + m
  <2> HIDE DEF l, m
  <2>1. head \o a \in Seq(Byte) /\ Len(head \o a) = 6 + l
    BY <1>1, <1>3, Joined DEF l
  <2>2. (head \o a) \o c \in Seq(Byte) /\ Len((head \o a) \o c) = (6 + l) + 1
    BY <1>2, <2>1, Joined
  <2>3. Len(((head \o a) \o c) \o b) = (6 + l) + 1 + m
    BY <1>1, <2>2, Joined DEF m
  <2> QED BY <1>4, <2>1, <2>2, <2>3
<1>6. Stands((head \o a) \o c, xd, 0) /\ Stands(b, xd, 0 + ((6 + l) + 1))
  BY <1>1, <1>4, <1>5, StandsInParts DEF blob
<1>7. Stands(head \o a, xd, 0) /\ Stands(c, xd, 0 + (6 + l))
  BY <1>2, <1>5, <1>6, StandsInParts
<1>8. Stands(head, xd, 0) /\ Stands(a, xd, 0 + 6)
  BY <1>1, <1>3, <1>7, StandsInParts
<1>9. 0 + 6 = 6 /\ 0 + (6 + l) = 6 + l /\ 0 + ((6 + l) + 1) = 7 + l /\ (6 + l) + 1 = 7 + l
      /\ 6 + 1 = 7 /\ (7 + l) + 1 = 8 + l
  BY <1>1
<1>10. Len(xd) \in Nat /\ 7 + l <= Len(xd)
  <2>1. xd \in Seq(Byte) /\ 0 + ((6 + l) + 1) <= Len(xd)
    BY <1>5, <1>6 DEF Stands
  <2> QED BY <1>9, <2>1, LenProperties
<1>11. xd[1] = 1 /\ xd[6] = head[6]
  <2>1. \A i \in 1..6 : xd[0 + i] = head[i]
    BY <1>3, <1>8 DEF Stands
  <2> QED BY <1>3, <2>1
<1>12. xd[7 + l] = n
  <2>1. \A i \in 1..1 : xd[(6 + l) + i] = c[i]
    BY <1>2, <1>7, <1>9 DEF Stands
  <2>2. xd[(6 + l) + 1] = c[1]
    BY <2>1
  <2> QED BY <1>2, <1>9, <2>2
<1>13. FoundSps(xd) = [at |-> 7 + l, out |-> Forms(WithCode, sps)]
  <2>1. Sized(xd, 6 + 1, Len(sps)) = [at |-> Behind(a, 6), out |-> Forms(WithCode, sps)]
    BY <1>8, <1>9, SizedRead DEF a
  <2>2. FoundSps(xd) = Sized(xd, 7, Len(sps))
    BY <1>3, <1>11 DEF FoundSps
  <2> QED BY <1>9, <2>1, <2>2 DEF Behind
<1>14. FoundSps(xd).at = 7 + l /\ FoundSps(xd).out = Forms(WithCode, sps)
  BY <1>13
<1>15. FoundPps(xd) = [at |-> (8 + l) + m, out |-> Forms(WithCode, pps)]
  <2>1. Sized(xd, (7 + l) + 1, n) = [at |-> Behind(b, 7 + l), out |-> Forms(WithCode, pps)]
    BY <1>6, <1>9, SizedRead DEF b
  <2>2. FoundPps(xd) = Sized(xd, (7 + l) + 1, n)
    BY <1>12, <1>14 DEF FoundPps
  <2> QED BY <1>9, <2>1, <2>2 DEF Behind
<1>16. FoundPps(xd).at = (8 + l) + m /\ FoundPps(xd).out = Forms(WithCode, pps)
  BY <1>15
<1> HIDE DEF l, m
<1>17. (8 + l) + m = Len(blob) + 1 /\ 7 + l \in 1..Len(xd) /\ Len(xd) >= 7
  BY <1>1, <1>5, <1>10
<1> QED BY <1>11, <1>14, <1>16, <1>17 DEF blob

LEMMA AvccRead ==
    ASSUME NEW sps \in Seq(Units), NEW pps \in Seq(Units), Len(pps) <= 255, sps \o pps # <<>>,
           NEW head, IsAvccHead(head, sps), NEW xd, Stands(Avcc(head, sps, pps), xd, 0)
    PROVE  ParseAvcc(xd) = Forms(WithCode, sps \o pps)
<1> DEFINE sets == sps \o pps
           size == Len(Avcc(head, sps, pps))
<1>1. sets \in Seq(Units)
  BY ConcatProperties
<1>2. Forms(WithCode, sets) = Forms(WithCode, sps) \o Forms(WithCode, pps)
  BY WithTyped, FormsJoined
<1> HIDE DEF sets
<1>3. Forms(WithCode, sets) # <<>>
  BY <1>1, CodeNotEmpty DEF sets
<1>4. /\ Len(xd) >= 7 /\ xd[1] = 1
      /\ FoundSps(xd).at \in 1..Len(xd) /\ FoundSps(xd).out = Forms(WithCode, sps)
      /\ FoundPps(xd).at = size + 1 /\ FoundPps(xd).out = Forms(WithCode, pps)
  BY AvccParts
<1>5. size \in Nat /\ Len(xd) \in Nat
  BY LenProperties DEF Stands
<1> HIDE DEF size
<1>6. /\ ~(Len(xd) < 7) /\ ~(FoundSps(xd).at = 0) /\ ~(FoundSps(xd).at > Len(xd))
      /\ ~(FoundPps(xd).at = 0)
  <2> DEFINE at == FoundSps(xd).at
             end == FoundPps(xd).at
  <2>1. at \in 1..Len(xd) /\ end = size + 1
    BY <1>4
  <2> HIDE DEF at, end
  <2>2. ~(Len(xd) < 7) /\ ~(at = 0) /\ ~(at > Len(xd)) /\ ~(end = 0)
    BY <1>4, <1>5, <2>1
  <2> QED BY <2>2 DEF at, end
<1>7. ParseAvcc(xd) = FoundSps(xd).out \o FoundPps(xd).out
  <2>1. FoundSps(xd).out \o FoundPps(xd).out # <<>>
    BY <1>2, <1>3, <1>4
  <2> QED BY <1>4, <1>6, <2>1, Zenon DEF ParseAvcc, FoundSps, FoundPps
<1> QED BY <1>2, <1>4, <1>7 DEF sets

(* Of avcC that is cut short nothing is made, wherever it is cut. *)
LEMMA AvccCut ==
    ASSUME NEW sps \in Seq(Units), NEW pps \in Seq(Units), Len(pps) <= 255,
           NEW head, IsAvccHead(head, sps), NEW xd, Begins(xd, Avcc(head, sps, pps)),
           Len(xd) < Len(Avcc(head, sps, pps))
    PROVE  ParseAvcc(xd) = NotRecognised
<1> DEFINE D == Avcc(head, sps, pps)
           at == FoundSps(xd).at
           end == FoundPps(xd).at
<1>1. /\ xd \in Seq(Byte) /\ D \in Seq(Byte) /\ Len(xd) \in Nat /\ Len(D) \in Nat
      /\ \A i \in 1..Len(xd) : D[i] = xd[i]
  BY LenProperties DEF Begins
<1> HIDE DEF D
<1>2. Stands(D, D, 0)
  BY <1>1 DEF Stands
<1>3. FoundPps(D).at = Len(D) + 1
  BY <1>2, AvccParts DEF D
<1> SUFFICES ASSUME ~(Len(xd) < 7), ~(at = 0 \/ at > Len(xd)), ~(end = 0) PROVE FALSE
  BY Zenon DEF ParseAvcc, FoundSps, FoundPps
<1>4. 6 \in 1..Len(xd) /\ 7 <= Len(xd) + 1
  BY <1>1
<1>5. xd[6] = D[6] /\ xd[6] \in Byte
  BY <1>1, <1>4, ElementOfSeq
<1>6. xd[6] % 32 \in Nat
  <2>1. \A x \in Byte : x % 32 \in Nat
    BY DEF Byte
  <2> QED BY <1>5, <2>1
<1>7. Beyond.at = 0
  BY DEF Beyond
<1>8. FoundSps(xd) = FoundSps(D) /\ at \in Nat
  <2> DEFINE k == xd[6] % 32
  <2> HIDE DEF k
  <2>1. k \in Nat /\ 7 \in Nat
    BY <1>6 DEF k
  <2>2. Agrees(xd, Sized(xd, 7, k), Sized(D, 7, k))
    BY <1>4, <2>1, SizedCut DEF D
  <2>3. FoundSps(xd) = Sized(xd, 7, k) /\ FoundSps(D) = Sized(D, 7, k)
    BY <1>5 DEF FoundSps, k
  <2>4. Sized(xd, 7, k) \in Blob
    BY <1>1, <2>1, SizedTyped
  <2>5. at \in Nat
    BY <2>3, <2>4 DEF Blob
  <2> QED BY <1>7, <2>2, <2>3, <2>5 DEF Agrees
<1>9. at \in 1..Len(xd) /\ at + 1 \in Nat /\ at + 1 <= Len(xd) + 1
  <2> HIDE DEF at
  <2> QED BY <1>1, <1>8
<1>10. xd[at] = D[at] /\ xd[at] \in Nat
  <2> HIDE DEF at
  <2> QED BY <1>1, <1>9, ElementOfSeq, ByteIsNat
<1>11. FoundPps(xd) = FoundPps(D) /\ end <= Len(xd) + 1
  <2> DEFINE n == xd[at]
  <2>1. FoundPps(xd) = Sized(xd, at + 1, n) /\ FoundPps(D) = Sized(D, at + 1, n)
    BY <1>8, <1>10 DEF FoundPps
  <2>2. n \in Nat
    BY <1>10
  <2> HIDE DEF n, at
  <2>3. Agrees(xd, Sized(xd, at + 1, n), Sized(D, at + 1, n))
    BY <1>9, <2>2, SizedCut DEF D
  <2> QED BY <1>7, <2>1, <2>3 DEF Agrees
<1>12. Len(D) + 1 <= Len(xd) + 1 /\ Len(xd) < Len(D)
  BY <1>3, <1>11 DEF D
<1> QED BY <1>1, <1>12

(* hvcC: a head that counts the arrays, the arrays. *)
Hvcc(head, arrays) == head \o Forms(ArraySize, arrays)

IsHvccHead(head, arrays) ==
    head \in Seq(Byte) /\ Len(head) = 23 /\ head[1] = 1 /\ head[23] = Len(arrays)

LEMMA HvccParts ==
    ASSUME NEW arrays \in Seq(Arrays), NEW head, IsHvccHead(head, arrays),
           NEW xd, Stands(Hvcc(head, arrays), xd, 0)
    PROVE  /\ Len(xd) >= 23 /\ xd[1] = 1
           /\ UnitArrays(xd, xd[23]).at = Len(Hvcc(head, arrays)) + 1
           /\ UnitArrays(xd, xd[23]).out = Forms(ArrayCode, arrays)
<1> DEFINE a == Forms(ArraySize, arrays)
           l == Len(a)
<1>1. a \in Seq(Byte) /\ l \in Nat
  <2>1. a \in Seq(Byte)
    BY ArrayFormsTyped, FormsBySteps
  <2> QED BY <2>1, LenProperties
<1>2. head \in Seq(Byte) /\ Len(head) = 23 /\ head[1] = 1 /\ head[23] = Len(arrays)
  BY DEF IsHvccHead
<1>3. Hvcc(head, arrays) = head \o a
  BY DEF Hvcc
<1> HIDE DEF a
<1>4. Stands(head, xd, 0) /\ Stands(a, xd, 0 + 23) /\ Len(head \o a) = 23 + l
  BY <1>1, <1>2, <1>3, StandsInParts, Joined
<1>5. Len(xd) >= 23 /\ xd[1] = 1 /\ xd[23] = Len(arrays)
  <2>1. 0 + 23 <= Len(xd) /\ \A i \in 1..23 : xd[0 + i] = head[i]
    BY <1>2, <1>4 DEF Stands
  <2>2. xd[1] = head[1] /\ xd[23] = head[23] /\ 0 + 23 = 23
    BY <2>1
  <2> QED BY <1>2, <2>1, <2>2
<1>6. UnitArrays(xd, Len(arrays)) = [at |-> Behind(a, 23), out |-> Forms(ArrayCode, arrays)]
  <2>1. 0 + 23 = 23
    OBVIOUS
  <2>2. Stands(Forms(ArraySize, arrays), xd, 23)
    BY <1>4, <2>1 DEF a
  <2> QED BY <2>2, ArraysRead DEF a
<1>7. Behind(a, 23) = Len(Hvcc(head, arrays)) + 1
  <2> HIDE DEF l
  <2>1. 23 + 1 + l = (23 + l) + 1
    BY <1>1
  <2> QED BY <1>3, <1>4, <2>1 DEF Behind, l
<1> QED BY <1>5, <1>6, <1>7

LEMMA HvccRead ==
    ASSUME NEW arrays \in Seq(Arrays), NEW head, IsHvccHead(head, arrays),
           Forms(ArrayUnits, arrays) # <<>>,
           NEW xd, Stands(Hvcc(head, arrays), xd, 0)
    PROVE  ParseHvcc(xd) = Forms(WithCode, Forms(ArrayUnits, arrays))
<1> DEFINE sets == Forms(ArrayUnits, arrays)
           all == UnitArrays(xd, xd[23])
           size == Len(Hvcc(head, arrays))
<1>1. sets \in Seq(Units) /\ Forms(WithCode, sets) = Forms(ArrayCode, arrays)
  BY CodeOfArrays
<1>2. Forms(WithCode, sets) # <<>>
  BY <1>1, CodeNotEmpty
<1>3. /\ Len(xd) >= 23 /\ xd[1] = 1
      /\ all.at = size + 1 /\ all.out = Forms(ArrayCode, arrays)
  BY HvccParts
<1>4. size \in Nat /\ Len(xd) \in Nat
  BY LenProperties DEF Stands
<1> HIDE DEF size, sets
<1>5. ~(Len(xd) < 23) /\ ~(all.at = 0)
  <2> DEFINE at == all.at
  <2>1. at = size + 1
    BY <1>3
  <2> HIDE DEF at
  <2>2. ~(Len(xd) < 23) /\ ~(at = 0)
    BY <1>3, <1>4, <2>1
  <2> QED BY <2>2 DEF at
<1>6. ParseHvcc(xd) = all.out
  <2>1. all.out # <<>>
    BY <1>1, <1>2, <1>3
  <2> QED BY <1>3, <1>5, <2>1 DEF ParseHvcc
<1> QED BY <1>1, <1>3, <1>6 DEF sets

(* Of hvcC that is cut short nothing is made, wherever it is cut. *)
LEMMA HvccCut ==
    ASSUME NEW arrays \in Seq(Arrays), NEW head, IsHvccHead(head, arrays),
           NEW xd, Begins(xd, Hvcc(head, arrays)), Len(xd) < Len(Hvcc(head, arrays))
    PROVE  ParseHvcc(xd) = NotRecognised
<1> DEFINE D == Hvcc(head, arrays)
           n == xd[23]
           end == UnitArrays(xd, n).at
<1>1. /\ xd \in Seq(Byte) /\ D \in Seq(Byte) /\ Len(xd) \in Nat /\ Len(D) \in Nat
      /\ \A i \in 1..Len(xd) : D[i] = xd[i]
  BY LenProperties DEF Begins
<1> HIDE DEF D
<1>2. Stands(D, D, 0)
  BY <1>1 DEF Stands
<1>3. UnitArrays(D, D[23]).at = Len(D) + 1
  BY <1>2, HvccParts DEF D
<1> SUFFICES ASSUME ~(Len(xd) < 23), ~(end = 0) PROVE FALSE
  BY DEF ParseHvcc
<1>4. 23 \in 1..Len(xd) /\ 23 <= Len(xd)
  BY <1>1
<1>5. n = D[23] /\ n \in Nat
  BY <1>1, <1>4, ElementOfSeq, ByteIsNat
<1>6. Beyond.at = 0
  BY DEF Beyond
<1>7. UnitArrays(xd, n) = UnitArrays(D, n) /\ end <= Len(xd) + 1
  <2> HIDE DEF n
  <2>1. Agrees(xd, UnitArrays(xd, n), UnitArrays(D, n))
    BY <1>4, <1>5, UnitArraysCut DEF D
  <2> QED BY <1>6, <2>1 DEF Agrees
<1>8. Len(D) + 1 <= Len(xd) + 1 /\ Len(xd) < Len(D)
  <2>1. Len(D) + 1 <= Len(xd) + 1
    BY <1>3, <1>5, <1>7
  <2> QED BY <2>1 DEF D
<1> QED BY <1>1, <1>8

(* A blob that the codec may hand over with these parameter sets. *)
IsBlob(codec, blob, sets) ==
    \/ /\ codec = "h264"
       /\ \E sps, pps \in Seq(Units) : \E head :
             /\ IsAvccHead(head, sps) /\ Len(pps) <= 255
             /\ sets = sps \o pps /\ blob = Avcc(head, sps, pps)
    \/ /\ codec = "hevc"
       /\ \E arrays \in Seq(Arrays) : \E head :
             /\ IsHvccHead(head, arrays)
             /\ sets = Forms(ArrayUnits, arrays) /\ blob = Hvcc(head, arrays)

LEMMA NoCodeAtOne ==
    ASSUME NEW xd \in Seq(Byte), Len(xd) >= 4, xd[1] = 1
    PROVE  CodeAt(xd, 1) = 0
<1>1. 1 \in Nat \ {0}
  OBVIOUS
<1> QED BY <1>1, CodeAtBytes DEF HasShort, HasLong

LEMMA BlobTyped ==
    ASSUME NEW codec, NEW blob, NEW sets, IsBlob(codec, blob, sets)
    PROVE  blob \in Seq(Byte) /\ Len(blob) >= 4 /\ blob[1] = 1 /\ sets \in Seq(Units)
<1>1. ASSUME codec = "h264",
             NEW sps \in Seq(Units), NEW pps \in Seq(Units), NEW head,
             IsAvccHead(head, sps), Len(pps) <= 255,
             sets = sps \o pps, blob = Avcc(head, sps, pps)
      PROVE  blob \in Seq(Byte) /\ Len(blob) >= 4 /\ blob[1] = 1 /\ sets \in Seq(Units)
  <2>1. blob \in Seq(Byte)
    <3> DEFINE a == Forms(WithSize, sps)
               b == Forms(WithSize, pps)
               n == Len(pps)
               c == <<n>>
    <3>1. a \in Seq(Byte) /\ b \in Seq(Byte) /\ head \in Seq(Byte)
      BY <1>1, WithTyped, FormsBySteps DEF IsAvccHead
    <3>2. n \in Byte
      <4>1. \A k \in Nat : k <= 255 => k \in Byte
        BY DEF Byte
      <4>2. Len(pps) \in Nat
        BY LenProperties
      <4>3. Len(pps) \in Byte
        BY <1>1, <4>1, <4>2, Zenon
      <4> QED BY <4>3
    <3> HIDE DEF n
    <3>3. c \in Seq(Byte)
      BY <3>2
    <3>4. blob = ((head \o a) \o c) \o b
      BY <1>1 DEF Avcc, n
    <3> HIDE DEF a, b, c
    <3>5. head \o a \in Seq(Byte)
      BY <3>1, Joined
    <3>6. (head \o a) \o c \in Seq(Byte)
      BY <3>3, <3>5, Joined
    <3> QED BY <3>1, <3>4, <3>6, Joined
  <2>2. Stands(blob, blob, 0)
    <3>1. Len(blob) \in Nat
      BY <2>1, LenProperties
    <3> QED BY <2>1, <3>1 DEF Stands
  <2>3. Len(blob) >= 7 /\ blob[1] = 1
    BY <1>1, <2>2, AvccParts
  <2>4. Len(blob) >= 4
    BY <2>1, <2>3, LenProperties
  <2>5. sets \in Seq(Units)
    BY <1>1, ConcatProperties
  <2> QED BY <2>1, <2>3, <2>4, <2>5
<1>2. ASSUME codec = "hevc", NEW arrays \in Seq(Arrays), NEW head,
             IsHvccHead(head, arrays),
             sets = Forms(ArrayUnits, arrays), blob = Hvcc(head, arrays)
      PROVE  blob \in Seq(Byte) /\ Len(blob) >= 4 /\ blob[1] = 1 /\ sets \in Seq(Units)
  <2>1. blob \in Seq(Byte)
    <3>1. head \in Seq(Byte) /\ Forms(ArraySize, arrays) \in Seq(Byte)
      BY <1>2, ArrayFormsTyped, FormsBySteps DEF IsHvccHead
    <3> QED BY <1>2, <3>1, Joined DEF Hvcc
  <2>2. Stands(blob, blob, 0)
    <3>1. Len(blob) \in Nat
      BY <2>1, LenProperties
    <3> QED BY <2>1, <3>1 DEF Stands
  <2>3. Len(blob) >= 23 /\ blob[1] = 1
    BY <1>2, <2>2, HvccParts
  <2>4. Len(blob) >= 4
    BY <2>1, <2>3, LenProperties
  <2> QED BY <1>2, <2>1, <2>3, <2>4, CodeOfArrays
<1> QED BY <1>1, <1>2 DEF IsBlob

(* A blob, whatever follows it, becomes exactly its parameter sets. *)
LEMMA BlobRead ==
    ASSUME NEW codec, NEW blob, NEW sets, IsBlob(codec, blob, sets), sets # <<>>,
           NEW xd, Stands(blob, xd, 0)
    PROVE  ExtradataToAnnexb(codec, xd) = Forms(WithCode, sets)
<1>1. /\ blob \in Seq(Byte) /\ Len(blob) >= 4 /\ blob[1] = 1
      /\ Len(blob) \in Nat /\ xd \in Seq(Byte) /\ Len(xd) \in Nat /\ 0 + Len(blob) <= Len(xd)
  BY BlobTyped, LenProperties DEF Stands
<1>2. Len(xd) >= 4 /\ ~(Len(xd) < 4) /\ 1 \in 1..Len(blob) /\ 0 + 1 = 1
  BY <1>1
<1>3. xd[1] = 1
  <2>1. xd[0 + 1] = blob[1]
    BY <1>2 DEF Stands
  <2> QED BY <1>1, <1>2, <2>1
<1>4. CodeAt(xd, 1) = 0 /\ ~(CodeAt(xd, 1) > 0)
  BY <1>1, <1>2, <1>3, NoCodeAtOne
<1>5. ExtradataToAnnexb(codec, xd) = IF codec = "h264" THEN ParseAvcc(xd) ELSE ParseHvcc(xd)
  BY <1>2, <1>4 DEF ExtradataToAnnexb
<1>6. ASSUME codec = "h264",
             NEW sps \in Seq(Units), NEW pps \in Seq(Units), NEW head,
             IsAvccHead(head, sps), Len(pps) <= 255,
             sets = sps \o pps, blob = Avcc(head, sps, pps)
      PROVE  ParseAvcc(xd) = Forms(WithCode, sets)
  BY <1>6, AvccRead
<1>7. ASSUME codec = "hevc", NEW arrays \in Seq(Arrays), NEW head,
             IsHvccHead(head, arrays),
             sets = Forms(ArrayUnits, arrays), blob = Hvcc(head, arrays)
      PROVE  ParseHvcc(xd) = Forms(WithCode, sets)
  BY <1>7, HvccRead
<1> QED BY <1>5, <1>6, <1>7 DEF IsBlob

(* Of a blob that is cut short, nothing is made. *)
LEMMA BlobCut ==
    ASSUME NEW codec, NEW blob, NEW sets, IsBlob(codec, blob, sets),
           NEW xd, Begins(xd, blob), Len(xd) < Len(blob)
    PROVE  ExtradataToAnnexb(codec, xd) = NotRecognised
<1>1. /\ Len(blob) >= 4 /\ blob[1] = 1 /\ Len(blob) \in Nat /\ xd \in Seq(Byte) /\ Len(xd) \in Nat
      /\ \A i \in 1..Len(xd) : blob[i] = xd[i]
  BY BlobTyped, LenProperties DEF Begins
<1>2. CASE Len(xd) < 4
  <2>1. ~(Len(xd) >= 4)
    BY <1>1, <1>2
  <2> QED BY <1>2, <2>1 DEF ExtradataToAnnexb
<1>3. CASE ~(Len(xd) < 4)
  <2>1. Len(xd) >= 4 /\ 1 \in 1..Len(xd)
    BY <1>1, <1>3
  <2>2. CodeAt(xd, 1) = 0 /\ ~(CodeAt(xd, 1) > 0)
    BY <1>1, <2>1, NoCodeAtOne
  <2>3. ExtradataToAnnexb(codec, xd) = IF codec = "h264" THEN ParseAvcc(xd) ELSE ParseHvcc(xd)
    BY <1>3, <2>2 DEF ExtradataToAnnexb
  <2>4. ASSUME codec = "h264",
               NEW sps \in Seq(Units), NEW pps \in Seq(Units), NEW head,
               IsAvccHead(head, sps), Len(pps) <= 255, blob = Avcc(head, sps, pps)
        PROVE  ParseAvcc(xd) = NotRecognised
    BY <2>4, AvccCut
  <2>5. ASSUME codec = "hevc", NEW arrays \in Seq(Arrays), NEW head,
               IsHvccHead(head, arrays), blob = Hvcc(head, arrays)
        PROVE  ParseHvcc(xd) = NotRecognised
    BY <2>5, HvccCut
  <2> QED BY <2>3, <2>4, <2>5 DEF IsBlob
<1> QED BY <1>2, <1>3

(* Extradata as the codecs make it, whole or cut short: in Annex-B form, or a blob
   with whatever behind it, or a part of a blob.                             *)
WellFormed(v) ==
    \/ /\ v.cut = FALSE /\ v.sets \in Seq(Units) /\ v.sets # <<>>
       /\ v.extradata = Forms(WithCode, v.sets)
    \/ /\ v.cut = FALSE /\ v.sets # <<>>
       /\ \E blob : IsBlob(v.codec, blob, v.sets) /\ Stands(blob, v.extradata, 0)
    \/ /\ v.cut = TRUE
       /\ \E blob : /\ IsBlob(v.codec, blob, v.sets)
                    /\ Begins(v.extradata, blob) /\ Len(v.extradata) < Len(blob)

LEMMA CodeIsForms ==
    ASSUME NEW sets \in Seq(Units)
    PROVE  Forms(WithCode, sets) = FlattenSeq([i \in DOMAIN sets |-> StartCode \o sets[i]])
<1>1. \A i \in DOMAIN sets : sets[i] \in Units
  BY LenProperties, ElementOfSeq
<1>2. \A i \in DOMAIN sets : WithCode[sets[i]] = StartCode \o sets[i]
  BY <1>1 DEF WithCode
<1>3. [i \in DOMAIN sets |-> WithCode[sets[i]]] = [i \in DOMAIN sets |-> StartCode \o sets[i]]
  BY <1>2
<1> QED BY <1>3 DEF Forms

(* In Annex-B form extradata is taken as it is. *)
LEMMA AnnexBRead ==
    ASSUME NEW codec, NEW sets \in Seq(Units), sets # <<>>
    PROVE  ExtradataToAnnexb(codec, Forms(WithCode, sets)) = Forms(WithCode, sets)
<1> DEFINE xd == Forms(WithCode, sets)
<1>1. Stands(StartCode, xd, 0)
  BY CodeFirst
<1> HIDE DEF xd
<1>2. Len(StartCode) = 4 /\ \A i \in 1..4 : xd[0 + i] = StartCode[i]
  BY <1>1 DEF Stands, StartCode
<1>3. xd \in Seq(Byte) /\ 0 + 4 <= Len(xd) /\ Len(xd) \in Nat
  BY <1>1, <1>2, LenProperties DEF Stands
<1>4. Len(xd) >= 4 /\ ~(Len(xd) < 4) /\ 1 + 3 <= Len(xd)
  BY <1>3
<1>5. xd[1] = 0 /\ xd[1 + 1] = 0 /\ xd[1 + 2] = 0 /\ xd[1 + 3] = 1
  <2>1. StartCode[1] = 0 /\ StartCode[2] = 0 /\ StartCode[3] = 0 /\ StartCode[4] = 1
    BY DEF StartCode
  <2> QED BY <1>2, <2>1
<1>6. HasLong(xd, 1) /\ ~HasShort(xd, 1)
  BY <1>4, <1>5 DEF HasLong, HasShort
<1>7. CodeAt(xd, 1) = 4
  BY <1>3, <1>6, CodeAtBytes
<1>8. CodeAt(xd, 1) > 0
  BY <1>7
<1> QED BY <1>4, <1>8 DEF ExtradataToAnnexb, xd

(* What is made of the extradata. *)
LEMMA HeadersOf ==
    ASSUME NEW v, WellFormed(v)
    PROVE  Headers(v) = IF v.cut THEN NotRecognised ELSE InlineSets(v)
<1> DEFINE codec == v.codec
           sets == v.sets
           xd == v.extradata
           Due == IF v.cut THEN NotRecognised
                  ELSE FlattenSeq([i \in DOMAIN sets |-> StartCode \o sets[i]])
<1>1. Due = IF v.cut THEN NotRecognised ELSE InlineSets(v)
  BY DEF InlineSets
<1>2. CASE /\ v.cut = FALSE /\ sets \in Seq(Units) /\ sets # <<>>
           /\ xd = Forms(WithCode, sets)
  <2>1. Due = Forms(WithCode, sets)
    BY <1>2, CodeIsForms
  <2>2. ExtradataToAnnexb(codec, xd) = Forms(WithCode, sets)
    BY <1>2, AnnexBRead
  <2> QED BY <1>1, <1>2, <2>1, <2>2 DEF Headers
<1>3. CASE /\ v.cut = FALSE /\ sets # <<>>
           /\ \E blob : IsBlob(codec, blob, sets) /\ Stands(blob, xd, 0)
  <2>1. PICK blob : IsBlob(codec, blob, sets) /\ Stands(blob, xd, 0)
    BY <1>3
  <2>2. sets \in Seq(Units)
    BY <2>1, BlobTyped
  <2>3. Due = Forms(WithCode, sets)
    BY <1>3, <2>2, CodeIsForms
  <2>4. ExtradataToAnnexb(codec, xd) = Forms(WithCode, sets)
    BY <1>3, <2>1, BlobRead
  <2> QED BY <1>1, <1>3, <2>3, <2>4 DEF Headers
<1>4. CASE /\ v.cut = TRUE
           /\ \E blob : IsBlob(codec, blob, sets) /\ Begins(xd, blob) /\ Len(xd) < Len(blob)
  <2>1. PICK blob : IsBlob(codec, blob, sets) /\ Begins(xd, blob) /\ Len(xd) < Len(blob)
    BY <1>4
  <2>2. ExtradataToAnnexb(codec, xd) = NotRecognised
    BY <2>1, BlobCut
  <2> QED BY <1>4, <2>2 DEF Headers
<1> QED BY <1>2, <1>3, <1>4 DEF WellFormed

(* Of whatever extradata a codec makes, Annex B, avcC or hvcC, with any number of
   parameter sets of any length that the form can express, and whatever stands
   behind it, the inline headers are exactly those sets, each behind a start code;
   and of avcC or hvcC that is cut short, wherever, there are none.            *)
THEOREM Spec_HeadersExact ==
    ASSUME \A v \in Videos : WellFormed(v)
    PROVE  Spec => []HeadersExact
<1>1. video \in Videos => HeadersExact
  BY HeadersOf DEF HeadersExact, InlineSets
<1> QED BY <1>1, VideoFixed, PTL

-----------------------------------------------------------------------------
(* NAL units one behind the other *)

(* No start code can begin at the end of d and go on in what follows it. *)
Closed(d) == d = <<>> \/ d[Len(d)] # 0

(* z is x and y: what stands where. *)
JoinOf(x, y, z) ==
    /\ x \in Seq(Byte) /\ y \in Seq(Byte) /\ z \in Seq(Byte)
    /\ Len(x) \in Nat /\ Len(y) \in Nat /\ Len(z) = Len(x) + Len(y)
    /\ \A i \in 1..Len(x) : i \in 1..Len(z) /\ z[i] = x[i]
    /\ \A i \in 1..Len(y) : Len(x) + i \in 1..Len(z) /\ z[Len(x) + i] = y[i]

LEMMA JoinIs ==
    ASSUME NEW x \in Seq(Byte), NEW y \in Seq(Byte)
    PROVE  JoinOf(x, y, x \o y)
<1> DEFINE z == x \o y
           n == Len(x)
           m == Len(y)
<1>1. z \in Seq(Byte) /\ Len(z) = n + m /\ n \in Nat /\ m \in Nat
  BY Joined, LenProperties
<1>2. \A i \in 1..Len(z) : z[i] = IF i <= n THEN x[i] ELSE y[i - n]
  BY JoinedAt
<1> HIDE DEF z, n, m
<1>3. \A i \in 1..n : i \in 1..Len(z) /\ z[i] = x[i]
  BY <1>1, <1>2
<1>4. \A i \in 1..m : n + i \in 1..Len(z) /\ z[n + i] = y[i]
  <2> TAKE i \in 1..m
  <2>1. n + i \in 1..Len(z) /\ ~(n + i <= n) /\ (n + i) - n = i
    BY <1>1
  <2> QED BY <1>2, <2>1
<1> QED BY <1>1, <1>3, <1>4 DEF JoinOf, z, n, m

LEMMA CodeInFirst ==
    ASSUME NEW x, NEW y, NEW z, JoinOf(x, y, z), Closed(x), NEW p \in 1..Len(x)
    PROVE  CodeAt(z, p) = CodeAt(x, p)
<1> DEFINE n == Len(x)
<1>1. /\ x \in Seq(Byte) /\ z \in Seq(Byte) /\ n \in Nat /\ Len(z) \in Nat /\ n <= Len(z)
      /\ \A i \in 1..n : z[i] = x[i]
  BY LenProperties DEF JoinOf
<1>2. n \in 1..n /\ x[n] # 0 /\ z[n] # 0
  <2>1. x # <<>>
    BY <1>1, EmptySeq
  <2>2. n \in 1..n
    BY <1>1
  <2> QED BY <1>1, <2>1, <2>2 DEF Closed
<1> HIDE DEF n
<1>3. p \in 1..n /\ p \in Nat /\ p >= 1
  BY DEF n
<1>4. HasShort(z, p) <=> HasShort(x, p)
  <2>1. CASE p + 2 <= n
    <3>1. p + 1 \in 1..n /\ p + 2 \in 1..n /\ p + 2 <= Len(z)
      BY <1>1, <1>3, <2>1
    <3>2. z[p] = x[p] /\ z[p + 1] = x[p + 1] /\ z[p + 2] = x[p + 2]
      BY <1>1, <1>3, <3>1
    <3> QED BY <2>1, <3>1, <3>2 DEF HasShort, n
  <2>2. CASE ~(p + 2 <= n)
    <3>1. p = n \/ p + 1 = n
      BY <1>1, <1>3, <2>2
    <3>2. ~HasShort(z, p)
      BY <1>2, <3>1 DEF HasShort
    <3> QED BY <2>2, <3>2 DEF HasShort, n
  <2> QED BY <2>1, <2>2
<1>5. HasLong(z, p) <=> HasLong(x, p)
  <2>1. CASE p + 3 <= n
    <3>1. p + 1 \in 1..n /\ p + 2 \in 1..n /\ p + 3 \in 1..n /\ p + 3 <= Len(z)
      BY <1>1, <1>3, <2>1
    <3>2. z[p] = x[p] /\ z[p + 1] = x[p + 1] /\ z[p + 2] = x[p + 2] /\ z[p + 3] = x[p + 3]
      BY <1>1, <1>3, <3>1
    <3> QED BY <2>1, <3>1, <3>2 DEF HasLong, n
  <2>2. CASE ~(p + 3 <= n)
    <3>1. p = n \/ p + 1 = n \/ p + 2 = n
      BY <1>1, <1>3, <2>2
    <3>2. ~HasLong(z, p)
      BY <1>2, <3>1 DEF HasLong
    <3> QED BY <2>2, <3>2 DEF HasLong, n
  <2> QED BY <2>1, <2>2
<1>6. CodeAt(z, p) = IF HasShort(z, p) THEN 3 ELSE IF HasLong(z, p) THEN 4 ELSE 0
  BY <1>1, <1>3, CodeAtBytes
<1>7. CodeAt(x, p) = IF HasShort(x, p) THEN 3 ELSE IF HasLong(x, p) THEN 4 ELSE 0
  BY <1>1, <1>3, CodeAtBytes
<1> QED BY <1>4, <1>5, <1>6, <1>7

LEMMA CodeInSecond ==
    ASSUME NEW x, NEW y, NEW z, JoinOf(x, y, z), NEW q \in 1..Len(y)
    PROVE  CodeAt(z, Len(x) + q) = CodeAt(y, q)
<1> DEFINE n == Len(x)
           m == Len(y)
           p == n + q
<1>1. /\ y \in Seq(Byte) /\ z \in Seq(Byte) /\ n \in Nat /\ m \in Nat /\ Len(z) = n + m
      /\ \A i \in 1..m : z[n + i] = y[i]
  BY LenProperties DEF JoinOf
<1>2. q \in 1..m /\ q \in Nat /\ q >= 1
  OBVIOUS
<1> HIDE DEF n, m
<1>3. /\ p \in Nat /\ p >= 1 /\ p + 1 = n + (q + 1) /\ p + 2 = n + (q + 2) /\ p + 3 = n + (q + 3)
      /\ (p + 2 <= Len(z) <=> q + 2 <= m) /\ (p + 3 <= Len(z) <=> q + 3 <= m)
  BY <1>1, <1>2
<1>4. z[p] = y[q]
  BY <1>1, <1>2
<1> HIDE DEF p
<1>5. HasShort(z, p) <=> HasShort(y, q)
  <2>1. CASE q + 2 <= m
    <3>1. q + 1 \in 1..m /\ q + 2 \in 1..m
      BY <1>1, <1>2, <2>1
    <3>2. z[p + 1] = y[q + 1] /\ z[p + 2] = y[q + 2]
      BY <1>1, <1>3, <3>1
    <3> QED BY <1>3, <1>4, <2>1, <3>2 DEF HasShort, m
  <2>2. CASE ~(q + 2 <= m)
    BY <1>3, <2>2 DEF HasShort, m
  <2> QED BY <2>1, <2>2
<1>6. HasLong(z, p) <=> HasLong(y, q)
  <2>1. CASE q + 3 <= m
    <3>1. q + 1 \in 1..m /\ q + 2 \in 1..m /\ q + 3 \in 1..m
      BY <1>1, <1>2, <2>1
    <3>2. z[p + 1] = y[q + 1] /\ z[p + 2] = y[q + 2] /\ z[p + 3] = y[q + 3]
      BY <1>1, <1>3, <3>1
    <3> QED BY <1>3, <1>4, <2>1, <3>2 DEF HasLong, m
  <2>2. CASE ~(q + 3 <= m)
    BY <1>3, <2>2 DEF HasLong, m
  <2> QED BY <2>1, <2>2
<1>7. CodeAt(z, p) = IF HasShort(z, p) THEN 3 ELSE IF HasLong(z, p) THEN 4 ELSE 0
  BY <1>1, <1>3, CodeAtBytes
<1>8. CodeAt(y, q) = IF HasShort(y, q) THEN 3 ELSE IF HasLong(y, q) THEN 4 ELSE 0
  BY <1>1, <1>2, CodeAtBytes
<1>9. CodeAt(z, p) = CodeAt(y, q)
  BY <1>5, <1>6, <1>7, <1>8
<1> QED BY <1>9 DEF p, n

(* The start codes of two streams one behind the other are those of each. *)
StartsMeet(x, y, z) ==
    /\ \A p \in Starts(x) : p \in 1..Len(x) /\ p \in Starts(z) /\ CodeAt(z, p) = CodeAt(x, p)
    /\ \A q \in Starts(y) : /\ q \in 1..Len(y) /\ Len(x) + q \in Starts(z)
                            /\ CodeAt(z, Len(x) + q) = CodeAt(y, q)
    /\ \A p \in Starts(z) : p \in Starts(x) \/ \E q \in Starts(y) : p = Len(x) + q

LEMMA StartsJoined ==
    ASSUME NEW x, NEW y, NEW z, JoinOf(x, y, z), Closed(x)
    PROVE  StartsMeet(x, y, z)
<1> DEFINE n == Len(x)
           m == Len(y)
<1>1. /\ n \in Nat /\ m \in Nat /\ Len(z) = n + m
      /\ \A i \in 1..n : i \in 1..Len(z) /\ z[i] = x[i]
      /\ \A i \in 1..m : n + i \in 1..Len(z) /\ z[n + i] = y[i]
  BY DEF JoinOf
<1>2. \A p \in 1..n : CodeAt(z, p) = CodeAt(x, p)
  BY CodeInFirst
<1>3. \A q \in 1..m : CodeAt(z, n + q) = CodeAt(y, q)
  BY CodeInSecond
<1>4. n > 0 => z[n] # 0
  <2> SUFFICES ASSUME n > 0 PROVE z[n] # 0
    OBVIOUS
  <2>1. n \in 1..n
    BY <1>1
  <2>2. x # <<>>
    BY EmptySeq
  <2> QED BY <1>1, <2>1, <2>2 DEF Closed
<1> HIDE DEF n, m
<1>5. ASSUME NEW p \in 1..n PROVE p \in Starts(z) <=> p \in Starts(x)
  <2>1. CodeAt(z, p) = CodeAt(x, p) /\ p \in 1..Len(z) /\ p \in 1..Len(x)
    BY <1>1, <1>2 DEF n
  <2>2. p > 1 => z[p - 1] = x[p - 1]
    BY <1>1
  <2> QED BY <2>1, <2>2 DEF Starts
<1>6. ASSUME NEW q \in 1..m PROVE n + q \in Starts(z) <=> q \in Starts(y)
  <2> DEFINE p == n + q
  <2>1. CodeAt(z, p) = CodeAt(y, q) /\ p \in 1..Len(z) /\ q \in 1..Len(y)
    BY <1>1, <1>3 DEF m
  <2>2. CASE q > 1
    <3>1. q - 1 \in 1..m /\ p > 1 /\ p - 1 = n + (q - 1)
      BY <1>1, <2>2
    <3>2. z[p - 1] = y[q - 1]
      BY <1>1, <3>1
    <3> HIDE DEF p
    <3>3. p \in Starts(z) <=> q \in Starts(y)
      BY <2>1, <2>2, <3>1, <3>2 DEF Starts
    <3> QED BY <3>3 DEF p
  <2>3. CASE ~(q > 1)
    <3>1. p > 1 => z[p - 1] # 0
      BY <1>1, <1>4, <2>3
    <3> HIDE DEF p
    <3>2. p \in Starts(z) <=> q \in Starts(y)
      BY <2>1, <2>3, <3>1 DEF Starts
    <3> QED BY <3>2 DEF p
  <2> QED BY <2>2, <2>3
<1>7. Starts(x) \subseteq 1..n /\ Starts(y) \subseteq 1..m /\ Starts(z) \subseteq 1..Len(z)
  BY StartsWithin DEF n, m
<1>8. \A p \in Starts(z) : p \in Starts(x) \/ \E q \in Starts(y) : p = n + q
  <2> TAKE p \in Starts(z)
  <2>1. p \in 1..(n + m)
    BY <1>1, <1>7
  <2>2. CASE p <= n
    BY <1>5, <2>1, <2>2
  <2>3. CASE ~(p <= n)
    <3> DEFINE q == p - n
    <3>1. q \in 1..m /\ p = n + q
      BY <1>1, <2>1, <2>3
    <3> HIDE DEF q
    <3> QED BY <1>6, <3>1
  <2> QED BY <2>2, <2>3
<1>9. \A p \in Starts(x) : p \in 1..n /\ p \in Starts(z) /\ CodeAt(z, p) = CodeAt(x, p)
  BY <1>2, <1>5, <1>7
<1>10. \A q \in Starts(y) : q \in 1..m /\ n + q \in Starts(z) /\ CodeAt(z, n + q) = CodeAt(y, q)
  BY <1>3, <1>6, <1>7
<1> QED BY <1>8, <1>9, <1>10 DEF StartsMeet, n, m

(* e is the last byte of the NAL unit that begins at p. *)
EndsAt(d, p, e) ==
    /\ e \in Nat /\ p <= e /\ e <= Len(d)
    /\ \A q \in Starts(d) : q > p => q > e
    /\ e = Len(d) \/ e + 1 \in Starts(d)

LEMMA EndIs ==
    ASSUME NEW d \in Seq(Byte), NEW p \in Nat, NEW e, EndsAt(d, p, e)
    PROVE  NalEnd(d, p) = e
<1> DEFINE F == Following(d, p)
<1>1. /\ e \in Nat /\ p <= e /\ e <= Len(d) /\ Len(d) \in Nat
      /\ \A q \in Starts(d) : q > p => q > e
      /\ e = Len(d) \/ e + 1 \in Starts(d)
  BY LenProperties DEF EndsAt
<1>2. Starts(d) \subseteq 1..Len(d)
  BY StartsWithin
<1>3. F \subseteq Nat /\ \A q \in F : q > e /\ q <= Len(d)
  BY <1>1, <1>2 DEF Following
<1>4. NalEnd(d, p) = IF F = {} THEN Len(d) ELSE Min(F) - 1
  BY DEF NalEnd
<1>5. CASE e = Len(d)
  <2>1. F = {}
    <3> SUFFICES ASSUME NEW q \in F PROVE FALSE
      OBVIOUS
    <3>1. q \in Nat /\ q > e /\ q <= Len(d)
      BY <1>3
    <3> QED BY <1>1, <1>5, <3>1
  <2> HIDE DEF F
  <2> QED BY <1>4, <1>5, <2>1
<1>6. CASE e + 1 \in Starts(d)
  <2>1. e + 1 \in F
    BY <1>1, <1>6 DEF Following
  <2> HIDE DEF F
  <2>2. \A q \in F : e + 1 <= q
    BY <1>1, <1>3
  <2>3. Min(F) = e + 1
    BY <1>3, <2>1, <2>2, MinIs
  <2>4. F # {}
    BY <2>1
  <2> QED BY <1>1, <1>4, <2>3, <2>4
<1> QED BY <1>1, <1>5, <1>6

LEMMA EndProperties ==
    ASSUME NEW d \in Seq(Byte), NEW p \in Starts(d)
    PROVE  EndsAt(d, p, NalEnd(d, p))
<1> DEFINE F == Following(d, p)
           m == Min(F)
<1>1. Starts(d) \subseteq 1..Len(d) /\ Len(d) \in Nat /\ p \in 1..Len(d)
  BY StartsWithin, LenProperties
<1>2. F \subseteq Nat /\ F \subseteq Starts(d) /\ \A q \in F : q > p
  BY <1>1 DEF Following
<1>3. NalEnd(d, p) = IF F = {} THEN Len(d) ELSE m - 1
  BY DEF NalEnd
<1>4. \A q \in Starts(d) : q > p => q \in F
  BY DEF Following
<1>5. F # {} => m \in F /\ \A q \in F : m <= q
  BY <1>2, MinIsFirst
<1> HIDE DEF F, m
<1>6. CASE F = {}
  <2>1. NalEnd(d, p) = Len(d)
    BY <1>3, <1>6
  <2>2. \A q \in Starts(d) : ~(q > p)
    BY <1>4, <1>6
  <2> QED BY <1>1, <2>1, <2>2 DEF EndsAt
<1>7. CASE F # {}
  <2>1. m \in Starts(d) /\ m > p /\ m \in 1..Len(d) /\ \A q \in F : m <= q
    BY <1>1, <1>2, <1>5, <1>7
  <2> DEFINE e == m - 1
  <2>2. e \in Nat /\ p <= e /\ e <= Len(d) /\ e + 1 = m
    BY <1>1, <2>1
  <2>3. NalEnd(d, p) = e
    BY <1>3, <1>7
  <2>4. \A q \in Starts(d) : q > p => q > e
    BY <1>1, <1>4, <2>1
  <2> HIDE DEF e
  <2> QED BY <2>1, <2>2, <2>3, <2>4 DEF EndsAt
<1> QED BY <1>6, <1>7

(* What follows begins with a start code, or nothing follows. *)
Ready(y) == y = <<>> \/ 1 \in Starts(y)

EndsMeet(x, y, z) ==
    /\ \A p \in Starts(x) : NalEnd(z, p) = NalEnd(x, p)
    /\ \A q \in Starts(y) : NalEnd(z, Len(x) + q) = Len(x) + NalEnd(y, q)

LEMMA EndsJoined ==
    ASSUME NEW x, NEW y, NEW z, JoinOf(x, y, z), Closed(x), Ready(y)
    PROVE  EndsMeet(x, y, z)
<1> DEFINE n == Len(x)
<1>1. /\ x \in Seq(Byte) /\ y \in Seq(Byte) /\ z \in Seq(Byte)
      /\ n \in Nat /\ Len(y) \in Nat /\ Len(z) = n + Len(y)
  BY DEF JoinOf
<1>2. /\ \A p \in Starts(x) : p \in 1..n /\ p \in Starts(z)
      /\ \A q \in Starts(y) : q \in 1..Len(y) /\ n + q \in Starts(z)
      /\ \A p \in Starts(z) : p \in Starts(x) \/ \E q \in Starts(y) : p = n + q
  BY StartsJoined DEF StartsMeet
<1> HIDE DEF n
<1>3. ASSUME NEW p \in Starts(x) PROVE NalEnd(z, p) = NalEnd(x, p)
  <2> DEFINE e == NalEnd(x, p)
  <2>1. /\ e \in Nat /\ p <= e /\ e <= n
        /\ \A q \in Starts(x) : q > p => q > e
        /\ e = n \/ e + 1 \in Starts(x)
    BY <1>1, EndProperties DEF EndsAt, n
  <2> HIDE DEF e
  <2>2. e <= Len(z) /\ p \in 1..n /\ p \in Nat
    BY <1>1, <1>2, <2>1
  <2>3. \A q \in Starts(z) : q > p => q > e
    <3> TAKE q \in Starts(z)
    <3>1. CASE q \in Starts(x)
      BY <2>1, <3>1
    <3>2. CASE \E r \in Starts(y) : q = n + r
      <4>1. PICK r \in Starts(y) : q = n + r
        BY <3>2
      <4>2. r \in 1..Len(y)
        BY <1>2
      <4> QED BY <1>1, <2>1, <4>1, <4>2
    <3> QED BY <1>2, <3>1, <3>2
  <2>4. e = Len(z) \/ e + 1 \in Starts(z)
    <3>1. CASE e = n
      <4>1. CASE y = <<>>
        <5>1. Len(y) = 0
          BY <4>1, EmptySeq
        <5> QED BY <1>1, <3>1, <5>1
      <4>2. CASE 1 \in Starts(y)
        <5>1. n + 1 \in Starts(z)
          BY <1>2, <4>2
        <5> QED BY <3>1, <5>1
      <4> QED BY <4>1, <4>2 DEF Ready
    <3>2. CASE e + 1 \in Starts(x)
      BY <1>2, <3>2
    <3> QED BY <2>1, <3>1, <3>2
  <2>5. EndsAt(z, p, e)
    BY <2>1, <2>2, <2>3, <2>4 DEF EndsAt
  <2> QED BY <1>1, <2>2, <2>5, EndIs DEF e
<1>4. ASSUME NEW q \in Starts(y) PROVE NalEnd(z, n + q) = n + NalEnd(y, q)
  <2> DEFINE e == NalEnd(y, q)
  <2>1. /\ e \in Nat /\ q <= e /\ e <= Len(y)
        /\ \A r \in Starts(y) : r > q => r > e
        /\ e = Len(y) \/ e + 1 \in Starts(y)
    BY <1>1, EndProperties DEF EndsAt
  <2> HIDE DEF e
  <2>2. q \in 1..Len(y) /\ n + q \in Nat /\ n + e \in Nat /\ n + q <= n + e /\ n + e <= Len(z)
    BY <1>1, <1>2, <2>1
  <2>3. \A p \in Starts(z) : p > n + q => p > n + e
    <3> TAKE p \in Starts(z)
    <3>1. CASE p \in Starts(x)
      <4>1. p \in 1..n
        BY <1>2, <3>1
      <4> QED BY <1>1, <2>2, <4>1
    <3>2. CASE \E r \in Starts(y) : p = n + r
      <4>1. PICK r \in Starts(y) : p = n + r
        BY <3>2
      <4>2. r \in 1..Len(y) /\ (r > q => r > e)
        BY <1>2, <2>1
      <4> QED BY <1>1, <2>1, <2>2, <4>1, <4>2
    <3> QED BY <1>2, <3>1, <3>2
  <2>4. n + e = Len(z) \/ (n + e) + 1 \in Starts(z)
    <3>1. CASE e = Len(y)
      BY <1>1, <3>1
    <3>2. CASE e + 1 \in Starts(y)
      <4>1. n + (e + 1) \in Starts(z) /\ n + (e + 1) = (n + e) + 1
        BY <1>1, <1>2, <2>1, <3>2
      <4> QED BY <4>1
    <3> QED BY <2>1, <3>1, <3>2
  <2> DEFINE p == n + q
             f == n + e
  <2>5. EndsAt(z, p, f)
    BY <2>2, <2>3, <2>4 DEF EndsAt
  <2>6. p \in Nat
    BY <2>2
  <2> HIDE DEF p, f
  <2>7. NalEnd(z, p) = f
    BY <1>1, <2>5, <2>6, EndIs
  <2> QED BY <2>7 DEF p, f, e
<1> QED BY <1>3, <1>4 DEF EndsMeet, n

(* A NAL unit's first byte, and that it has one. *)
Opens(codec, d, p, types) ==
    NalStart(d, p) < NalEnd(d, p) /\ NalType(codec, d[NalStart(d, p)]) \in types

LEMMA HeaderWithin ==
    ASSUME NEW d \in Seq(Byte), NEW p \in Starts(d), NalStart(d, p) < NalEnd(d, p)
    PROVE  NalStart(d, p) \in 1..Len(d) /\ NalStart(d, p) \in {p + 3, p + 4}
<1>1. CodeAt(d, p) \in {3, 4}
  <2>1. Begins(d, d)
    BY LenProperties DEF Begins
  <2> QED BY <2>1, StartsStay
<1>2. p \in 1..Len(d) /\ Len(d) \in Nat
  BY StartsWithin, LenProperties
<1>3. NalEnd(d, p) \in Nat /\ NalEnd(d, p) <= Len(d)
  BY EndProperties DEF EndsAt
<1> DEFINE c == CodeAt(d, p)
           e == NalEnd(d, p)
<1>4. NalStart(d, p) = p + c
  BY DEF NalStart
<1> HIDE DEF c, e
<1>5. p + c < e
  BY <1>4 DEF e
<1> QED BY <1>1, <1>2, <1>3, <1>4, <1>5 DEF c, e

(* NAL units of two streams one behind the other. *)
UnitsMeet(codec, x, y, z) ==
    /\ \A p \in Starts(x) : \A types : Opens(codec, x, p, types) => Opens(codec, z, p, types)
    /\ \A q \in Starts(y) : \A types :
          Opens(codec, y, q, types) => Opens(codec, z, Len(x) + q, types)

LEMMA UnitsJoined ==
    ASSUME NEW codec, NEW x, NEW y, NEW z, JoinOf(x, y, z), Closed(x), Ready(y)
    PROVE  UnitsMeet(codec, x, y, z)
<1> DEFINE n == Len(x)
<1>1. /\ x \in Seq(Byte) /\ y \in Seq(Byte) /\ z \in Seq(Byte) /\ n \in Nat /\ Len(y) \in Nat
      /\ \A i \in 1..n : z[i] = x[i]
      /\ \A i \in 1..Len(y) : z[n + i] = y[i]
  BY DEF JoinOf
<1>2. /\ \A p \in Starts(x) : p \in 1..n /\ CodeAt(z, p) = CodeAt(x, p)
      /\ \A q \in Starts(y) : q \in 1..Len(y) /\ CodeAt(z, n + q) = CodeAt(y, q)
  BY StartsJoined DEF StartsMeet
<1>3. /\ \A p \in Starts(x) : NalEnd(z, p) = NalEnd(x, p)
      /\ \A q \in Starts(y) : NalEnd(z, n + q) = n + NalEnd(y, q)
  BY EndsJoined DEF EndsMeet
<1> HIDE DEF n
<1>4. ASSUME NEW p \in Starts(x), NEW types, Opens(codec, x, p, types)
      PROVE  Opens(codec, z, p, types)
  <2>1. NalStart(z, p) = NalStart(x, p)
    BY <1>2 DEF NalStart
  <2>2. NalStart(x, p) \in 1..n
    BY <1>1, <1>4, HeaderWithin DEF Opens, n
  <2>3. z[NalStart(z, p)] = x[NalStart(x, p)]
    BY <1>1, <2>1, <2>2
  <2> QED BY <1>3, <1>4, <2>1, <2>3 DEF Opens
<1>5. ASSUME NEW q \in Starts(y), NEW types, Opens(codec, y, q, types)
      PROVE  Opens(codec, z, n + q, types)
  <2> DEFINE a == NalStart(y, q)
             e == NalEnd(y, q)
  <2>1. a \in 1..Len(y) /\ a < e /\ e \in Nat
    BY <1>1, <1>5, HeaderWithin, EndProperties DEF Opens, EndsAt
  <2>2. NalStart(z, n + q) = n + a
    <3>1. CodeAt(y, q) \in {3, 4}
      <4>1. Begins(y, y)
        BY <1>1, LenProperties DEF Begins
      <4> QED BY <4>1, StartsStay
    <3> DEFINE c == CodeAt(y, q)
    <3>2. CodeAt(z, n + q) = c
      BY <1>2
    <3>3. c \in Int /\ a = q + c
      BY <3>1 DEF NalStart
    <3>4. NalStart(z, n + q) = (n + q) + c
      BY <3>2 DEF NalStart
    <3> HIDE DEF a, c
    <3>5. q \in Int
      BY <1>2
    <3> QED BY <1>1, <3>3, <3>4, <3>5
  <2>3. NalEnd(z, n + q) = n + e
    BY <1>3
  <2>4. NalType(codec, y[a]) \in types
    BY <1>5 DEF Opens
  <2> HIDE DEF a, e
  <2>5. z[n + a] = y[a] /\ n + a < n + e
    BY <1>1, <2>1
  <2> QED BY <2>2, <2>3, <2>4, <2>5 DEF Opens
<1> QED BY <1>4, <1>5 DEF UnitsMeet, n

LEMMA UnitsClosed ==
    ASSUME NEW codec, NEW d, NEW types, NalUnits(codec, d, types)
    PROVE  Closed(d) /\ Ready(d) /\ \A p \in Starts(d) : Opens(codec, d, p, types)
BY DEF NalUnits, Closed, Ready, Opens

LEMMA ReadyJoined ==
    ASSUME NEW x, NEW y, NEW z, JoinOf(x, y, z), Closed(x), Ready(x), Ready(y)
    PROVE  Ready(z)
<1>1. /\ \A p \in Starts(x) : p \in Starts(z)
      /\ \A q \in Starts(y) : Len(x) + q \in Starts(z)
  BY StartsJoined DEF StartsMeet
<1>2. x \in Seq(Byte) /\ y \in Seq(Byte) /\ z \in Seq(Byte) /\ Len(z) = Len(x) + Len(y)
  BY DEF JoinOf
<1>3. CASE x # <<>>
  BY <1>1, <1>3 DEF Ready
<1>4. CASE x = <<>> /\ y # <<>>
  <2>1. Len(x) = 0
    BY <1>4, EmptySeq
  <2>2. 1 \in Starts(y)
    BY <1>4 DEF Ready
  <2>3. Len(x) + 1 = 1
    BY <2>1
  <2> QED BY <1>1, <2>2, <2>3 DEF Ready
<1>5. CASE x = <<>> /\ y = <<>>
  <2>1. Len(x) = 0 /\ Len(y) = 0
    BY <1>5, EmptySeq
  <2>2. Len(z) = 0
    BY <1>2, <2>1
  <2>3. z = <<>>
    BY <1>2, <2>2, EmptySeq
  <2> QED BY <2>3 DEF Ready
<1> QED BY <1>3, <1>4, <1>5

LEMMA ClosedJoined ==
    ASSUME NEW x, NEW y, NEW z, JoinOf(x, y, z), Closed(x), Closed(y)
    PROVE  Closed(z)
<1> DEFINE n == Len(x)
           m == Len(y)
<1>1. /\ x \in Seq(Byte) /\ y \in Seq(Byte) /\ z \in Seq(Byte) /\ n \in Nat /\ m \in Nat
      /\ Len(z) = n + m
      /\ \A i \in 1..n : z[i] = x[i]
      /\ \A i \in 1..m : z[n + i] = y[i]
  BY DEF JoinOf
<1>2. (x # <<>> => x[n] # 0) /\ (y # <<>> => y[m] # 0)
  BY DEF Closed
<1>3. (n = 0 => x = <<>>) /\ (m = 0 => y = <<>>) /\ (n # 0 => x # <<>>) /\ (m # 0 => y # <<>>)
  BY <1>1, EmptySeq
<1> HIDE DEF n, m
<1>4. CASE m # 0
  <2>1. m \in 1..m
    BY <1>1, <1>4
  <2>2. z[n + m] # 0
    BY <1>1, <1>2, <1>3, <1>4, <2>1
  <2> QED BY <1>1, <2>2 DEF Closed
<1>5. CASE m = 0 /\ n # 0
  <2>1. n \in 1..n /\ Len(z) = n
    BY <1>1, <1>5
  <2>2. z[n] # 0
    BY <1>1, <1>2, <1>3, <1>5, <2>1
  <2> QED BY <2>1, <2>2 DEF Closed
<1>6. CASE m = 0 /\ n = 0
  <2>1. Len(z) = 0
    BY <1>1, <1>6
  <2>2. z = <<>>
    BY <1>1, <2>1, EmptySeq
  <2> QED BY <2>2 DEF Closed
<1> QED BY <1>4, <1>5, <1>6

LEMMA NalUnitsJoined ==
    ASSUME NEW codec, NEW types, NEW x, NEW y, NEW z, JoinOf(x, y, z),
           NalUnits(codec, x, types), NalUnits(codec, y, types)
    PROVE  NalUnits(codec, z, types)
<1>1. /\ Closed(x) /\ Ready(x) /\ \A p \in Starts(x) : Opens(codec, x, p, types)
      /\ Closed(y) /\ Ready(y) /\ \A p \in Starts(y) : Opens(codec, y, p, types)
  BY UnitsClosed
<1>2. Closed(z) /\ Ready(z)
  BY <1>1, ReadyJoined, ClosedJoined
<1>3. UnitsMeet(codec, x, y, z) /\ StartsMeet(x, y, z)
  BY <1>1, UnitsJoined, StartsJoined
<1>4. ASSUME NEW p \in Starts(z) PROVE Opens(codec, z, p, types)
  <2>1. CASE p \in Starts(x)
    BY <1>1, <1>3, <2>1 DEF UnitsMeet
  <2>2. CASE \E q \in Starts(y) : p = Len(x) + q
    <3>1. PICK q \in Starts(y) : p = Len(x) + q
      BY <2>2
    <3>2. Opens(codec, z, Len(x) + q, types)
      BY <1>1, <1>3 DEF UnitsMeet
    <3> QED BY <3>1, <3>2
  <2> QED BY <1>3, <2>1, <2>2 DEF StartsMeet
<1> QED BY <1>2, <1>4 DEF NalUnits, Closed, Ready, Opens

LEMMA NoUnits ==
    ASSUME NEW codec, NEW types
    PROVE  NalUnits(codec, <<>>, types)
<1>1. Starts(<<>>) = {}
  <2> DEFINE d == <<>>
  <2>1. Len(d) = 0
    OBVIOUS
  <2> HIDE DEF d
  <2>2. Starts(d) = {}
    BY <2>1, StartsWithin
  <2> QED BY <2>2 DEF d
<1> QED BY <1>1 DEF NalUnits

LEMMA NalUnitsFlat ==
    ASSUME NEW codec, NEW types, NEW seqs \in Seq(Seq(Byte)),
           \A j \in 1..Len(seqs) : NalUnits(codec, seqs[j], types)
    PROVE  NalUnits(codec, FlattenSeq(seqs), types)
<1> DEFINE n == Len(seqs)
           S == Seq(Byte)
           T == {i \in 0..n : NalUnits(codec, FlattenSeq(First(seqs, i)), types)}
<1>1. n \in Nat /\ First(seqs, 0) = <<>> /\ First(seqs, n) = seqs
      /\ \A i \in 0..(n - 1) :
            /\ First(seqs, i) \in Seq(S) /\ seqs[i + 1] \in S
            /\ First(seqs, i + 1) = Append(First(seqs, i), seqs[i + 1])
  BY OneMore
<1>2. 0 \in T
  <2>1. FlattenSeq(<<>>) = <<>>
    BY DEF FlattenSeq
  <2> QED BY <1>1, <2>1, NoUnits
<1>3. ASSUME NEW i \in 0..(n - 1), i \in T PROVE i + 1 \in T
  <2> DEFINE x == FlattenSeq(First(seqs, i))
             y == seqs[i + 1]
  <2>1. First(seqs, i) \in Seq(S) /\ y \in S /\ First(seqs, i + 1) = Append(First(seqs, i), y)
    BY <1>1
  <2>2. x \in S /\ FlattenSeq(First(seqs, i + 1)) = x \o y
    BY <2>1, FlattenTyped, FlattenAppend
  <2>3. NalUnits(codec, x, types)
    BY <1>3
  <2>4. i + 1 \in 1..n /\ i + 1 \in 0..n
    BY <1>1
  <2>5. NalUnits(codec, y, types)
    BY <2>4
  <2> HIDE DEF x, y
  <2>6. JoinOf(x, y, x \o y)
    BY <2>1, <2>2, JoinIs
  <2>7. NalUnits(codec, x \o y, types)
    BY <2>3, <2>5, <2>6, NalUnitsJoined
  <2> QED BY <2>2, <2>4, <2>7
<1>4. n \in T
  <2> HIDE DEF T
  <2>1. \A i \in 0..n : i \in T
    BY <1>1, <1>2, <1>3, Induction
  <2> QED BY <1>1, <2>1
<1> QED BY <1>1, <1>4

LEMMA NalUnitsMore ==
    ASSUME NEW codec, NEW d, NEW types, NEW more, NalUnits(codec, d, types), types \subseteq more
    PROVE  NalUnits(codec, d, more)
BY DEF NalUnits

-----------------------------------------------------------------------------
(* Other SEI *)

LEMMA JoinBegins ==
    ASSUME NEW x, NEW y, NEW z, JoinOf(x, y, z)
    PROVE  Begins(x, z)
<1>1. x \in Seq(Byte) /\ z \in Seq(Byte) /\ Len(x) <= Len(z) /\ \A i \in 1..Len(x) : z[i] = x[i]
  BY DEF JoinOf
<1> QED BY <1>1 DEF Begins

(* Where ReadVarUint finds the last byte. *)
LastByte(d, at, end) == {i \in at..end : d[i] # 255}

LEMMA ReadsFirst ==
    ASSUME NEW d, NEW at, NEW end
    PROVE  ReadVarUint(d, at, end) =
              IF LastByte(d, at, end) = {} \/ Min(LastByte(d, at, end)) = 0
              THEN [value |-> 0, next |-> 0]
              ELSE [value |-> 255 * (Min(LastByte(d, at, end)) - at) + d[Min(LastByte(d, at, end))],
                    next |-> Min(LastByte(d, at, end)) + 1]
<1> DEFINE I == {i \in at..end : d[i] # 255}
           last == SelectInSubSeq(d, at, end, LAMBDA b : b # 255)
<1>1. last = IF I # {} THEN Min(I) ELSE 0
  BY DEF SelectInSubSeq
<1>2. ReadVarUint(d, at, end) =
        IF last = 0 THEN [value |-> 0, next |-> 0]
                    ELSE [value |-> 255 * (last - at) + d[last], next |-> last + 1]
  BY DEF ReadVarUint
<1>3. I = LastByte(d, at, end)
  BY DEF LastByte
<1> HIDE DEF I, last
<1> QED BY <1>1, <1>2, <1>3

(* Reading within d is reading within whatever d begins. *)
LEMMA SameRead ==
    ASSUME NEW d, NEW D, Begins(d, D), NEW at \in Int, at >= 1, NEW end \in Int, end <= Len(d)
    PROVE  ReadVarUint(d, at, end) = ReadVarUint(D, at, end)
<1>1. Len(d) \in Nat /\ \A i \in 1..Len(d) : D[i] = d[i]
  BY LenProperties DEF Begins
<1>2. \A i \in at..end : D[i] = d[i]
  BY <1>1
<1> DEFINE I == LastByte(d, at, end)
<1>3. LastByte(D, at, end) = I
  BY <1>2 DEF LastByte
<1>4. I \subseteq Nat /\ I \subseteq at..end
  BY DEF LastByte
<1> HIDE DEF I
<1>5. I # {} => D[Min(I)] = d[Min(I)]
  <2> SUFFICES ASSUME I # {} PROVE D[Min(I)] = d[Min(I)]
    OBVIOUS
  <2>1. Min(I) \in I
    BY <1>4, MinIsFirst
  <2> QED BY <1>2, <1>4, <2>1
<1>6. ReadVarUint(d, at, end) =
         IF I = {} \/ Min(I) = 0 THEN [value |-> 0, next |-> 0]
         ELSE [value |-> 255 * (Min(I) - at) + d[Min(I)], next |-> Min(I) + 1]
  BY ReadsFirst DEF I
<1>7. ReadVarUint(D, at, end) =
         IF I = {} \/ Min(I) = 0 THEN [value |-> 0, next |-> 0]
         ELSE [value |-> 255 * (Min(I) - at) + D[Min(I)], next |-> Min(I) + 1]
  BY <1>3, ReadsFirst
<1> QED BY <1>5, <1>6, <1>7

(* What was read is read again when there is more to read. *)
FoundSo(d, at, end, more) ==
    LET found == ReadVarUint(d, at, end)
    IN  found.next # 0 =>
           /\ found.next \in Nat /\ found.next >= 1 /\ found.next <= end + 1
           /\ found.value \in Int
           /\ ReadVarUint(d, at, more) = found

LEMMA ReadAgain ==
    ASSUME NEW d \in Seq(Byte), NEW at \in Int, at >= 1, NEW end \in Int, end <= Len(d),
           NEW more \in Int, end <= more
    PROVE  FoundSo(d, at, end, more)
<1> DEFINE I == LastByte(d, at, end)
           M == LastByte(d, at, more)
           m == Min(I)
           found == ReadVarUint(d, at, end)
<1>1. found = IF I = {} \/ m = 0 THEN [value |-> 0, next |-> 0]
              ELSE [value |-> 255 * (m - at) + d[m], next |-> m + 1]
  BY ReadsFirst
<1>2. ReadVarUint(d, at, more) =
         IF M = {} \/ Min(M) = 0 THEN [value |-> 0, next |-> 0]
         ELSE [value |-> 255 * (Min(M) - at) + d[Min(M)], next |-> Min(M) + 1]
  BY ReadsFirst
<1>3. /\ I \subseteq Nat /\ M \subseteq Nat /\ I \subseteq M /\ I \subseteq at..end
      /\ \A i \in M : i \in I \/ i > end
  BY DEF LastByte
<1>4. I # {} => m \in I /\ \A y \in I : m <= y
  BY <1>3, MinIsFirst
<1> HIDE DEF I, M, m
<1> SUFFICES ASSUME found.next # 0
             PROVE  /\ found.next \in Nat /\ found.next >= 1 /\ found.next <= end + 1
                    /\ found.value \in Int
                    /\ ReadVarUint(d, at, more) = found
  BY DEF FoundSo
<1> HIDE DEF found
<1>5. I # {} /\ m # 0 /\ found = [value |-> 255 * (m - at) + d[m], next |-> m + 1]
  BY <1>1
<1>6. m \in M /\ m \in at..end /\ \A y \in M : m <= y
  <2>1. m \in I /\ m \in M /\ m \in at..end
    BY <1>3, <1>4, <1>5
  <2>2. ASSUME NEW y \in M PROVE m <= y
    <3>1. CASE y \in I
      BY <1>4, <1>5, <3>1
    <3>2. CASE y > end
      <4>1. y \in Nat
        BY <1>3
      <4> QED BY <2>1, <3>2, <4>1
    <3> QED BY <1>3, <3>1, <3>2
  <2> QED BY <2>1, <2>2
<1>7. Min(M) = m
  BY <1>3, <1>6, MinIs
<1>8. ReadVarUint(d, at, more) = found
  BY <1>2, <1>5, <1>6, <1>7
<1>9. d[m] \in Int
  <2>1. Len(d) \in Nat
    BY LenProperties
  <2>2. m \in 1..Len(d)
    BY <1>6, <2>1
  <2>3. d[m] \in Byte
    BY <2>2, ElementOfSeq
  <2>4. d[m] \in Nat
    BY <2>3, ByteIsNat
  <2> QED BY <2>4
<1>10. found.value = 255 * (m - at) + d[m] /\ found.next = m + 1
  BY <1>5
<1>11. found.value \in Int
  BY <1>6, <1>9, <1>10
<1> QED BY <1>6, <1>8, <1>10, <1>11

(* More bytes only add to what has been unescaped. *)
Extends(a, b) == Len(b) \in Nat /\ Len(a) <= Len(b) /\ \A k \in 1..Len(a) : b[k] = a[k]

LEMMA OneByteUnescaped ==
    ASSUME NEW s \in State, NEW b \in Byte, NEW want \in Nat
    PROVE  Extends(s.out, UnescapeByte(s, b, want).out)
<1> DEFINE t == UnescapeByte(s, b, want)
           x == s.out
           y == Append(x, b)
<1>1. x \in Seq(Byte) /\ Len(x) \in Nat
  BY LenProperties DEF State
<1>2. /\ y \in Seq(Byte) /\ Len(y) = Len(x) + 1 /\ \A i \in 1..Len(x) : y[i] = x[i]
  BY <1>1, AppendProperties
<1>3. Extends(x, x) /\ Extends(x, y)
  BY <1>1, <1>2 DEF Extends
<1>4. Len(x) >= want \/ Len(x) < want
  BY <1>1
<1> HIDE DEF x, y
<1>5. t.out = x \/ t.out = y
  <2>1. t \in {s, [out |-> x, zeros |-> 0], [out |-> y, zeros |-> ZerosAfter(s.zeros, b)]}
    BY <1>4 DEF UnescapeByte, x, y
  <2>2. s.out = x
    BY DEF x
  <2> HIDE DEF t
  <2> QED BY <2>1, <2>2
<1> QED BY <1>3, <1>5 DEF x

LEMMA UnescapeExtends ==
    ASSUME NEW x \in Seq(Byte), NEW rest \in Seq(Byte), NEW want \in Nat
    PROVE  Extends(Unescape(x, want), Unescape(x \o rest, want))
<1> DEFINE n == Len(rest)
           p(i) == First(rest, i)
           u(i) == AfterUnescape(x \o p(i), want).out
           a == AfterUnescape(x, want).out
           T == {i \in 0..n : Extends(a, u(i))}
<1>1. n \in Nat /\ First(rest, 0) = <<>> /\ First(rest, n) = rest
      /\ \A i \in 0..(n - 1) :
            /\ First(rest, i) \in Seq(Byte) /\ rest[i + 1] \in Byte
            /\ First(rest, i + 1) = Append(First(rest, i), rest[i + 1])
  BY OneMore
<1>2. 0 \in T
  <2>1. x \o <<>> = x
    BY ConcatEmptySeq
  <2>2. u(0) = a
    BY <1>1, <2>1
  <2>3. a \in Seq(Byte) /\ Len(a) \in Nat
    <3>1. a \in Seq(Byte)
      BY AfterUnescapeTyped DEF State
    <3> HIDE DEF a
    <3> QED BY <3>1, LenProperties
  <2> HIDE DEF a, u
  <2>4. Extends(a, a)
    BY <2>3 DEF Extends
  <2> QED BY <1>1, <2>2, <2>4
<1>3. ASSUME NEW i \in 0..(n - 1), i \in T PROVE i + 1 \in T
  <2> DEFINE s == AfterUnescape(x \o p(i), want)
             b == rest[i + 1]
             t == UnescapeByte(s, b, want)
  <2>1. p(i) \in Seq(Byte) /\ b \in Byte /\ p(i + 1) = Append(p(i), b)
    BY <1>1
  <2>2. x \o p(i + 1) = Append(x \o p(i), b) /\ x \o p(i) \in Seq(Byte)
    <3>1. x \o Append(p(i), b) = Append(x \o p(i), b)
      BY <2>1, Regrouped
    <3>2. x \o p(i + 1) = Append(x \o p(i), b)
      BY <2>1, <3>1
    <3> QED BY <2>1, <3>2, Joined
  <2>3. AfterUnescape(x \o p(i + 1), want) = t
    BY <2>1, <2>2, AfterUnescapeAppend
  <2>4. s \in State
    BY <2>2, AfterUnescapeTyped
  <2>5. Extends(a, s.out)
    BY <1>3
  <2> HIDE DEF s, b, a
  <2>6. Extends(s.out, t.out)
    BY <2>1, <2>4, OneByteUnescaped
  <2> DEFINE v == s.out
             w == t.out
  <2>7. u(i + 1) = w
    BY <2>3
  <2>8. Len(a) \in Nat
    <3>1. a \in Seq(Byte)
      BY AfterUnescapeTyped DEF State, a
    <3> QED BY <3>1, LenProperties
  <2>9. Extends(a, v) /\ Extends(v, w)
    BY <2>5, <2>6
  <2> HIDE DEF v, w
  <2>10. Extends(a, w)
    BY <2>8, <2>9 DEF Extends
  <2>11. i + 1 \in 0..n
    BY <1>1
  <2> HIDE DEF u
  <2> QED BY <2>7, <2>10, <2>11
<1>4. n \in T
  <2> HIDE DEF T
  <2>1. \A i \in 0..n : i \in T
    BY <1>1, <1>2, <1>3, Induction
  <2> QED BY <1>1, <2>1
<1>5. Extends(a, AfterUnescape(x \o rest, want).out)
  <2>1. Extends(a, u(n))
    BY <1>4
  <2> QED BY <1>1, <2>1
<1>6. x \o rest \in Seq(Byte)
  BY Joined
<1>7. Unescape(x, want) = a /\ Unescape(x \o rest, want) = AfterUnescape(x \o rest, want).out
  BY <1>6, UnescapeIsFolded
<1> QED BY <1>5, <1>7

(* A record whose first bytes are not the UUID is none. *)
NotUuid(bytes) == \E k \in 1..Len(UUID) : k <= Len(bytes) /\ bytes[k] # UUID[k]

LEMMA OtherUuid ==
    ASSUME NEW bytes \in Seq(Byte), NotUuid(bytes)
    PROVE  ParseRawPayload(bytes) = NoInfo
<1> DEFINE n == Len(UUID)
           head == SubSeq(bytes, 1, n)
<1>1. PICK k \in 1..n : k <= Len(bytes) /\ bytes[k] # UUID[k]
  BY DEF NotUuid
<1>2. n \in Nat /\ Len(bytes) \in Nat /\ PayloadSize \in Nat /\ n <= PayloadSize
  <2>1. SeqBytes \in Nat /\ TimeBytes \in Nat
    BY PayloadAssumption
  <2> QED BY <2>1, PayloadSizeNat, LenProperties DEF PayloadSize
<1>3. CASE Len(bytes) < PayloadSize
  BY <1>3 DEF ParseRawPayload
<1>4. CASE ~(Len(bytes) < PayloadSize)
  <2>1. n <= Len(bytes)
    BY <1>2, <1>4
  <2>2. \A i \in 1..n : bytes[i] \in Byte
    <3>1. \A i \in 1..n : i \in 1..Len(bytes)
      BY <1>2, <2>1
    <3> QED BY <3>1, ElementOfSeq
  <2>3. \A i \in 1..(n - 1 + 1) : head[i] = bytes[1 + i - 1]
    BY <1>2, <2>2, SubSeqProperties
  <2>4. k \in 1..(n - 1 + 1) /\ 1 + k - 1 = k
    BY <1>2
  <2>5. head[k] = bytes[k]
    BY <2>3, <2>4
  <2>6. head # UUID
    BY <1>1, <2>5
  <2> HIDE DEF head
  <2>7. SubSeq(bytes, 1, Len(UUID)) # UUID
    BY <2>6 DEF head
  <2> QED BY <2>7 DEF ParseRawPayload
<1> QED BY <1>3, <1>4

LEMMA UuidBehind ==
    ASSUME NEW x \in Seq(Byte), NEW rest \in Seq(Byte), NEW want \in Nat,
           NotUuid(Unescape(x, want))
    PROVE  ParseRawPayload(Unescape(x \o rest, want)) = NoInfo
<1> DEFINE a == Unescape(x, want)
           b == Unescape(x \o rest, want)
<1>1. Extends(a, b)
  BY UnescapeExtends
<1>2. b \in Seq(Byte)
  <2>1. x \o rest \in Seq(Byte)
    BY Joined
  <2> QED BY <2>1, UnescapeIsFolded, AfterUnescapeTyped DEF State
<1>3. a \in Seq(Byte) /\ Len(a) \in Nat
  <2>1. a \in Seq(Byte)
    BY UnescapeIsFolded, AfterUnescapeTyped DEF State
  <2> QED BY <2>1, LenProperties
<1>4. PICK k \in 1..Len(UUID) : k <= Len(a) /\ a[k] # UUID[k]
  BY DEF NotUuid
<1> HIDE DEF a, b
<1>5. k \in 1..Len(a) /\ k <= Len(b)
  BY <1>1, <1>3, <1>4, PayloadSizeNat DEF Extends
<1>6. b[k] # UUID[k]
  BY <1>1, <1>4, <1>5 DEF Extends
<1>7. NotUuid(b)
  BY <1>4, <1>5, <1>6 DEF NotUuid
<1> QED BY <1>2, <1>7, OtherUuid DEF b

HeaderOf(codec, d, p) == NalStart(d, p) + Len(NalHeader(codec))
TypeOf(codec, d, p, end) == ReadVarUint(d, HeaderOf(codec, d, p), end)
SizeOf(codec, d, p, end) == ReadVarUint(d, TypeOf(codec, d, p, end).next, end)
FarOf(size, end) == Min({end, size.next + 2 * size.value + 7})

LEMMA OtherSeiIs ==
    ASSUME NEW codec, NEW d, NEW p
    PROVE  OtherSei(codec, d, p) <=>
              LET end == NalEnd(d, p)
                  size == SizeOf(codec, d, p, end)
              IN  /\ TypeOf(codec, d, p, end).next # 0 /\ size.next # 0
                  /\ \/ size.value < PayloadSize
                     \/ NotUuid(Unescape(SubSeq(d, size.next, FarOf(size, end)), size.value))
BY DEF OtherSei, SizeOf, TypeOf, HeaderOf, FarOf, NotUuid

(* What either reader makes of a message once its size is read. *)
LEMMA MessageIs ==
    ASSUME NEW codec, NEW d, NEW p, NEW end, NEW strict \in BOOLEAN
    PROVE  LET size == SizeOf(codec, d, p, end)
           IN  \/ Message(codec, d, p, end, strict) = NoInfo
               \/ /\ ~(size.value < PayloadSize)
                  /\ Message(codec, d, p, end, strict) =
                       ParseRawPayload(Unescape(
                          SubSeq(d, size.next, IF strict THEN end ELSE FarOf(size, end)), size.value))
<1> DEFINE type == TypeOf(codec, d, p, end)
           size == SizeOf(codec, d, p, end)
           Bad == \/ end < HeaderOf(codec, d, p) \/ ~IsSei(codec, d[NalStart(d, p)])
                  \/ type.next = 0 \/ size.next = 0
                  \/ size.value < PayloadSize
                  \/ strict /\ (type.value # 5 \/ size.value > PayloadSize + 8)
<1>1. Message(codec, d, p, end, strict) =
        IF Bad THEN NoInfo
        ELSE ParseRawPayload(Unescape(
               SubSeq(d, size.next, IF strict THEN end ELSE FarOf(size, end)), size.value))
  BY Zenon DEF Message, SizeOf, TypeOf, HeaderOf, FarOf
<1>2. ~Bad => ~(size.value < PayloadSize)
  OBVIOUS
<1> HIDE DEF Bad, size, type
<1> QED BY <1>1, <1>2 DEF size

LEMMA HeaderOfNat ==
    ASSUME NEW codec, NEW d \in Seq(Byte), NEW p \in Starts(d)
    PROVE  HeaderOf(codec, d, p) \in Nat /\ HeaderOf(codec, d, p) >= 1
<1>1. CodeAt(d, p) \in {3, 4}
  <2>1. Begins(d, d)
    BY LenProperties DEF Begins
  <2> QED BY <2>1, StartsStay
<1>2. p \in 1..Len(d) /\ Len(d) \in Nat
  BY StartsWithin, LenProperties
<1>3. Len(NalHeader(codec)) \in Nat
  BY DEF NalHeader
<1> DEFINE n == Len(NalHeader(codec))
           c == CodeAt(d, p)
<1>4. HeaderOf(codec, d, p) = p + c + n
  BY DEF HeaderOf, NalStart
<1> HIDE DEF n, c
<1> QED BY <1>1, <1>2, <1>3, <1>4 DEF n, c

(* Neither reader takes another SEI for a stamp. *)
LEMMA OtherSeiUnread ==
    ASSUME NEW codec, NEW d \in Seq(Byte), NEW p \in Starts(d), OtherSei(codec, d, p),
           NEW more \in Nat, NalEnd(d, p) <= more, more <= Len(d), NEW strict \in BOOLEAN
    PROVE  Message(codec, d, p, more, strict) = NoInfo
<1> DEFINE end == NalEnd(d, p)
           at == HeaderOf(codec, d, p)
           type == TypeOf(codec, d, p, end)
           size == SizeOf(codec, d, p, end)
           far == FarOf(size, end)
<1>1. end \in Nat /\ end <= more /\ end <= Len(d) /\ Len(d) \in Nat
  BY EndProperties, LenProperties DEF EndsAt
<1>2. /\ type.next # 0 /\ size.next # 0
      /\ \/ size.value < PayloadSize
         \/ NotUuid(Unescape(SubSeq(d, size.next, far), size.value))
  BY OtherSeiIs
<1>3. at \in Nat /\ at >= 1
  BY HeaderOfNat
<1>4. type.next \in Nat /\ type.next >= 1 /\ TypeOf(codec, d, p, more) = type
  <2>1. FoundSo(d, at, end, more)
    <3> HIDE DEF at, end
    <3>1. at \in Int /\ end \in Int /\ more \in Int
      BY <1>1, <1>3
    <3> QED BY <1>1, <1>3, <3>1, ReadAgain
  <2>2. ReadVarUint(d, at, end) = type /\ ReadVarUint(d, at, more) = TypeOf(codec, d, p, more)
    BY DEF TypeOf
  <2> HIDE DEF type, at, end
  <2> QED BY <1>2, <2>1, <2>2 DEF FoundSo
<1>5. /\ size.next \in Nat /\ size.next >= 1 /\ size.next <= end + 1 /\ size.value \in Int
      /\ SizeOf(codec, d, p, more) = size
  <2> DEFINE to == type.next
  <2>1. FoundSo(d, to, end, more)
    <3>1. to \in Int /\ end \in Int /\ more \in Int /\ to >= 1
      BY <1>1, <1>4
    <3> HIDE DEF to, end
    <3> QED BY <1>1, <3>1, ReadAgain
  <2>2. ReadVarUint(d, to, end) = size /\ ReadVarUint(d, to, more) = SizeOf(codec, d, p, more)
    BY <1>4 DEF SizeOf
  <2> HIDE DEF to, size, end
  <2> QED BY <1>2, <2>1, <2>2 DEF FoundSo
<1> HIDE DEF size, end
<1> DEFINE to == IF strict THEN more ELSE FarOf(size, more)
<1>6. \/ Message(codec, d, p, more, strict) = NoInfo
      \/ /\ ~(size.value < PayloadSize)
         /\ Message(codec, d, p, more, strict) =
              ParseRawPayload(Unescape(SubSeq(d, size.next, to), size.value))
  BY <1>5, MessageIs
<1>7. CASE size.value < PayloadSize
  BY <1>6, <1>7
<1>8. CASE ~(size.value < PayloadSize)
  <2> DEFINE a == size.next
             w == size.value
             lim == size.next + 2 * size.value + 7
  <2>1. w \in Nat /\ a \in Nat /\ a >= 1 /\ a <= end + 1
    BY <1>5, <1>8, PayloadSizeNat
  <2>2. lim \in Nat /\ lim >= a
    BY <2>1
  <2>3. NotUuid(Unescape(SubSeq(d, a, far), w))
    BY <1>2, <1>8
  <2>4. far = Min({end, lim}) /\ FarOf(size, more) = Min({more, lim})
    BY DEF FarOf
  <2> HIDE DEF a, w, lim, far
  <2>5. far \in {end, lim} /\ far <= end /\ far <= lim
    BY <1>1, <2>2, <2>4, MinOfTwo
  <2>6. FarOf(size, more) \in {more, lim} /\ FarOf(size, more) <= more
    BY <1>1, <2>2, <2>4, MinOfTwo
  <2>7. to \in {more, lim} /\ to <= more
    BY <2>6
  <2> HIDE DEF to
  <2>8. /\ far \in Nat /\ far >= a - 1 /\ far <= Len(d) /\ to \in Nat /\ to >= far /\ to <= Len(d)
    BY <1>1, <2>1, <2>2, <2>5, <2>7
  <2> DEFINE x == SubSeq(d, a, far)
             rest == SubSeq(d, far + 1, to)
  <2>9. SubSeq(d, a, to) = x \o rest
    <3>1. a \in 1..(Len(d) + 1) /\ far \in (a - 1)..Len(d) /\ to \in far..Len(d)
      BY <1>1, <2>1, <2>8
    <3> QED BY <3>1, ConcatAdjacentSubSeq
  <2>10. x \in Seq(Byte) /\ rest \in Seq(Byte)
    <3>1. a \in Int /\ far \in Int /\ to \in Int /\ far + 1 \in Int /\ far + 1 >= 1
      BY <2>1, <2>8
    <3> QED BY <2>1, <2>8, <3>1, PartTyped
  <2> HIDE DEF x, rest
  <2>11. ParseRawPayload(Unescape(x \o rest, w)) = NoInfo
    BY <2>1, <2>3, <2>10, UuidBehind DEF x
  <2>12. ParseRawPayload(Unescape(SubSeq(d, size.next, to), size.value)) = NoInfo
    BY <2>9, <2>11 DEF a, w
  <2> QED BY <1>6, <2>12
<1> QED BY <1>7, <1>8

(* What stands behind another SEI changes nothing of it. *)
LEMMA OtherSeiStays ==
    ASSUME NEW codec, NEW x, NEW y, NEW z, JoinOf(x, y, z), Closed(x), Ready(y),
           NEW p \in Starts(x), OtherSei(codec, x, p)
    PROVE  OtherSei(codec, z, p)
<1> DEFINE end == NalEnd(x, p)
           at == HeaderOf(codec, x, p)
           type == TypeOf(codec, x, p, end)
           size == SizeOf(codec, x, p, end)
           far == FarOf(size, end)
<1>1. x \in Seq(Byte) /\ z \in Seq(Byte) /\ Begins(x, z) /\ Len(x) \in Nat
  BY JoinBegins DEF JoinOf
<1>2. NalEnd(z, p) = end
  BY EndsJoined DEF EndsMeet
<1>3. end \in Nat /\ end <= Len(x)
  BY <1>1, EndProperties DEF EndsAt
<1>4. HeaderOf(codec, z, p) = at
  <2>1. CodeAt(z, p) = CodeAt(x, p)
    BY StartsJoined DEF StartsMeet
  <2> QED BY <2>1 DEF HeaderOf, NalStart
<1>5. at \in Nat /\ at >= 1
  BY <1>1, HeaderOfNat
<1>6. /\ type.next # 0 /\ size.next # 0
      /\ \/ size.value < PayloadSize
         \/ NotUuid(Unescape(SubSeq(x, size.next, far), size.value))
  BY OtherSeiIs
<1> HIDE DEF end
<1>7. TypeOf(codec, z, p, end) = type
  <2> HIDE DEF at
  <2>1. at \in Int /\ end \in Int
    BY <1>3, <1>5
  <2>2. ReadVarUint(x, at, end) = ReadVarUint(z, at, end)
    BY <1>1, <1>3, <1>5, <2>1, SameRead
  <2> QED BY <1>4, <2>2 DEF TypeOf, at
<1>8. type.next \in Nat /\ type.next >= 1
  <2>1. FoundSo(x, at, end, end)
    <3> HIDE DEF at
    <3>1. at \in Int /\ end \in Int /\ end <= end
      BY <1>3, <1>5
    <3> QED BY <1>1, <1>3, <1>5, <3>1, ReadAgain
  <2>2. ReadVarUint(x, at, end) = type
    BY DEF TypeOf
  <2> HIDE DEF type, at
  <2> QED BY <1>6, <2>1, <2>2 DEF FoundSo
<1>9. SizeOf(codec, z, p, end) = size
  <2> DEFINE to == type.next
  <2>1. to \in Int /\ end \in Int /\ to >= 1
    BY <1>3, <1>8
  <2> HIDE DEF to
  <2>2. ReadVarUint(x, to, end) = ReadVarUint(z, to, end)
    BY <1>1, <1>3, <2>1, SameRead
  <2> QED BY <1>7, <2>2 DEF SizeOf, to
<1>10. size.next \in Nat /\ size.next >= 1 /\ size.value \in Int
  <2> DEFINE to == type.next
  <2>1. FoundSo(x, to, end, end)
    <3>1. to \in Int /\ end \in Int /\ to >= 1 /\ end <= end
      BY <1>3, <1>8
    <3> HIDE DEF to
    <3> QED BY <1>1, <1>3, <3>1, ReadAgain
  <2>2. ReadVarUint(x, to, end) = size
    BY DEF SizeOf
  <2> HIDE DEF size, to
  <2> QED BY <1>6, <2>1, <2>2 DEF FoundSo
<1> HIDE DEF size, type
<1>11. CASE size.value < PayloadSize
  <2>1. SizeOf(codec, z, p, NalEnd(z, p)) = size /\ TypeOf(codec, z, p, NalEnd(z, p)) = type
    BY <1>2, <1>7, <1>9 DEF end
  <2> QED BY <1>6, <1>11, <2>1, OtherSeiIs
<1>12. CASE ~(size.value < PayloadSize)
  <2> DEFINE a == size.next
             lim == size.next + 2 * size.value + 7
  <2>1. far \in Int /\ far <= Len(x)
    <3>1. lim \in Nat
      BY <1>10, <1>12, PayloadSizeNat
    <3>2. far = Min({end, lim})
      BY DEF FarOf
    <3> HIDE DEF far, lim
    <3>3. far \in Nat /\ far <= end
      BY <1>3, <3>1, <3>2, MinOfTwo
    <3> QED BY <1>1, <1>3, <3>3
  <2>2. a \in Int /\ a >= 1
    BY <1>10
  <2> HIDE DEF a, far
  <2>3. SubSeq(x, a, far) = SubSeq(z, a, far)
    BY <1>1, <2>1, <2>2, SameCut
  <2>4. NotUuid(Unescape(SubSeq(z, size.next, FarOf(size, end)), size.value))
    BY <1>6, <1>12, <2>3 DEF a, far
  <2>5. SizeOf(codec, z, p, NalEnd(z, p)) = size /\ TypeOf(codec, z, p, NalEnd(z, p)) = type
        /\ NalEnd(z, p) = end
    BY <1>2, <1>7, <1>9 DEF end
  <2> QED BY <1>6, <2>4, <2>5, OtherSeiIs
<1> QED BY <1>11, <1>12

-----------------------------------------------------------------------------
(* What the encoder hands over, NAL unit by NAL unit *)

SliceAny(codec) == IF codec = "h264" THEN 1..5 ELSE 0..31
SeiTypes(codec) == IF codec = "h264" THEN {6} ELSE {39, 40}

LEMMA TypesApart ==
    ASSUME NEW codec
    PROVE  /\ NoSlices(codec) \subseteq PrefixTypes(codec)
           /\ ParameterSets(codec) \subseteq NoSlices(codec)
           /\ \A key : SliceTypes(codec, key) \subseteq SliceAny(codec)
           /\ \A t \in SliceAny(codec) : t \notin PrefixTypes(codec) /\ t \notin SeiTypes(codec)
           /\ \A t \in ParameterSets(codec) : t \notin SeiTypes(codec)
           /\ \A t \in NoSlices(codec) \cup SeiTypes(codec) : t \notin SliceAny(codec)
BY DEF NoSlices, PrefixTypes, ParameterSets, SliceTypes, SliceAny, SeiTypes

LEMMA NotEmpty ==
    ASSUME NEW d \in Seq(Byte), NEW p \in Starts(d)
    PROVE  d # <<>>
<1>1. p \in 1..Len(d)
  BY StartsWithin
<1> QED BY <1>1, EmptySeq

(* The NAL units in front of the slices are the prefix. *)
LEMMA PrefixIs ==
    ASSUME NEW codec, NEW x, NEW y, NEW z, JoinOf(x, y, z), y # <<>>,
           NalUnits(codec, x, NoSlices(codec)), NalUnits(codec, y, SliceAny(codec))
    PROVE  PrefixNalBytes(codec, z) = Len(x)
<1> DEFINE n == Len(x)
           Plain(p) == NalType(codec, z[NalStart(z, p)]) \notin PrefixTypes(codec)
           empty == {p \in Starts(z) : NalStart(z, p) > Len(z)}
           first == {p \in Starts(z) \ empty : Plain(p)}
<1>1. /\ x \in Seq(Byte) /\ y \in Seq(Byte) /\ z \in Seq(Byte) /\ n \in Nat /\ Len(y) \in Nat
  BY DEF JoinOf
<1>2. /\ Closed(x) /\ Ready(x) /\ \A p \in Starts(x) : Opens(codec, x, p, NoSlices(codec))
      /\ Closed(y) /\ Ready(y) /\ \A p \in Starts(y) : Opens(codec, y, p, SliceAny(codec))
  BY UnitsClosed
<1>3. /\ UnitsMeet(codec, x, y, z) /\ StartsMeet(x, y, z) /\ Ready(z)
  BY <1>2, UnitsJoined, StartsJoined, ReadyJoined
<1>4. \A p \in Starts(x) : p \in 1..n /\ Opens(codec, z, p, NoSlices(codec))
  BY <1>2, <1>3 DEF UnitsMeet, StartsMeet
<1>5. \A q \in Starts(y) : q \in 1..Len(y) /\ n + q \in Starts(z)
                           /\ Opens(codec, z, n + q, SliceAny(codec))
  BY <1>2, <1>3 DEF UnitsMeet, StartsMeet
<1>6. \A p \in Starts(z) : p \in Starts(x) \/ \E q \in Starts(y) : p = n + q
  BY <1>3 DEF StartsMeet
<1>7. 1 \in Starts(y) /\ n + 1 \in Starts(z)
  BY <1>2, <1>5 DEF Ready
<1>8. CodeAt(z, 1) # 0
  <2>1. z # <<>>
    BY <1>1, <1>7, NotEmpty
  <2>2. 1 \in Starts(z)
    BY <1>3, <2>1 DEF Ready
  <2> QED BY <2>2 DEF Starts
<1>9. \A p \in Starts(z) : p \in Nat /\ NalStart(z, p) \in 1..Len(z)
  <2> TAKE p \in Starts(z)
  <2>1. NalStart(z, p) < NalEnd(z, p)
    <3>1. CASE p \in Starts(x)
      BY <1>4, <3>1 DEF Opens
    <3>2. CASE \E q \in Starts(y) : p = n + q
      BY <1>5, <3>2 DEF Opens
    <3> QED BY <1>6, <3>1, <3>2
  <2>2. p \in 1..Len(z) /\ Len(z) \in Nat
    BY <1>1, StartsWithin, LenProperties
  <2> QED BY <1>1, <2>1, <2>2, HeaderWithin
<1>10. empty = {}
  <2> SUFFICES ASSUME NEW p \in empty PROVE FALSE
    OBVIOUS
  <2> DEFINE a == NalStart(z, p)
  <2>1. p \in Starts(z) /\ a > Len(z)
    OBVIOUS
  <2>2. a \in 1..Len(z) /\ Len(z) \in Nat
    BY <1>1, <1>9, <2>1, LenProperties
  <2> HIDE DEF a
  <2> QED BY <2>1, <2>2
<1>11. n + 1 \in first
  <2>1. NalType(codec, z[NalStart(z, n + 1)]) \in SliceAny(codec)
    BY <1>5, <1>7 DEF Opens
  <2>2. Plain(n + 1)
    BY <2>1, TypesApart
  <2> HIDE DEF empty, Plain
  <2> QED BY <1>7, <1>10, <2>2
<1>12. \A p \in first : p \in Nat /\ n + 1 <= p
  <2> TAKE p \in first
  <2>1. p \in Starts(z) /\ Plain(p)
    OBVIOUS
  <2>2. p \notin Starts(x)
    <3> SUFFICES ASSUME p \in Starts(x) PROVE FALSE
      OBVIOUS
    <3>1. NalType(codec, z[NalStart(z, p)]) \in NoSlices(codec)
      BY <1>4 DEF Opens
    <3> QED BY <2>1, <3>1, TypesApart
  <2>3. PICK q \in Starts(y) : p = n + q
    BY <1>6, <2>1, <2>2
  <2>4. q \in 1..Len(y)
    BY <1>5
  <2> QED BY <1>1, <2>3, <2>4
<1>13. PrefixNalBytes(codec, z) =
         CASE CodeAt(z, 1) = 0 \/ (first = {} /\ empty # {}) -> 0
           [] CodeAt(z, 1) # 0 /\ first # {} -> Min(first) - 1
           [] OTHER -> Len(z)
  BY DEF PrefixNalBytes
<1> HIDE DEF first, empty
<1>14. Min(first) = n + 1
  <2>1. first \subseteq Nat
    BY <1>12
  <2> QED BY <1>11, <1>12, <2>1, MinIs
<1>15. first # {}
  BY <1>11
<1>16. PrefixNalBytes(codec, z) = Min(first) - 1
  BY <1>8, <1>10, <1>13, <1>15
<1>17. PrefixNalBytes(codec, z) = n
  BY <1>1, <1>14, <1>16
<1> QED BY <1>17 DEF n

(* The SEI of a stamp is one NAL unit. *)
LEMMA StampIsUnit ==
    ASSUME NEW codec \in Codecs, NEW info \in Infos, Fits(info), PlainSize
    PROVE  LET nal == BuildNal(codec, info)
           IN  /\ nal \in Seq(Byte) /\ NalUnits(codec, nal, SeiTypes(codec))
               /\ Starts(nal) = {1} /\ Len(nal) \in Nat /\ Len(nal) >= 7
<1> DEFINE nal == BuildNal(codec, info)
           n == Len(nal)
<1>1. nal \in Seq(Byte) /\ Stands(SeiHead(codec), nal, 0)
  BY BuildNalLayout
<1>2. n \in Nat /\ n >= 5 /\ nal[n] = 128
  BY BuildNalEnds
<1> HIDE DEF nal
<1>3. Stands(nal, nal, 0)
  <2>1. \A i \in 1..n : nal[0 + i] = nal[i]
    OBVIOUS
  <2>2. 0 \in Nat /\ 0 + n <= n
    BY <1>2
  <2> QED BY <1>1, <2>1, <2>2 DEF Stands
<1>4. 0 + 1 = 1 /\ 0 + 5 = 5
  OBVIOUS
<1>5. 1 \in Starts(nal)
  <2>1. ReadAt(codec, nal, 0 + 1, info)
    BY <1>3, StandingIsRead DEF nal
  <2> QED BY <1>4, <2>1 DEF ReadAt
<1>6. NalEnd(nal, 1) = n
  <2>1. NalEnd(nal, 0 + 1) \in Nat /\ NalEnd(nal, 0 + 1) <= n /\ NalEnd(nal, 0 + 1) >= 0 + n
    BY <1>3, EndsBehind DEF nal, n
  <2> DEFINE e == NalEnd(nal, 1)
  <2>2. e \in Nat /\ e <= n /\ e >= n
    BY <1>2, <1>4, <2>1
  <2> HIDE DEF e
  <2>3. e = n
    BY <1>2, <2>2
  <2> QED BY <2>3 DEF e
<1>7. ASSUME NEW q \in Starts(nal) PROVE q = 1
  <2>1. q \in 1..n
    BY <1>1, StartsWithin
  <2>2. q > 1 => q > n
    BY <1>1, <1>5, <1>6, EndProperties DEF EndsAt
  <2> QED BY <1>2, <2>1, <2>2
<1>8. Starts(nal) = {1}
  BY <1>5, <1>7
<1>9. NalStart(nal, 1) = 5 /\ IsSei(codec, nal[5])
  BY <1>1, <1>4, SeiRecognised
<1>10. n >= 7
  <2>1. 0 + Len(SeiHead(codec)) <= n
    BY <1>1 DEF Stands
  <2>2. Len(SeiHead(codec)) = 4 + Len(NalHeader(codec)) + Len(VarUint(5)) + Len(VarUint(PayloadSize))
    BY SeiHeadProperties
  <2>3. Len(NalHeader(codec)) \in Nat /\ Len(NalHeader(codec)) >= 1
    BY DEF NalHeader
  <2>4. Len(VarUint(5)) \in Nat /\ Len(VarUint(5)) >= 1
        /\ Len(VarUint(PayloadSize)) \in Nat /\ Len(VarUint(PayloadSize)) >= 1
    <3>1. \A v \in Nat : v \div 255 \in Nat
      OBVIOUS
    <3>2. \A v \in Nat : Len(VarUint(v)) = (v \div 255) + 1
      BY VarUintTyped
    <3>3. \A v \in Nat : Len(VarUint(v)) \in Nat /\ Len(VarUint(v)) >= 1
      BY <3>1, <3>2
    <3> QED BY <3>3, PayloadSizeNat
  <2> QED BY <1>2, <2>1, <2>2, <2>3, <2>4
<1>11. NalStart(nal, 1) < NalEnd(nal, 1) /\ NalType(codec, nal[NalStart(nal, 1)]) \in SeiTypes(codec)
  <2>1. 5 < n
    BY <1>2, <1>10
  <2> QED BY <1>6, <1>9, <2>1 DEF IsSei, SeiTypes
<1>12. NalUnits(codec, nal, SeiTypes(codec))
  BY <1>2, <1>8, <1>11 DEF NalUnits, n
<1> QED BY <1>1, <1>2, <1>8, <1>10, <1>12 DEF nal

Unread(codec, d, p) ==
    /\ Message(codec, d, p, Len(d), TRUE) = NoInfo
    /\ Message(codec, d, p, NalEnd(d, p), FALSE) = NoInfo

LEMMA NoSeiUnread ==
    ASSUME NEW codec, NEW d, NEW p, NEW types, Opens(codec, d, p, types),
           \A t \in types : t \notin SeiTypes(codec)
    PROVE  Unread(codec, d, p)
<1>1. ~IsSei(codec, d[NalStart(d, p)])
  BY DEF Opens, IsSei, SeiTypes
<1>2. \A end, strict : Message(codec, d, p, end, strict) = NoInfo
  BY <1>1, Zenon DEF Message
<1> QED BY <1>2 DEF Unread

(* Other SEI among NAL units that are no slices. *)
OthersOnly(codec, d) ==
    \A p \in Starts(d) : IsSei(codec, d[NalStart(d, p)]) => OtherSei(codec, d, p)

LEMMA OthersUnread ==
    ASSUME NEW codec, NEW x, NEW y, NEW z, JoinOf(x, y, z), NEW types, NalUnits(codec, x, types),
           OthersOnly(codec, x), Ready(y), NEW p \in Starts(x)
    PROVE  Unread(codec, z, p)
<1> DEFINE t == NalType(codec, x[NalStart(x, p)])
<1>1. Closed(x) /\ Opens(codec, x, p, types) /\ x \in Seq(Byte) /\ z \in Seq(Byte)
  BY UnitsClosed DEF JoinOf
<1>2. UnitsMeet(codec, x, y, z) /\ StartsMeet(x, y, z)
  BY <1>1, UnitsJoined, StartsJoined
<1>3. Opens(codec, x, p, {t})
  BY <1>1 DEF Opens
<1>4. Opens(codec, z, p, {t}) /\ p \in Starts(z)
  BY <1>2, <1>3 DEF UnitsMeet, StartsMeet
<1>5. CASE t \notin SeiTypes(codec)
  BY <1>4, <1>5, NoSeiUnread
<1>6. CASE t \in SeiTypes(codec)
  <2>1. IsSei(codec, x[NalStart(x, p)])
    BY <1>6 DEF IsSei, SeiTypes
  <2>2. OtherSei(codec, z, p)
    BY <1>1, <2>1, OtherSeiStays DEF OthersOnly
  <2> DEFINE end == NalEnd(z, p)
             len == Len(z)
  <2>3. end \in Nat /\ end <= end /\ end <= len /\ len \in Nat /\ len <= len
    BY <1>1, <1>4, EndProperties, LenProperties DEF EndsAt
  <2>4. Message(codec, z, p, len, TRUE) = NoInfo
    BY <1>1, <1>4, <2>2, <2>3, OtherSeiUnread
  <2>5. Message(codec, z, p, end, FALSE) = NoInfo
    BY <1>1, <1>4, <2>2, <2>3, OtherSeiUnread
  <2> QED BY <2>4, <2>5 DEF Unread
<1> QED BY <1>5, <1>6

(* NAL units, the SEI of a stamp, and slices. *)
Laid(codec, info, x, y) ==
    /\ x \in Seq(Byte) /\ NalUnits(codec, x, NoSlices(codec)) /\ OthersOnly(codec, x)
    /\ y \in Seq(Byte) /\ NalUnits(codec, y, SliceAny(codec))

Stamped(codec, info, d, s) ==
    /\ ReadAt(codec, d, s, info) /\ Opens(codec, d, s, SeiTypes(codec)) /\ Len(d) - s >= 4
    /\ \A p \in Starts(d) : /\ p < s => Opens(codec, d, p, NoSlices(codec))
                            /\ p > s => Opens(codec, d, p, SliceAny(codec))
                            /\ p # s => Unread(codec, d, p)

LEMMA StampedAt ==
    ASSUME NEW codec \in Codecs, NEW info \in Infos, Fits(info), PlainSize,
           NEW x, NEW y, Laid(codec, info, x, y)
    PROVE  Stamped(codec, info, (x \o BuildNal(codec, info)) \o y, Len(x) + 1)
<1> DEFINE nal == BuildNal(codec, info)
           w == x \o nal
           z == w \o y
           n == Len(x)
           k == Len(nal)
           s == n + 1
<1>1. /\ x \in Seq(Byte) /\ NalUnits(codec, x, NoSlices(codec)) /\ OthersOnly(codec, x)
      /\ y \in Seq(Byte) /\ NalUnits(codec, y, SliceAny(codec))
  BY DEF Laid
<1>2. /\ nal \in Seq(Byte) /\ NalUnits(codec, nal, SeiTypes(codec)) /\ Starts(nal) = {1}
      /\ k \in Nat /\ k >= 7
  BY StampIsUnit
<1>3. Stands(nal, w, n) /\ Stands(nal, z, n) /\ w \in Seq(Byte)
  BY <1>1, <1>2, Joined, StandsLast, StandsKept
<1>4. ReadAt(codec, z, n + 1, info)
  BY <1>3, StandingIsRead
<1> HIDE DEF nal
<1>5. JoinOf(x, nal, w) /\ JoinOf(w, y, z)
  BY <1>1, <1>2, <1>3, JoinIs
<1> HIDE DEF w, z
<1>6. /\ n \in Nat /\ Len(y) \in Nat /\ Len(w) = n + k /\ Len(z) = (n + k) + Len(y)
      /\ x \in Seq(Byte) /\ z \in Seq(Byte)
  BY <1>5 DEF JoinOf
<1> HIDE DEF n, k
<1>7. /\ Closed(x) /\ \A p \in Starts(x) : Opens(codec, x, p, NoSlices(codec))
      /\ Closed(nal) /\ Ready(nal) /\ \A p \in Starts(nal) : Opens(codec, nal, p, SeiTypes(codec))
      /\ Closed(w) /\ Ready(y) /\ \A p \in Starts(y) : Opens(codec, y, p, SliceAny(codec))
  <2>1. /\ Closed(x) /\ \A p \in Starts(x) : Opens(codec, x, p, NoSlices(codec))
        /\ Closed(nal) /\ Ready(nal)
        /\ \A p \in Starts(nal) : Opens(codec, nal, p, SeiTypes(codec))
        /\ Ready(y) /\ \A p \in Starts(y) : Opens(codec, y, p, SliceAny(codec))
    BY <1>1, <1>2, UnitsClosed
  <2> QED BY <1>5, <2>1, ClosedJoined
<1>8. /\ UnitsMeet(codec, x, nal, w) /\ StartsMeet(x, nal, w)
      /\ UnitsMeet(codec, w, y, z) /\ StartsMeet(w, y, z)
  BY <1>5, <1>7, UnitsJoined, StartsJoined
<1>9. \A p \in Starts(x) : p \in 1..n /\ p \in Starts(z) /\ Opens(codec, z, p, NoSlices(codec))
  BY <1>7, <1>8 DEF UnitsMeet, StartsMeet, n
<1>10. s \in Starts(w) /\ Opens(codec, w, s, SeiTypes(codec))
  BY <1>2, <1>7, <1>8 DEF UnitsMeet, StartsMeet, n
<1>11. s \in Starts(z) /\ Opens(codec, z, s, SeiTypes(codec))
  BY <1>8, <1>10 DEF UnitsMeet, StartsMeet
<1>12. \A q \in Starts(y) : q \in 1..Len(y) /\ Opens(codec, z, (n + k) + q, SliceAny(codec))
  BY <1>6, <1>7, <1>8 DEF UnitsMeet, StartsMeet
<1>13. \A p \in Starts(z) : \/ p \in Starts(x) \/ p = s
                            \/ \E q \in Starts(y) : p = (n + k) + q
  <2> TAKE p \in Starts(z)
  <2>1. CASE p \in Starts(w)
    <3>1. p \in Starts(x) \/ \E q \in {1} : p = n + q
      BY <1>2, <1>8, <2>1 DEF StartsMeet, n
    <3> QED BY <3>1
  <2>2. CASE \E q \in Starts(y) : p = Len(w) + q
    BY <1>6, <2>2
  <2> QED BY <1>8, <2>1, <2>2 DEF StartsMeet
<1>14. \A p \in Starts(x) : Unread(codec, z, p)
  <2> DEFINE r == nal \o y
  <2>1. JoinOf(nal, y, r) /\ r \in Seq(Byte)
    BY <1>1, <1>2, JoinIs, Joined
  <2>2. z = x \o r
    BY <1>1, <1>2, Associative DEF z, w
  <2>3. Ready(r)
    <3> HIDE DEF r
    <3> QED BY <1>7, <2>1, ReadyJoined
  <2> HIDE DEF r
  <2>4. JoinOf(x, r, z)
    BY <1>1, <2>1, <2>2, JoinIs
  <2> QED BY <1>1, <2>3, <2>4, OthersUnread
<1>15. ASSUME NEW p \in Starts(z)
       PROVE  /\ p < s => Opens(codec, z, p, NoSlices(codec))
              /\ p > s => Opens(codec, z, p, SliceAny(codec))
              /\ p # s => Unread(codec, z, p)
  <2>1. CASE p \in Starts(x)
    <3>1. p \in 1..n
      BY <1>9, <2>1
    <3>2. p < s
      BY <1>6, <3>1
    <3>3. ~(p > s)
      BY <1>6, <3>1
    <3> QED BY <1>9, <1>14, <2>1, <3>2, <3>3
  <2>2. CASE p = s
    <3>1. ~(p < s) /\ ~(p > s)
      BY <1>6, <2>2
    <3> QED BY <2>2, <3>1
  <2>3. CASE \E q \in Starts(y) : p = (n + k) + q
    <3>1. PICK q \in Starts(y) : p = (n + k) + q
      BY <2>3
    <3>2. q \in 1..Len(y) /\ Opens(codec, z, p, SliceAny(codec))
      BY <1>12, <3>1
    <3>3. Unread(codec, z, p)
      BY <3>2, NoSeiUnread, TypesApart
    <3>4. ~(p < s)
      BY <1>2, <1>6, <3>1, <3>2
    <3> QED BY <3>2, <3>3, <3>4
  <2> QED BY <1>13, <2>1, <2>2, <2>3
<1>16. Len(z) - s >= 4
  BY <1>2, <1>6
<1> HIDE DEF s
<1>17. ReadAt(codec, z, s, info)
  BY <1>4 DEF s
<1>18. Stamped(codec, info, z, s)
  BY <1>11, <1>15, <1>16, <1>17 DEF Stamped
<1> QED BY <1>18 DEF s, n, z, w, nal

LEMMA FirstStamp ==
    ASSUME NEW codec, NEW info, info # NoInfo, NEW d \in Seq(Byte), NEW s, Stamped(codec, info, d, s)
    PROVE  ParseFromAccessUnit(codec, d) = info
<1> DEFINE Record(p) == Message(codec, d, p, Len(d), TRUE)
           found == {p \in Starts(d) : Len(d) - p >= 4 /\ Record(p) # NoInfo}
<1>1. /\ s \in Starts(d) /\ Record(s) = info /\ Len(d) - s >= 4
      /\ \A p \in Starts(d) : p # s => Record(p) = NoInfo
  BY DEF Stamped, ReadAt, Unread
<1>2. found = {s}
  BY <1>1
<1>3. s \in Nat
  BY <1>1, StartsWithin
<1>4. Min({s}) = s
  <2> DEFINE T == {s}
  <2>1. T \subseteq Nat /\ s \in T /\ \A y \in T : s <= y
    BY <1>3
  <2> HIDE DEF Record, found, T
  <2>2. Min(T) = s
    BY <2>1, MinIs
  <2> QED BY <2>2 DEF T
<1>5. ParseFromAccessUnit(codec, d) = IF found = {} THEN NoInfo ELSE Record(Min(found))
  BY DEF ParseFromAccessUnit
<1> HIDE DEF Record, found
<1>6. found # {} /\ Min(found) = s
  BY <1>2, <1>4
<1> QED BY <1>1, <1>5, <1>6

(* Of sequences of which all but one are empty. *)
LEMMA OnlyOne ==
    ASSUME NEW S, NEW u \in Seq(S), NEW n \in Nat, NEW s \in 1..n
    PROVE  FlattenSeq([p \in 1..n |-> IF p = s THEN u ELSE <<>>]) = u
<1> DEFINE seqs == [p \in 1..n |-> IF p = s THEN u ELSE <<>>]
           at(i) == FlattenSeq(First(seqs, i))
           T == {i \in 0..n : at(i) = IF i < s THEN <<>> ELSE u}
<1>1. \A p \in 1..n : seqs[p] = IF p = s THEN u ELSE <<>>
  OBVIOUS
<1>2. <<>> \in Seq(S)
  BY EmptySeq
<1>3. seqs \in Seq(Seq(S))
  <2>1. \A p \in 1..n : (IF p = s THEN u ELSE <<>>) \in Seq(S)
    BY <1>2
  <2> QED BY <2>1, IsASeq
<1>4. Len(seqs) = n
  BY <1>3, LenProperties
<1> HIDE DEF seqs
<1>5. First(seqs, 0) = <<>> /\ First(seqs, n) = seqs
      /\ \A i \in 0..(n - 1) :
            /\ First(seqs, i) \in Seq(Seq(S)) /\ seqs[i + 1] \in Seq(S)
            /\ First(seqs, i + 1) = Append(First(seqs, i), seqs[i + 1])
  BY <1>3, <1>4, OneMore
<1>6. 0 \in T
  <2>1. FlattenSeq(<<>>) = <<>>
    BY DEF FlattenSeq
  <2> QED BY <1>5, <2>1
<1>7. ASSUME NEW i \in 0..(n - 1), i \in T PROVE i + 1 \in T
  <2>1. at(i + 1) = at(i) \o seqs[i + 1]
    BY <1>5, FlattenAppend
  <2>2. i + 1 \in 1..n /\ i + 1 \in 0..n /\ i \in Nat
    OBVIOUS
  <2>3. at(i) = IF i < s THEN <<>> ELSE u
    BY <1>7
  <2>4. seqs[i + 1] = IF i + 1 = s THEN u ELSE <<>>
    BY <1>1, <2>2
  <2>5. <<>> \o u = u /\ u \o <<>> = u /\ <<>> \o <<>> = <<>>
    BY <1>2, ConcatEmptySeq
  <2> HIDE DEF at
  <2>6. CASE i + 1 = s
    <3>1. i < s /\ ~(i + 1 < s)
      BY <2>2, <2>6
    <3>2. at(i + 1) = u
      BY <2>1, <2>3, <2>4, <2>5, <2>6, <3>1
    <3> QED BY <2>2, <3>1, <3>2
  <2>7. CASE i + 1 # s /\ i < s
    <3>1. i + 1 < s
      BY <2>2, <2>7
    <3>2. at(i + 1) = <<>>
      BY <2>1, <2>3, <2>4, <2>5, <2>7
    <3> QED BY <2>2, <3>1, <3>2
  <2>8. CASE i + 1 # s /\ ~(i < s)
    <3>1. ~(i + 1 < s)
      BY <2>2, <2>8
    <3>2. at(i + 1) = u
      BY <2>1, <2>3, <2>4, <2>5, <2>8
    <3> QED BY <2>2, <3>1, <3>2
  <2> QED BY <2>6, <2>7, <2>8
<1>8. n \in T
  <2> HIDE DEF T
  <2>1. \A i \in 0..n : i \in T
    BY <1>6, <1>7, Induction
  <2> QED BY <2>1
<1>9. at(n) = u
  <2>1. ~(n < s)
    OBVIOUS
  <2> QED BY <1>8, <2>1
<1> QED BY <1>5, <1>9 DEF seqs

(* The Python reader yields one record, that of the stamp. *)
LEMMA OnlyStamp ==
    ASSUME NEW codec, NEW info, info # NoInfo, NEW d \in Seq(Byte), NEW s, Stamped(codec, info, d, s)
    PROVE  ParseAccessUnitPython(codec, d) = <<info>>
<1> DEFINE Record(p) == Message(codec, d, p, NalEnd(d, p), FALSE)
           found == {p \in Starts(d) : Record(p) # NoInfo}
           n == Len(d)
<1>1. /\ s \in Starts(d) /\ Record(s) = info
      /\ \A p \in Starts(d) : p # s => Record(p) = NoInfo
  BY DEF Stamped, ReadAt, Unread
<1>2. found = {s}
  BY <1>1
<1>3. DOMAIN d = 1..n /\ n \in Nat /\ s \in 1..n
  BY <1>1, StartsWithin, LenProperties
<1>4. [p \in DOMAIN d |-> IF p \in found THEN <<Record(p)>> ELSE <<>>]
        = [p \in 1..n |-> IF p = s THEN <<info>> ELSE <<>>]
  <2> HIDE DEF Record, found
  <2> QED BY <1>1, <1>2, <1>3
<1>5. ParseAccessUnitPython(codec, d) =
        FlattenSeq([p \in DOMAIN d |-> IF p \in found THEN <<Record(p)>> ELSE <<>>])
  BY DEF ParseAccessUnitPython
<1> HIDE DEF Record, found, n
<1>6. <<info>> \in Seq({info})
  OBVIOUS
<1>7. FlattenSeq([p \in 1..n |-> IF p = s THEN <<info>> ELSE <<>>]) = <<info>>
  BY <1>3, <1>6, OnlyOne
<1> QED BY <1>4, <1>5, <1>7, Zenon

(* Parameter sets behind what the codec made add no SEI. *)
LEMMA OthersJoined ==
    ASSUME NEW codec, NEW x, NEW y, NEW z, JoinOf(x, y, z), NEW types, NalUnits(codec, x, types),
           OthersOnly(codec, x), NalUnits(codec, y, ParameterSets(codec))
    PROVE  OthersOnly(codec, z)
<1>1. /\ Closed(x) /\ \A p \in Starts(x) : Opens(codec, x, p, types)
      /\ Ready(y) /\ \A p \in Starts(y) : Opens(codec, y, p, ParameterSets(codec))
  BY UnitsClosed
<1>2. UnitsMeet(codec, x, y, z) /\ StartsMeet(x, y, z)
  BY <1>1, UnitsJoined, StartsJoined
<1> SUFFICES ASSUME NEW p \in Starts(z), IsSei(codec, z[NalStart(z, p)])
             PROVE  OtherSei(codec, z, p)
  BY DEF OthersOnly
<1>3. CASE p \in Starts(x)
  <2> DEFINE t == NalType(codec, x[NalStart(x, p)])
  <2>1. Opens(codec, x, p, {t})
    BY <1>1, <1>3 DEF Opens
  <2>2. Opens(codec, z, p, {t})
    BY <1>2, <1>3, <2>1 DEF UnitsMeet
  <2>3. NalType(codec, z[NalStart(z, p)]) = t
    BY <2>2 DEF Opens
  <2>4. IsSei(codec, x[NalStart(x, p)])
    BY <2>3 DEF IsSei
  <2>5. OtherSei(codec, x, p)
    BY <1>3, <2>4 DEF OthersOnly
  <2> QED BY <1>1, <1>3, <2>5, OtherSeiStays
<1>4. CASE \E q \in Starts(y) : p = Len(x) + q
  <2>1. PICK q \in Starts(y) : p = Len(x) + q
    BY <1>4
  <2>2. Opens(codec, z, p, ParameterSets(codec))
    BY <1>1, <1>2, <2>1 DEF UnitsMeet
  <2>3. NalType(codec, z[NalStart(z, p)]) \notin SeiTypes(codec)
    BY <2>2, TypesApart DEF Opens
  <2> QED BY <2>3 DEF IsSei, SeiTypes
<1> QED BY <1>2, <1>3, <1>4 DEF StartsMeet

-----------------------------------------------------------------------------
(* Packets *)

(* What stands in front of the stamp, and what behind it. *)
Ahead(v, f) ==
    f.before \o (IF f.info.key /\ Headers(v) # NotRecognised THEN InlineSets(v) ELSE <<>>)
Picture(f) == FlattenSeq(f.slices)

Assembled(v, i) ==
    LET f == v.frames[i]
    IN  /\ Packets(v)[i] = (Ahead(v, f) \o BuildNal(v.codec, f.info)) \o Picture(f)
        /\ Laid(v.codec, f.info, Ahead(v, f), Picture(f))

LEMMA InlineSetsTyped ==
    ASSUME NEW v, WellFormed(v)
    PROVE  InlineSets(v) \in Seq(Byte)
<1>1. v.sets \in Seq(Units)
  BY BlobTyped DEF WellFormed
<1>2. InlineSets(v) = Forms(WithCode, v.sets)
  BY <1>1, CodeIsForms DEF InlineSets
<1>3. WithCode \in [Units -> Seq(Byte)]
  BY WithTyped
<1>4. Forms(WithCode, v.sets) \in Seq(Byte)
  BY <1>1, <1>3, FormsBySteps
<1> QED BY <1>2, <1>4

LEMMA PictureTyped ==
    ASSUME NEW codec, NEW key, NEW slices \in Seq(Seq(Byte)), slices # <<>>,
           \A j \in DOMAIN slices : NalUnits(codec, slices[j], SliceTypes(codec, key))
                                    /\ Starts(slices[j]) = {1}
    PROVE  /\ FlattenSeq(slices) \in Seq(Byte) /\ FlattenSeq(slices) # <<>>
           /\ NalUnits(codec, FlattenSeq(slices), SliceAny(codec))
<1> DEFINE n == Len(slices)
           d == FlattenSeq(slices)
<1>1. DOMAIN slices = 1..n /\ n \in Nat /\ d \in Seq(Byte)
  BY LenProperties, FlattenTyped
<1>2. NalUnits(codec, d, SliceAny(codec))
  <2>1. NalUnits(codec, d, SliceTypes(codec, key))
    BY <1>1, NalUnitsFlat
  <2> QED BY <2>1, NalUnitsMore, TypesApart
<1>3. d # <<>>
  <2>1. n # 0
    BY EmptySeq
  <2> DEFINE i == n - 1
             x == FlattenSeq(First(slices, i))
             y == slices[n]
  <2>2. i \in 0..(n - 1) /\ i + 1 = n /\ n \in 1..n
    BY <1>1, <2>1
  <2>3. First(slices, n) = slices /\ First(slices, i) \in Seq(Seq(Byte)) /\ slices[n] \in Seq(Byte)
        /\ First(slices, n) = Append(First(slices, i), slices[n])
    <3> HIDE DEF i
    <3>1. First(slices, n) = slices /\ First(slices, i) \in Seq(Seq(Byte)) /\ slices[i + 1] \in Seq(Byte)
          /\ First(slices, i + 1) = Append(First(slices, i), slices[i + 1])
      BY <1>1, <2>2, OneMore
    <3> QED BY <2>2, <3>1
  <2>4. d = x \o y /\ x \in Seq(Byte)
    BY <2>3, FlattenAppend, FlattenTyped
  <2>5. 1 \in Starts(y)
    BY <1>1, <2>2
  <2> HIDE DEF x, y, d
  <2>6. y \in Seq(Byte)
    BY <2>3 DEF y
  <2>7. 1 \in 1..Len(y)
    BY <2>5, StartsWithin
  <2>8. Len(d) = Len(x) + Len(y) /\ Len(x) \in Nat /\ Len(y) \in Nat
    BY <2>4, <2>6, Joined, LenProperties
  <2>9. Len(d) # 0
    BY <2>7, <2>8
  <2> QED BY <1>1, <2>9, EmptySeq DEF d
<1> QED BY <1>1, <1>2, <1>3

LEMMA PacketIs ==
    ASSUME NEW v \in Videos, WellFormed(v), CodecMakes(v), NEW i \in DOMAIN v.frames
    PROVE  Assembled(v, i)
<1> DEFINE f == v.frames[i]
           codec == v.codec
           x == f.before
           y == Picture(f)
           c == BuildNal(codec, f.info)
           sets == IF f.info.key /\ Headers(v) # NotRecognised THEN InlineSets(v) ELSE <<>>
           headers == Headers(v)
<1>1. /\ f.info \in Infos /\ f.packet \in Seq(Byte) /\ x \in Seq(Byte)
      /\ f.slices \in Seq(Seq(Byte))
  BY VideoTyped
<1>2. PictureMade(v, f) /\ NalUnits(codec, InlineSets(v), ParameterSets(codec))
  BY DEF CodecMakes
<1>3. /\ f.packet = x \o y /\ NalUnits(codec, x, NoSlices(codec)) /\ OthersOnly(codec, x)
      /\ f.slices # <<>>
      /\ \A j \in DOMAIN f.slices : NalUnits(codec, f.slices[j], SliceTypes(codec, f.info.key))
                                    /\ Starts(f.slices[j]) = {1}
  BY <1>2 DEF PictureMade, OthersOnly, Picture
<1>4. y \in Seq(Byte) /\ y # <<>> /\ NalUnits(codec, y, SliceAny(codec))
  BY <1>1, <1>3, PictureTyped DEF Picture
<1>5. sets \in Seq(Byte) /\ NalUnits(codec, sets, ParameterSets(codec))
  <2>1. InlineSets(v) \in Seq(Byte) /\ <<>> \in Seq(Byte)
    BY InlineSetsTyped, EmptySeq
  <2>2. NalUnits(codec, <<>>, ParameterSets(codec))
    BY NoUnits
  <2> QED BY <1>2, <2>1, <2>2
<1>6. c \in Seq(Byte)
  BY <1>1, BuildNalClean
<1>7. Packets(v)[i] = AssemblePacket(codec, f.packet, headers, f.info)
  BY DEF Packets
<1>8. headers # NotRecognised => headers = InlineSets(v)
  BY HeadersOf
<1> DEFINE inline == IF f.info.key /\ headers # NotRecognised THEN headers ELSE <<>>
<1>9. inline = sets
  BY <1>8
<1>10. Ahead(v, f) = x \o sets
  BY DEF Ahead
<1> DEFINE prefix == PrefixNalBytes(codec, f.packet)
<1>11. AssemblePacket(codec, f.packet, headers, f.info)
         = SubSeq(f.packet, 1, prefix) \o inline
             \o c \o SubSeq(f.packet, prefix + 1, Len(f.packet))
  BY DEF AssemblePacket
<1> HIDE DEF sets, x, y, c, headers, codec, inline
<1>12. JoinOf(x, y, x \o y)
  BY <1>1, <1>4, JoinIs
<1>13. PrefixNalBytes(codec, x \o y) = Len(x)
  BY <1>3, <1>4, <1>12, PrefixIs
<1>14. prefix = Len(x)
  BY <1>3, <1>13
<1> HIDE DEF prefix
<1>15. SubSeq(x \o y, 1, Len(x)) = x /\ SubSeq(x \o y, Len(x) + 1, Len(x \o y)) = y
  <2> DEFINE d == x \o y
  <2>1. Stands(x, d, 0) /\ Stands(y, d, Len(x))
    BY <1>1, <1>4, StandsLast
  <2>2. Len(d) = Len(x) + Len(y) /\ Len(x) \in Nat /\ Len(y) \in Nat
    BY <1>1, <1>4, Joined, LenProperties
  <2> HIDE DEF d
  <2> DEFINE n == Len(x)
             m == Len(d)
             l == n + 1
  <2>3. 1 \in Int /\ n \in Int /\ l \in Int /\ m \in Int
        /\ 1 = 0 + 1 /\ n = 0 + Len(x) /\ l = n + 1 /\ m = n + Len(y)
    BY <2>2
  <2> HIDE DEF n, m, l
  <2>4. SubSeq(d, 1, n) = x
    BY <2>1, <2>3, StandsFromTo
  <2>5. SubSeq(d, l, m) = y
    <3>1. Stands(y, d, n)
      BY <2>1 DEF n
    <3>2. l \in Int /\ m \in Int /\ l = n + 1 /\ m = n + Len(y)
      BY <2>3
    <3> QED BY <3>1, <3>2, StandsFromTo
  <2> QED BY <2>4, <2>5 DEF d, n, m, l
<1>16. Packets(v)[i] = ((x \o sets) \o c) \o y
  <2> DEFINE w == f.packet
             a == SubSeq(w, 1, prefix)
             b == SubSeq(w, prefix + 1, Len(w))
  <2>1. Packets(v)[i] = ((a \o sets) \o c) \o b
    BY <1>7, <1>9, <1>11
  <2>2. w = x \o y
    BY <1>3
  <2> HIDE DEF w
  <2>3. a = x /\ b = y
    BY <1>14, <1>15, <2>2
  <2> HIDE DEF a, b
  <2> QED BY <2>1, <2>3
<1>17. Laid(codec, f.info, x \o sets, y)
  <2> DEFINE w == x \o sets
  <2>1. JoinOf(x, sets, w) /\ w \in Seq(Byte)
    BY <1>1, <1>5, JoinIs, Joined
  <2> HIDE DEF w
  <2>2. NalUnits(codec, sets, NoSlices(codec))
    BY <1>5, NalUnitsMore, TypesApart
  <2>3. NalUnits(codec, w, NoSlices(codec))
    BY <1>3, <2>1, <2>2, NalUnitsJoined
  <2>4. OthersOnly(codec, w)
    BY <1>3, <1>5, <2>1, OthersJoined
  <2> QED BY <1>4, <2>1, <2>3, <2>4 DEF Laid, w
<1> QED BY <1>10, <1>16, <1>17 DEF Assembled, y, c, codec

LEMMA PacketStamped ==
    ASSUME PlainSize, NEW v \in Videos, WellFormed(v), CodecMakes(v), NEW i \in DOMAIN v.frames,
           Fits(v.frames[i].info)
    PROVE  /\ Packets(v)[i] \in Seq(Byte) /\ v.frames[i].info # NoInfo
           /\ \E s : Stamped(v.codec, v.frames[i].info, Packets(v)[i], s)
<1> DEFINE f == v.frames[i]
           d == Packets(v)[i]
           x == Ahead(v, f)
           y == Picture(f)
           codec == v.codec
           info == f.info
           s == Len(x) + 1
<1>1. codec \in Codecs /\ info \in Infos /\ info # NoInfo
  BY VideoTyped
<1>2. d = (x \o BuildNal(codec, info)) \o y /\ Laid(codec, info, x, y)
  BY PacketIs DEF Assembled
<1>3. d \in Seq(Byte)
  <2>1. DOMAIN Packets(v) = DOMAIN v.frames
    BY DEF Packets
  <2>2. Packets(v) \in Seq(Seq(Byte))
    BY StreamTyped
  <2> QED BY <2>1, <2>2, LenProperties, ElementOfSeq
<1>4. Fits(info)
  OBVIOUS
<1> HIDE DEF d, x, y, codec, info
<1>5. Stamped(codec, info, d, s)
  BY <1>1, <1>2, <1>4, StampedAt
<1> QED BY <1>1, <1>3, <1>5 DEF d, codec, info

(* The stamp that either reader finds in a packet is the one the encoder put in,
   and the Python reader finds no other: whatever SEI the codec made itself, none
   of it a stamp, in front of the slices, for H.264 and HEVC, key frames and
   others, with and without parameter sets.                                   *)
THEOREM Spec_ReadersAgree ==
    ASSUME PlainSize,
           \A v \in Videos : WellFormed(v) /\ CodecMakes(v),
           \A v \in Videos : \A i \in DOMAIN v.frames : Fits(v.frames[i].info)
    PROVE  Spec => []ReadersAgree
<1>1. ASSUME video \in Videos PROVE ReadersAgree
  <2> SUFFICES ASSUME NEW i \in DOMAIN video.frames
               PROVE  LET packet == Packets(video)[i]
                      IN  /\ ParseFromAccessUnit(video.codec, packet) = video.frames[i].info
                          /\ ParseAccessUnitPython(video.codec, packet) = <<video.frames[i].info>>
    BY DEF ReadersAgree
  <2> DEFINE info == video.frames[i].info
             d == Packets(video)[i]
  <2>1. WellFormed(video) /\ CodecMakes(video) /\ Fits(info)
    BY <1>1
  <2>2. d \in Seq(Byte) /\ info # NoInfo /\ \E s : Stamped(video.codec, info, d, s)
    BY <1>1, <2>1, PacketStamped
  <2>3. PICK s : Stamped(video.codec, info, d, s)
    BY <2>2
  <2> HIDE DEF info, d
  <2>4. ParseFromAccessUnit(video.codec, d) = info
    BY <2>2, <2>3, FirstStamp
  <2>5. ParseAccessUnitPython(video.codec, d) = <<info>>
    BY <2>2, <2>3, OnlyStamp
  <2> QED BY <2>4, <2>5 DEF info, d
<1> QED BY <1>1, VideoFixed, PTL

(* In every packet the encoder hands over, the fresh SEI stands behind everything
   the codec put in front of its slices, and there are only slices behind it: the
   decoder meets no parameter set behind it, and the splitter no slice before it. *)
THEOREM Spec_SeiBeforeSlice ==
    ASSUME PlainSize,
           \A v \in Videos : WellFormed(v) /\ CodecMakes(v),
           \A v \in Videos : \A i \in DOMAIN v.frames : Fits(v.frames[i].info)
    PROVE  Spec => []SeiBeforeSlice
<1>1. ASSUME video \in Videos PROVE SeiBeforeSlice
  <2> DEFINE c == video.codec
             packet(i) == Packets(video)[i]
             Fresh1(i, p) == Message(c, packet(i), p, Len(packet(i)), TRUE) # NoInfo
             IsSlice(i, p) == NalType(c, packet(i)[NalStart(packet(i), p)]) \in SliceAny(c)
  <2>1. ASSUME NEW i \in DOMAIN video.frames
        PROVE  \E s \in Starts(packet(i)) :
                  /\ Fresh1(i, s)
                  /\ \A p \in Starts(packet(i)) : p > s <=> IsSlice(i, p)
    <3> DEFINE info == video.frames[i].info
               d == Packets(video)[i]
    <3>1. WellFormed(video) /\ CodecMakes(video) /\ Fits(info)
      BY <1>1
    <3>2. d \in Seq(Byte) /\ info # NoInfo /\ \E s : Stamped(c, info, d, s)
      BY <1>1, <3>1, PacketStamped
    <3>3. PICK s : Stamped(c, info, d, s)
      BY <3>2
    <3> HIDE DEF c, d, info
    <3>4. s \in Starts(d) /\ Message(c, d, s, Len(d), TRUE) # NoInfo
      BY <3>2, <3>3 DEF Stamped, ReadAt
    <3>5. ASSUME NEW p \in Starts(d)
          PROVE  p > s <=> NalType(c, d[NalStart(d, p)]) \in SliceAny(c)
      <4>1. /\ p < s => Opens(c, d, p, NoSlices(c))
            /\ p > s => Opens(c, d, p, SliceAny(c))
            /\ Opens(c, d, s, SeiTypes(c))
        BY <3>3 DEF Stamped
      <4>2. p \in Nat /\ s \in Nat
        BY <3>4, StartsWithin
      <4>3. CASE p > s
        BY <4>1, <4>3 DEF Opens
      <4>4. CASE p < s
        <5>1. NalType(c, d[NalStart(d, p)]) \in NoSlices(c)
          BY <4>1, <4>4 DEF Opens
        <5>2. ~(p > s)
          BY <4>2, <4>4
        <5> QED BY <5>1, <5>2, TypesApart
      <4>5. CASE p = s
        <5>1. NalType(c, d[NalStart(d, p)]) \in SeiTypes(c)
          BY <4>1, <4>5 DEF Opens
        <5>2. ~(p > s)
          BY <4>2, <4>5
        <5> QED BY <5>1, <5>2, TypesApart
      <4>6. p > s \/ p < s \/ p = s
        BY <4>2
      <4> QED BY <4>3, <4>4, <4>5, <4>6
    <3> QED BY <3>4, <3>5 DEF d
  <2> QED BY <2>1 DEF SeiBeforeSlice, SliceAny
<1> QED BY <1>1, VideoFixed, PTL

(* One sequence of sequences behind another. *)
LEMMA FlattenJoined ==
    ASSUME NEW S, NEW s \in Seq(Seq(S)), NEW t \in Seq(Seq(S))
    PROVE  FlattenSeq(s \o t) = FlattenSeq(s) \o FlattenSeq(t)
<1> DEFINE G == [u \in Seq(S) |-> u]
<1>1. G \in [Seq(S) -> Seq(S)]
  OBVIOUS
<1>2. ASSUME NEW x \in Seq(Seq(S)) PROVE Forms(G, x) = FlattenSeq(x)
  <2>1. \A i \in DOMAIN x : x[i] \in Seq(S)
    BY LenProperties, ElementOfSeq
  <2>2. [i \in DOMAIN x |-> G[x[i]]] = [i \in DOMAIN x |-> x[i]]
    BY <2>1
  <2>3. [i \in DOMAIN x |-> x[i]] = x
    OBVIOUS
  <2> QED BY <2>2, <2>3 DEF Forms
<1> HIDE DEF G
<1>3. s \o t \in Seq(Seq(S))
  BY ConcatProperties
<1>4. Forms(G, s \o t) = Forms(G, s) \o Forms(G, t)
  <2> DEFINE D == Seq(S)
  <2>1. G \in [D -> Seq(S)] /\ s \in Seq(D) /\ t \in Seq(D)
    BY <1>1
  <2> HIDE DEF D
  <2>2. FormsMeet(G, s, t)
    BY <2>1, AnyFormsJoined
  <2> QED BY <2>2 DEF FormsMeet
<1> QED BY <1>2, <1>3, <1>4

(* What has its last part not empty is not empty. *)
LEMMA FlatNotEmpty ==
    ASSUME NEW S, NEW seqs \in Seq(Seq(S)), seqs # <<>>, seqs[Len(seqs)] # <<>>
    PROVE  FlattenSeq(seqs) # <<>>
<1> DEFINE n == Len(seqs)
           i == n - 1
           x == FlattenSeq(First(seqs, i))
           y == seqs[n]
           d == FlattenSeq(seqs)
<1>1. n \in Nat /\ n # 0
  BY LenProperties, EmptySeq
<1>2. i \in 0..(n - 1) /\ i + 1 = n /\ n \in 1..n
  BY <1>1
<1>3. First(seqs, n) = seqs /\ First(seqs, i) \in Seq(Seq(S)) /\ y \in Seq(S)
      /\ First(seqs, n) = Append(First(seqs, i), y)
  <2> HIDE DEF i
  <2>1. First(seqs, n) = seqs /\ First(seqs, i) \in Seq(Seq(S)) /\ seqs[i + 1] \in Seq(S)
        /\ First(seqs, i + 1) = Append(First(seqs, i), seqs[i + 1])
    BY <1>1, <1>2, OneMore
  <2> QED BY <1>2, <2>1
<1>4. d = x \o y /\ x \in Seq(S)
  BY <1>3, FlattenAppend, FlattenTyped
<1> HIDE DEF x, d, n
<1>5. y # <<>>
  BY DEF n
<1> HIDE DEF y
<1>6. Len(x) \in Nat /\ Len(y) \in Nat /\ Len(y) # 0
  BY <1>3, <1>4, <1>5, LenProperties, EmptySeq
<1>7. Len(x \o y) = Len(x) + Len(y) /\ x \o y \in Seq(S)
  BY <1>3, <1>4, ConcatProperties
<1>8. Len(d) # 0
  BY <1>4, <1>6, <1>7
<1>9. d # <<>>
  <2>1. Len(<<>>) = 0
    BY EmptySeq
  <2> QED BY <1>8, <2>1
<1> QED BY <1>9 DEF d

(* A sequence and what follows its first j elements. *)
After(x, j) == SubSeq(x, j + 1, Len(x))

LEMMA CutAfter ==
    ASSUME NEW D, NEW x \in Seq(D), NEW j \in 0..Len(x)
    PROVE  /\ First(x, j) \in Seq(D) /\ After(x, j) \in Seq(D)
           /\ Len(After(x, j)) = Len(x) - j
           /\ x = First(x, j) \o After(x, j)
<1> DEFINE n == Len(x)
<1>1. n \in Nat /\ j \in Nat /\ j <= n /\ \A i \in 1..n : x[i] \in D
  BY LenProperties, ElementOfSeq
<1>2. 1 \in 1..(n + 1) /\ j \in (1 - 1)..n /\ n \in j..n
  BY <1>1
<1>3. SubSeq(x, 1, j) \o SubSeq(x, j + 1, n) = SubSeq(x, 1, n)
  BY <1>2, ConcatAdjacentSubSeq
<1>4. SubSeq(x, 1, n) = x
  BY SubSeqFull
<1>5. /\ 1 \in Int /\ j \in Int /\ j + 1 \in Int /\ n \in Int
      /\ \A i \in 1..j : x[i] \in D
      /\ \A i \in (j + 1)..n : x[i] \in D
  BY <1>1
<1>6. SubSeq(x, 1, j) \in Seq(D)
  BY <1>5, SubSeqProperties
<1>7. /\ SubSeq(x, j + 1, n) \in Seq(D)
      /\ Len(SubSeq(x, j + 1, n)) = IF j + 1 <= n THEN n - (j + 1) + 1 ELSE 0
  BY <1>5, SubSeqProperties
<1> DEFINE b == Len(SubSeq(x, j + 1, n))
<1>8. b = n - j
  <2>1. b = IF j + 1 <= n THEN n - (j + 1) + 1 ELSE 0
    BY <1>7
  <2> HIDE DEF b, n
  <2> QED BY <1>1, <2>1
<1>9. x = First(x, j) \o After(x, j)
  BY <1>3, <1>4, Zenon DEF First, After
<1> QED BY <1>6, <1>7, <1>8, <1>9, Zenon DEF First, After

-----------------------------------------------------------------------------
(* What split_aus yields *)

(* NAL units of which the last and no other is a slice: an access unit, as the
   splitter understands it.                                                  *)
SliceLast(u, p) ==
    /\ NalUnits("h264", u, 0..31)
    /\ p \in Starts(u) /\ Opens("h264", u, p, {1, 5})
    /\ \A q \in Starts(u) : q # p => q < p /\ Opens("h264", u, q, 6..9)

OneSlice(u) == u \in Seq(Byte) /\ \E p : SliceLast(u, p)

LEMMA UnitIsReady ==
    ASSUME NEW u, OneSlice(u)
    PROVE  u # <<>> /\ Closed(u) /\ Ready(u) /\ 1 \in Starts(u)
<1>1. PICK p : SliceLast(u, p)
  BY DEF OneSlice
<1>2. u \in Seq(Byte) /\ p \in Starts(u) /\ NalUnits("h264", u, 0..31)
  BY <1>1 DEF OneSlice, SliceLast
<1>3. u # <<>>
  BY <1>2, NotEmpty
<1>4. Closed(u) /\ Ready(u)
  BY <1>2, UnitsClosed
<1> QED BY <1>3, <1>4 DEF Ready

LEMMA SliceWithin ==
    ASSUME NEW d \in Seq(Byte), NEW p \in Starts(d), NEW types, Opens("h264", d, p, types)
    PROVE  p \in Slices(d) <=> NalType("h264", d[NalStart(d, p)]) \in {1, 5}
<1> DEFINE a == NalStart(d, p)
<1>1. a \in 1..Len(d) /\ Len(d) \in Nat
  BY HeaderWithin, LenProperties DEF Opens
<1> HIDE DEF a
<1>2. a <= Len(d)
  BY <1>1
<1> QED BY <1>2 DEF Slices, a

LEMMA NoBoundary ==
    ASSUME NEW u, OneSlice(u)
    PROVE  FirstAuEnd(u) = {}
<1>1. PICK p : SliceLast(u, p)
  BY DEF OneSlice
<1>2. /\ u \in Seq(Byte) /\ p \in Starts(u) /\ Opens("h264", u, p, {1, 5})
      /\ \A q \in Starts(u) : q # p => q < p /\ Opens("h264", u, q, 6..9)
  BY <1>1 DEF OneSlice, SliceLast
<1>3. \A q \in Starts(u) : q \in Nat
  BY StartsWithin
<1>4. p \in Slices(u)
  BY <1>2, SliceWithin DEF Opens
<1>5. \A q \in Slices(u) : q = p
  <2> SUFFICES ASSUME NEW q \in Slices(u), q # p PROVE FALSE
    OBVIOUS
  <2>1. q \in Starts(u)
    BY DEF Slices
  <2>2. Opens("h264", u, q, 6..9)
    BY <1>2, <2>1
  <2>3. NalType("h264", u[NalStart(u, q)]) \in {1, 5}
    BY <1>2, <2>1, <2>2, SliceWithin
  <2>4. NalType("h264", u[NalStart(u, q)]) \in 6..9
    BY <2>2 DEF Opens
  <2> QED BY <2>3, <2>4
<1>6. Slices(u) = {p}
  BY <1>4, <1>5
<1>7. Min({p}) = p
  <2>1. {p} \subseteq Nat /\ p \in {p} /\ \A y \in {p} : p <= y
    BY <1>2, <1>3
  <2> QED BY <2>1, MinIs
<1>8. Following(u, p) = {}
  <2> SUFFICES ASSUME NEW q \in Following(u, p) PROVE FALSE
    OBVIOUS
  <2>1. q \in Starts(u) /\ q > p /\ q \in Nat /\ p \in Nat
    BY <1>2, <1>3 DEF Following
  <2>2. q # p
    BY <2>1
  <2>3. q < p
    BY <1>2, <2>1, <2>2
  <2> QED BY <2>1, <2>3
<1> QED BY <1>6, <1>7, <1>8 DEF FirstAuEnd

LEMMA NothingNoBoundary == FirstAuEnd(<<>>) = {}
<1> DEFINE d == <<>>
<1>1. Len(d) = 0
  OBVIOUS
<1> HIDE DEF d
<1>2. Starts(d) = {}
  BY <1>1, StartsWithin
<1>3. Slices(d) = {}
  BY <1>2 DEF Slices
<1> QED BY <1>3 DEF FirstAuEnd, d

(* What follows is where it ends. *)
LEMMA BoundaryBehind ==
    ASSUME NEW u, OneSlice(u), NEW rest \in Seq(Byte), Ready(rest), rest # <<>>
    PROVE  FirstAuEnd(u \o rest) = {Len(u)}
<1> DEFINE z == u \o rest
           n == Len(u)
<1>1. PICK p : SliceLast(u, p)
  BY DEF OneSlice
<1>2. /\ u \in Seq(Byte) /\ p \in Starts(u) /\ Opens("h264", u, p, {1, 5})
      /\ \A q \in Starts(u) : q # p => q < p /\ Opens("h264", u, q, 6..9)
  BY <1>1 DEF OneSlice, SliceLast
<1>3. Closed(u)
  BY UnitIsReady
<1>4. JoinOf(u, rest, z) /\ z \in Seq(Byte)
  BY <1>2, JoinIs, Joined
<1> HIDE DEF z
<1>5. StartsMeet(u, rest, z) /\ UnitsMeet("h264", u, rest, z)
  BY <1>3, <1>4, StartsJoined, UnitsJoined
<1>6. n \in Nat
  BY <1>2, LenProperties
<1>7. /\ \A q \in Starts(u) : q \in 1..n /\ q \in Starts(z)
      /\ \A q \in Starts(rest) : q \in 1..Len(rest) /\ n + q \in Starts(z)
      /\ \A q \in Starts(z) : q \in Starts(u) \/ \E r \in Starts(rest) : q = n + r
  BY <1>5 DEF StartsMeet
<1>8. \A q \in Starts(z) : q \in Nat
  BY StartsWithin
<1>9. 1 \in Starts(rest)
  BY DEF Ready
<1>10. Opens("h264", z, p, {1, 5}) /\ p \in Starts(z) /\ p \in 1..n
  BY <1>2, <1>5, <1>7 DEF UnitsMeet
<1> HIDE DEF n
<1>11. p \in Slices(z)
  BY <1>4, <1>10, SliceWithin DEF Opens
<1>12. \A q \in Slices(z) : p <= q
  <2> TAKE q \in Slices(z)
  <2>1. q \in Starts(z)
    BY DEF Slices
  <2>2. CASE q \in Starts(u)
    <3> SUFFICES ASSUME q # p PROVE FALSE
      BY <1>10
    <3>1. Opens("h264", u, q, 6..9)
      BY <1>2, <2>2
    <3>2. Opens("h264", z, q, 6..9)
      BY <1>5, <2>2, <3>1 DEF UnitsMeet
    <3>3. NalType("h264", z[NalStart(z, q)]) \in {1, 5}
      BY <1>4, <2>1, <3>2, SliceWithin
    <3>4. NalType("h264", z[NalStart(z, q)]) \in 6..9
      BY <3>2 DEF Opens
    <3> QED BY <3>3, <3>4
  <2>3. CASE \E r \in Starts(rest) : q = n + r
    <3>1. PICK r \in Starts(rest) : q = n + r
      BY <2>3
    <3>2. r \in 1..Len(rest)
      BY <1>7
    <3> QED BY <1>6, <1>10, <3>1, <3>2
  <2> QED BY <1>7, <2>1, <2>2, <2>3
<1>13. Min(Slices(z)) = p
  <2>1. Slices(z) \subseteq Nat
    BY <1>8 DEF Slices
  <2> QED BY <1>11, <1>12, <2>1, MinIs
<1>14. n + 1 \in Following(z, p)
  <2>1. n + 1 \in Starts(z) /\ n + 1 > p
    BY <1>6, <1>7, <1>9, <1>10
  <2> QED BY <2>1 DEF Following
<1>15. \A q \in Following(z, p) : n + 1 <= q
  <2> TAKE q \in Following(z, p)
  <2>1. q \in Starts(z) /\ q > p /\ q \in Nat
    BY <1>8 DEF Following
  <2>2. q \notin Starts(u)
    <3> SUFFICES ASSUME q \in Starts(u) PROVE FALSE
      OBVIOUS
    <3>1. q # p
      BY <1>10, <2>1
    <3>2. q < p
      BY <1>2, <3>1
    <3> QED BY <1>10, <2>1, <3>2
  <2>3. PICK r \in Starts(rest) : q = n + r
    BY <1>7, <2>1, <2>2
  <2>4. r \in 1..Len(rest)
    BY <1>7
  <2> QED BY <1>6, <2>3, <2>4
<1> DEFINE F == Following(z, p)
<1>16. Min(F) = n + 1 /\ F # {}
  <2>1. F \subseteq Nat
    BY <1>8 DEF Following
  <2>2. n + 1 \in F /\ \A q \in F : n + 1 <= q
    BY <1>14, <1>15
  <2> DEFINE m == n + 1
  <2> HIDE DEF F, m
  <2>3. Min(F) = m
    BY <2>1, <2>2, MinIs DEF m
  <2> QED BY <2>2, <2>3 DEF m
<1>17. FirstAuEnd(z) = {Min(Following(z, Min(Slices(z)))) - 1}
  <2>1. Slices(z) # {}
    BY <1>11
  <2> QED BY <1>13, <1>16, <2>1 DEF FirstAuEnd
<1>18. FirstAuEnd(z) = {Min(F) - 1}
  BY <1>13, <1>17
<1> HIDE DEF F
<1>19. Min(F) - 1 = n
  BY <1>6, <1>16
<1> QED BY <1>18, <1>19 DEF z, n

LEMMA AfterAt ==
    ASSUME NEW D, NEW x \in Seq(D), NEW j \in 0..Len(x), NEW i \in 1..(Len(x) - j)
    PROVE  After(x, j)[i] = x[j + i]
<1> DEFINE n == Len(x)
           a == j + 1
<1>1. n \in Nat /\ j \in Nat /\ j <= n /\ \A k \in 1..n : x[k] \in D
  BY LenProperties, ElementOfSeq
<1>2. a \in Int /\ n \in Int /\ \A k \in a..n : x[k] \in D
  BY <1>1
<1>3. n - a + 1 = n - j /\ a + i - 1 = j + i
  BY <1>1
<1>4. After(x, j) = SubSeq(x, a, n)
  BY DEF After
<1> HIDE DEF a, n
<1>5. \A k \in 1..(n - a + 1) : SubSeq(x, a, n)[k] = x[a + k - 1]
  BY <1>2, SubSeqProperties
<1>6. i \in 1..(n - a + 1)
  BY <1>3 DEF n
<1> QED BY <1>3, <1>4, <1>5, <1>6

AllUnits(units) ==
    units \in Seq(Seq(Byte)) /\ \A k \in 1..Len(units) : OneSlice(units[k])

(* What is left of the bytes is what is left of the units. *)
LEMMA LeftOver ==
    ASSUME NEW a \in Seq(Byte), NEW b \in Seq(Byte)
    PROVE  SubSeq(a \o b, Len(a) + 1, Len(a \o b)) = b
<1> DEFINE d == a \o b
           m == Len(d)
           l == Len(a) + 1
<1>1. Stands(b, d, Len(a))
  BY StandsLast
<1>2. Len(d) = Len(a) + Len(b) /\ Len(a) \in Nat /\ Len(b) \in Nat
  BY Joined, LenProperties
<1>3. l \in Int /\ m \in Int /\ l = Len(a) + 1 /\ m = Len(a) + Len(b)
  BY <1>2
<1> HIDE DEF d, m, l
<1>4. SubSeq(d, l, m) = b
  BY <1>1, <1>3, StandsFromTo
<1> QED BY <1>4 DEF d, m, l

LEMMA RestIsAfter ==
    ASSUME NEW units \in Seq(Seq(Byte)), NEW j \in 0..Len(units)
    PROVE  /\ FlattenSeq(units) = FlattenSeq(First(units, j)) \o FlattenSeq(After(units, j))
           /\ SubSeq(FlattenSeq(units), Len(FlattenSeq(First(units, j))) + 1, Len(FlattenSeq(units)))
                = FlattenSeq(After(units, j))
<1> DEFINE s == First(units, j)
           t == After(units, j)
<1>1. s \in Seq(Seq(Byte)) /\ t \in Seq(Seq(Byte)) /\ units = s \o t
  BY CutAfter
<1> HIDE DEF s, t
<1>2. FlattenSeq(units) = FlattenSeq(s) \o FlattenSeq(t)
  BY <1>1, FlattenJoined
<1>3. FlattenSeq(s) \in Seq(Byte) /\ FlattenSeq(t) \in Seq(Byte)
  BY <1>1, FlattenTyped
<1> DEFINE a == FlattenSeq(s)
           b == FlattenSeq(t)
<1> HIDE DEF a, b
<1>4. SubSeq(a \o b, Len(a) + 1, Len(a \o b)) = b
  BY <1>3, LeftOver DEF a, b
<1> QED BY <1>2, <1>4 DEF a, b, s, t

(* The units left begin with the next one. *)
Leads(units, j) ==
    LET rest == FlattenSeq(After(units, j + 1))
    IN  /\ FlattenSeq(After(units, j)) = units[j + 1] \o rest
        /\ rest \in Seq(Byte) /\ Ready(rest)
        /\ (rest = <<>>) = (j + 1 = Len(units))

LEMMA NextUnit ==
    ASSUME NEW units, AllUnits(units), NEW j \in 0..(Len(units) - 1)
    PROVE  Leads(units, j)
<1> DEFINE n == Len(units)
           k == j + 1
           u == units[k]
           done == FlattenSeq(First(units, j))
           ahead == FlattenSeq(After(units, j))
           rest == FlattenSeq(After(units, k))
<1>1. units \in Seq(Seq(Byte)) /\ n \in Nat /\ \A i \in 1..n : OneSlice(units[i])
  BY LenProperties DEF AllUnits
<1>2. j \in 0..n /\ k \in 0..n /\ k \in 1..n /\ k \in Nat
  BY <1>1
<1>3. First(units, j) \in Seq(Seq(Byte)) /\ u \in Seq(Byte) /\ First(units, k) = Append(First(units, j), u)
  BY <1>1, OneMore, SMTT(30)
<1>4. done \in Seq(Byte) /\ FlattenSeq(First(units, k)) = done \o u
  BY <1>3, FlattenTyped, FlattenAppend
<1>5. /\ FlattenSeq(units) = FlattenSeq(First(units, k)) \o rest
      /\ SubSeq(FlattenSeq(units), Len(done) + 1, Len(FlattenSeq(units))) = ahead
  <2> HIDE DEF k
  <2> QED BY <1>1, <1>2, RestIsAfter
<1>6. After(units, k) \in Seq(Seq(Byte)) /\ Len(After(units, k)) = n - k
  <2> HIDE DEF k
  <2> QED BY <1>1, <1>2, CutAfter
<1>7. rest \in Seq(Byte)
  BY <1>6, FlattenTyped
<1> DEFINE left == After(units, k)
<1>8. \A i \in 1..(n - k) : OneSlice(left[i])
  <2> TAKE i \in 1..(n - k)
  <2>1. left[i] = units[k + i]
    <3> HIDE DEF k
    <3> QED BY <1>1, <1>2, AfterAt
  <2>2. k + i \in 1..n
    BY <1>1, <1>2
  <2> QED BY <1>1, <2>1, <2>2
<1> HIDE DEF k, u, done, ahead
<1>9. ahead = u \o rest
  <2>1. FlattenSeq(units) = done \o (u \o rest)
    <3> HIDE DEF rest
    <3>1. done \o (u \o rest) = (done \o u) \o rest
      BY <1>3, <1>4, <1>7, Associative
    <3> QED BY <1>4, <1>5, <3>1, Zenon
  <2> DEFINE b == u \o rest
  <2>2. b \in Seq(Byte)
    BY <1>3, <1>7, Joined
  <2> HIDE DEF b
  <2>3. SubSeq(done \o b, Len(done) + 1, Len(done \o b)) = b
    BY <1>4, <2>2, LeftOver
  <2> QED BY <1>5, <2>1, <2>3 DEF b
<1> HIDE DEF left
<1>10. rest = FlattenSeq(left) /\ left \in Seq(Seq(Byte)) /\ Len(left) = n - k
  BY <1>6 DEF left
<1> HIDE DEF rest
<1>11. Ready(rest)
  <2>1. ASSUME NEW i \in 1..Len(left) PROVE NalUnits("h264", left[i], 0..31)
    <3>1. OneSlice(left[i])
      BY <1>8, <1>10, <2>1
    <3> QED BY <3>1 DEF OneSlice, SliceLast
  <2>2. NalUnits("h264", FlattenSeq(left), 0..31)
    BY <1>10, <2>1, NalUnitsFlat
  <2> QED BY <1>10, <2>2, UnitsClosed
<1>12. CASE k = n
  <2>1. Len(left) = 0
    BY <1>1, <1>10, <1>12
  <2>2. left = <<>>
    BY <1>10, <2>1, EmptySeq
  <2>3. FlattenSeq(<<>>) = <<>>
    BY DEF FlattenSeq
  <2>4. rest = <<>>
    BY <1>10, <2>2, <2>3
  <2> QED BY <1>7, <1>9, <1>11, <1>12, <2>4 DEF Leads, u, ahead, rest, k
<1>13. CASE k # n
  <2> DEFINE m == Len(left)
  <2>1. m \in 1..(n - k) /\ m # 0
    BY <1>1, <1>2, <1>10, <1>13
  <2>2. OneSlice(left[m])
    BY <1>8, <2>1
  <2>3. left[m] # <<>>
    BY <2>2, UnitIsReady
  <2>4. left # <<>>
    BY <2>1, EmptySeq
  <2>5. rest # <<>>
    BY <1>10, <2>3, <2>4, FlatNotEmpty
  <2> QED BY <1>7, <1>9, <1>11, <1>13, <2>5 DEF Leads, u, ahead, rest, k
<1> QED BY <1>12, <1>13

(* Where the splitter cuts what is left. *)
CutHere(units, j) ==
    LET rest == FlattenSeq(After(units, j))
        u == units[j + 1]
    IN  IF j = Len(units) THEN rest = <<>> /\ FirstAuEnd(rest) = {}
        ELSE IF j + 1 = Len(units) THEN rest = u /\ FirstAuEnd(rest) = {} /\ rest # <<>>
        ELSE FirstAuEnd(rest) = {Len(u)} /\ SubSeq(rest, 1, Len(u)) = u

LEMMA CutIsUnit ==
    ASSUME NEW units, AllUnits(units), NEW j \in 0..Len(units)
    PROVE  CutHere(units, j)
<1> DEFINE n == Len(units)
           ahead == FlattenSeq(After(units, j))
           rest == FlattenSeq(After(units, j + 1))
           u == units[j + 1]
<1>1. units \in Seq(Seq(Byte)) /\ n \in Nat /\ \A i \in 1..n : OneSlice(units[i])
  BY LenProperties DEF AllUnits
<1>2. CASE j = n
  <2>1. After(units, j) \in Seq(Seq(Byte)) /\ Len(After(units, j)) = n - j
    BY <1>1, CutAfter
  <2>2. After(units, j) = <<>>
    BY <1>1, <1>2, <2>1, EmptySeq
  <2>3. FlattenSeq(<<>>) = <<>>
    BY DEF FlattenSeq
  <2> QED BY <1>2, <2>2, <2>3, NothingNoBoundary DEF CutHere
<1>3. CASE j # n
  <2>1. j \in 0..(n - 1) /\ j + 1 \in 1..n
    BY <1>1, <1>3
  <2>2. Leads(units, j)
    BY <2>1, NextUnit
  <2>3. OneSlice(u) /\ u \in Seq(Byte)
    BY <1>1, <2>1 DEF OneSlice
  <2>4. ahead = u \o rest /\ rest \in Seq(Byte) /\ Ready(rest) /\ (rest = <<>>) = (j + 1 = n)
    BY <2>2 DEF Leads
  <2>5. CASE j + 1 = n
    <3>1. rest = <<>>
      BY <2>4, <2>5
    <3> HIDE DEF rest, u, ahead
    <3>2. ahead = u
      BY <2>3, <2>4, <3>1, ConcatEmptySeq
    <3>3. FirstAuEnd(u) = {} /\ u # <<>>
      BY <2>3, NoBoundary, UnitIsReady
    <3> QED BY <1>3, <2>5, <3>2, <3>3 DEF CutHere, u, ahead
  <2>6. CASE j + 1 # n
    <3>1. rest # <<>>
      BY <2>4, <2>6
    <3> HIDE DEF rest, u, ahead
    <3>2. FirstAuEnd(ahead) = {Len(u)}
      BY <2>3, <2>4, <3>1, BoundaryBehind
    <3>3. SubSeq(ahead, 1, Len(u)) = u
      <4>1. Stands(u, u \o rest, 0)
        BY <2>3, <2>4, StandsLast
      <4>2. Len(u) \in Nat
        BY <2>3, LenProperties
      <4> DEFINE m == Len(u)
      <4>3. 1 \in Int /\ m \in Int /\ 1 = 0 + 1 /\ m = 0 + Len(u)
        BY <4>2
      <4> HIDE DEF m
      <4>4. SubSeq(u \o rest, 1, m) = u
        BY <4>1, <4>3, StandsFromTo
      <4> QED BY <2>4, <4>4 DEF m
    <3> QED BY <1>3, <2>6, <3>2, <3>3 DEF CutHere, u, ahead
  <2> QED BY <2>5, <2>6
<1> QED BY <1>2, <1>3

(* What becomes of the parts of all, one behind the other. *)
FormsOf(D, S, G, parts) ==
    Forms(G, FlattenSeq(parts)) = FlattenSeq([i \in DOMAIN parts |-> Forms(G, parts[i])])

LEMMA FormsOfFlat ==
    ASSUME NEW D, NEW S, NEW G \in [D -> Seq(S)], NEW parts \in Seq(Seq(D))
    PROVE  FormsOf(D, S, G, parts)
<1> DEFINE E == Seq(D)
           H == [u \in E |-> Forms(G, u)]
           n == Len(parts)
           T == {i \in 0..n : Forms(G, FlattenSeq(First(parts, i))) = Forms(H, First(parts, i))}
<1>1. H \in [E -> Seq(S)]
  <2>1. \A u \in E : Forms(G, u) \in Seq(S)
    BY AnyForms DEF InSteps
  <2> QED BY <2>1
<1>2. \A u \in E : H[u] = Forms(G, u)
  OBVIOUS
<1> HIDE DEF H
<1>3. parts \in Seq(E)
  OBVIOUS
<1>4. n \in Nat /\ First(parts, 0) = <<>> /\ First(parts, n) = parts
      /\ \A i \in 0..(n - 1) :
            /\ First(parts, i) \in Seq(E) /\ parts[i + 1] \in E
            /\ First(parts, i + 1) = Append(First(parts, i), parts[i + 1])
  <2> HIDE DEF E
  <2> QED BY <1>3, OneMore
<1>5. 0 \in T
  <2>1. FlattenSeq(<<>>) = <<>>
    BY DEF FlattenSeq
  <2> QED BY <1>4, <2>1, FormsEmpty
<1>6. ASSUME NEW i \in 0..(n - 1), i \in T PROVE i + 1 \in T
  <2> DEFINE x == First(parts, i)
             u == parts[i + 1]
             flat == FlattenSeq(x)
  <2>1. x \in Seq(E) /\ u \in E /\ First(parts, i + 1) = Append(x, u)
    BY <1>4
  <2>2. Forms(G, flat) = Forms(H, x)
    BY <1>6
  <2> HIDE DEF x, u
  <2>3. flat \in Seq(D) /\ FlattenSeq(Append(x, u)) = flat \o u
    BY <2>1, FlattenTyped, FlattenAppend
  <2> HIDE DEF flat
  <2>4. FormsMeet(G, flat, u)
    BY <2>1, <2>3, AnyFormsJoined
  <2>5. InSteps(E, S, H, x)
    <3> HIDE DEF E
    <3> QED BY <1>1, <2>1, AnyForms
  <2>6. Forms(H, Append(x, u)) = Forms(H, x) \o H[u]
    BY <2>1, <2>5 DEF InSteps
  <2>7. Forms(G, FlattenSeq(Append(x, u))) = Forms(H, Append(x, u))
    <3>1. Forms(G, flat \o u) = Forms(G, flat) \o Forms(G, u)
      BY <2>4 DEF FormsMeet
    <3>2. H[u] = Forms(G, u)
      BY <1>2, <2>1
    <3> HIDE DEF E
    <3> QED BY <2>2, <2>3, <2>6, <3>1, <3>2, Zenon
  <2>8. i + 1 \in 0..n
    BY <1>4
  <2> QED BY <2>1, <2>7, <2>8
<1>7. n \in T
  <2> HIDE DEF T
  <2>1. \A i \in 0..n : i \in T
    BY <1>4, <1>5, <1>6, Induction
  <2> QED BY <1>4, <2>1
<1>8. Forms(G, FlattenSeq(parts)) = Forms(H, parts)
  BY <1>4, <1>7
<1>9. [i \in DOMAIN parts |-> H[parts[i]]] = [i \in DOMAIN parts |-> Forms(G, parts[i])]
  <2>1. \A i \in DOMAIN parts : parts[i] \in E
    <3> HIDE DEF E
    <3> QED BY <1>3, LenProperties, ElementOfSeq
  <2> QED BY <1>2, <2>1
<1>10. Forms(H, parts) = FlattenSeq([i \in DOMAIN parts |-> Forms(G, parts[i])])
  BY <1>9, Zenon DEF Forms
<1> QED BY <1>8, <1>10, Zenon DEF FormsOf

(* Flattening twice, from within or from without. *)
LEMMA FlatOfFlat ==
    ASSUME NEW parts \in Seq(Seq(Seq(Byte)))
    PROVE  FlattenSeq(FlattenSeq(parts)) = FlattenSeq([i \in DOMAIN parts |-> FlattenSeq(parts[i])])
<1> DEFINE D == Seq(Byte)
           G == [u \in D |-> u]
<1>1. G \in [D -> Seq(Byte)] /\ parts \in Seq(Seq(D))
  OBVIOUS
<1>2. ASSUME NEW x \in Seq(D) PROVE Forms(G, x) = FlattenSeq(x)
  <2>1. \A i \in DOMAIN x : x[i] \in D
    BY LenProperties, ElementOfSeq
  <2>2. [i \in DOMAIN x |-> G[x[i]]] = [i \in DOMAIN x |-> x[i]]
    BY <2>1
  <2>3. [i \in DOMAIN x |-> x[i]] = x
    OBVIOUS
  <2> QED BY <2>2, <2>3 DEF Forms
<1> HIDE DEF G
<1>3. FormsOf(D, Byte, G, parts)
  <2> HIDE DEF D
  <2> QED BY <1>1, FormsOfFlat
<1>4. FlattenSeq(parts) \in Seq(D)
  <2> HIDE DEF D
  <2> QED BY <1>1, FlattenTyped
<1>5. Forms(G, FlattenSeq(parts)) = FlattenSeq(FlattenSeq(parts))
  BY <1>2, <1>4
<1>6. \A i \in DOMAIN parts : Forms(G, parts[i]) = FlattenSeq(parts[i])
  <2>1. \A i \in DOMAIN parts : parts[i] \in Seq(D)
    <3> HIDE DEF D
    <3> QED BY <1>1, LenProperties, ElementOfSeq
  <2> QED BY <1>2, <2>1
<1>7. [i \in DOMAIN parts |-> Forms(G, parts[i])] = [i \in DOMAIN parts |-> FlattenSeq(parts[i])]
  BY <1>6
<1> QED BY <1>3, <1>5, <1>7, Zenon DEF FormsOf

(* Something more in front of the first of them. *)
WithFront(a, seqs) == [j \in 1..Len(seqs) |-> IF j = 1 THEN a \o seqs[1] ELSE seqs[j]]

LEMMA FrontJoined ==
    ASSUME NEW a \in Seq(Byte), NEW seqs \in Seq(Seq(Byte)), seqs # <<>>
    PROVE  /\ WithFront(a, seqs) \in Seq(Seq(Byte)) /\ Len(WithFront(a, seqs)) = Len(seqs)
           /\ FlattenSeq(WithFront(a, seqs)) = a \o FlattenSeq(seqs)
<1> DEFINE S == Seq(Byte)
           n == Len(seqs)
           c == WithFront(a, seqs)
           m == n - 1
           T == {i \in 0..m : FlattenSeq(First(c, i + 1)) = a \o FlattenSeq(First(seqs, i + 1))}
<1>1. n \in Nat /\ n # 0 /\ m \in Nat /\ m + 1 = n /\ 1 \in 1..n
      /\ \A j \in 1..n : seqs[j] \in S
  <2>1. n \in Nat /\ \A j \in 1..n : seqs[j] \in S
    BY LenProperties, ElementOfSeq
  <2>2. n # 0
    BY EmptySeq
  <2> HIDE DEF n, S
  <2> QED BY <2>1, <2>2
<1> HIDE DEF m
<1>2. \A j \in 1..n : c[j] = IF j = 1 THEN a \o seqs[1] ELSE seqs[j]
  BY DEF WithFront
<1>3. c \in Seq(S)
  <2>1. a \o seqs[1] \in S
    BY <1>1, Joined
  <2>2. \A j \in 1..n : (IF j = 1 THEN a \o seqs[1] ELSE seqs[j]) \in S
    BY <1>1, <2>1
  <2>3. c = [j \in 1..n |-> IF j = 1 THEN a \o seqs[1] ELSE seqs[j]]
    BY DEF WithFront
  <2> HIDE DEF S, c, n
  <2> QED BY <1>1, <2>2, <2>3, IsASeq
<1>4. Len(c) = n
  <2>1. DOMAIN c = 1..n
    BY DEF WithFront
  <2> HIDE DEF c, n, S
  <2> QED BY <1>1, <1>3, <2>1, LenProperties
<1> HIDE DEF c
<1>5. \A i \in 0..(n - 1) :
            /\ First(c, i) \in Seq(S) /\ c[i + 1] \in S
            /\ First(c, i + 1) = Append(First(c, i), c[i + 1])
  <2> HIDE DEF S, n
  <2> QED BY <1>3, <1>4, OneMore
<1>6. \A i \in 0..(n - 1) :
            /\ First(seqs, i) \in Seq(S) /\ seqs[i + 1] \in S
            /\ First(seqs, i + 1) = Append(First(seqs, i), seqs[i + 1])
  BY OneMore
<1>7. First(c, n) = c /\ First(seqs, n) = seqs /\ First(c, 0) = <<>> /\ First(seqs, 0) = <<>>
  BY <1>3, <1>4, OneMore
<1>8. 0 \in T
  <2>1. 0 \in 0..(n - 1) /\ 0 + 1 = 1
    BY <1>1
  <2>2. First(c, 0 + 1) = Append(<<>>, c[0 + 1]) /\ First(seqs, 0 + 1) = Append(<<>>, seqs[0 + 1])
    BY <1>5, <1>6, <1>7, <2>1
  <2>3. FlattenSeq(<<>>) = <<>> /\ <<>> \in Seq(S)
    BY EmptySeq DEF FlattenSeq
  <2>4. c[1] \in S /\ seqs[1] \in S /\ c[1] = a \o seqs[1]
    <3>1. c[0 + 1] \in S /\ seqs[0 + 1] \in S
      BY <1>5, <1>6, <2>1
    <3> QED BY <1>1, <1>2, <2>1, <3>1
  <2>5. FlattenSeq(First(c, 0 + 1)) = <<>> \o c[1]
    BY <2>1, <2>2, <2>3, <2>4, FlattenAppend
  <2>6. FlattenSeq(First(seqs, 0 + 1)) = <<>> \o seqs[1]
    BY <2>1, <2>2, <2>3, <2>4, FlattenAppend
  <2>7. <<>> \o c[1] = c[1] /\ <<>> \o seqs[1] = seqs[1]
    BY <2>4, ConcatEmptySeq
  <2>8. FlattenSeq(First(c, 0 + 1)) = a \o FlattenSeq(First(seqs, 0 + 1))
    BY <2>4, <2>5, <2>6, <2>7, Zenon
  <2> QED BY <1>1, <2>8
<1>9. ASSUME NEW i \in 0..(m - 1), i \in T PROVE i + 1 \in T
  <2> DEFINE k == i + 1
             x == First(c, k)
             y == First(seqs, k)
             u == seqs[k + 1]
  <2>1. k \in 0..(n - 1) /\ k \in 0..m /\ k + 1 \in 1..n /\ k + 1 # 1
    BY <1>1
  <2>2. FlattenSeq(x) = a \o FlattenSeq(y)
    BY <1>9
  <2> HIDE DEF k
  <2>3. /\ x \in Seq(S) /\ c[k + 1] \in S /\ First(c, k + 1) = Append(x, c[k + 1])
        /\ y \in Seq(S) /\ u \in S /\ First(seqs, k + 1) = Append(y, u)
    BY <1>5, <1>6, <2>1
  <2>4. c[k + 1] = u
    BY <1>2, <2>1
  <2> HIDE DEF x, y, u
  <2>5. FlattenSeq(Append(x, u)) = FlattenSeq(x) \o u /\ FlattenSeq(Append(y, u)) = FlattenSeq(y) \o u
    BY <2>3, FlattenAppend
  <2>6. FlattenSeq(y) \in S
    BY <2>3, FlattenTyped
  <2> DEFINE b == FlattenSeq(y)
  <2> HIDE DEF b
  <2>7. a \o (b \o u) = (a \o b) \o u
    BY <2>3, <2>6, Associative DEF b
  <2>8. FlattenSeq(First(c, k + 1)) = a \o FlattenSeq(First(seqs, k + 1))
    BY <2>2, <2>3, <2>4, <2>5, <2>7, Zenon DEF b
  <2> QED BY <2>1, <2>8 DEF k
<1>10. m \in T
  <2> HIDE DEF T
  <2>1. \A i \in 0..m : i \in T
    BY <1>1, <1>8, <1>9, Induction
  <2> QED BY <1>1, <2>1
<1>11. FlattenSeq(c) = a \o FlattenSeq(seqs)
  <2>1. FlattenSeq(First(c, m + 1)) = a \o FlattenSeq(First(seqs, m + 1))
    BY <1>10
  <2> QED BY <1>1, <1>7, <2>1
<1> QED BY <1>3, <1>4, <1>11 DEF c

(* The access units that a frame's packet becomes: its first slice with all that
   stands before it, then every other slice by itself.                       *)
Cuts(v, f) == WithFront(Ahead(v, f) \o BuildNal(v.codec, f.info), f.slices)
CutsOf(v) == [i \in DOMAIN v.frames |-> Cuts(v, v.frames[i])]
AllCuts(v) == FlattenSeq(CutsOf(v))

LEMMA SliceAlone ==
    ASSUME NEW y \in Seq(Byte), NalUnits("h264", y, {1, 5}), Starts(y) = {1}
    PROVE  OneSlice(y)
<1>1. NalUnits("h264", y, 0..31)
  <2>1. {1, 5} \subseteq 0..31
    OBVIOUS
  <2> QED BY <2>1, NalUnitsMore
<1>2. Opens("h264", y, 1, {1, 5})
  BY UnitsClosed
<1>3. SliceLast(y, 1)
  BY <1>1, <1>2 DEF SliceLast
<1> QED BY <1>3 DEF OneSlice

LEMMA SliceBehind ==
    ASSUME NEW x \in Seq(Byte), NEW y \in Seq(Byte), NalUnits("h264", x, 6..9),
           NalUnits("h264", y, {1, 5}), Starts(y) = {1}
    PROVE  OneSlice(x \o y)
<1> DEFINE z == x \o y
           n == Len(x)
<1>1. JoinOf(x, y, z) /\ z \in Seq(Byte) /\ n \in Nat
  BY JoinIs, Joined, LenProperties
<1> HIDE DEF z
<1>2. /\ Closed(x) /\ \A p \in Starts(x) : Opens("h264", x, p, 6..9)
      /\ Ready(y) /\ \A p \in Starts(y) : Opens("h264", y, p, {1, 5})
  BY UnitsClosed
<1>3. UnitsMeet("h264", x, y, z) /\ StartsMeet(x, y, z)
  BY <1>1, <1>2, UnitsJoined, StartsJoined
<1>4. NalUnits("h264", z, 0..31)
  <2>1. {1, 5} \subseteq 0..31 /\ 6..9 \subseteq 0..31
    OBVIOUS
  <2>2. NalUnits("h264", x, 0..31)
    BY <2>1, NalUnitsMore
  <2>3. NalUnits("h264", y, 0..31)
    BY <2>1, NalUnitsMore
  <2> QED BY <1>1, <2>2, <2>3, NalUnitsJoined
<1>5. n + 1 \in Starts(z) /\ Opens("h264", z, n + 1, {1, 5})
  BY <1>2, <1>3 DEF UnitsMeet, StartsMeet
<1>6. \A q \in Starts(z) : q # n + 1 => q < n + 1 /\ Opens("h264", z, q, 6..9)
  <2> SUFFICES ASSUME NEW q \in Starts(z), q # n + 1
               PROVE  q < n + 1 /\ Opens("h264", z, q, 6..9)
    OBVIOUS
  <2>1. q \in Starts(x) \/ \E r \in {1} : q = n + r
    BY <1>3 DEF StartsMeet
  <2>2. q \in Starts(x) /\ q \in 1..n
    BY <1>3, <2>1 DEF StartsMeet
  <2> QED BY <1>1, <1>2, <1>3, <2>2 DEF UnitsMeet
<1> DEFINE p == n + 1
<1>7. SliceLast(z, p)
  BY <1>4, <1>5, <1>6 DEF SliceLast
<1> HIDE DEF p
<1> QED BY <1>1, <1>7 DEF OneSlice, z

(* The parts of an H.264 packet: what stands before the stamp, the stamp, slices. *)
H264Parts(v, f) ==
    /\ Ahead(v, f) \in Seq(Byte) /\ NalUnits("h264", Ahead(v, f), 6..9)
    /\ BuildNal("h264", f.info) \in Seq(Byte) /\ NalUnits("h264", BuildNal("h264", f.info), {6})
    /\ f.slices \in Seq(Seq(Byte)) /\ f.slices # <<>> /\ f.info \in Infos
    /\ \A j \in 1..Len(f.slices) :
          NalUnits("h264", f.slices[j], SliceTypes("h264", f.info.key)) /\ Starts(f.slices[j]) = {1}

LEMMA H264PartsOf ==
    ASSUME PlainSize, NEW v \in Videos, WellFormed(v), CodecMakes(v), v.codec = "h264",
           NEW i \in DOMAIN v.frames, Fits(v.frames[i].info)
    PROVE  H264Parts(v, v.frames[i])
<1> DEFINE f == v.frames[i]
           info == f.info
           nal == BuildNal("h264", info)
<1>1. info \in Infos /\ f.slices \in Seq(Seq(Byte)) /\ "h264" \in Codecs
  BY VideoTyped
<1>2. PictureMade(v, f) /\ Fits(info)
  BY DEF CodecMakes
<1>3. /\ f.slices # <<>>
      /\ \A j \in DOMAIN f.slices :
            NalUnits("h264", f.slices[j], SliceTypes("h264", info.key)) /\ Starts(f.slices[j]) = {1}
  BY <1>2 DEF PictureMade
<1>4. DOMAIN f.slices = 1..Len(f.slices)
  BY <1>1, LenProperties
<1>5. Laid("h264", info, Ahead(v, f), Picture(f))
  BY PacketIs DEF Assembled
<1>6. Ahead(v, f) \in Seq(Byte) /\ NalUnits("h264", Ahead(v, f), 6..9)
  <2>1. NoSlices("h264") = 6..9
    BY DEF NoSlices
  <2> QED BY <1>5, <2>1 DEF Laid
<1> HIDE DEF info
<1>7. nal \in Seq(Byte) /\ NalUnits("h264", nal, SeiTypes("h264"))
  BY <1>1, <1>2, StampIsUnit
<1>8. SeiTypes("h264") = {6}
  BY DEF SeiTypes
<1> QED BY <1>1, <1>3, <1>4, <1>6, <1>7, <1>8 DEF H264Parts, info

LEMMA FrameCuts ==
    ASSUME NEW v, v.codec = "h264", NEW f, H264Parts(v, f)
    PROVE  /\ AllUnits(Cuts(v, f)) /\ Len(Cuts(v, f)) = Len(f.slices)
           /\ FlattenSeq(Cuts(v, f)) = (Ahead(v, f) \o BuildNal(v.codec, f.info)) \o Picture(f)
<1> DEFINE x == Ahead(v, f)
           nal == BuildNal("h264", f.info)
           head == x \o nal
           seqs == f.slices
           c == WithFront(head, seqs)
<1>1. /\ x \in Seq(Byte) /\ NalUnits("h264", x, 6..9)
      /\ nal \in Seq(Byte) /\ NalUnits("h264", nal, {6})
      /\ seqs \in Seq(Seq(Byte)) /\ seqs # <<>>
      /\ \A j \in 1..Len(seqs) :
            NalUnits("h264", seqs[j], SliceTypes("h264", f.info.key)) /\ Starts(seqs[j]) = {1}
  BY DEF H264Parts
<1>2. SliceTypes("h264", f.info.key) \subseteq {1, 5}
  BY DEF SliceTypes
<1> HIDE DEF x, nal, seqs
<1>3. \A j \in 1..Len(seqs) : /\ seqs[j] \in Seq(Byte) /\ Starts(seqs[j]) = {1}
                              /\ NalUnits("h264", seqs[j], {1, 5})
  <2> TAKE j \in 1..Len(seqs)
  <2> DEFINE types == SliceTypes("h264", f.info.key)
             more == {1, 5}
             y == seqs[j]
  <2>1. y \in Seq(Byte) /\ Starts(y) = {1} /\ NalUnits("h264", y, types) /\ types \subseteq more
    BY <1>1, <1>2, ElementOfSeq
  <2> HIDE DEF types, more, y
  <2>2. NalUnits("h264", y, more)
    BY <2>1, NalUnitsMore
  <2> QED BY <2>1, <2>2 DEF more, y
<1>4. head \in Seq(Byte) /\ NalUnits("h264", head, 6..9)
  <2>1. {6} \subseteq 6..9
    OBVIOUS
  <2>2. NalUnits("h264", nal, 6..9)
    BY <1>1, <2>1, NalUnitsMore
  <2>3. JoinOf(x, nal, head) /\ head \in Seq(Byte)
    BY <1>1, JoinIs, Joined
  <2> HIDE DEF head
  <2>4. NalUnits("h264", head, 6..9)
    BY <1>1, <2>2, <2>3, NalUnitsJoined
  <2> QED BY <2>3, <2>4
<1> HIDE DEF head
<1>5. /\ c \in Seq(Seq(Byte)) /\ Len(c) = Len(seqs) /\ FlattenSeq(c) = head \o FlattenSeq(seqs)
  BY <1>1, <1>4, FrontJoined
<1>6. ASSUME NEW j \in 1..Len(c) PROVE OneSlice(c[j])
  <2>1. j \in 1..Len(seqs)
    BY <1>5
  <2>2. c[j] = IF j = 1 THEN head \o seqs[1] ELSE seqs[j]
    BY <2>1 DEF WithFront
  <2>3. CASE j = 1
    <3> DEFINE y == seqs[1]
    <3>1. y \in Seq(Byte) /\ Starts(y) = {1} /\ NalUnits("h264", y, {1, 5})
      BY <1>3, <2>1, <2>3
    <3> HIDE DEF y, c
    <3>2. OneSlice(head \o y)
      BY <1>4, <3>1, SliceBehind
    <3> QED BY <2>2, <2>3, <3>2 DEF y
  <2>4. CASE j # 1
    <3> DEFINE y == seqs[j]
    <3>1. y \in Seq(Byte) /\ Starts(y) = {1} /\ NalUnits("h264", y, {1, 5})
      BY <1>3, <2>1
    <3> HIDE DEF y, c
    <3>2. OneSlice(y)
      BY <3>1, SliceAlone
    <3> QED BY <2>2, <2>4, <3>2 DEF y
  <2> QED BY <2>3, <2>4
<1>7. AllUnits(c)
  <2> HIDE DEF c
  <2> QED BY <1>5, <1>6 DEF AllUnits
<1>8. Cuts(v, f) = c
  BY DEF Cuts, head, x, nal, seqs
<1> HIDE DEF c
<1> QED BY <1>5, <1>7, <1>8 DEF head, x, nal, seqs, Picture

GoodUnits == {u \in Seq(Byte) : OneSlice(u)}

LEMMA AreGood ==
    ASSUME NEW x, AllUnits(x)
    PROVE  x \in Seq(GoodUnits) /\ x \in Seq(Seq(Byte))
<1>1. x \in Seq(Seq(Byte)) /\ \A k \in 1..Len(x) : OneSlice(x[k])
  BY DEF AllUnits
<1>2. \A k \in 1..Len(x) : x[k] \in GoodUnits
  BY <1>1 DEF OneSlice, GoodUnits
<1>3. Len(x) \in Nat /\ x = [k \in 1..Len(x) |-> x[k]]
  BY <1>1, LenProperties
<1> QED BY <1>1, <1>2, <1>3, IsASeq

LEMMA VideoCuts ==
    ASSUME PlainSize, NEW v \in Videos, WellFormed(v), CodecMakes(v), v.codec = "h264",
           \A i \in DOMAIN v.frames : Fits(v.frames[i].info)
    PROVE  /\ CutsOf(v) \in Seq(Seq(GoodUnits)) /\ AllCuts(v) \in Seq(GoodUnits)
           /\ AllUnits(AllCuts(v))
           /\ FlattenSeq(AllCuts(v)) = FlattenSeq(Packets(v))
<1> DEFINE n == Len(v.frames)
           parts == CutsOf(v)
<1>1. n \in Nat /\ DOMAIN v.frames = 1..n
  BY VideoTyped
<1>2. ASSUME NEW i \in 1..n
      PROVE  /\ AllUnits(Cuts(v, v.frames[i]))
             /\ FlattenSeq(Cuts(v, v.frames[i])) = Packets(v)[i]
  <2>1. i \in DOMAIN v.frames
    BY <1>1
  <2>2. H264Parts(v, v.frames[i])
    BY <2>1, H264PartsOf
  <2>3. Packets(v)[i] = (Ahead(v, v.frames[i]) \o BuildNal(v.codec, v.frames[i].info))
                           \o Picture(v.frames[i])
    BY <2>1, PacketIs DEF Assembled
  <2> DEFINE f == v.frames[i]
  <2> HIDE DEF f
  <2>4. AllUnits(Cuts(v, f))
        /\ FlattenSeq(Cuts(v, f)) = (Ahead(v, f) \o BuildNal(v.codec, f.info)) \o Picture(f)
    BY <2>2, FrameCuts DEF f
  <2> QED BY <2>3, <2>4 DEF f
<1>3. ASSUME NEW x, AllUnits(x) PROVE x \in Seq(GoodUnits) /\ x \in Seq(Seq(Byte))
  BY <1>3, AreGood
<1>4. parts = [i \in 1..n |-> Cuts(v, v.frames[i])]
  BY <1>1 DEF CutsOf
<1>5. parts \in Seq(Seq(GoodUnits)) /\ parts \in Seq(Seq(Seq(Byte)))
  <2>1. \A i \in 1..n : Cuts(v, v.frames[i]) \in Seq(GoodUnits) /\ Cuts(v, v.frames[i]) \in Seq(Seq(Byte))
    BY <1>2, <1>3
  <2> HIDE DEF parts, n
  <2> QED BY <1>1, <1>4, <2>1, IsASeq
<1>6. FlattenSeq(parts) \in Seq(GoodUnits)
  <2> HIDE DEF parts
  <2> QED BY <1>5, FlattenTyped
<1>7. FlattenSeq(FlattenSeq(parts)) = FlattenSeq([i \in DOMAIN parts |-> FlattenSeq(parts[i])])
  <2> HIDE DEF parts
  <2> QED BY <1>5, FlatOfFlat
<1>8. [i \in DOMAIN parts |-> FlattenSeq(parts[i])] = Packets(v)
  <2>1. Packets(v) = [i \in 1..n |-> Packets(v)[i]]
    BY <1>1 DEF Packets
  <2>2. \A i \in 1..n : FlattenSeq(parts[i]) = Packets(v)[i]
    BY <1>2, <1>4
  <2>3. DOMAIN parts = 1..n
    BY <1>4
  <2> QED BY <2>1, <2>2, <2>3
<1>9. AllUnits(AllCuts(v))
  <2> DEFINE all == FlattenSeq(parts)
  <2>1. all \in Seq(GoodUnits)
    BY <1>6
  <2> HIDE DEF all
  <2>2. Len(all) \in Nat /\ all = [k \in 1..Len(all) |-> all[k]] /\ \A k \in 1..Len(all) : all[k] \in GoodUnits
    BY <2>1, LenProperties, ElementOfSeq
  <2>3. \A k \in 1..Len(all) : all[k] \in Seq(Byte) /\ OneSlice(all[k])
    BY <2>2 DEF GoodUnits
  <2>4. all \in Seq(Seq(Byte))
    BY <2>2, <2>3, IsASeq
  <2> QED BY <2>3, <2>4 DEF AllUnits, AllCuts, all
<1> QED BY <1>5, <1>6, <1>7, <1>8, <1>9, Zenon DEF AllCuts

(* Made as a codec makes it, with fields that fit their types. *)
AsMade(v) ==
    /\ WellFormed(v) /\ CodecMakes(v)
    /\ \A i \in DOMAIN v.frames : Fits(v.frames[i].info)

(* The access units yielded are the first of those that the packets become; at
   the end they are all.                                                     *)
CutsSoFar ==
    IF ended THEN aus = AllCuts(video) /\ buf = <<>>
             ELSE \E j \in 0..Len(AllCuts(video)) : aus = First(AllCuts(video), j)

CutsInv ==
    /\ video \in Videos /\ stream = FlattenSeq(Packets(video))
    /\ video.codec # "h264" => pos = 0 /\ ~ended
    /\ video.codec = "h264" /\ ~flushed => CutsSoFar

LEMMA CutsOfVideo ==
    ASSUME PlainSize, NEW v \in Videos, AsMade(v), v.codec = "h264"
    PROVE  /\ AllUnits(AllCuts(v)) /\ AllCuts(v) \in Seq(Seq(Byte)) /\ Len(AllCuts(v)) \in Nat
           /\ FlattenSeq(AllCuts(v)) = FlattenSeq(Packets(v))
<1>1. /\ WellFormed(v) /\ CodecMakes(v)
      /\ \A i \in DOMAIN v.frames : Fits(v.frames[i].info)
  BY DEF AsMade
<1>2. AllUnits(AllCuts(v)) /\ FlattenSeq(AllCuts(v)) = FlattenSeq(Packets(v))
  BY <1>1, VideoCuts
<1> QED BY <1>2, LenProperties DEF AllUnits

LEMMA CutsInit ==
    ASSUME PlainSize, \A v \in Videos : AsMade(v), Init
    PROVE  CutsInv
<1>1. /\ video \in Videos /\ stream = FlattenSeq(Packets(video))
      /\ pos = 0 /\ aus = <<>> /\ ended = FALSE
  BY DEF Init
<1>2. ASSUME video.codec = "h264" PROVE CutsSoFar
  <2> DEFINE units == AllCuts(video)
  <2>1. First(units, 0) = <<>>
    BY SubSeqEmpty DEF First
  <2>2. Len(units) \in Nat
    BY <1>1, <1>2, CutsOfVideo
  <2>3. 0 \in 0..Len(units)
    BY <2>2
  <2>4. \E j \in 0..Len(units) : aus = First(units, j)
    BY <1>1, <2>1, <2>3
  <2> QED BY <1>1, <2>4 DEF CutsSoFar
<1> QED BY <1>1, <1>2 DEF CutsInv

(* What is left in the stream is what is left of the access units. *)
LEMMA CutsAhead ==
    ASSUME PlainSize, \A v \in Videos : AsMade(v), SplitterInv, CutsInv,
           video.codec = "h264", NEW j \in 0..Len(AllCuts(video)), aus = First(AllCuts(video), j)
    PROVE  CutHere(AllCuts(video), j) /\ Rest = FlattenSeq(After(AllCuts(video), j))
<1> DEFINE units == AllCuts(video)
<1>1. video \in Videos /\ stream = FlattenSeq(Packets(video))
  BY DEF CutsInv
<1>2. AllUnits(units) /\ FlattenSeq(units) = stream /\ units \in Seq(Seq(Byte))
  BY <1>1, CutsOfVideo
<1> HIDE DEF units
<1>3. j \in 0..Len(units) /\ aus = First(units, j)
  BY DEF units
<1>4. CutHere(units, j)
  BY <1>2, <1>3, CutIsUnit
<1>5. SubSeq(FlattenSeq(units), Len(FlattenSeq(First(units, j))) + 1, Len(FlattenSeq(units)))
        = FlattenSeq(After(units, j))
  BY <1>2, <1>3, RestIsAfter
<1>6. Rest = FlattenSeq(After(units, j))
  BY <1>2, <1>3, <1>5, Zenon DEF Rest
<1> QED BY <1>4, <1>6 DEF units

LEMMA CutsYield ==
    ASSUME PlainSize, \A v \in Videos : AsMade(v), SplitterInv, CutsInv,
           video.codec = "h264", ~flushed, Yield
    PROVE  CutsSoFar'
<1> DEFINE units == AllCuts(video)
<1>1. PICK end \in FirstAuEnd(buf) :
         /\ aus' = Append(aus, SubSeq(buf, 1, end))
         /\ video' = video /\ ended' = ended
  BY DEF Yield
<1>2. video \in Videos /\ CutsSoFar
  BY DEF CutsInv
<1>3. buf \in Seq(Byte) /\ Len(buf) \in Nat
  BY LenProperties DEF SplitterInv, SplitterTyped
<1>4. ~ended
  <2> SUFFICES ASSUME ended PROVE FALSE
    OBVIOUS
  <2>1. buf = <<>>
    BY <1>2 DEF CutsSoFar
  <2> QED BY <1>1, <2>1, NothingNoBoundary
<1>5. PICK j \in 0..Len(units) : aus = First(units, j)
  BY <1>2, <1>4 DEF CutsSoFar
<1>6. CutHere(units, j) /\ Rest = FlattenSeq(After(units, j))
  BY <1>5, CutsAhead
<1>7. Begins(buf, Rest)
  BY BufferBeginsRest
<1>8. FirstAuEnd(Rest) = FirstAuEnd(buf) /\ FirstAuEnd(Rest) # {}
  BY <1>1, <1>7, BoundaryFinal
<1>9. Len(units) \in Nat /\ units \in Seq(Seq(Byte))
  BY <1>2, CutsOfVideo
<1>10. j # Len(units) /\ j + 1 # Len(units)
  BY <1>6, <1>8 DEF CutHere
<1> DEFINE k == j + 1
           u == units[k]
<1>11. FirstAuEnd(Rest) = {Len(u)} /\ SubSeq(Rest, 1, Len(u)) = u
  BY <1>6, <1>10 DEF CutHere
<1>12. end = Len(u)
  BY <1>1, <1>8, <1>11
<1>13. k \in 0..Len(units) /\ j \in 0..(Len(units) - 1)
  BY <1>9, <1>10
<1>14. First(units, k) = Append(First(units, j), u)
  BY <1>9, <1>13, OneMore
<1> HIDE DEF units, k, u
<1>15. SubSeq(buf, 1, end) = SubSeq(Rest, 1, end)
  <2>1. end \in 0..Len(buf)
    BY <1>1, <1>3, BoundaryWithin
  <2>2. 1 \in Int /\ 1 >= 1 /\ end \in Int /\ end <= Len(buf)
    BY <1>3, <2>1
  <2> QED BY <1>7, <2>2, SameCut
<1>16. aus' = First(units, k)
  BY <1>1, <1>5, <1>11, <1>12, <1>14, <1>15
<1>17. AllCuts(video)' = units
  BY <1>1 DEF units
<1> QED BY <1>1, <1>4, <1>13, <1>16, <1>17 DEF CutsSoFar

LEMMA CutsEnd ==
    ASSUME PlainSize, \A v \in Videos : AsMade(v), SplitterInv, CutsInv,
           video.codec = "h264", ~flushed, EndOfFile
    PROVE  CutsSoFar'
<1> DEFINE units == AllCuts(video)
           done == FlattenSeq(aus)
<1>1. /\ ~ended /\ pos = Len(stream) /\ FirstAuEnd(buf) = {}
      /\ aus' = (IF buf = <<>> THEN aus ELSE Append(aus, buf))
      /\ buf' = <<>> /\ ended' = TRUE /\ video' = video
  BY DEF EndOfFile
<1>2. video \in Videos /\ CutsSoFar
  BY DEF CutsInv
<1>3. /\ buf \in Seq(Byte) /\ stream \in Seq(Byte) /\ done \in Seq(Byte)
      /\ done \o buf = SubSeq(stream, 1, pos)
  BY FlattenTyped DEF SplitterInv, SplitterTyped, NothingLost
<1>4. PICK j \in 0..Len(units) : aus = First(units, j)
  BY <1>1, <1>2 DEF CutsSoFar
<1>5. CutHere(units, j) /\ Rest = FlattenSeq(After(units, j))
  BY <1>4, CutsAhead
<1>6. done \o buf = stream
  BY <1>1, <1>3, SubSeqFull
<1>7. Rest = buf
  <2>1. Rest = SubSeq(stream, Len(done) + 1, Len(stream))
    BY DEF Rest
  <2> HIDE DEF done
  <2>2. SubSeq(done \o buf, Len(done) + 1, Len(done \o buf)) = buf
    BY <1>3, LeftOver
  <2> QED BY <1>6, <2>1, <2>2
<1>8. Len(units) \in Nat /\ units \in Seq(Seq(Byte))
  BY <1>2, CutsOfVideo
<1> HIDE DEF units, done
<1>9. aus' = units
  <2>1. First(units, Len(units)) = units
    BY <1>8, OneMore
  <2>2. CASE j = Len(units)
    <3>1. buf = <<>>
      BY <1>5, <1>7, <2>2 DEF CutHere
    <3> QED BY <1>1, <1>4, <2>1, <2>2, <3>1
  <2>3. CASE j # Len(units)
    <3>1. j \in 0..(Len(units) - 1)
      BY <1>8, <2>3
    <3> DEFINE k == j + 1
               u == units[k]
    <3>2. k = Len(units)
      <4> SUFFICES ASSUME k # Len(units) PROVE FALSE
        OBVIOUS
      <4>1. FirstAuEnd(Rest) = {Len(u)}
        BY <1>5, <2>3 DEF CutHere
      <4> QED BY <1>1, <1>7, <4>1
    <3>3. Rest = u /\ Rest # <<>>
      BY <1>5, <2>3, <3>2 DEF CutHere
    <3>4. First(units, k) = Append(First(units, j), u)
      BY <1>8, <3>1, OneMore
    <3> HIDE DEF k, u
    <3> QED BY <1>1, <1>4, <1>7, <2>1, <3>2, <3>3, <3>4
  <2> QED BY <2>2, <2>3
<1>10. AllCuts(video)' = units
  BY <1>1 DEF units
<1> QED BY <1>1, <1>9, <1>10 DEF CutsSoFar

LEMMA CutsStep ==
    ASSUME PlainSize, \A v \in Videos : AsMade(v), SplitterInv, CutsInv, [Next]_vars
    PROVE  CutsInv'
<1>1. video' = video /\ stream' = stream
  BY DEF Next, Read, Yield, Flush, EndOfFile, vars
<1>2. /\ video \in Videos /\ stream = FlattenSeq(Packets(video))
      /\ video.codec # "h264" => pos = 0 /\ ~ended
      /\ video.codec = "h264" /\ ~flushed => CutsSoFar
  BY DEF CutsInv
<1>3. (video \in Videos /\ stream = FlattenSeq(Packets(video)))'
  BY <1>1, <1>2 DEF Packets, Headers
<1>4. (video.codec # "h264" => pos = 0 /\ ~ended)'
  <2> SUFFICES ASSUME video.codec # "h264" PROVE pos' = 0 /\ ~ended'
    BY <1>1
  <2>1. pos = 0 /\ ~ended
    BY <1>2
  <2>2. ~Read
    BY DEF Read
  <2>3. ~EndOfFile
    BY <2>1 DEF EndOfFile
  <2>4. pos' = pos /\ ended' = ended
    BY <2>2, <2>3 DEF Next, Yield, Flush, vars
  <2> QED BY <2>1, <2>4
<1>5. (video.codec = "h264" /\ ~flushed => CutsSoFar)'
  <2> SUFFICES ASSUME video.codec = "h264", ~flushed' PROVE CutsSoFar'
    BY <1>1
  <2>1. ASSUME flushed' = flushed, aus' = aus, ended' = ended, ended => buf' = buf
        PROVE  CutsSoFar'
    <3>1. CutsSoFar
      BY <1>2, <2>1
    <3> QED BY <1>1, <2>1, <3>1 DEF CutsSoFar
  <2>2. CASE Read
    <3>1. flushed' = flushed /\ aus' = aus /\ ended' = ended /\ ~ended
      BY <2>2 DEF Read
    <3> QED BY <2>1, <3>1
  <2>3. CASE Yield
    <3>1. ~flushed
      BY <2>3 DEF Yield
    <3> QED BY <2>3, <3>1, CutsYield
  <2>4. CASE Flush
    BY <2>4 DEF Flush
  <2>5. CASE EndOfFile
    <3>1. ~flushed
      BY <2>5 DEF EndOfFile
    <3> QED BY <2>5, <3>1, CutsEnd
  <2>6. CASE UNCHANGED vars
    BY <2>1, <2>6 DEF vars
  <2> QED BY <2>2, <2>3, <2>4, <2>5, <2>6 DEF Next
<1> QED BY <1>3, <1>4, <1>5 DEF CutsInv

LEMMA CutsAlways ==
    ASSUME PlainSize, \A v \in Videos : AsMade(v)
    PROVE  Spec => []CutsInv
<1>1. Init => CutsInv
  BY CutsInit
<1>2. SplitterInv /\ CutsInv /\ [Next]_vars => CutsInv'
  BY CutsStep
<1> QED BY <1>1, <1>2, SplitterAlways, PTL DEF Spec

-----------------------------------------------------------------------------
(* What _analyze makes of them *)

TypeAt(d, p) == NalType("h264", d[NalStart(d, p)])

LEMMA NalsAre ==
    ASSUME NEW d \in Seq(Byte), NEW types, NalUnits("h264", d, types)
    PROVE  Nals(d) = Starts(d) /\ TypesIn(d) = {TypeAt(d, p) : p \in Starts(d)}
<1>1. \A p \in Starts(d) : NalStart(d, p) < NalEnd(d, p)
  BY DEF NalUnits
<1>2. \A p \in Starts(d) : NalEnd(d, p) > NalStart(d, p)
  <2> TAKE p \in Starts(d)
  <2> DEFINE a == NalStart(d, p)
             e == NalEnd(d, p)
  <2>1. a \in 1..Len(d) /\ e \in Nat
    BY <1>1, HeaderWithin, EndProperties DEF EndsAt
  <2>2. a < e
    BY <1>1
  <2> HIDE DEF a, e
  <2>3. e > a
    BY <2>1, <2>2
  <2> QED BY <2>3 DEF a, e
<1>3. Nals(d) = Starts(d)
  BY <1>2 DEF Nals
<1> QED BY <1>3 DEF TypesIn, TypeAt

LEMMA TypesWithin ==
    ASSUME NEW d \in Seq(Byte), NEW types, NalUnits("h264", d, types)
    PROVE  TypesIn(d) \subseteq types /\ (d # <<>> => TypesIn(d) # {})
<1>1. TypesIn(d) = {TypeAt(d, p) : p \in Starts(d)}
  BY NalsAre
<1>2. \A p \in Starts(d) : TypeAt(d, p) \in types
  BY DEF NalUnits, TypeAt
<1>3. d # <<>> => 1 \in Starts(d)
  BY DEF NalUnits
<1> QED BY <1>1, <1>2, <1>3

LEMMA TypesJoined ==
    ASSUME NEW x, NEW y, NEW z, JoinOf(x, y, z), NEW types,
           NalUnits("h264", x, types), NalUnits("h264", y, types)
    PROVE  TypesIn(z) = TypesIn(x) \cup TypesIn(y)
<1>1. x \in Seq(Byte) /\ y \in Seq(Byte) /\ z \in Seq(Byte)
  BY DEF JoinOf
<1>2. /\ Closed(x) /\ \A p \in Starts(x) : Opens("h264", x, p, types)
      /\ Ready(y) /\ \A p \in Starts(y) : Opens("h264", y, p, types)
  BY UnitsClosed
<1>3. UnitsMeet("h264", x, y, z) /\ StartsMeet(x, y, z)
  BY <1>2, UnitsJoined, StartsJoined
<1>4. NalUnits("h264", z, types)
  BY NalUnitsJoined
<1>5. /\ TypesIn(x) = {TypeAt(x, p) : p \in Starts(x)}
      /\ TypesIn(y) = {TypeAt(y, p) : p \in Starts(y)}
      /\ TypesIn(z) = {TypeAt(z, p) : p \in Starts(z)}
  BY <1>1, <1>4, NalsAre
<1>6. ASSUME NEW p \in Starts(x) PROVE p \in Starts(z) /\ TypeAt(z, p) = TypeAt(x, p)
  <2> DEFINE t == TypeAt(x, p)
  <2>1. Opens("h264", x, p, {t})
    BY <1>2 DEF Opens, TypeAt
  <2>2. Opens("h264", z, p, {t}) /\ p \in Starts(z)
    BY <1>3, <2>1 DEF UnitsMeet, StartsMeet
  <2> QED BY <2>2 DEF Opens, TypeAt
<1>7. ASSUME NEW q \in Starts(y)
      PROVE  Len(x) + q \in Starts(z) /\ TypeAt(z, Len(x) + q) = TypeAt(y, q)
  <2> DEFINE t == TypeAt(y, q)
  <2>1. Opens("h264", y, q, {t})
    BY <1>2 DEF Opens, TypeAt
  <2>2. Opens("h264", z, Len(x) + q, {t}) /\ Len(x) + q \in Starts(z)
    BY <1>3, <2>1 DEF UnitsMeet, StartsMeet
  <2> QED BY <2>2 DEF Opens, TypeAt
<1>8. \A p \in Starts(z) : p \in Starts(x) \/ \E q \in Starts(y) : p = Len(x) + q
  BY <1>3 DEF StartsMeet
<1>9. ASSUME NEW p \in Starts(z) PROVE TypeAt(z, p) \in TypesIn(x) \cup TypesIn(y)
  <2>1. CASE p \in Starts(x)
    BY <1>5, <1>6, <2>1
  <2>2. CASE \E q \in Starts(y) : p = Len(x) + q
    <3>1. PICK q \in Starts(y) : p = Len(x) + q
      BY <2>2
    <3> QED BY <1>5, <1>7, <3>1
  <2> QED BY <1>8, <2>1, <2>2
<1>10. TypesIn(z) \subseteq TypesIn(x) \cup TypesIn(y)
  BY <1>5, <1>9
<1>11. TypesIn(x) \subseteq TypesIn(z) /\ TypesIn(y) \subseteq TypesIn(z)
  BY <1>5, <1>6, <1>7
<1> QED BY <1>10, <1>11

LEMMA MetaStamped ==
    ASSUME NEW info, info # NoInfo, NEW u \in Seq(Byte), NEW s, Stamped("h264", info, u, s),
           Nals(u) = Starts(u)
    PROVE  Meta(u) = info
<1> DEFINE Record(p) == Message("h264", u, p, NalEnd(u, p), FALSE)
           found == {p \in Nals(u) : Record(p) # NoInfo}
<1>1. /\ s \in Starts(u) /\ Record(s) = info
      /\ \A p \in Starts(u) : p # s => Record(p) = NoInfo
  BY DEF Stamped, ReadAt, Unread
<1>2. found = {s}
  BY <1>1
<1>3. s \in Nat
  BY <1>1, StartsWithin
<1>4. Meta(u) = IF found = {} THEN NoInfo ELSE Record(Max(found))
  BY DEF Meta
<1>5. Max({s}) = s
  <2> DEFINE T == {s}
  <2>1. T \subseteq Nat /\ T # {} /\ s \in Nat /\ \A x \in T : x <= s
    BY <1>3
  <2> HIDE DEF T
  <2>2. Max(T) \in T
    BY <2>1, MaxIsLast
  <2> QED BY <2>2 DEF T
<1> HIDE DEF Record, found
<1>6. found # {} /\ Max(found) = s
  BY <1>2, <1>5
<1> QED BY <1>1, <1>4, <1>6

LEMMA MetaNone ==
    ASSUME NEW u, \A p \in Starts(u) : ~IsSei("h264", u[NalStart(u, p)])
    PROVE  Meta(u) = NoInfo
<1> DEFINE Record(p) == Message("h264", u, p, NalEnd(u, p), FALSE)
           found == {p \in Nals(u) : Record(p) # NoInfo}
<1>1. \A p \in Starts(u) : Record(p) = NoInfo
  <2> TAKE p \in Starts(u)
  <2>1. ~IsSei("h264", u[NalStart(u, p)])
    OBVIOUS
  <2> QED BY <2>1, Zenon DEF Message
<1>2. Nals(u) \subseteq Starts(u)
  BY DEF Nals
<1>3. found = {}
  BY <1>1, <1>2
<1>4. Meta(u) = IF found = {} THEN NoInfo ELSE Record(Max(found))
  BY DEF Meta
<1> QED BY <1>3, <1>4

(* The type of a slice. *)
SliceType(key) == IF key THEN 5 ELSE 1

LEMMA SliceTypesIn ==
    ASSUME NEW y \in Seq(Byte), NEW key, NalUnits("h264", y, SliceTypes("h264", key)),
           Starts(y) = {1}
    PROVE  /\ NalUnits("h264", y, 0..31) /\ NalUnits("h264", y, {1, 5})
           /\ TypesIn(y) = {SliceType(key)}
<1> DEFINE types == SliceTypes("h264", key)
<1>1. types = {SliceType(key)} /\ types \subseteq {1, 5} /\ types \subseteq 0..31
  BY DEF SliceTypes, SliceType
<1> HIDE DEF types
<1>2. NalUnits("h264", y, types)
  BY DEF types
<1> DEFINE one == {1, 5}
           any == 0..31
<1>3. types \subseteq one /\ types \subseteq any
  BY <1>1
<1> HIDE DEF one, any
<1>4. NalUnits("h264", y, one) /\ NalUnits("h264", y, any)
  BY <1>2, <1>3, NalUnitsMore
<1>5. y # <<>>
  <2>1. 1 \in Starts(y)
    OBVIOUS
  <2> QED BY <2>1, NotEmpty
<1>6. TypesIn(y) \subseteq types /\ TypesIn(y) # {}
  BY <1>2, <1>5, TypesWithin
<1> QED BY <1>1, <1>4, <1>6 DEF one, any

(* What stands in front of the stamp holds both kinds of parameter sets where a
   cfg is due, and nowhere else.                                             *)
SetsDue(v, f) == f.info.key /\ Headers(v) # NotRecognised

LEMMA FrontTypes ==
    ASSUME NEW v \in Videos, WellFormed(v), CodecMakes(v), v.codec = "h264", SetsWhereDue(v),
           NEW i \in DOMAIN v.frames
    PROVE  /\ TypesIn(Ahead(v, v.frames[i])) \subseteq 6..9
           /\ {7, 8} \subseteq TypesIn(Ahead(v, v.frames[i])) <=> SetsDue(v, v.frames[i])
<1> DEFINE f == v.frames[i]
           x == f.before
           sets == IF f.info.key /\ Headers(v) # NotRecognised THEN InlineSets(v) ELSE <<>>
           z == x \o sets
           any == 6..9
           both == {7, 8}
<1>1. x \in Seq(Byte)
  BY VideoTyped
<1>2. NalUnits("h264", x, any) /\ NalUnits("h264", InlineSets(v), ParameterSets("h264"))
  <2>1. PictureMade(v, f)
    BY DEF CodecMakes
  <2>2. NalUnits("h264", x, NoSlices("h264"))
    BY <2>1 DEF PictureMade
  <2>3. NoSlices("h264") = any
    BY DEF NoSlices
  <2> QED BY <2>2, <2>3 DEF CodecMakes
<1>3. ParameterSets("h264") \subseteq any
  BY DEF ParameterSets
<1> HIDE DEF any
<1>4. sets \in Seq(Byte) /\ NalUnits("h264", sets, any)
  <2>1. InlineSets(v) \in Seq(Byte) /\ <<>> \in Seq(Byte)
    BY InlineSetsTyped, EmptySeq
  <2>2. NalUnits("h264", <<>>, any)
    BY NoUnits
  <2>3. NalUnits("h264", InlineSets(v), any)
    BY <1>2, <1>3, NalUnitsMore
  <2> QED BY <2>1, <2>2, <2>3
<1> HIDE DEF both
<1>5. /\ both \subseteq TypesIn(InlineSets(v))
      /\ both \subseteq TypesIn(x) => SetsDue(v, f)
  BY DEF SetsWhereDue, SetsDue, both
<1>6. IF SetsDue(v, f) THEN sets = InlineSets(v) ELSE sets = <<>>
  BY DEF SetsDue
<1>7. Ahead(v, f) = z
  BY DEF Ahead
<1>8. TypesIn(<<>>) = {}
  <2> DEFINE d == <<>>
  <2>1. d \in Seq(Byte) /\ Len(d) = 0
    BY EmptySeq
  <2> HIDE DEF d
  <2>2. Starts(d) = {}
    BY <2>1, StartsWithin
  <2>3. TypesIn(d) = {}
    BY <2>2 DEF TypesIn, Nals
  <2> QED BY <2>3 DEF d
<1> HIDE DEF x, sets
<1>9. JoinOf(x, sets, z) /\ z \in Seq(Byte)
  BY <1>1, <1>4, JoinIs, Joined
<1> HIDE DEF z
<1>10. TypesIn(z) = TypesIn(x) \cup TypesIn(sets)
  BY <1>2, <1>4, <1>9, TypesJoined
<1>11. TypesIn(z) \subseteq any
  <2>1. NalUnits("h264", z, any)
    BY <1>2, <1>4, <1>9, NalUnitsJoined
  <2> QED BY <1>9, <2>1, TypesWithin
<1>12. both \subseteq TypesIn(z) <=> SetsDue(v, f)
  <2>1. CASE SetsDue(v, f)
    BY <1>5, <1>6, <1>10, <2>1
  <2>2. CASE ~SetsDue(v, f)
    <3>1. sets = <<>>
      BY <1>6, <2>2
    <3>2. TypesIn(z) = TypesIn(x)
      BY <1>8, <1>10, <3>1
    <3> QED BY <1>5, <2>2, <3>2
  <2> QED BY <2>1, <2>2
<1> QED BY <1>7, <1>11, <1>12 DEF any, both

(* What the streamer makes of the access unit that a stamp and a slice are in. *)
FirstUnit(v, f) ==
    [key |-> f.info.key, meta |-> f.info, cfg |-> SetsDue(v, f)]

LEMMA FirstUnitSent ==
    ASSUME PlainSize, NEW v \in Videos, AsMade(v), v.codec = "h264", SetsWhereDue(v),
           NEW i \in DOMAIN v.frames
    PROVE  LET f == v.frames[i]
               u == (Ahead(v, f) \o BuildNal("h264", f.info)) \o f.slices[1]
           IN  Forwarded(u) = <<FirstUnit(v, f)>>
<1> DEFINE f == v.frames[i]
           x == Ahead(v, f)
           info == f.info
           nal == BuildNal("h264", info)
           head == x \o nal
           y == f.slices[1]
           u == head \o y
           any == 0..31
<1>1. WellFormed(v) /\ CodecMakes(v) /\ Fits(info)
  BY DEF AsMade
<1>2. H264Parts(v, f)
  BY <1>1, H264PartsOf
<1>3. info \in Infos /\ info # NoInfo /\ info.key \in BOOLEAN /\ "h264" \in Codecs
  BY VideoTyped DEF Infos, Codecs
<1>4. Laid("h264", info, x, Picture(f))
  BY <1>1, PacketIs DEF Assembled
<1>5. /\ TypesIn(x) \subseteq 6..9
      /\ {7, 8} \subseteq TypesIn(x) <=> SetsDue(v, f)
  BY <1>1, FrontTypes
<1>6. /\ x \in Seq(Byte) /\ NalUnits("h264", x, 6..9)
      /\ nal \in Seq(Byte) /\ NalUnits("h264", nal, {6})
      /\ y \in Seq(Byte) /\ NalUnits("h264", y, SliceTypes("h264", info.key)) /\ Starts(y) = {1}
  <2>1. f.slices \in Seq(Seq(Byte)) /\ f.slices # <<>>
    BY <1>2 DEF H264Parts
  <2>2. 1 \in 1..Len(f.slices)
    BY <2>1, LenProperties, EmptySeq
  <2> QED BY <1>2, <2>1, <2>2, ElementOfSeq DEF H264Parts
<1> HIDE DEF x, info, nal, y
<1>7. /\ NalUnits("h264", y, any) /\ NalUnits("h264", y, {1, 5})
      /\ TypesIn(y) = {SliceType(info.key)}
  BY <1>6, SliceTypesIn
<1>8. Stamped("h264", info, u, Len(x) + 1)
  <2>1. NalUnits("h264", y, SliceAny("h264"))
    <3>1. {1, 5} \subseteq SliceAny("h264")
      BY DEF SliceAny
    <3> DEFINE more == SliceAny("h264")
               few == {1, 5}
    <3>2. few \subseteq more /\ NalUnits("h264", y, few)
      BY <1>7, <3>1
    <3> HIDE DEF more, few
    <3>3. NalUnits("h264", y, more)
      BY <3>2, NalUnitsMore
    <3> QED BY <3>3 DEF more
  <2>2. Laid("h264", info, x, y)
    BY <1>4, <1>6, <2>1 DEF Laid
  <2> QED BY <1>1, <1>3, <2>2, StampedAt DEF nal
<1>9. NalUnits("h264", x, any) /\ NalUnits("h264", nal, any)
  <2> DEFINE few == 6..9
             one == {6}
  <2>1. few \subseteq any /\ one \subseteq any /\ NalUnits("h264", x, few) /\ NalUnits("h264", nal, one)
    BY <1>6
  <2> HIDE DEF any, few, one
  <2> QED BY <2>1, NalUnitsMore
<1> HIDE DEF any
<1>10. JoinOf(x, nal, head) /\ head \in Seq(Byte)
  BY <1>6, JoinIs, Joined
<1> HIDE DEF head
<1>11. JoinOf(head, y, u) /\ u \in Seq(Byte)
  BY <1>6, <1>10, JoinIs, Joined
<1> HIDE DEF u
<1>12. NalUnits("h264", head, any) /\ TypesIn(head) = TypesIn(x) \cup TypesIn(nal)
  BY <1>9, <1>10, NalUnitsJoined, TypesJoined
<1>13. NalUnits("h264", u, any) /\ TypesIn(u) = TypesIn(head) \cup TypesIn(y)
  BY <1>7, <1>11, <1>12, NalUnitsJoined, TypesJoined
<1>14. TypesIn(nal) \subseteq {6}
  <2> DEFINE one == {6}
  <2>1. NalUnits("h264", nal, one)
    BY <1>6
  <2> HIDE DEF one
  <2>2. TypesIn(nal) \subseteq one
    BY <1>6, <2>1, TypesWithin
  <2> QED BY <2>2 DEF one
<1>15. Meta(u) = info
  <2>1. Nals(u) = Starts(u)
    BY <1>11, <1>13, NalsAre
  <2> QED BY <1>3, <1>8, <1>11, <2>1, MetaStamped
<1> DEFINE types == TypesIn(u)
<1>16. types = (TypesIn(x) \cup TypesIn(nal)) \cup {SliceType(info.key)}
  BY <1>7, <1>12, <1>13
<1> HIDE DEF types
<1>17. (5 \in types) <=> info.key
  <2>1. 5 \notin 6..9 /\ 5 \notin {6}
    OBVIOUS
  <2>2. 5 \notin TypesIn(x) /\ 5 \notin TypesIn(nal)
    BY <1>5, <1>14, <2>1
  <2>3. 5 = SliceType(info.key) <=> info.key
    BY DEF SliceType
  <2> QED BY <1>16, <2>2, <2>3
<1>18. ({7, 8} \subseteq types) <=> SetsDue(v, f)
  <2>1. 7 \notin TypesIn(nal) /\ 8 \notin TypesIn(nal)
    BY <1>14
  <2>2. 7 # SliceType(info.key) /\ 8 # SliceType(info.key)
    BY DEF SliceType
  <2>3. (7 \in types <=> 7 \in TypesIn(x)) /\ (8 \in types <=> 8 \in TypesIn(x))
    BY <1>16, <2>1, <2>2
  <2>4. {7, 8} \subseteq types <=> {7, 8} \subseteq TypesIn(x)
    BY <2>3
  <2> HIDE DEF f
  <2> QED BY <1>5, <2>4
<1> DEFINE K == 5 \in types
           C == {7, 8} \subseteq types
<1>19. /\ K \in BOOLEAN /\ C \in BOOLEAN /\ SetsDue(v, f) \in BOOLEAN
  BY DEF SetsDue
<1>20. K = info.key /\ C = SetsDue(v, f)
  <2> HIDE DEF f
  <2>1. (K <=> info.key) /\ (C <=> SetsDue(v, f))
    BY <1>17, <1>18
  <2> HIDE DEF K, C
  <2> QED BY <1>3, <1>19, <2>1
<1>21. Analyze(u) = [key |-> K \/ (info # NoInfo /\ info.key), meta |-> info, cfg |-> C]
  BY <1>15 DEF Analyze, types
<1> HIDE DEF K, C
<1>22. (K \/ (info # NoInfo /\ info.key)) = info.key
  BY <1>3, <1>19, <1>20, Zenon
<1>23. Analyze(u) = FirstUnit(v, f)
  BY <1>20, <1>21, <1>22, Zenon DEF FirstUnit, info
<1>24. Analyze(u).meta = info
  BY <1>23 DEF FirstUnit, info
<1> HIDE DEF f
<1>25. Forwarded(u) = <<FirstUnit(v, f)>>
  BY <1>3, <1>23, <1>24 DEF Forwarded
<1> QED BY <1>25 DEF u, head, x, nal, y, info, f

(* And of any slice behind it. *)
LaterUnit == [key |-> TRUE, meta |-> NoInfo, cfg |-> FALSE]
LaterSent(key) == IF key THEN <<LaterUnit>> ELSE <<>>

LEMMA LaterUnitSent ==
    ASSUME NEW y \in Seq(Byte), NEW key \in BOOLEAN,
           NalUnits("h264", y, SliceTypes("h264", key)), Starts(y) = {1}
    PROVE  Forwarded(y) = LaterSent(key)
<1>1. TypesIn(y) = {SliceType(key)} /\ NalUnits("h264", y, {1, 5})
  BY SliceTypesIn
<1>2. Meta(y) = NoInfo
  <2>1. ASSUME NEW p \in Starts(y) PROVE ~IsSei("h264", y[NalStart(y, p)])
    <3>1. NalType("h264", y[NalStart(y, p)]) \in {1, 5}
      BY <1>1 DEF NalUnits
    <3> QED BY <3>1 DEF IsSei
  <2> QED BY <2>1, MetaNone
<1>3. (5 \in TypesIn(y)) <=> key
  BY <1>1 DEF SliceType
<1>4. ~({7, 8} \subseteq TypesIn(y))
  BY <1>1 DEF SliceType
<1> DEFINE K == 5 \in TypesIn(y)
           C == {7, 8} \subseteq TypesIn(y)
           M == NoInfo # NoInfo /\ NoInfo.key
<1>5. K = key /\ C = FALSE
  <2>1. K \in BOOLEAN /\ C \in BOOLEAN
    OBVIOUS
  <2>2. (K <=> key) /\ ~C
    BY <1>3, <1>4
  <2> HIDE DEF K, C
  <2> QED BY <2>1, <2>2
<1>6. Analyze(y) = [key |-> K \/ (NoInfo # NoInfo /\ NoInfo.key), meta |-> NoInfo, cfg |-> C]
  BY <1>2 DEF Analyze
<1> HIDE DEF K, C
<1>7. (K \/ (NoInfo # NoInfo /\ NoInfo.key)) = key
  BY <1>5, Zenon
<1>8. Analyze(y) = [key |-> key, meta |-> NoInfo, cfg |-> FALSE]
  BY <1>5, <1>6, <1>7, Zenon
<1>9. Analyze(y).key = key /\ Analyze(y).meta = NoInfo
  BY <1>8
<1>10. CASE key
  <2>1. key = TRUE
    BY <1>10
  <2>2. Analyze(y) = LaterUnit
    BY <1>8, <2>1, Zenon DEF LaterUnit
  <2>3. Forwarded(y) = <<Analyze(y)>>
    BY <1>9, <1>10 DEF Forwarded
  <2> QED BY <1>10, <2>2, <2>3 DEF LaterSent
<1>11. CASE ~key
  BY <1>9, <1>11 DEF Forwarded, LaterSent
<1> QED BY <1>10, <1>11

(* What the streamer sends of an access unit, of those that it may meet. *)
Sends == [u \in GoodUnits |-> Forwarded(u)]
Analyzed == {Analyze(u) : u \in GoodUnits}

LEMMA SendsTyped == Sends \in [GoodUnits -> Seq(Analyzed)]
<1>1. ASSUME NEW u \in GoodUnits PROVE Forwarded(u) \in Seq(Analyzed)
  <2> DEFINE a == Analyze(u)
  <2>1. a \in Analyzed
    BY DEF Analyzed
  <2>2. Forwarded(u) = IF a.key \/ a.meta # NoInfo THEN <<a>> ELSE <<>>
    BY DEF Forwarded
  <2> HIDE DEF a
  <2>3. <<a>> \in Seq(Analyzed) /\ <<>> \in Seq(Analyzed)
    BY <2>1
  <2> QED BY <2>2, <2>3
<1> QED BY <1>1 DEF Sends

(* The slices behind the first, as many as "n". *)
Later(key, n) == [j \in 1..(IF key THEN n ELSE 0) |-> LaterUnit]

LEMMA LaterMore ==
    ASSUME NEW key \in BOOLEAN, NEW n \in Nat
    PROVE  /\ Later(key, n) \in Seq({LaterUnit}) /\ LaterSent(key) \in Seq({LaterUnit})
           /\ Later(key, n) \o LaterSent(key) = Later(key, n + 1)
<1> DEFINE S == {LaterUnit}
           a == Later(key, n)
           b == Later(key, n + 1)
           l == LaterUnit
<1>1. l \in S
  OBVIOUS
<1> HIDE DEF S, l
<1>2. a = [j \in 1..(IF key THEN n ELSE 0) |-> l]
      /\ b = [j \in 1..(IF key THEN n + 1 ELSE 0) |-> l]
      /\ LaterSent(key) = IF key THEN <<l>> ELSE <<>>
  BY DEF Later, LaterSent, l
<1> HIDE DEF a, b
<1> DEFINE m == IF key THEN n ELSE 0
           k == IF key THEN n + 1 ELSE 0
<1>3. m \in Nat /\ k \in Nat /\ (key => k = m + 1) /\ (~key => k = m)
  OBVIOUS
<1>4. a = [j \in 1..m |-> l] /\ b = [j \in 1..k |-> l]
  BY <1>2
<1> HIDE DEF m, k
<1>5. a \in Seq(S) /\ b \in Seq(S) /\ Len(a) = m /\ Len(b) = k
  BY <1>1, <1>3, <1>4
<1>6. LaterSent(key) \in Seq(S)
  BY <1>1, <1>2
<1>7. a \o LaterSent(key) = b
  <2>1. CASE key
    <3>1. a \o <<l>> = Append(a, l)
      BY <1>1, <1>5, AppendIsConcat
    <3>2. Append(a, l) = b
      BY <1>1, <1>3, <1>4, <1>5, <2>1
    <3> QED BY <1>2, <2>1, <3>1, <3>2
  <2>2. CASE ~key
    <3>1. a \o <<>> = a
      BY <1>5, ConcatEmptySeq
    <3>2. a = b
      BY <1>3, <1>4, <2>2
    <3> QED BY <1>2, <2>2, <3>1, <3>2
  <2> QED BY <2>1, <2>2
<1> QED BY <1>5, <1>6, <1>7 DEF a, b, S

(* What is due of a frame. *)
DueOf(v, f) == <<FirstUnit(v, f)>> \o Later(f.info.key, Len(f.slices) - 1)

LEMMA FrameSent ==
    ASSUME PlainSize, NEW v \in Videos, AsMade(v), v.codec = "h264", SetsWhereDue(v),
           NEW i \in DOMAIN v.frames
    PROVE  /\ Cuts(v, v.frames[i]) \in Seq(GoodUnits)
           /\ Forms(Sends, Cuts(v, v.frames[i])) = DueOf(v, v.frames[i])
<1> DEFINE f == v.frames[i]
           c == Cuts(v, f)
           n == Len(f.slices)
           m == n - 1
           key == f.info.key
           first == FirstUnit(v, f)
           T == {j \in 0..m : Forms(Sends, First(c, j + 1)) = <<first>> \o Later(key, j)}
<1>1. H264Parts(v, f)
  BY H264PartsOf DEF AsMade
<1>2. /\ n \in Nat /\ n # 0 /\ key \in BOOLEAN
      /\ \A j \in 1..n : /\ f.slices[j] \in Seq(Byte) /\ Starts(f.slices[j]) = {1}
                         /\ NalUnits("h264", f.slices[j], SliceTypes("h264", key))
  <2>1. /\ f.slices \in Seq(Seq(Byte)) /\ f.slices # <<>> /\ f.info \in Infos
        /\ \A j \in 1..Len(f.slices) :
              NalUnits("h264", f.slices[j], SliceTypes("h264", f.info.key)) /\ Starts(f.slices[j]) = {1}
    BY <1>1 DEF H264Parts
  <2>2. f.info.key \in BOOLEAN
    BY <2>1 DEF Infos
  <2>3. n \in Nat /\ n # 0 /\ \A j \in 1..n : f.slices[j] \in Seq(Byte)
    BY <2>1, LenProperties, EmptySeq, ElementOfSeq
  <2> QED BY <2>1, <2>2, <2>3
<1>3. AllUnits(c) /\ Len(c) = n
  BY <1>1, FrameCuts
<1>4. c \in Seq(GoodUnits)
  BY <1>3, AreGood
<1>5. \A j \in 1..n : c[j] = IF j = 1 THEN (Ahead(v, f) \o BuildNal("h264", f.info)) \o f.slices[1]
                             ELSE f.slices[j]
  BY DEF Cuts, WithFront
<1>6. Forwarded(c[1]) = <<first>>
  <2>1. 1 \in 1..n
    BY <1>2
  <2>2. c[1] = (Ahead(v, f) \o BuildNal("h264", f.info)) \o f.slices[1]
    BY <1>5, <2>1
  <2> QED BY <2>2, FirstUnitSent
<1>7. ASSUME NEW j \in 1..n, j # 1 PROVE Forwarded(c[j]) = LaterSent(key)
  <2> DEFINE y == f.slices[j]
  <2>1. c[j] = y /\ y \in Seq(Byte) /\ NalUnits("h264", y, SliceTypes("h264", key)) /\ Starts(y) = {1}
    BY <1>2, <1>5, <1>7
  <2> HIDE DEF y, c, key
  <2> QED BY <1>2, <2>1, LaterUnitSent
<1> HIDE DEF c, n, key, first, f
<1>8. m \in Nat /\ m + 1 = n
  BY <1>2
<1>9. /\ First(c, 0) = <<>> /\ First(c, n) = c
      /\ \A j \in 0..(n - 1) :
            /\ First(c, j) \in Seq(GoodUnits) /\ c[j + 1] \in GoodUnits
            /\ First(c, j + 1) = Append(First(c, j), c[j + 1])
  BY <1>3, <1>4, OneMore
<1>10. ASSUME NEW p \in Seq(GoodUnits), NEW u \in GoodUnits
       PROVE  Forms(Sends, Append(p, u)) = Forms(Sends, p) \o Forwarded(u)
  <2>1. InSteps(GoodUnits, Analyzed, Sends, p)
    BY SendsTyped, AnyForms
  <2>2. Sends[u] = Forwarded(u)
    BY DEF Sends
  <2> QED BY <2>1, <2>2 DEF InSteps
<1> DEFINE E == {first, LaterUnit}
<1>11. <<first>> \in Seq(E) /\ \A j \in Nat : Later(key, j) \in Seq(E) /\ LaterSent(key) \in Seq(E)
  <2>1. first \in E /\ {LaterUnit} \subseteq E
    OBVIOUS
  <2> HIDE DEF E
  <2>2. <<first>> \in Seq(E)
    BY <2>1
  <2>3. ASSUME NEW j \in Nat PROVE Later(key, j) \in Seq(E) /\ LaterSent(key) \in Seq(E)
    <3> DEFINE one == {LaterUnit}
    <3>1. Later(key, j) \in Seq(one) /\ LaterSent(key) \in Seq(one) /\ one \subseteq E
      BY <1>2, <2>1, LaterMore
    <3> HIDE DEF one
    <3> QED BY <3>1
  <2> QED BY <2>2, <2>3
<1> HIDE DEF E
<1>12. 0 \in T
  <2>1. 0 \in 0..(n - 1) /\ 0 + 1 = 1
    BY <1>2
  <2>2. First(c, 0 + 1) = Append(<<>>, c[1]) /\ <<>> \in Seq(GoodUnits) /\ c[1] \in GoodUnits
    BY <1>9, <2>1
  <2>3. Forms(Sends, First(c, 0 + 1)) = Forms(Sends, <<>>) \o Forwarded(c[1])
    BY <1>10, <2>2
  <2>4. Forms(Sends, <<>>) = <<>>
    BY FormsEmpty
  <2>5. <<>> \o <<first>> = <<first>>
    BY <1>11, ConcatEmptySeq
  <2>6. <<first>> \o Later(key, 0) = <<first>>
    <3>1. Later(key, 0) = <<>>
      <4>1. Later(key, 0) = [j \in 1..0 |-> LaterUnit]
        BY DEF Later
      <4> QED BY <4>1
    <3> QED BY <1>11, <3>1, ConcatEmptySeq
  <2>7. Forms(Sends, First(c, 0 + 1)) = <<first>> \o Later(key, 0)
    BY <1>6, <2>3, <2>4, <2>5, <2>6
  <2> QED BY <1>8, <2>7
<1>13. ASSUME NEW j \in 0..(m - 1), j \in T PROVE j + 1 \in T
  <2> DEFINE k == j + 1
             p == First(c, k)
             u == c[k + 1]
             more == Later(key, k)
  <2>1. k \in 0..(n - 1) /\ k \in 0..m /\ k + 1 \in 1..n /\ k + 1 # 1 /\ j \in Nat
    BY <1>2, <1>8
  <2>2. Forms(Sends, p) = <<first>> \o Later(key, j)
    BY <1>13
  <2>3. Later(key, j) \o LaterSent(key) = more
    BY <1>2, <2>1, LaterMore
  <2> HIDE DEF k
  <2>4. p \in Seq(GoodUnits) /\ u \in GoodUnits /\ First(c, k + 1) = Append(p, u)
    BY <1>9, <2>1
  <2>5. Forwarded(u) = LaterSent(key)
    BY <1>7, <2>1
  <2> HIDE DEF p, u
  <2>6. Forms(Sends, Append(p, u)) = Forms(Sends, p) \o Forwarded(u)
    BY <1>10, <2>4
  <2> DEFINE a == <<first>>
             b == Later(key, j)
             d == LaterSent(key)
  <2>7. a \in Seq(E) /\ b \in Seq(E) /\ d \in Seq(E)
    BY <1>11, <2>1
  <2> HIDE DEF a, b, d, more
  <2>8. Regroups(a, b, d)
    BY <2>7, AnyAssociative
  <2>9. (a \o b) \o d = a \o (b \o d)
    BY <2>8 DEF Regroups
  <2>10. Forms(Sends, First(c, k + 1)) = a \o more
    BY <2>2, <2>3, <2>4, <2>5, <2>6, <2>9, Zenon DEF a, b, d
  <2> QED BY <2>1, <2>10 DEF k, a, more
<1>14. m \in T
  <2> HIDE DEF T
  <2>1. \A j \in 0..m : j \in T
    BY <1>8, <1>12, <1>13, Induction
  <2> QED BY <1>8, <2>1
<1>15. Forms(Sends, c) = <<first>> \o Later(key, m)
  <2>1. Forms(Sends, First(c, m + 1)) = <<first>> \o Later(key, m)
    BY <1>14
  <2> QED BY <1>8, <1>9, <2>1
<1> QED BY <1>4, <1>15 DEF DueOf, c, first, key, n, f

(* Every frame is sent on with its own stamp, once and in order, a keyframe with
   its parameter sets, and of the slices behind the first exactly a keyframe's,
   however the stream was cut into reads: as long as no run without an access unit
   is longer than the buffer may get.                                        *)
THEOREM Spec_StampsKept ==
    ASSUME PlainSize,
           \A v \in Videos : WellFormed(v) /\ CodecMakes(v),
           \A v \in Videos : v.codec = "h264" => SetsWhereDue(v),
           \A v \in Videos : \A i \in DOMAIN v.frames : Fits(v.frames[i].info)
    PROVE  Spec => []StampsKept
<1>1. \A v \in Videos : AsMade(v)
  BY DEF AsMade
<1>2. ASSUME CutsInv, ended, ~flushed
      PROVE  Sent = FlattenSeq([i \in DOMAIN video.frames |-> UnitsOf(video.frames[i])])
  <2> DEFINE parts == CutsOf(video)
  <2>1. video \in Videos /\ video.codec = "h264" /\ aus = AllCuts(video)
    BY <1>2 DEF CutsInv, CutsSoFar
  <2>2. AsMade(video) /\ SetsWhereDue(video)
    BY <1>1, <2>1
  <2>3. parts \in Seq(Seq(GoodUnits)) /\ aus \in Seq(GoodUnits) /\ aus = FlattenSeq(parts)
        /\ DOMAIN parts = DOMAIN video.frames
        /\ \A i \in DOMAIN parts : parts[i] = Cuts(video, video.frames[i])
    <3>1. CutsOf(video) \in Seq(Seq(GoodUnits)) /\ AllCuts(video) \in Seq(GoodUnits)
      BY <2>1, <2>2, VideoCuts DEF AsMade
    <3>2. aus = FlattenSeq(parts)
      BY <2>1 DEF AllCuts
    <3>3. DOMAIN parts = DOMAIN video.frames
          /\ \A i \in DOMAIN parts : parts[i] = Cuts(video, video.frames[i])
      BY DEF CutsOf
    <3> QED BY <2>1, <3>1, <3>2, <3>3, Zenon
  <2> HIDE DEF parts
  <2>4. Sent = Forms(Sends, aus)
    <3>1. \A i \in DOMAIN aus : aus[i] \in GoodUnits
      BY <2>3, LenProperties, ElementOfSeq
    <3>2. [i \in DOMAIN aus |-> Forwarded(aus[i])] = [i \in DOMAIN aus |-> Sends[aus[i]]]
      BY <3>1 DEF Sends
    <3> QED BY <3>2, Zenon DEF Sent, Forms
  <2>5. FormsOf(GoodUnits, Analyzed, Sends, parts)
    BY <2>3, SendsTyped, FormsOfFlat
  <2>6. Sent = FlattenSeq([i \in DOMAIN parts |-> Forms(Sends, parts[i])])
    BY <2>3, <2>4, <2>5, Zenon DEF FormsOf
  <2>7. ASSUME NEW i \in DOMAIN video.frames
        PROVE  Forms(Sends, parts[i]) = UnitsOf(video.frames[i])
    <3> DEFINE f == video.frames[i]
    <3>1. Forms(Sends, parts[i]) = DueOf(video, f)
      BY <2>1, <2>2, <2>3, FrameSent
    <3>2. DueOf(video, f) = UnitsOf(f)
      <4> HIDE DEF f
      <4>1. UnitsOf(f) = <<FirstUnit(video, f)>> \o
               [j \in 1..(IF f.info.key THEN Len(f.slices) - 1 ELSE 0) |-> LaterUnit]
        BY Zenon DEF UnitsOf, FirstUnit, SetsDue, LaterUnit
      <4> QED BY <4>1, Zenon DEF DueOf, Later
    <3> QED BY <3>1, <3>2
  <2>8. [i \in DOMAIN parts |-> Forms(Sends, parts[i])]
          = [i \in DOMAIN video.frames |-> UnitsOf(video.frames[i])]
    BY <2>3, <2>7
  <2> QED BY <2>6, <2>8, Zenon
<1>3. CutsInv => StampsKept
  BY <1>2 DEF StampsKept
<1> QED BY <1>1, <1>3, CutsAlways, PTL
=============================================================================
