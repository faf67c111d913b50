---------------------------- MODULE AlignStreams ----------------------------
(* pair_report of src/tools/align_streams.py: every stamped frame of capture b
   is paired with the nearest frame of capture a, in one sweep over both, and the
   offset of b's clock is estimated from the differences.

   A frame is its realtime stamp.  parse_stream returns the frames sorted.  Of the
   report the number of pairs and the median are kept; mad, range and drift are left out. *)
EXTENDS Integers, Sequences, SequencesExt

CONSTANTS
    Captures,     \* what parse_stream may return
    W_US,         \* 2 000 000 in the code
    Slack,        \* 25000
    MinPairs,     \* 8 in the code
    None

ASSUME AlignAssumption ==
    /\ \A c \in Captures : /\ c \in Seq(Int)
                           /\ \A i, j \in 1..Len(c) : i <= j => c[i] <= c[j]
    /\ W_US \in Nat /\ Slack \in Nat /\ MinPairs \in Nat \ {0} /\ None \notin Int

VARIABLES
    a, b,            \* the stamps of the captures
    pc,
    i,               \* the frame of b in turn: bv is its stamp
    ia_lo, ia,       \* the lower end of the sweep in a; the frame of a in turn
    best,            \* the least difference so far
    pairs,           \* the number of a frame of b, in place of bv, and its best
    report

vars == <<a, b, pc, i, ia_lo, ia, best, pairs, report>>

abs(x) == IF x < 0 THEN -x ELSE x

bv == b[i]
lo == bv - W_US
hi == bv + W_US

Init == /\ a \in Captures /\ b \in Captures
        /\ pc = "start" /\ i = 1 /\ ia_lo = 1 /\ ia = 1
        /\ best = None /\ pairs = <<>> /\ report = None

Start == /\ pc = "start"
         /\ pc' = IF a = <<>> \/ b = <<>> THEN "done" ELSE "skip"
         /\ UNCHANGED <<a, b, i, ia_lo, ia, best, pairs, report>>

Older == ia_lo <= Len(a) /\ a[ia_lo] < lo

(* Frames of a that are too old for this frame of b, and so for the later ones. *)
SkipOlder == /\ pc = "skip" /\ Older
             /\ ia_lo' = ia_lo + 1
             /\ UNCHANGED <<a, b, pc, i, ia, best, pairs, report>>

(* Mutant: the sweep goes on where that of the frame before ended. *)
StartScanBehind ==
    /\ pc = "skip" /\ ~Older
    /\ pc' = "scan" /\ ia' = IF ia > ia_lo THEN ia ELSE ia_lo
    /\ best' = None
    /\ UNCHANGED <<a, b, i, ia_lo, pairs, report>>

StartScan == /\ pc = "skip" /\ ~Older
             /\ pc' = "scan" /\ ia' = ia_lo /\ best' = None
             /\ UNCHANGED <<a, b, i, ia_lo, pairs, report>>

InWindow == ia <= Len(a) /\ a[ia] <= hi

(* Mutant: the sign is kept in the comparison. *)
BetterSigned(d) == IF best = None \/ d < best THEN d ELSE best

Better(d) == IF best = None \/ abs(d) < abs(best) THEN d ELSE best

(* One frame of a in the window; the sweep ends when the distance has grown. *)
Scan == /\ pc = "scan" /\ InWindow
        /\ best' = Better(bv - a[ia])
        /\ ia' = ia + 1
        /\ pc' = IF abs(bv - a[ia]) > abs(best') + Slack THEN "pair" ELSE "scan"
        /\ UNCHANGED <<a, b, i, ia_lo, pairs, report>>

EndScan == /\ pc = "scan" /\ ~InWindow
           /\ pc' = "pair"
           /\ UNCHANGED <<a, b, i, ia_lo, ia, best, pairs, report>>

Pair == /\ pc = "pair"
        /\ pairs' = IF best = None THEN pairs
                    ELSE Append(pairs, [frame |-> i, best |-> best])
        /\ i' = i + 1
        /\ pc' = IF i = Len(b) THEN "report" ELSE "skip"
        /\ UNCHANGED <<a, b, ia_lo, ia, best, report>>

(* Python's sorted: the same values, in order. *)
sorted(s) ==
    LET order == CHOOSE p \in Bijection(DOMAIN s, DOMAIN s) :
                    \A k, l \in DOMAIN s : k < l => s[p[k]] <= s[p[l]]
    IN  [k \in DOMAIN s |-> s[order[k]]]

(* diffs[n // 2] *)
Median(diffs) == diffs[Len(diffs) \div 2 + 1]

Report ==
    /\ pc = "report" /\ pc' = "done"
    /\ report' =
          IF Len(pairs) < MinPairs THEN [n |-> Len(pairs), overlap |-> FALSE]
          ELSE LET diffs == sorted([k \in DOMAIN pairs |-> pairs[k].best])
               IN  [n |-> Len(pairs), overlap |-> TRUE, median |-> Median(diffs)]
    /\ UNCHANGED <<a, b, i, ia_lo, ia, best, pairs>>

Next == Start \/ SkipOlder \/ StartScan \/ Scan \/ EndScan \/ Pair \/ Report

Spec == Init /\ [][Next]_vars

-----------------------------------------------------------------------------
Distance(j, x) == abs(b[j] - a[x])
Near(j) == {x \in DOMAIN a : Distance(j, x) <= W_US}

(* The sweep, which never goes back in a and stops early, misses nothing: of the
   frames of b so far, exactly those with a frame of a in the window are paired,
   each once, in order, and with a nearest frame of the whole of a.           *)
NearestPaired ==
    /\ \A k \in DOMAIN pairs :
          LET p == pairs[k]
          IN  /\ p.frame < i
              /\ \E x \in Near(p.frame) :
                    /\ p.best = b[p.frame] - a[x]
                    /\ \A y \in DOMAIN a : Distance(p.frame, x) <= Distance(p.frame, y)
    /\ \A j \in 1..(i - 1) : Near(j) # {} => \E k \in DOMAIN pairs : pairs[k].frame = j
    /\ \A k, l \in DOMAIN pairs : k < l => pairs[k].frame < pairs[l].frame

Overlap == report # None /\ report.overlap

(* Capture b is capture a with every stamp k later. *)
Shifted(k) == Len(a) = Len(b) /\ \A x \in DOMAIN a : b[x] = a[x] + k

(* "Estimates b's stamp offset": if the clocks differ by less than half of every
   frame interval, the median is the difference.                              *)
SmallShiftMeasured ==
    Overlap =>
        LET k == b[1] - a[1]
        IN  Shifted(k) /\ (\A y \in 2..Len(a) : 2 * abs(k) < a[y] - a[y - 1])
            => report.median = k
=============================================================================
