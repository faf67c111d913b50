------------------------------ MODULE H26xUtil ------------------------------
(* src/src/h26x-util.c: where a fresh SEI belongs in a packet, and the inline
   parameter sets that are made of the codec's extradata.                   *)
EXTENDS SeiPayload

CONSTANT NotRecognised    \* no parameter sets could be made

-----------------------------------------------------------------------------
(* Mutant: existing SEI does not count as a prefix. *)
PrefixTypesNoSei(codec) ==
    IF codec = "h264" THEN {9, 7, 8} ELSE {35, 32, 33, 34}

PrefixTypes(codec) ==
    IF codec = "h264" THEN {9, 7, 8, 6} ELSE {35, 32, 33, 34, 39, 40}

(* Bytes before the first NAL that is no prefix; everything if there is none. *)
PrefixNalBytes(codec, d) ==
    LET Plain(p) == NalType(codec, d[NalStart(d, p)]) \notin PrefixTypes(codec)
        empty == {p \in Starts(d) : NalStart(d, p) > Len(d)}
        first == {p \in Starts(d) \ empty : Plain(p)}
    IN  CASE CodeAt(d, 1) = 0 \/ (first = {} /\ empty # {}) -> 0
          [] CodeAt(d, 1) # 0 /\ first # {} -> Min(first) - 1
          [] OTHER -> Len(d)

-----------------------------------------------------------------------------
(* What has been read of a blob: where reading goes on, 0 once a field reaches
   beyond the end (which makes the whole blob unrecognised), and the NAL units
   found, in Annex-B form.                                                  *)
Beyond == [at |-> 0, out |-> <<>>]

(* A 16-bit number that stands at xd[at]. *)
Number16(xd, at) == 256 * xd[at] + xd[at + 1]

(* One NAL unit more, with its length before it. *)
SizedUnit(xd, s) ==
    LET len == Number16(xd, s.at)
    IN  IF s.at = 0 \/ s.at + 1 > Len(xd) \/ s.at + 1 + len > Len(xd)
        THEN Beyond
        ELSE [at |-> s.at + 2 + len,
              out |-> s.out \o StartCode \o SubSeq(xd, s.at + 2, s.at + 1 + len)]

(* "count" of them that start at xd[at]. *)
Sized(xd, at, count) ==
    LET step[i \in 0..count] ==
          IF i = 0 THEN [at |-> at, out |-> <<>>] ELSE SizedUnit(xd, step[i - 1])
    IN  step[count]

(* Mutant: the reserved bits are taken as part of the number of SPS. *)
AvccUnmasked(xd) ==
    LET sps == Sized(xd, 7, xd[6])
        pps == Sized(xd, sps.at + 1, xd[sps.at])
    IN  IF \/ Len(xd) < 7 \/ xd[1] # 1
           \/ sps.at = 0 \/ sps.at > Len(xd)
           \/ pps.at = 0
           \/ sps.out \o pps.out = <<>>
        THEN NotRecognised
        ELSE sps.out \o pps.out

(* avcC: five bits of SPS count, the SPS, a PPS count, the PPS. *)
ParseAvcc(xd) ==
    LET sps == Sized(xd, 7, xd[6] % 32)
        pps == Sized(xd, sps.at + 1, xd[sps.at])
    IN  IF \/ Len(xd) < 7 \/ xd[1] # 1
           \/ sps.at = 0 \/ sps.at > Len(xd)
           \/ pps.at = 0
           \/ sps.out \o pps.out = <<>>
        THEN NotRecognised
        ELSE sps.out \o pps.out

(* An array of NAL units more: a type, a 16-bit count of at most 64, the units. *)
UnitArray(xd, s) ==
    LET n == Number16(xd, s.at + 1)
        units == Sized(xd, s.at + 3, n)
    IN  IF s.at = 0 \/ s.at + 2 > Len(xd) \/ n \notin 1..64 \/ units.at = 0
        THEN Beyond
        ELSE [at |-> units.at, out |-> s.out \o units.out]

UnitArrays(xd, count) ==
    LET array[a \in 0..count] ==
          IF a = 0 THEN [at |-> 24, out |-> <<>>] ELSE UnitArray(xd, array[a - 1])
    IN  array[count]

ParseHvcc(xd) ==
    LET all == UnitArrays(xd, xd[23])
    IN  IF \/ Len(xd) < 23 \/ xd[1] # 1
           \/ all.at = 0 \/ all.out = <<>>
        THEN NotRecognised
        ELSE all.out

ExtradataToAnnexb(codec, xd) ==
    CASE Len(xd) < 4 -> NotRecognised
      [] Len(xd) >= 4 /\ CodeAt(xd, 1) > 0 -> xd
      [] OTHER -> IF codec = "h264" THEN ParseAvcc(xd) ELSE ParseHvcc(xd)

-----------------------------------------------------------------------------
(* The packet the encoder hands over: prefix, inline headers, SEI, the rest. *)
AssemblePacket(codec, packet, headers, info) ==
    LET prefix == PrefixNalBytes(codec, packet)
    IN  SubSeq(packet, 1, prefix)
        \o (IF info.key /\ headers # NotRecognised THEN headers ELSE <<>>)
        \o BuildNal(codec, info)
        \o SubSeq(packet, prefix + 1, Len(packet))
=============================================================================
