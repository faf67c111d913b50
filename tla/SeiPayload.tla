----------------------------- MODULE SeiPayload -----------------------------
(* The wire format of src/src/sei-payload.c, with its two readers: the C parser
   and the one the Python tools share.  A NAL unit, a packet and a stream are
   sequences of bytes, indexed from 1.

   The widths of the UUID and of the fields are parameters: 16, 4 and 8 bytes
   in the code, shorter ones when the format is model checked.              *)
EXTENDS Integers, Sequences, FiniteSetsExt, SequencesExt

CONSTANTS
    UUID,        \* SEI_TS_UUID
    SeqBytes,    \* width of frame_seq
    TimeBytes,   \* width of media_pts and realtime_us
    NoInfo       \* no record found

ASSUME PayloadAssumption ==
    /\ UUID \in Seq(0..255) /\ SeqBytes \in Nat \ {0} /\ TimeBytes \in Nat \ {0}

Codecs == {"h264", "hevc"}

-----------------------------------------------------------------------------
(* Numbers.  A negative time goes through uint64_t: two's complement. *)

(* v, v >> 8, v >> 16, ... *)
Shifted(v, w) ==
    LET shift[k \in 0..w] == IF k = 0 THEN v ELSE shift[k - 1] \div 256 IN shift

BigEndian(v, w) == [i \in 1..w |-> Shifted(v, w)[w - i] % 256]

(* The bytes behind a number that is 0, or -1 for the cast back to int64_t. *)
Number(ahead, bytes) ==
    LET value[i \in 0..Len(bytes)] == IF i = 0 THEN ahead ELSE 256 * value[i - 1] + bytes[i]
    IN  value[Len(bytes)]

Unsigned(bytes) == Number(0, bytes)

(* Mutant: the cast back to int64_t is forgotten. *)
SignedAsUnsigned(bytes) == Unsigned(bytes)

Signed(bytes) == Number(IF bytes[1] >= 128 THEN -1 ELSE 0, bytes)

(* payloadType and payloadSize: a chain of 255s and a last byte below. *)
VarUint(v) == [i \in 1..(v \div 255) |-> 255] \o <<v % 255>>

(* The value read from d[at..end] and where reading goes on; 0 on an error. *)
ReadVarUint(d, at, end) ==
    LET last == SelectInSubSeq(d, at, end, LAMBDA b : b # 255)
    IN  IF last = 0 THEN [value |-> 0, next |-> 0]
                    ELSE [value |-> 255 * (last - at) + d[last], next |-> last + 1]

-----------------------------------------------------------------------------
(* Emulation prevention *)

(* Mutant: only the three-byte start code is prevented. *)
StuffBeforeOne(zeros, b) == zeros >= 2 /\ b = 1

NeedsStuffing(zeros, b) == zeros >= 2 /\ b <= 3

ZerosAfter(zeros, b) == IF b = 0 THEN zeros + 1 ELSE 0

(* One byte more: what is out, and how many zeros it ends in. *)
EscapeByte(s, b) ==
    IF NeedsStuffing(s.zeros, b)
    THEN [out |-> s.out \o <<3, b>>, zeros |-> ZerosAfter(0, b)]
    ELSE [out |-> Append(s.out, b), zeros |-> ZerosAfter(s.zeros, b)]

(* The bytes, escaped after something that ended in so many zeros. *)
Escape(before, bytes) ==
    LET step[i \in 0..Len(bytes)] ==
          IF i = 0 THEN [out |-> <<>>, zeros |-> before]
                   ELSE EscapeByte(step[i - 1], bytes[i])
    IN  step[Len(bytes)].out

UnescapeByte(s, b, want) ==
    CASE Len(s.out) >= want -> s
      [] Len(s.out) < want /\ s.zeros >= 2 /\ b = 3 -> [out |-> s.out, zeros |-> 0]
      [] OTHER -> [out |-> Append(s.out, b), zeros |-> ZerosAfter(s.zeros, b)]

(* At most "want" bytes of the unescaped form of "bytes". *)
Unescape(bytes, want) ==
    LET step[i \in 0..Len(bytes)] ==
          IF i = 0 THEN [out |-> <<>>, zeros |-> 0]
                   ELSE UnescapeByte(step[i - 1], bytes[i], want)
    IN  step[Len(bytes)].out

TrailingZeros(bytes) ==
    Len(bytes) - SelectLastInSeq(bytes, LAMBDA b : b # 0)

-----------------------------------------------------------------------------
(* Construction *)

PayloadSize == Len(UUID) + 2 + SeqBytes + 2 * TimeBytes

Flags(info) == (IF info.key THEN 1 ELSE 0) + (IF info.ntp THEN 2 ELSE 0)

RawPayload(info) ==
    UUID \o <<1, Flags(info)>> \o BigEndian(info.seq, SeqBytes)
         \o BigEndian(info.pts, TimeBytes) \o BigEndian(info.rt, TimeBytes)

NalHeader(codec) == IF codec = "h264" THEN <<6>> ELSE <<78, 1>>

StartCode == <<0, 0, 0, 1>>

BuildNal(codec, info) ==
    LET head == StartCode \o NalHeader(codec) \o VarUint(5) \o VarUint(PayloadSize)
    IN  head \o Escape(TrailingZeros(head), RawPayload(info)) \o <<128>>

(* What w bytes can hold, unsigned and in two's complement. *)
FitsUnsigned(v, w) == Shifted(v, w)[w] = 0
FitsSigned(v, w) == Shifted(v, w)[w - 1] \in (-128)..127

(* The fields of a stamp fit their widths: uint32_t and int64_t in the
   code, whose SeqBytes is 4 and whose TimeBytes is 8.                       *)
Fits(info) ==
    /\ FitsUnsigned(info.seq, SeqBytes)
    /\ FitsSigned(info.pts, TimeBytes) /\ FitsSigned(info.rt, TimeBytes)

(* The size is no multiple of 255: 38 in the code.  build_nal counts the zeros
   in front of the record, the readers start to count behind the size.       *)
PlainSize == PayloadSize % 255 # 0

(* What is allocated for it. *)
MaxTotal(codec) ==
    4 + Len(NalHeader(codec)) + Len(VarUint(5)) + Len(VarUint(PayloadSize))
      + 2 * PayloadSize + 1

-----------------------------------------------------------------------------
(* NAL units of a byte stream *)

(* The length of the start code at d[p], or 0. *)
CodeAt(d, p) ==
    CASE p + 2 <= Len(d) /\ SubSeq(d, p, p + 2) = <<0, 0, 1>> -> 3
      [] p + 3 <= Len(d) /\ SubSeq(d, p, p + 3) = StartCode   -> 4
      [] OTHER -> 0

(* Where a scan from left to right finds them: the last three bytes of a long
   start code are not another one.                                          *)
Starts(d) ==
    {p \in 1..Len(d) : /\ CodeAt(d, p) > 0
                       /\ CodeAt(d, p) = 3 /\ p > 1 => d[p - 1] # 0}

NalStart(d, p) == p + CodeAt(d, p)

Following(d, p) == {q \in Starts(d) : q > p}

(* The last byte before the next start code. *)
NalEnd(d, p) == IF Following(d, p) = {} THEN Len(d) ELSE Min(Following(d, p)) - 1

NalType(codec, b) == IF codec = "h264" THEN b % 32 ELSE (b \div 2) % 64

IsSei(codec, b) == NalType(codec, b) \in IF codec = "h264" THEN {6} ELSE {39, 40}

-----------------------------------------------------------------------------
(* Parsing *)

ParseRawPayload(bytes) ==
    LET n  == Len(UUID)
        at == n + 3 + SeqBytes
    IN  IF \/ Len(bytes) < PayloadSize
           \/ SubSeq(bytes, 1, n) # UUID
           \/ bytes[n + 1] # 1
        THEN NoInfo
        ELSE [key |-> bytes[n + 2] % 2 = 1,
              ntp |-> (bytes[n + 2] \div 2) % 2 = 1,
              seq |-> Unsigned(SubSeq(bytes, n + 3, n + 2 + SeqBytes)),
              pts |-> Signed(SubSeq(bytes, at, at + TimeBytes - 1)),
              rt  |-> Signed(SubSeq(bytes, at + TimeBytes, at + 2 * TimeBytes - 1))]

(* The message whose type and size stand behind the NAL header; end is the last
   byte the reader may use.  The C parser wants type 5 and a size that fits its
   buffer, the Python tools only a size that is large enough.               *)
Message(codec, d, p, end, strict) ==
    LET nal  == NalStart(d, p)
        type == ReadVarUint(d, nal + Len(NalHeader(codec)), end)
        size == ReadVarUint(d, type.next, end)
    IN  IF \/ end < nal + Len(NalHeader(codec)) \/ ~IsSei(codec, d[nal])
           \/ type.next = 0 \/ size.next = 0
           \/ size.value < PayloadSize
           \/ strict /\ (type.value # 5 \/ size.value > PayloadSize + 8)
        THEN NoInfo
        ELSE ParseRawPayload(
               Unescape(SubSeq(d, size.next,
                               IF strict THEN end
                               ELSE Min({end, size.next + 2 * size.value + 7})),
                        size.value))

(* The C reader goes on past other SEI and stops at the first record. *)
ParseFromAccessUnit(codec, d) ==
    LET Record(p) == Message(codec, d, p, Len(d), TRUE)
        found == {p \in Starts(d) : Len(d) - p >= 4 /\ Record(p) # NoInfo}
    IN  IF found = {} THEN NoInfo ELSE Record(Min(found))

(* The Python reader yields every record; a NAL ends where the next one starts. *)
ParseAccessUnitPython(codec, d) ==
    LET Record(p) == Message(codec, d, p, NalEnd(d, p), FALSE)
        found == {p \in Starts(d) : Record(p) # NoInfo}
    IN  FlattenSeq([p \in DOMAIN d |-> IF p \in found THEN <<Record(p)>> ELSE <<>>])
=============================================================================
