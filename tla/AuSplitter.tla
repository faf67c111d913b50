----------------------------- MODULE AuSplitter -----------------------------
(* The way of a stamp: the encoder assembles packets with their SEI (H26xUtil,
   SeiPayload), the gateway of src/tools/sei_gateway.py reads their bytes from
   ffmpeg in chunks of any size, cuts them into access units (split_aus) and
   takes the stamp and the parameter sets of each (_analyze).  What carries the
   bytes in between (RTMP, MediaMTX, RTSP, ffmpeg) is external; it keeps the NAL
   units and their order.                                                   *)
EXTENDS H26xUtil

CONSTANTS
    Videos,      \* what is sent: codec, extradata, what it is made of, frames
    Chunks,      \* sizes of a read
    AuCap        \* au_cap

ASSUME SplitterAssumption == AuCap \in Nat /\ Chunks \subseteq Nat \ {0}

(* What OBS and the codec may hand over, as far as types go. *)
ASSUME VideosAssumption == \A v \in Videos :
    /\ v.codec \in Codecs /\ v.extradata \in Seq(0..255)
    /\ v.frames \in Seq([info : [key : BOOLEAN, ntp : BOOLEAN, seq : Nat, pts : Int, rt : Int],
                        packet : Seq(0..255), before : Seq(0..255),
                        slices : Seq(Seq(0..255))])
    /\ \A i \in DOMAIN v.frames : v.frames[i].info # NoInfo

VARIABLES
    video,       \* the one sent in this behaviour
    stream,      \* history: all their bytes
    pos,         \* bytes read so far
    buf,         \* bytes read and not yielded
    aus,         \* the access units yielded
    flushed,     \* an oversized run was cut somewhere
    ended        \* split_aus has returned

vars == <<video, stream, pos, buf, aus, flushed, ended>>

Headers(v) == ExtradataToAnnexb(v.codec, v.extradata)

Packets(v) == [i \in DOMAIN v.frames |->
    AssemblePacket(v.codec, v.frames[i].packet, Headers(v), v.frames[i].info)]

Init == /\ video \in Videos
        /\ stream = FlattenSeq(Packets(video))
        /\ pos = 0 /\ buf = <<>> /\ aus = <<>>
        /\ flushed = FALSE /\ ended = FALSE

-----------------------------------------------------------------------------
(* Mutant: an IDR slice does not close an access unit. *)
SlicesWithoutIdr(d) == {p \in Starts(d) :
                NalStart(d, p) <= Len(d) /\ NalType("h264", d[NalStart(d, p)]) = 1}

(* The NALs that close an access unit: a slice (1) or an IDR slice (5). *)
Slices(d) == {p \in Starts(d) :
                NalStart(d, p) <= Len(d) /\ NalType("h264", d[NalStart(d, p)]) \in {1, 5}}

(* Where the first access unit ends: at the NAL behind its slice, once that is
   known to have begun; else nowhere yet.                                   *)
FirstAuEnd(d) ==
    IF Slices(d) = {} \/ Following(d, Min(Slices(d))) = {}
    THEN {}
    ELSE {Min(Following(d, Min(Slices(d)))) - 1}

(* Another chunk, of any size: a boundary may fall inside a start code. *)
Read ==
    /\ video.codec = "h264"
    /\ ~ended /\ pos < Len(stream)
    /\ FirstAuEnd(buf) = {} /\ Len(buf) <= AuCap
    /\ \E k \in Chunks :
          LET to == Min({pos + k, Len(stream)})
          IN  /\ buf' = buf \o SubSeq(stream, pos + 1, to)
              /\ pos' = to
    /\ UNCHANGED <<video, stream, aus, flushed, ended>>

Yield ==
    \E end \in FirstAuEnd(buf) :
        /\ aus' = Append(aus, SubSeq(buf, 1, end))
        /\ buf' = SubSeq(buf, end + 1, Len(buf))
        /\ UNCHANGED <<video, stream, pos, flushed, ended>>

(* Mutant: an oversized run is dropped. *)
FlushDropping ==
    /\ FirstAuEnd(buf) = {} /\ Len(buf) > AuCap
    /\ buf' = <<>>
    /\ flushed' = TRUE
    /\ UNCHANGED <<video, stream, pos, aus, ended>>

Flush ==
    /\ FirstAuEnd(buf) = {} /\ Len(buf) > AuCap
    /\ aus' = Append(aus, buf)
    /\ buf' = <<>>
    /\ flushed' = TRUE
    /\ UNCHANGED <<video, stream, pos, ended>>

EndOfFile ==
    /\ ~ended /\ pos = Len(stream) /\ pos > 0
    /\ FirstAuEnd(buf) = {} /\ Len(buf) <= AuCap
    /\ aus' = IF buf = <<>> THEN aus ELSE Append(aus, buf)
    /\ buf' = <<>>
    /\ ended' = TRUE
    /\ UNCHANGED <<video, stream, pos, flushed>>

Next == Read \/ Yield \/ Flush \/ EndOfFile

Spec == Init /\ [][Next]_vars

-----------------------------------------------------------------------------
(* _analyze: a NAL of less than two bytes does not count; the last stamp wins. *)
Nals(au) == {p \in Starts(au) : NalEnd(au, p) > NalStart(au, p)}
TypesIn(au) == {NalType("h264", au[NalStart(au, p)]) : p \in Nals(au)}

Meta(au) ==
    LET Record(p) == Message("h264", au, p, NalEnd(au, p), FALSE)
        found == {p \in Nals(au) : Record(p) # NoInfo}
    IN  IF found = {} THEN NoInfo ELSE Record(Max(found))

Analyze(au) ==
    LET types == TypesIn(au)
        meta == Meta(au)
    IN  [key  |-> 5 \in types \/ (meta # NoInfo /\ meta.key),
         meta |-> meta,
         cfg  |-> {7, 8} \subseteq types]

(* What the streamer sends on: an access unit that is no keyframe and has no
   stamp is skipped.                                                        *)
Forwarded(au) == LET a == Analyze(au)
                 IN  IF a.key \/ a.meta # NoInfo THEN <<a>> ELSE <<>>

Sent == FlattenSeq([i \in DOMAIN aus |-> Forwarded(aus[i])])

-----------------------------------------------------------------------------
(* What the codec makes, which the code relies on: a hypothesis of theorems, and
   true of the videos of the run.  A picture is one packet: "before", "slices". *)

(* NAL units behind their start codes, none of which ends in a zero byte. *)
NalUnits(codec, d, types) ==
    /\ d # <<>> => 1 \in Starts(d) /\ d[Len(d)] # 0
    /\ \A p \in Starts(d) : /\ NalStart(d, p) < NalEnd(d, p)
                            /\ NalType(codec, d[NalStart(d, p)]) \in types

ParameterSets(codec) == IF codec = "h264" THEN 7..8 ELSE 32..34
NoSlices(codec) == IF codec = "h264" THEN 6..9 ELSE (32..35) \cup {39, 40}

(* A packet of H.264 that is flagged as a keyframe is an IDR picture; data
   partitions, which the gateway does not know, are not made.                *)
SliceTypes(codec, key) ==
    IF codec = "h264" THEN IF key THEN {5} ELSE {1} ELSE 0..31

(* A SEI that is not a stamp: the record is too small or has another UUID. *)
OtherSei(codec, d, p) ==
    LET end  == NalEnd(d, p)
        type == ReadVarUint(d, NalStart(d, p) + Len(NalHeader(codec)), end)
        size == ReadVarUint(d, type.next, end)
        seen == Unescape(SubSeq(d, size.next, Min({end, size.next + 2 * size.value + 7})),
                         size.value)
    IN  /\ type.next # 0 /\ size.next # 0
        /\ \/ size.value < PayloadSize
           \/ \E k \in 1..Len(UUID) : k <= Len(seen) /\ seen[k] # UUID[k]

(* The parameter sets that the extradata was made of, in Annex-B form. *)
InlineSets(v) == FlattenSeq([i \in DOMAIN v.sets |-> StartCode \o v.sets[i]])

PictureMade(v, f) ==
    /\ f.packet = f.before \o FlattenSeq(f.slices)
    /\ NalUnits(v.codec, f.before, NoSlices(v.codec))
    /\ \A p \in Starts(f.before) :
          IsSei(v.codec, f.before[NalStart(f.before, p)]) => OtherSei(v.codec, f.before, p)
    /\ f.slices # <<>>
    /\ \A j \in DOMAIN f.slices :
          /\ NalUnits(v.codec, f.slices[j], SliceTypes(v.codec, f.info.key))
          /\ Starts(f.slices[j]) = {1}

CodecMakes(v) ==
    /\ NalUnits(v.codec, InlineSets(v), ParameterSets(v.codec))
    /\ \A i \in DOMAIN v.frames : PictureMade(v, v.frames[i])

(* What a cfg is made of: the extradata has both kinds, and a picture has them
   by itself only where the encoder puts them too.                           *)
SetsWhereDue(v) ==
    /\ {7, 8} \subseteq TypesIn(InlineSets(v))
    /\ \A i \in DOMAIN v.frames :
          {7, 8} \subseteq TypesIn(v.frames[i].before)
             => v.frames[i].info.key /\ Headers(v) # NotRecognised

-----------------------------------------------------------------------------
(* No byte is lost, doubled or moved, wherever the reads cut the stream. *)
NothingLost == FlattenSeq(aus) \o buf = SubSeq(stream, 1, pos)

(* What a frame becomes: its first slice goes with its stamp, a keyframe's with
   the parameter sets too; the other slices of a keyframe follow as keyframes
   without a stamp, those of any other frame are not sent on.                *)
UnitsOf(f) ==
    <<[key |-> f.info.key, meta |-> f.info,
       cfg |-> f.info.key /\ Headers(video) # NotRecognised]>>
    \o [j \in 1..(IF f.info.key THEN Len(f.slices) - 1 ELSE 0) |->
            [key |-> TRUE, meta |-> NoInfo, cfg |-> FALSE]]

(* Every frame is sent on with its own stamp, once and in order, and a keyframe
   with its parameter sets, so that the cfg can be made of it; how the stream was
   cut into reads, and how many slices a picture has, makes no difference.    *)
StampsKept ==
    ended /\ ~flushed =>
        Sent = FlattenSeq([i \in DOMAIN video.frames |-> UnitsOf(video.frames[i])])

AtStart == pos = 0

(* The inline headers are exactly the parameter sets the extradata was made of,
   each behind a start code, and none are made of extradata that is cut short. *)
HeadersExact ==
    AtStart =>
        Headers(video) = IF video.cut THEN NotRecognised
                         ELSE FlattenSeq([i \in DOMAIN video.sets |->
                                            StartCode \o video.sets[i]])

(* Whatever the fields contain, the SEI contains no start code and nothing that
   a demuxer could take for one, and it fits what was allocated for it.      *)
NoEmulation ==
    AtStart =>
        \A f \in Range(video.frames) :
            LET nal == BuildNal(video.codec, f.info)
            IN  /\ \A i \in 3..(Len(nal) - 2) :
                      nal[i] = 0 /\ nal[i + 1] = 0 => nal[i + 2] >= 3
                /\ Len(nal) <= MaxTotal(video.codec)

(* The C parser and the Python one read back from every packet what the encoder
   put in, negative times included, whatever other SEI the codec made.       *)
ReadersAgree ==
    AtStart =>
        \A i \in DOMAIN video.frames :
            LET packet == Packets(video)[i]
            IN  /\ ParseFromAccessUnit(video.codec, packet) = video.frames[i].info
                /\ ParseAccessUnitPython(video.codec, packet) = <<video.frames[i].info>>

(* The fresh SEI stands behind every prefix NAL the codec made and in front of
   the first slice; behind it there are only slices.                         *)
SeiBeforeSlice ==
    AtStart =>
        \A i \in DOMAIN video.frames :
            LET c == video.codec
                packet == Packets(video)[i]
                Fresh(p) == Message(c, packet, p, Len(packet), TRUE) # NoInfo
                IsSlice(p) == NalType(c, packet[NalStart(packet, p)])
                                \in IF c = "h264" THEN 1..5 ELSE 0..31
            IN  \E s \in Starts(packet) :
                    /\ Fresh(s)
                    /\ \A p \in Starts(packet) : p > s <=> IsSlice(p)
=============================================================================
