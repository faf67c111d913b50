---------------------------- MODULE StampEncoder ----------------------------
(* The encoder of src/src/sei-timestamp-encoder.c: the default settings and
   stamp_encoder_create, the steps of stamp_encoder_encode for one frame after
   another, and the clean-up of stamp_encoder_destroy_data.

   It is composed of the ring of submit times (PtsRing), the clock as its
   callers see it (ClockService, which RealtimeClock implements): the clock's
   worker may publish an offset between any two steps of encode; and of two
   things outside the repository, the codec and OBS.  A codec accepts frames,
   keeps up to Depth of them, and gives packets back in an order of its own.
   OBS calls create, then encode once per frame with increasing pts, then
   destroy.  A submit time is abstracted to the frame it was taken for and to
   whether the clock added an offset to the local time; every offset that a
   synchronisation may measure is 1 here, and 0 is the clock's initial one.  *)
EXTENDS PtsRing, FiniteSets

CONSTANTS
    Frames,        \* frames OBS submits; their pts are 0..Frames-1
    Depth,         \* frames the codec can hold
    SeqMod,        \* frame_seq is carried in the SEI modulo SeqMod
    PacketSizes,   \* sizes of coded packets
    SeiSize, HeaderSize,
    InitialBuffer, \* size of the output buffer when it is created
    Candidates     \* FFmpeg encoders of the codec, in order of preference

ASSUME EncoderAssumption ==
    /\ Frames \in Nat \ {0} /\ Depth \in Nat \ {0} /\ SeqMod \in Nat \ {0}
    /\ PacketSizes \subseteq Nat /\ SeiSize \in Nat /\ HeaderSize \in Nat
    /\ InitialBuffer \in Nat
    /\ Pts = 0..(Frames - 1)
    /\ Times = [of : Pts, kind : {"local", "corrected"}]

NoName == ""

ASSUME CandidatesAssumption ==
    Candidates \in Seq(STRING) /\ \A i \in 1..Len(Candidates) : Candidates[i] # NoName

VARIABLES
    pc,              \* program point of the encoder's thread
    request,         \* what create was asked for, until the codec is found
    codec_name,      \* the field of the encoder
    resources,       \* what the encoder holds, by name
    stamping_ntp,    \* a clock was created
    offset, synced, stamp, saw,       \* the clock (see ClockService)
    next,            \* pts of the next frame OBS submits
    inflight,        \* frames in the codec
    pkt,             \* the packet received from the codec, and what is known of it
    frame_seq,
    headers_size,    \* inline_headers_size
    out_size,        \* out_buffer_size
    written,         \* where the last copy into the output buffer ended
    emitted,         \* history: packets received from the codec
    packet           \* what was last handed to OBS

clockVars == <<offset, synced, stamp, saw>>
bufVars   == <<out_size, written>>
setup     == <<request, codec_name, headers_size, stamping_ntp>>
vars == <<ringVars, pc, resources, setup, clockVars, next, inflight, pkt,
          frame_seq, bufVars, emitted, packet>>

Enc == "encode"
Clock == INSTANCE ClockService WITH Callers <- {Enc}, Offsets <- {1}

NoPacket == [pts |-> -1]

Names == {Candidates[i] : i \in 1..Len(Candidates)}
Foreign == "foreign"     \* an encoder no build has, left in a settings file
CodecNames == Names \cup {Foreign, NoName}

(* A request: the encoders the FFmpeg of this OBS build has, and the codec name
   that the settings ask for, saved by the user or a default.  NULL from
   pick_default_codec_name is NoName.                                       *)
NoRequest == [build |-> {}, saved |-> FALSE, asked |-> NoName]

(* Who allocates each resource: OBS (bzalloc, bmalloc, bmemdup, brealloc), the C
   library (h26x_extradata_to_annexb and sei_ts_build_nal use malloc), FFmpeg,
   or the clock.  "coded" is the packet's reference on the codec's data.      *)
Allocator == [enc |-> "obs", extra |-> "obs", ring |-> "obs", out |-> "obs",
              inline |-> "c", sei |-> "c", clock |-> "clock",
              context |-> "ffmpeg", frame |-> "ffmpeg", packet |-> "ffmpeg",
              coded |-> "ffmpeg"]
Resources == DOMAIN Allocator
PerCall == {"sei", "coded"}

Init == /\ pc = "none" /\ request = NoRequest /\ resources = {} /\ stamping_ntp = FALSE
        /\ codec_name = NoName /\ headers_size = 0
        /\ Clock!Init
        /\ pts_ring = [s \in Slots |-> CHOOSE e \in Entry : TRUE]
        /\ pts_ring_head = 0 /\ pts_ring_len = 0 /\ taken = Absent
        /\ next = 0 /\ inflight = {} /\ pkt = NoPacket
        /\ frame_seq = 0 /\ out_size = 0 /\ written = 0
        /\ emitted = 0 /\ packet = NoPacket

-----------------------------------------------------------------------------
(* stamp_encoder_create *)

(* Mutant: the preferred encoder, whatever the build has. *)
PickPreferred(build) == IF Names = {} THEN NoName ELSE Candidates[1]

pick_default_codec_name(build) ==
    LET found == {i \in 1..Len(Candidates) : Candidates[i] \in build}
    IN  IF found = {} THEN NoName
        ELSE Candidates[CHOOSE i \in found : \A n \in found : i <= n]

(* What the settings may say: a name the user saved, which another build may have
   offered or which an old profile left empty; else the default of
   stamp_defaults_common.                                                    *)
Requests ==
    [build : SUBSET Names, saved : {TRUE}, asked : CodecNames]
    \cup {[build |-> b, saved |-> FALSE, asked |-> pick_default_codec_name(b)] :
             b \in SUBSET Names}

(* bzalloc: a zeroed object; OBS may create another one after the first is gone.
   The array of the ring holds what the allocator left in it.                *)
EnterCreate ==
    /\ pc \in {"none", "gone"}
    /\ pc' = "codec_name"
    /\ request' \in Requests
    /\ resources' = {"enc"}
    /\ codec_name' = NoName /\ headers_size' = 0
    /\ stamping_ntp' = FALSE
    /\ Clock!Restart
    /\ UNCHANGED pts_ring /\ NewRing
    /\ next' = 0 /\ inflight' = {} /\ pkt' = NoPacket
    /\ frame_seq' = 0 /\ out_size' = 0 /\ written' = 0
    /\ emitted' = 0 /\ packet' = NoPacket

(* An empty name is replaced by the first candidate the build has; without one
   the creation fails.                                                       *)
ChooseCodec ==
    /\ pc = "codec_name"
    /\ codec_name' = IF request.asked = NoName THEN pick_default_codec_name(request.build)
                     ELSE request.asked
    /\ pc' = IF codec_name' = NoName THEN "destroy" ELSE "find_encoder"
    /\ UNCHANGED <<ringVars, request, headers_size, resources, stamping_ntp, clockVars, next,
                   inflight, pkt, frame_seq, bufVars, emitted, packet>>

(* avcodec_find_encoder_by_name *)
FindEncoder ==
    /\ pc = "find_encoder"
    /\ pc' = IF codec_name \in request.build THEN "alloc_context" ELSE "destroy"
    /\ UNCHANGED <<ringVars, resources, setup, clockVars, next, inflight,
                   pkt, frame_seq, bufVars, emitted, packet>>

(* The steps FFmpeg may refuse, in order, with what each has acquired when it is
   over; a failure runs destroy_data on what there is.                      *)
OpenSteps == <<"alloc_context", "open2", "alloc_frame">>
Acquired(step) == CASE step = "alloc_context" -> {"context"}
                    [] step = "alloc_frame"   -> {"frame", "packet"}
                    [] OTHER                  -> {}

(* The frame and the packet are allocated together and checked together: when
   one of them fails the other may have been allocated.                     *)
OpenStep(i) ==
    /\ pc = OpenSteps[i]
    /\ request' = NoRequest
    /\ \/ /\ resources' = resources \cup Acquired(OpenSteps[i])
          /\ pc' = IF i = Len(OpenSteps) THEN "finish" ELSE OpenSteps[i + 1]
       \/ /\ \E part \in SUBSET Acquired(OpenSteps[i]) :
                /\ part # Acquired(OpenSteps[i]) \/ part = {}
                /\ resources' = resources \cup part
          /\ pc' = "destroy"
    /\ UNCHANGED <<ringVars, codec_name, headers_size, stamping_ntp, clockVars, next,
                   inflight, pkt, frame_seq, bufVars, emitted, packet>>

(* The rest cannot fail: the sequence header and the inline parameter sets with
   their size, if the codec gave any; the clock, if NTP is enabled and it can be
   allocated; the ring and the output buffer.                               *)
FinishCreate ==
    /\ pc = "finish"
    /\ \E extra, headers, clocked \in BOOLEAN :
          /\ headers => extra
          /\ resources' = resources \cup {"ring", "out"}
                \cup (IF extra THEN {"extra"} ELSE {})
                \cup (IF headers THEN {"inline"} ELSE {})
                \cup (IF clocked THEN {"clock"} ELSE {})
          /\ headers_size' = IF headers THEN HeaderSize ELSE 0
          /\ stamping_ntp' = clocked
    /\ out_size' = InitialBuffer
    /\ pc' = "idle"
    /\ UNCHANGED <<ringVars, request, codec_name, clockVars, next, inflight, pkt, frame_seq,
                   written, emitted, packet>>

(* Mutant: the inline headers, which come from malloc, go to bfree. *)
FreerOfInlineMixedUp ==
    [enc |-> "obs", extra |-> "obs", ring |-> "obs", out |-> "obs", inline |-> "obs",
     clock |-> "clock", context |-> "ffmpeg", frame |-> "ffmpeg", packet |-> "ffmpeg"]

(* Which function the clean-up gives each resource to, where there is one: the
   clock's joins its worker.                                                 *)
Freer == [enc |-> "obs", extra |-> "obs", ring |-> "obs", out |-> "obs", inline |-> "c",
          clock |-> "clock", context |-> "ffmpeg", frame |-> "ffmpeg",
          packet |-> "ffmpeg"]

(* Only the function of its allocator gives a resource back. *)
DestroyData ==
    /\ pc = "destroy"
    /\ resources' = resources \ {r \in DOMAIN Freer : Freer[r] = Allocator[r]}
    /\ request' = NoRequest
    /\ pc' = "gone"
    /\ UNCHANGED <<ringVars, codec_name, headers_size, stamping_ntp, clockVars, next,
                   inflight, pkt, frame_seq, bufVars, emitted, packet>>

(* OBS destroys an encoder between two calls of encode. *)
Stop ==
    /\ pc = "idle"
    /\ pc' = "destroy"
    /\ UNCHANGED <<ringVars, resources, setup, clockVars, next, inflight, pkt,
                   frame_seq, bufVars, emitted, packet>>

-----------------------------------------------------------------------------
(* stamp_encoder_encode *)

(* A frame of another format, or without planes, is refused before anything is
   recorded for it.                                                         *)
RefuseFrame ==
    /\ pc = "idle" /\ next < Frames
    /\ next' = next + 1
    /\ UNCHANGED <<ringVars, pc, resources, setup, clockVars, inflight, pkt,
                   frame_seq, bufVars, emitted, packet>>

(* submit_us: with a clock its corrected time, else the local time. *)
ReadSubmitTime ==
    /\ pc = "idle" /\ next < Frames
    /\ pc' = "put"
    /\ IF stamping_ntp THEN Clock!Now(Enc) ELSE UNCHANGED clockVars
    /\ UNCHANGED <<ringVars, resources, setup, next, inflight, pkt, frame_seq,
                   bufVars, emitted, packet>>

(* The time just read, in the call of encode that was given frame p. *)
StampNow(p) ==
    [of |-> p, kind |-> IF stamping_ntp /\ stamp[Enc] # 0 THEN "corrected" ELSE "local"]

RecordSubmitTime ==
    /\ pc = "put"
    /\ put_entry(next, StampNow(next))
    /\ next' = next + 1
    /\ pc' = "send"
    /\ UNCHANGED <<resources, setup, clockVars, inflight, pkt, frame_seq, bufVars,
                   emitted, packet>>

(* avcodec_send_frame: a refused frame leaves its ring entry behind. *)
SendFrame ==
    /\ pc = "send"
    /\ \/ /\ Cardinality(inflight) < Depth
          /\ inflight' = inflight \cup {next - 1}
          /\ pc' = "receive"
       \/ inflight' = inflight /\ pc' = "idle"
    /\ UNCHANGED <<ringVars, resources, setup, clockVars, next, pkt, frame_seq,
                   bufVars, emitted, packet>>

(* avcodec_receive_packet: no packet yet (or an error), or the packet of any
   frame in the codec, B-frames being reordered.                            *)
ReceivePacket ==
    /\ pc = "receive"
    /\ \/ /\ pc' = "idle"
          /\ UNCHANGED <<inflight, pkt, emitted, resources>>
       \/ /\ \E p \in inflight, key \in BOOLEAN, size \in PacketSizes :
                /\ pkt' = [pts |-> p, key |-> key, size |-> size]
                /\ inflight' = inflight \ {p}
          /\ emitted' = emitted + 1
          /\ resources' = resources \cup {"coded"}
          /\ pc' = "flag"
    /\ UNCHANGED <<ringVars, setup, clockVars, next, frame_seq, bufVars,
                   packet>>

(* Mutant: the flag is asked for once, for the first packet. *)
ReadFlagOnce ==
    /\ pc = "flag"
    /\ IF stamping_ntp /\ emitted = 1 THEN Clock!Synced(Enc) ELSE UNCHANGED clockVars
    /\ pc' = "take"
    /\ UNCHANGED <<ringVars, resources, setup, next, inflight, pkt, frame_seq,
                   bufVars, emitted, packet>>

(* info.clock_ntp and info.frame_seq: the flag is read now, not at submission. *)
ReadFlag ==
    /\ pc = "flag"
    /\ IF stamping_ntp THEN Clock!Synced(Enc) ELSE UNCHANGED clockVars
    /\ pc' = "take"
    /\ UNCHANGED <<ringVars, resources, setup, next, inflight, pkt, frame_seq,
                   bufVars, emitted, packet>>

ClockNtp == stamping_ntp /\ saw[Enc]

TakeSubmitTime ==
    /\ pc = "take"
    /\ take_entry(pkt.pts)
    /\ pkt' = [pts |-> pkt.pts, key |-> pkt.key, size |-> pkt.size,
               seq |-> frame_seq % SeqMod, ntp |-> ClockNtp]
    /\ frame_seq' = frame_seq + 1
    /\ pc' = IF taken' = Absent THEN "fallback" ELSE "build"
    /\ UNCHANGED <<resources, setup, clockVars, next, inflight, bufVars, emitted,
                   packet>>

(* No entry: the packet is stamped with the time of now. *)
FallBackToNow ==
    /\ pc = "fallback"
    /\ IF stamping_ntp THEN Clock!Now(Enc) ELSE UNCHANGED clockVars
    /\ pc' = "build"
    /\ UNCHANGED <<ringVars, resources, setup, next, inflight, pkt, frame_seq,
                   bufVars, emitted, packet>>

(* Mutant: a packet that is not handed over gives its number back. *)
FailReturningSeq ==
    /\ pc = "build"
    /\ pc' = "idle"
    /\ pkt' = NoPacket
    /\ resources' = resources \ {"coded"}
    /\ frame_seq' = frame_seq - 1
    /\ UNCHANGED <<ringVars, setup, clockVars, next, inflight, bufVars,
                   emitted, packet>>

(* sei_ts_build_nal fails only for want of memory; the packet is then lost. *)
FailBuild ==
    /\ pc = "build"
    /\ pc' = "idle"
    /\ pkt' = NoPacket
    /\ resources' = resources \ {"coded"}
    /\ UNCHANGED <<ringVars, setup, clockVars, next, inflight, frame_seq, bufVars, emitted,
                   packet>>

BuildSei ==
    /\ pc = "build"
    /\ pc' = "assemble"
    /\ resources' = resources \cup {"sei"}
    /\ UNCHANGED <<ringVars, setup, clockVars, next, inflight, pkt, frame_seq, bufVars,
                   emitted, packet>>

(* The size computed in advance, by which the buffer grows and which OBS is told:
   the headers count for a keyframe, whether there are any or not.           *)
Total(key, size) == size + SeiSize + IF key THEN headers_size ELSE 0

RoomFor(key, size) == IF out_size < Total(key, size) THEN Total(key, size) ELSE out_size

(* Mutant: the headers are copied in front of every packet. *)
PiecesHeadersAlways(key, size, prefix) ==
    <<prefix, IF "inline" \in resources THEN headers_size ELSE 0, SeiSize, size - prefix>>

(* What is copied, piece by piece: the NAL units that belong in front, the headers
   if there are any and they are due, the SEI, the rest of the coded packet.  *)
Pieces(key, size, prefix) ==
    <<prefix,
      IF key /\ "inline" \in resources /\ headers_size > 0 THEN headers_size ELSE 0,
      SeiSize,
      size - prefix>>

(* Make room, copy the pieces behind each other, free the SEI, hand over to OBS
   and release the coded packet.                                             *)
Assemble ==
    /\ pc = "assemble"
    /\ out_size' = RoomFor(pkt.key, pkt.size)
    /\ \E prefix \in 0..pkt.size :
          LET piece == Pieces(pkt.key, pkt.size, prefix)
          IN  written' = piece[1] + piece[2] + piece[3] + piece[4]
    /\ packet' = [pts |-> pkt.pts, seq |-> pkt.seq, ntp |-> pkt.ntp,
                  size |-> Total(pkt.key, pkt.size),
                  fallback |-> taken = Absent,
                  stamp |-> IF taken = Absent THEN StampNow(next - 1) ELSE taken]
    /\ pkt' = NoPacket
    /\ resources' = resources \ PerCall
    /\ pc' = "idle"
    /\ UNCHANGED <<ringVars, setup, clockVars, next, inflight, frame_seq, emitted>>

-----------------------------------------------------------------------------
(* The worker of a live clock synchronises at any moment. *)
ClockPublishes ==
    /\ "clock" \in resources
    /\ Clock!Publish
    /\ UNCHANGED <<ringVars, pc, resources, setup, next, inflight, pkt, frame_seq,
                   bufVars, emitted, packet>>

Encode == \/ RefuseFrame \/ ReadSubmitTime \/ RecordSubmitTime \/ SendFrame
          \/ ReceivePacket \/ ReadFlag \/ TakeSubmitTime \/ FallBackToNow
          \/ FailBuild \/ BuildSei \/ Assemble

Next == \/ EnterCreate
        \/ ChooseCodec
        \/ FindEncoder
        \/ \E i \in 1..Len(OpenSteps) : OpenStep(i)
        \/ FinishCreate
        \/ Encode
        \/ Stop
        \/ DestroyData
        \/ ClockPublishes

Spec == Init /\ [][Next]_vars

-----------------------------------------------------------------------------
(* No candidate that the build has is preferred to this name. *)
FirstOf(name, build) ==
    \E i \in 1..Len(Candidates) :
        /\ name = Candidates[i]
        /\ \A n \in 1..(i - 1) : Candidates[n] \notin build

Points == {"none", "codec_name", "find_encoder", "alloc_context", "open2", "alloc_frame",
           "finish", "destroy", "gone", "idle", "put", "send", "receive", "flag", "take",
           "fallback", "build", "assemble"}

(* The fields of the encoder have their types, and the codec holds only frames
   that were submitted.                                                     *)
TypeOK ==
    /\ RingTypeOK
    /\ pc \in Points
    /\ request \in [build : SUBSET Names, saved : BOOLEAN,
                    asked : CodecNames]
    /\ codec_name \in CodecNames
    /\ headers_size \in Nat
    /\ resources \subseteq Resources
    /\ stamping_ntp \in BOOLEAN
    /\ next \in 0..Frames
    /\ inflight \subseteq 0..(next - 1)
    /\ frame_seq \in Nat /\ emitted \in Nat /\ out_size \in Nat /\ written \in Nat

(* A packet carries the submit time of its own frame, however the codec reorders
   and delays packets and whatever frames it refuses in between; it falls back
   to the time of its output only if at least Cap frames were recorded after its
   own (put_entry, take_entry and the fallback in encode).                   *)
StampOfOwnFrame ==
    packet # NoPacket =>
        IF packet.fallback THEN next - 1 - packet.pts >= Cap
                           ELSE packet.stamp.of = packet.pts

(* A packet that is not marked clock_ntp carries an uncorrected submit time: a
   receiver that treats unmarked stamps as local time is never misled by a
   synchronisation that completes while the frame is in the codec.           *)
UnmarkedIsLocal ==
    packet # NoPacket /\ ~packet.ntp /\ ~packet.fallback => packet.stamp.kind = "local"

(* The number in the SEI is the packet's place among all packets of the codec,
   so that a packet lost between the codec and OBS leaves a gap.             *)
SeqCountsPackets ==
    [][packet' # packet /\ packet' # NoPacket
       => packet'.seq = (emitted - 1) % SeqMod]_vars

(* The size that encode computes before it copies agrees with what it copies:
   the last piece ends inside the output buffer, however large it was and whatever
   packets came before, and OBS is told exactly the bytes that were copied, none
   short and none that an earlier packet left behind.  The two are computed apart
   in the code, the one from inline_headers_size alone, the other under the
   condition that there are headers.                                        *)
AssemblyFits ==
    packet # NoPacket => written <= out_size /\ packet.size = written

(* Whatever step of the creation fails, and after every destruction, nothing the
   encoder acquired is left: each resource was given to the function of its own
   allocator (destroy_data, and the frees of encode).  Between two calls nothing
   of a call is held, whichever way the last one ended.                      *)
NothingLeft ==
    /\ pc = "gone" => resources = {}
    /\ pc = "idle" => resources \cap PerCall = {}

(* The creation is refused for want of an encoder. *)
NoneFound == pc \in {"codec_name", "find_encoder"} /\ pc' = "destroy"

(* The creation goes on with the encoder it has found. *)
Found == pc = "find_encoder" /\ pc' = "alloc_context"

(* A creation is refused for want of an encoder only when the build has none of
   the candidates, or the settings hold another name, saved by the user, that the
   build lacks: whatever the build, the defaults offered by stamp_defaults_common
   and an empty name, saved ones too, lead to an encoder that the build has.  And
   create opens no other than was asked for, or with an empty name the first
   candidate of the build.                                                   *)
DefaultsStart ==
    [][/\ NoneFound => \/ request.build = {}
                       \/ request.saved /\ request.asked \notin request.build \cup {NoName}
       /\ Found => /\ codec_name \in request.build
                   /\ \/ codec_name = request.asked
                      \/ request.asked = NoName /\ FirstOf(codec_name, request.build)
      ]_vars

(* What sei-payload.h says of SEI_TS_FLAG_CLOCK_NTP: "realtime_us comes from an
   NTP-synchronised clock".                                                 *)
MarkedIsCorrected ==
    packet # NoPacket /\ packet.ntp => packet.stamp.kind = "corrected"
=============================================================================
