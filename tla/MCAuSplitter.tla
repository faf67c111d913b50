---------------------------- MODULE MCAuSplitter ----------------------------
(* Values for model checking AuSplitter: fields full of zeros and of the bytes
   that need stuffing, packets with and without what codecs put before a slice,
   extradata of every accepted form.                                        *)
EXTENDS AuSplitter

MCUUID == <<126, 87>>

Infos == {[key |-> k, ntp |-> n, seq |-> s, pts |-> p, rt |-> t] :
            k \in BOOLEAN, n \in BOOLEAN, s \in {0, 3}, p \in {0, -2},
            t \in {0, 3, 515, 65536}}

Sps == <<103, 66, 0, 30>>
Pps == <<104, 206>>
Foreign(codec) == StartCode \o NalHeader(codec) \o <<5, 12>> \o <<9, 9, 1, 1, 1, 1, 1, 1, 1, 1, 1, 1, 128>>
Aud(codec) == IF codec = "h264" THEN <<0, 0, 1, 9, 16>> ELSE <<0, 0, 1, 70, 1, 16>>
Slice(codec, key) ==
    StartCode \o (IF codec = "h264" THEN IF key THEN <<101>> ELSE <<65>>
                                    ELSE IF key THEN <<38, 1>> ELSE <<2, 1>>)
              \o <<136, 0, 0, 3, 1, 9>>

Befores(codec) == {<<>>, Aud(codec), Aud(codec) \o Foreign(codec)}

Frame(codec, info, before, count) ==
    LET slices == [j \in 1..count |-> Slice(codec, info.key)]
    IN  [info |-> info, packet |-> before \o FlattenSeq(slices),
         before |-> before, slices |-> slices]

Avcc == <<1, 66, 0, 30, 255, 225, 0, 4>> \o Sps \o <<1, 0, 2>> \o Pps
Hsps == <<66, 1>>
Hpps == <<68, 1, 3>>
Hvcc == <<1>> \o [i \in 1..21 |-> 0] \o <<2, 33, 0, 1, 0, 2>> \o Hsps
             \o <<34, 0, 2, 0, 3>> \o Hpps \o <<0, 3>> \o Hpps
AnnexB == StartCode \o Sps \o StartCode \o Pps

Whole(x, sets) == [extradata |-> x, sets |-> sets, cut |-> FALSE]
Cut(x, sets) == [extradata |-> SubSeq(x, 1, Len(x) - 1), sets |-> sets, cut |-> TRUE]

Extradata(codec) ==
    IF codec = "h264"
    THEN {Whole(Avcc, <<Sps, Pps>>), Whole(AnnexB, <<Sps, Pps>>), Cut(Avcc, <<Sps, Pps>>)}
    ELSE {Whole(Hvcc, <<Hsps, Hpps, Hpps>>), Cut(Hvcc, <<Hsps, Hpps, Hpps>>)}

SecondInfo == [key |-> FALSE, ntp |-> TRUE, seq |-> 1, pts |-> 1, rt |-> -1]

(* Of two pictures in two slices each, one is a keyframe or both are not. *)
SlicedVideos ==
    {[codec |-> "h264", extradata |-> Avcc, sets |-> <<Sps, Pps>>, cut |-> FALSE,
      frames |-> <<Frame("h264", i, Aud("h264"), 2), Frame("h264", SecondInfo, <<>>, 2)>>] :
        i \in {x \in Infos : x.seq = 3 /\ x.ntp}}

OneSliceVideos ==
    UNION {UNION {
        {[codec |-> c, extradata |-> x.extradata, sets |-> x.sets, cut |-> x.cut,
          frames |-> <<Frame(c, i, b, 1), Frame(c, SecondInfo, <<>>, 1)>>] :
            x \in Extradata(c), b \in Befores(c)} : i \in Infos} : c \in Codecs}

MCVideos == OneSliceVideos \cup SlicedVideos

(* The theorems' hypotheses hold of them. *)
ASSUME MadeAsAssumed ==
    /\ PlainSize
    /\ \A v \in MCVideos :
          /\ CodecMakes(v) /\ (v.codec = "h264" => SetsWhereDue(v))
          /\ \A i \in DOMAIN v.frames : Fits(v.frames[i].info)

MCChunks == {1, 5, 64}
=============================================================================
