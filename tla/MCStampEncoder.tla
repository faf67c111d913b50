--------------------------- MODULE MCStampEncoder ----------------------------
(* Values for model checking StampEncoder. *)
EXTENDS StampEncoder

CONSTANT MCFrames    \* frames of one encoder

MCPts == 0..(MCFrames - 1)
MCTimes == [of : MCPts, kind : {"local", "corrected"}]
MCPacketSizes == {1, 4}
MCCandidates == <<"libx264", "h264_nvenc">>
=============================================================================
