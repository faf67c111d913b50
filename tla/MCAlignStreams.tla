--------------------------- MODULE MCAlignStreams ---------------------------
(* Values for model checking AlignStreams. *)
EXTENDS AlignStreams

CONSTANTS Stamps, MaxFrames

Sorted(c) == \A k \in 2..Len(c) : c[k - 1] <= c[k]
MCCaptures == {c \in BoundedSeq(Stamps, MaxFrames) : Sorted(c)}
=============================================================================
