----------------------------- MODULE MCDirector ------------------------------
(* Values for model checking Director. *)
EXTENDS Director, TLC

MCElapsed == {1}
Interchangeable == Permutations(Streams)

(* Bound: while a stream has no cfg, or has lost a keyframe, the other has no
   frames; and one decoder at a time holds a frame.                         *)
Configured ==
    /\ \/ \A s \in Streams : pending[s] = <<>> /\ q[s] = <<>>
       \/ \A s \in Streams : cfg[s] /\ ~keyLost[s]
    /\ \A s, t \in Streams : s # t => pending[s] = <<>> \/ pending[t] = <<>>

(* The state without what no step looks at until it is reset: firstRt once the
   timeline, which begins with it, has started.                             *)
Relevant == <<ws, streams, q, lastPaintedRt, paintAt, since, late, gts,
              IF gts.started THEN {} ELSE firstRt>>
=============================================================================
