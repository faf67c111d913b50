---------------------------- MODULE MCRtspRelay -----------------------------
(* Values for model checking RtspRelay. *)
EXTENDS RtspRelay
=============================================================================
