---------------------------- MODULE MCFfmpegBind ----------------------------
(* Values for model checking FfmpegBind. *)
EXTENDS FfmpegBind
=============================================================================
