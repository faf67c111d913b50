---------------------------- MODULE MCSeiGateway ----------------------------
(* Values for model checking SeiGateway. *)
EXTENDS SeiGateway

MCVersions == {1}
=============================================================================
