------------------------- MODULE MCStackSupervisor ---------------------------
(***************************************************************************)
(* StackSupervisor for TLC: one plain service, M1, the bridge and one      *)
(* frontend; Docker and the two data stores M1 depends on.                 *)
(***************************************************************************)
EXTENDS StackSupervisor

MCInfra == <<"docker", "kafka", "minio">>
MCContainers == {"kafka", "minio"}
MCServices == <<"M6", "M1">>
MCFrontends == <<"UI">>
=============================================================================
