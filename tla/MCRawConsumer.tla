--------------------------- MODULE MCRawConsumer ----------------------------
(***************************************************************************)
(* Instances of RawConsumer for TLC.                                       *)
(***************************************************************************)
EXTENDS RawConsumer, TLC

CONSTANTS e1, e2, e3
=============================================================================
