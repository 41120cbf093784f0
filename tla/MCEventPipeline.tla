-------------------------- MODULE MCEventPipeline ---------------------------
(***************************************************************************)
(* EventPipeline for TLC: a key of each of two tenants, and one that is    *)
(* not registered.                                                         *)
(***************************************************************************)
EXTENDS EventPipeline

MCRegistry == [k \in {"keyA", "keyB", "stray"} |->
                 CASE k = "keyA" -> "A" [] k = "keyB" -> "B" [] OTHER -> Absent]
=============================================================================
