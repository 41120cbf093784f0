------------------------ MODULE MCConfigDistribution -------------------------
(***************************************************************************)
(* Instances of ConfigDistribution for TLC.                                *)
(***************************************************************************)
EXTENDS ConfigDistribution

CONSTANTS p1, p2   \* two parsers

\* One parser absent or where two requests reach every other status from, the
\* other one active.
MCDatabases ==
  {[p \in Parsers |-> IF p = p2 THEN [status |-> "ACTIVE", version |-> 1] ELSE r] :
     r \in {NoRow} \cup [status : {"DRAFT", "APPROVED", "ACTIVE"}, version : {1}]}
=============================================================================
