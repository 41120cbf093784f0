--------------------------- MODULE MCRawIngestion ---------------------------
(***************************************************************************)
(* Instances of RawIngestion for TLC.                                      *)
(***************************************************************************)
EXTENDS RawIngestion

CONSTANTS h1, u1, u2,       \* a request and two datagrams
          s1, s2            \* the lines of the TCP connection

TwoLines == <<s1, s2>>
=============================================================================
