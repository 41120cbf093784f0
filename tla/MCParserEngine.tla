--------------------------- MODULE MCParserEngine ----------------------------
(***************************************************************************)
(* ParserEngine for TLC.  The baseline has a vendor parser.  Registered    *)
(* may be a generic one for everybody, one of tenant B, and of tenant A    *)
(* two versions of one parser and a second parser of higher priority,      *)
(* which all take A's event of an unknown vendor.                          *)
(***************************************************************************)
EXTENDS ParserEngine

Symmetry == Permutations(Threads)

Hit == [pattern |-> TRUE, words |-> 1]

Cisco == [tenant |-> "global", signals |-> {"syslog"},
          hits |-> [x \in {"Cisco"} |-> Hit], nested |-> {}]
Plain == [tenant |-> "A", signals |-> {"syslog", "kv"},
          hits |-> [x \in {} |-> Hit], nested |-> {"json"}]
MCEnvelopes == {Cisco, Plain}

Def(o, i, v, vendor, priority, sound) ==
  [owner |-> o, id |-> i, version |-> v, vendor |-> vendor,
   product |-> "Generic", formats |-> {"syslog"}, priority |-> priority,
   accepts |-> MCEnvelopes, sound |-> sound]

MCBaseline == << Def("global", "asa", 1, "Cisco", 1, TRUE),
                 Def("global", "asa", 2, "Cisco", 1, FALSE) >>

MCDefinitions == Range(MCBaseline)
  \cup { Def("global", "any", 1, "Generic", 2, TRUE),
         Def("A", "asa", 2, "Cisco", 2, TRUE),
         Def("A", "asa", 1, "Cisco", 2, TRUE),
         Def("A", "any", 1, "Generic", 1, TRUE),
         Def("B", "any", 1, "Generic", 1, TRUE) }

MCCallers == { [tenant |-> "A", roles |-> {"admin"}, system |-> FALSE],
               [tenant |-> "global", roles |-> {"ingest", "studio"},
                 system |-> FALSE] }
=============================================================================
