-------------------------- MODULE DurableIngestion --------------------------
(***************************************************************************)
(* What M1 promises about raw evidence, without saying how: an event is    *)
(* stored before anything else happens to it; only a stored event is       *)
(* delivered to the raw topic or parked for a later delivery; a parked     *)
(* event is forgotten only once it has been delivered; and the sender is   *)
(* told "accepted" only about a delivered event.                           *)
(***************************************************************************)

CONSTANT Events            \* raw event ids, one per received payload

VARIABLES stored,          \* events whose bytes are in the raw vault
          parked,          \* events waiting for a later delivery
          delivered,       \* events the raw topic holds at least once
          accepted         \* events whose sender was told "accepted"

avars == <<stored, parked, delivered, accepted>>

ATypeOK == /\ stored \subseteq Events
           /\ parked \subseteq Events
           /\ delivered \subseteq Events
           /\ accepted \subseteq Events

AInit == stored = {} /\ parked = {} /\ delivered = {} /\ accepted = {}

AStore(e) == /\ stored' = stored \cup {e}
             /\ UNCHANGED <<parked, delivered, accepted>>

ADeliver(e) == /\ e \in stored
               /\ delivered' = delivered \cup {e}
               /\ UNCHANGED <<stored, parked, accepted>>

APark(e) == /\ e \in stored
            /\ parked' = parked \cup {e}
            /\ UNCHANGED <<stored, delivered, accepted>>

AForget(e) == /\ e \in delivered
              /\ parked' = parked \ {e}
              /\ UNCHANGED <<stored, delivered, accepted>>

AAccept(e) == /\ e \in delivered
              /\ accepted' = accepted \cup {e}
              /\ UNCHANGED <<stored, parked, delivered>>

ANext == \E e \in Events : \/ AStore(e)
                           \/ ADeliver(e)
                           \/ APark(e)
                           \/ AForget(e)
                           \/ AAccept(e)

ASpec == AInit /\ [][ANext]_avars
=============================================================================
