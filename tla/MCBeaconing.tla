---------------------------- MODULE MCBeaconing ----------------------------
(* Devices that differ in which of the timers they run. *)
EXTENDS Beaconing

MCProfile == [slowRate |-> 2, slowSpeed |-> 3, fastRate |-> 1, fastSpeed |-> 4,
              turnMinTime |-> 1]

Tracker == [role |-> "ROLE_TRACKER", source |-> "GPS_INTERNAL", hasGPS |-> TRUE,
            fixed |-> FALSE, smart |-> TRUE, phg |-> FALSE, comment |-> TRUE,
            status |-> TRUE]
IGate   == [Tracker EXCEPT !.role = "ROLE_IGATE", !.smart = FALSE, !.phg = TRUE]

MCDevices ==
  {Tracker,
   [Tracker EXCEPT !.smart = FALSE, !.phg = TRUE, !.status = FALSE],
   [Tracker EXCEPT !.source = "GPS_FIXED", !.fixed = TRUE],
   IGate,
   [IGate EXCEPT !.role = "ROLE_DIGIPEATER", !.hasGPS = FALSE, !.fixed = TRUE],
   [IGate EXCEPT !.source = "GPS_NONE", !.phg = FALSE]}
=============================================================================
