--------------------------- MODULE MCHiddenSwarms ---------------------------
(* Instances of HiddenSwarms for TLC. *)
EXTENDS HiddenSwarms

MCHops     == {0, 1}
MCHops2    == {0, 1, 2}
MCStatuses == {"SEEDING", "STOPPED"}
=============================================================================
