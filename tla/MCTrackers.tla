------------------------------ MODULE MCTrackers ------------------------------
(* Instances of Trackers for TLC. *)
EXTENDS Trackers

=============================================================================
