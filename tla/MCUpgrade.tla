------------------------------- MODULE MCUpgrade -------------------------------
(* Instances of Upgrade for TLC. *)
EXTENDS Upgrade
=============================================================================
