------------------------------ MODULE MCLtSessions ------------------------------
(* Instances of LtSessions for TLC. *)
EXTENDS LtSessions, TLC

\* This half hour has a limit of 5, the next one has none.
MCSchedule == <<5, None>>
MCBackground == -1
MCHops     == {0, 1, -1}
MCMinutes  == {15}
MCSymmetry == Permutations(Infohash) \cup Permutations(TaskName)
=============================================================================
