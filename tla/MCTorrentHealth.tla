--------------------------- MODULE MCTorrentHealth ---------------------------
(* TorrentHealth with interchangeable checks and trackers. *)
EXTENDS TorrentHealth, TLC

MCSymmetry == Permutations(Check) \cup Permutations(Tracker)
=============================================================================
