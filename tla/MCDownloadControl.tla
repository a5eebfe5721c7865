--------------------------- MODULE MCDownloadControl ---------------------------
(* Instances of TrackerLists, and with it of DownloadControl, for TLC. *)
EXTENDS TrackerLists

MCFiles      == {1, 2}
MCSelections == {{1}, {1, 2}}
=============================================================================
