------------------------------- MODULE MCSession -------------------------------
(* Instances of Session for TLC. *)
EXTENDS Session

\* All files are about one torrent.
MCContent(f) == "infohash"

\* East of Greenwich, there, and farther west than a feed changes.
MCZones == {-1, 0, 3}
=============================================================================
