---------------------------- MODULE MCRemoteSelect ---------------------------
(* RemoteSelect with lists of results of every length, in which "c" takes as much room as *)
(* two others: a chunk holds one entry or two, ends at the limit, or short of it.          *)
EXTENDS RemoteSelect, TLC

CONSTANTS a, b, c

MCSize     == [t \in Torrent |-> IF t = c THEN 2 ELSE 1]
MCResults  == {<<>>, <<b>>, <<a, b>>, <<a, c, b>>}
MCSymmetry == Permutations(Request)
=============================================================================
