-------------------------- MODULE MCDownloadManager --------------------------
EXTENDS DownloadManager, TLC

MCSymmetry == Permutations(Download) \cup Permutations(Coro \ {Loader})
                \cup Permutations(Hops) \cup Permutations(HandleNr)

\* The state without what Download objects that nobody refers to still hold.
MCView ==
    <<downloads, requests, cached, co, running, conf, loading, session, torrent,
      known, adding, alerts, dropping, crashes,
      [d \in {x \in Download : ~Fresh(x)} |-> obj[d]]>>
=============================================================================
