---------------------------- MODULE TorrentHealth ----------------------------
(***************************************************************************)
(* tribler/core/torrent_checker, with MetadataStore.process_torrent_health *)
(*                                                                         *)
(* The health of one torrent.  Checks run side by side: the loop over      *)
(* local torrents starts some and the REST API others.  A check asks every *)
(* tracker of the torrent in a session, and joins the swarm if no tracker  *)
(* knows a peer, which takes minutes.  Its result is stored if it should   *)
(* replace what is stored by then.  Other peers gossip results of theirs,  *)
(* and the results of our own checks are gossiped to them.                 *)
(*                                                                         *)
(* Seeders and leechers are compared as a pair; "peers" is the rank of the *)
(* pair and 0 means none of either.                                        *)
(***************************************************************************)
EXTENDS Integers, FiniteSets

CONSTANTS
    Tracker, Check,
    MaxPeers, MaxTime,  \* bounds on ranks and on time
    Window, Drift,      \* TORRENT_CHECK_WINDOW, TOLERABLE_TIME_DRIFT
    Freshness,          \* HEALTH_FRESHNESS_SECONDS
    MinInterval,        \* MIN_TORRENT_CHECK_INTERVAL
    MaxFailures,        \* MAX_TRACKER_FAILURES
    NoHealth, NotLoaded

ASSUME TimesAssumption  == {Window, Drift, Freshness, MinInterval} \subseteq Nat
ASSUME DriftAssumption  == Drift > 0
ASSUME BoundsAssumption == MaxPeers \in Nat /\ MaxTime \in Nat /\ MaxTime > Freshness
ASSUME LimitAssumption  == MaxFailures \in Nat \ {0}

Peers == 0..MaxPeers
Time  == 0..MaxTime

\* own: self_checked.  ours, a history: it is the result of a check of our own.
Health == [peers : Peers, at : 0..(MaxTime + Drift - 1), own : BOOLEAN, ours : BOOLEAN]
ASSUME NullAssumption == NoHealth \notin Health /\ NotLoaded \notin Health \cup {NoHealth}

VARIABLES
    now,
    stored,    \* the TorrentState in the database, NoHealth if there is none
    trackers,  \* the torrent's trackers in the database
    tracker,   \* TrackerState of each tracker: failures in a row, alive
    checked,   \* _torrents_checked: NotLoaded, or its entry for the torrent
    check,     \* the running checks
    sessions,  \* the checker's sessions: which check asks which tracker
    failing    \* history: how many sessions with a tracker failed in a row

vars == <<now, stored, trackers, tracker, checked, check, sessions, failing>>

\* phase: "idle", "asking" trackers, "joining" the swarm; answers of trackers; the time
\* the trackers' part ended; whether check_local_torrents started it, and when.
Idle == [phase |-> "idle", answers |-> {}, ended |-> 0, local |-> FALSE, since |-> 0]

Own(peers, at)      == [peers |-> peers, at |-> at, own |-> TRUE, ours |-> TRUE]
Reported(peers, at) == [peers |-> peers, at |-> at, own |-> FALSE, ours |-> FALSE]
-----------------------------------------------------------------------------
(***************************************************************************)
(* HealthInfo.                                                             *)
(***************************************************************************)
Valid(h)        == h.at < now + Drift
Old(h)          == h.at < now - Freshness
OlderThan(h, g) == h.at < g.at - Window
MuchOlder(h, g) == h.at + Freshness < g.at

BugShouldReplace(h, prev) ==
    Valid(h) /\ IF h.own THEN ~prev.own \/ OlderThan(prev, h) \/ h.peers > prev.peers
                ELSE ~OlderThan(h, prev) /\ (MuchOlder(prev, h) \/ h.peers > prev.peers)
ShouldReplace(h, prev) ==
    /\ Valid(h)
    /\ IF h.own
       THEN ~prev.own \/ OlderThan(prev, h) \/ h.peers > prev.peers
       ELSE /\ ~OlderThan(h, prev)
            /\ ~(prev.own /\ ~Old(prev))
            /\ MuchOlder(prev, h) \/ h.peers > prev.peers
-----------------------------------------------------------------------------
(***************************************************************************)
(* Trackers.                                                               *)
(***************************************************************************)

\* No more than MaxFailures are counted: from there on the number makes no difference.
OneMore(n) == IF n < MaxFailures THEN n + 1 ELSE n

\* update_tracker_info
Updated(s, successful) ==
    LET failures == IF successful THEN 0 ELSE OneMore(s.failures)
    IN  [failures |-> failures, alive |-> failures < MaxFailures]

\* Sessions that fail by themselves are counted where the error is caught and where the
\* session is cleaned up.  After other exceptions the cleanup sees no failed session.
AfterSession(s, outcome) == CASE outcome = "answered" -> Updated(s, TRUE)
                              [] outcome = "failed"   -> Updated(Updated(s, FALSE), FALSE)
                              [] outcome = "raised"   -> Updated(Updated(s, FALSE), TRUE)

ListedAfter(c, t, outcome) == sessions \ {<<c, t>>}

\* get_tracker_response and clean_session
SessionEnds(c, t, outcome) ==
    /\ <<c, t>> \in sessions
    /\ tracker' = [tracker EXCEPT ![t] = AfterSession(@, outcome)]
    /\ failing' = [failing EXCEPT ![t] = IF outcome = "answered" THEN 0 ELSE OneMore(@)]
    /\ sessions' = ListedAfter(c, t, outcome)
    /\ UNCHANGED <<now, stored, trackers, checked>>

Answered(c, t) ==
    /\ SessionEnds(c, t, "answered")
    /\ \E p \in Peers :
          check' = [check EXCEPT ![c].answers = @ \cup {[peers |-> p, at |-> now]}]

Failed(c, t) ==
    /\ SessionEnds(c, t, "failed") \/ SessionEnds(c, t, "raised")
    /\ UNCHANGED check
-----------------------------------------------------------------------------
(***************************************************************************)
(* Checks.                                                                 *)
(***************************************************************************)

\* create_session_for_request: no session is created when there are fewer circuits' ports
\* than required hops.
Asked == {{}, trackers}

\* The loop checks a stale torrent.  It may be among the popular and among the old
\* torrents, and a sample of both lists may hold it twice.
CheckLocalTorrents(C) ==
    /\ \A c \in Check : check[c].phase = "idle" \/ ~check[c].local
    /\ C # {} /\ Cardinality(C) <= 2
    /\ \A c \in C : check[c].phase = "idle"
    /\ stored # NoHealth /\ Old(stored) /\ now - stored.at >= MinInterval
    /\ \E asked \in Asked :
          sessions' = sessions \cup (C \X asked)
    /\ check' = [c \in Check |-> IF c \in C THEN [Idle EXCEPT !.phase = "asking", !.local = TRUE,
                                                              !.since = now]
                                 ELSE check[c]]
    /\ UNCHANGED <<now, stored, trackers, tracker, checked, failing>>

\* The REST API forces a check, also of a torrent that is not in the database.
ForcedCheck(c) ==
    /\ check[c].phase = "idle"
    /\ \E asked \in Asked :
          sessions' = sessions \cup ({c} \X asked)
    /\ check' = [check EXCEPT ![c] = [Idle EXCEPT !.phase = "asking", !.since = now]]
    /\ UNCHANGED <<now, stored, trackers, tracker, checked, failing>>

Loaded == IF stored # NoHealth /\ stored.own /\ stored.at >= now - Freshness /\ stored.at <= now
          THEN stored ELSE NoHealth

\* update_torrent_health
BugChecked(h) == IF checked = NotLoaded THEN h ELSE checked
Checked(h) == h

Update(h) ==
    IF stored # NoHealth /\ ShouldReplace(h, stored)
    THEN stored' = h /\ checked' = Checked(h)
    ELSE UNCHANGED <<stored, checked>>

BugGathered(c) == /\ check[c].phase = "asking" /\ check[c].answers # {}
                  /\ \A t \in Tracker : <<c, t>> \notin sessions
Gathered(c) == check[c].phase = "asking" /\ \A t \in Tracker : <<c, t>> \notin sessions

Ends(c, h) ==
    /\ Update(h)
    /\ check' = [check EXCEPT ![c] = Idle]

\* All trackers have answered or failed, and one of them knows peers.
TrackersKnow(c) ==
    /\ Gathered(c)
    /\ \E best \in check[c].answers :
          /\ best.peers > 0
          /\ \A r \in check[c].answers :
                r.peers < best.peers \/ (r.peers = best.peers /\ r.at <= best.at)
          /\ Ends(c, Own(best.peers, best.at))
    /\ UNCHANGED <<now, trackers, tracker, sessions, failing>>

\* None does: the swarm is joined.
JoinSwarm(c) ==
    /\ Gathered(c)
    /\ \A r \in check[c].answers : r.peers = 0
    /\ check' = [check EXCEPT ![c] = [@ EXCEPT !.phase = "joining", !.ended = now, !.answers = {}]]
    /\ UNCHANGED <<now, stored, trackers, tracker, checked, sessions, failing>>

SwarmJoined(c) ==
    /\ check[c].phase = "joining"
    /\ \E p \in Peers : Ends(c, Own(p, now))
    /\ UNCHANGED <<now, trackers, tracker, sessions, failing>>

\* The lookup times out: the result is what the trackers said.
SwarmNotFound(c) ==
    /\ check[c].phase = "joining"
    /\ Ends(c, Own(0, check[c].ended))
    /\ UNCHANGED <<now, trackers, tracker, sessions, failing>>
-----------------------------------------------------------------------------
\* process_torrent_health: health that another peer reports, with a tracker or without.
BugRemote(h) == IF stored = NoHealth THEN h ELSE [h EXCEPT !.own = stored.own]
Remote(h) == h

ProcessTorrentHealth(h, T) ==
    /\ Valid(h)
    /\ IF stored = NoHealth
       THEN stored' = h /\ UNCHANGED trackers
       ELSE IF ShouldReplace(h, stored)
       THEN stored' = Remote(h) /\ trackers' = trackers \cup T
       ELSE UNCHANGED <<stored, trackers>>
    /\ UNCHANGED <<now, tracker, checked, check, sessions, failing>>

\* The first use of torrents_checked, to gossip or to show the results.
LoadTorrentsChecked ==
    /\ checked = NotLoaded
    /\ checked' = Loaded
    /\ UNCHANGED <<now, stored, trackers, tracker, check, sessions, failing>>

\* The program is killed and started: the database is what remains.
Restart ==
    /\ checked' = NotLoaded
    /\ check' = [c \in Check |-> Idle]
    /\ sessions' = {}
    /\ UNCHANGED <<now, stored, trackers, tracker, failing>>

Tick ==
    /\ now < MaxTime
    /\ now' = now + 1
    /\ UNCHANGED <<stored, trackers, tracker, checked, check, sessions, failing>>
-----------------------------------------------------------------------------
\* The torrent is unknown, or known and never checked (last_check is 0).
Init == /\ now = Freshness + 1
        /\ \/ stored = NoHealth /\ trackers = {}
           \/ stored = Reported(0, 0) /\ trackers \in SUBSET Tracker
        /\ tracker = [t \in Tracker |-> [failures |-> 0, alive |-> TRUE]]
        /\ checked = NotLoaded
        /\ check = [c \in Check |-> Idle]
        /\ sessions = {}
        /\ failing = [t \in Tracker |-> 0]

Progress(c) == \/ \E t \in Tracker : Answered(c, t) \/ Failed(c, t)
               \/ TrackersKnow(c) \/ JoinSwarm(c) \/ SwarmJoined(c) \/ SwarmNotFound(c)

Next == \/ \E C \in SUBSET Check : CheckLocalTorrents(C)
        \/ \E c \in Check : ForcedCheck(c) \/ Progress(c)
        \/ \E p \in Peers, at \in 0..(MaxTime + Drift), T \in {{}} \cup {{t} : t \in Tracker} :
              ProcessTorrentHealth(Reported(p, at), T)
        \/ LoadTorrentsChecked \/ Restart \/ Tick

Spec == Init /\ [][Next]_vars

\* Sessions and lookups of the metainfo have a timeout.
FairSpec == Spec /\ \A c \in Check : WF_vars(Progress(c))
-----------------------------------------------------------------------------
TypeOK ==
    /\ now \in Time
    /\ stored \in Health \cup {NoHealth}
    /\ trackers \subseteq Tracker
    /\ tracker \in [Tracker -> [failures : 0..MaxFailures, alive : BOOLEAN]]
    /\ checked \in Health \cup {NoHealth, NotLoaded}
    /\ check \in [Check -> [phase : {"idle", "asking", "joining"},
                            answers : SUBSET [peers : Peers, at : Time], ended : Time,
                            local : BOOLEAN, since : Time]]
    /\ sessions \subseteq Check \X Tracker
    /\ failing \in [Tracker -> 0..MaxFailures]

\* What is gossiped as the result of our own check is one, also after a restart, when
\* it is read from a row that peers' reports were written to as well.
GossipIsOwn == checked \in Health => checked.ours

\* The results in memory are those in the database, whichever of several checks came
\* last and whenever they were loaded.
CheckedIsStored == stored \in Health /\ stored.own /\ checked \in Health => checked = stored

\* No report of a peer replaces a fresh result of our own.
FreshOwnStays == [][(stored \in Health /\ stored.own /\ ~Old(stored)) => stored'.own]_vars

\* Every check ends.
ChecksEnd == \A c \in Check : check[c].phase # "idle" ~> check[c].phase = "idle"

(***************************************************************************)
(* What the comments promise and the code does not keep.                   *)
(***************************************************************************)

\* "if a tracker fails this amount of times in a row, its 'is_alive' will be marked as
\* 0 (dead)." (MAX_TRACKER_FAILURES): not before.
DeadAfterMax == \A t \in Tracker : ~tracker[t].alive => failing[t] >= MaxFailures

\* "How much time we should wait before checking a torrent again"
\* (MIN_TORRENT_CHECK_INTERVAL): two running checks that were not forced are that far apart.
IntervalKept ==
    \A c, d \in Check :
        c # d /\ check[c].phase # "idle" /\ check[d].phase # "idle"
              /\ check[c].local /\ check[d].local
        => check[c].since - check[d].since \notin (1 - MinInterval)..(MinInterval - 1)
=============================================================================
