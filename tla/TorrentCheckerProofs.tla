------------------------- MODULE TorrentCheckerProofs ------------------------
(***************************************************************************)
(* The torrent checker.  First the health that it collects, then the       *)
(* sessions that ask the trackers for it.                                  *)
(*                                                                         *)
(* For any number of checks, trackers and times: what is gossiped as our   *)
(* own result is one and is the one in the database, and no report of a    *)
(* peer replaces a fresh one.                                              *)
(*                                                                         *)
(* The cache of results is filled from the database after a restart, so    *)
(* the invariant needs the self_checked flag of the row to be true of it   *)
(* (FlagIsTrue) although peers' reports are written to the same row.       *)
(***************************************************************************)
EXTENDS TorrentHealth, Trackers, TLAPS

\* The self_checked flag of the row tells whose result it holds.
FlagIsTrue == stored \in Health /\ stored.own => stored.ours

IInv == TypeOK /\ FlagIsTrue /\ GossipIsOwn /\ CheckedIsStored

USE TimesAssumption, DriftAssumption, BoundsAssumption, LimitAssumption, NullAssumption

\* The types, in groups that steps change together.
RowTypes     == stored \in Health \cup {NoHealth} /\ checked \in Health \cup {NoHealth, NotLoaded}
TrackerTypes == /\ trackers \subseteq Tracker
                /\ tracker \in [Tracker -> [failures : 0..MaxFailures, alive : BOOLEAN]]
                /\ failing \in [Tracker -> 0..MaxFailures]
CheckTypes   == /\ check \in [Check -> [phase : {"idle", "asking", "joining"},
                                        answers : SUBSET [peers : Peers, at : Time],
                                        ended : Time, local : BOOLEAN, since : Time]]
                /\ sessions \subseteq Check \X Tracker

\* The parts of TypeOK.
LEMMA TypeGroups == TypeOK <=> now \in Time /\ RowTypes /\ TrackerTypes /\ CheckTypes
BY DEF TypeOK, RowTypes, TrackerTypes, CheckTypes

\* The same of the next state.
LEMMA TypeGroupsNext ==
    ASSUME (now \in Time)', RowTypes', TrackerTypes', CheckTypes' PROVE TypeOK'
BY DEF TypeOK, RowTypes, TrackerTypes, CheckTypes

\* The groups of the invariant that a step leaves alone.
LEMMA RowsKept ==
    ASSUME IInv, UNCHANGED <<stored, checked>>
    PROVE  (RowTypes /\ FlagIsTrue /\ GossipIsOwn /\ CheckedIsStored)'
BY TypeGroups DEF IInv, RowTypes, FlagIsTrue, GossipIsOwn, CheckedIsStored

\* Steps that leave the trackers alone keep their types.
LEMMA TrackersKept ==
    ASSUME IInv, UNCHANGED <<trackers, tracker, failing>>
    PROVE  TrackerTypes'
BY TypeGroups DEF IInv, TrackerTypes

\* An idle check is of the right type.
LEMMA IdleType ==
    Idle \in [phase : {"idle", "asking", "joining"}, answers : SUBSET [peers : Peers, at : Time],
              ended : Time, local : BOOLEAN, since : Time]
BY DEF Idle, Time

\* Initially nothing was checked.
THEOREM InitInv == Init => IInv
<1>1. SUFFICES ASSUME Init PROVE IInv
  OBVIOUS
<1>2. now \in Time
  BY <1>1 DEF Init, Time
<1>3. Reported(0, 0) \in Health
  BY DEF Reported, Health, Peers
<1>4. RowTypes
  BY <1>1, <1>3 DEF Init, RowTypes
<1>5. TrackerTypes
  BY <1>1 DEF Init, TrackerTypes
<1>6. CheckTypes
  BY <1>1, IdleType DEF Init, CheckTypes
<1>7. FlagIsTrue /\ GossipIsOwn /\ CheckedIsStored
  BY <1>1 DEF Init, FlagIsTrue, GossipIsOwn, CheckedIsStored, Reported
<1>. QED
  BY <1>2, <1>4, <1>5, <1>6, <1>7, TypeGroups DEF IInv

\* The end of a session changes how its tracker is counted.
LEMMA SessionInv ==
    ASSUME IInv, NEW c \in Check, NEW t \in Tracker, NEW how \in {"answered", "failed", "raised"},
           SessionEnds(c, t, how)
    PROVE  (now \in Time)' /\ TrackerTypes' /\ (sessions \subseteq Check \X Tracker)'
<1>0. now \in Time /\ TrackerTypes /\ CheckTypes
  BY TypeGroups DEF IInv
<1>1. ASSUME NEW s \in [failures : 0..MaxFailures, alive : BOOLEAN], NEW ok \in BOOLEAN
      PROVE  Updated(s, ok) \in [failures : 0..MaxFailures, alive : BOOLEAN]
  BY DEF Updated, OneMore
<1>2. ASSUME NEW s \in [failures : 0..MaxFailures, alive : BOOLEAN]
      PROVE  AfterSession(s, how) \in [failures : 0..MaxFailures, alive : BOOLEAN]
  BY <1>1 DEF AfterSession
<1>3. tracker' \in [Tracker -> [failures : 0..MaxFailures, alive : BOOLEAN]]
  BY <1>0, <1>2 DEF SessionEnds, TrackerTypes
<1>4. \A n \in 0..MaxFailures : OneMore(n) \in 1..MaxFailures
  BY DEF OneMore
<1>5. failing' \in [Tracker -> 0..MaxFailures]
  BY <1>0, <1>4 DEF SessionEnds, TrackerTypes
<1>. QED
  BY <1>0, <1>3, <1>5 DEF SessionEnds, TrackerTypes, CheckTypes, ListedAfter

\* A session of a check that answers or fails keeps the invariant.
LEMMA AnswerInv ==
    ASSUME IInv, NEW c \in Check, NEW t \in Tracker, Answered(c, t) \/ Failed(c, t)
    PROVE  IInv'
<1>0. CheckTypes /\ now \in Time
  BY TypeGroups DEF IInv
<1>1. PICK how \in {"answered", "failed", "raised"} : SessionEnds(c, t, how)
  BY DEF Answered, Failed
<1>2. /\ (now \in Time)' /\ TrackerTypes'
      /\ (sessions \subseteq Check \X Tracker)'
  BY <1>1, SessionInv
<1>3. CheckTypes'
  <2>1. CASE Answered(c, t)
    <3>1. PICK p \in Peers :
            check' = [check EXCEPT ![c].answers = @ \cup {[peers |-> p, at |-> now]}]
      BY <2>1 DEF Answered
    <3>. QED
      BY <1>0, <1>2, <3>1 DEF CheckTypes
  <2>2. CASE Failed(c, t)
    BY <1>0, <1>2, <2>2 DEF Failed, CheckTypes
  <2>. QED
    BY <2>1, <2>2
<1>4. UNCHANGED <<stored, checked>>
  BY <1>1 DEF SessionEnds
<1>. QED
  BY <1>2, <1>3, <1>4, RowsKept, TypeGroupsNext DEF IInv

\* The end of a check: its result goes to the database and to memory, or to neither.
LEMMA EndInv ==
    ASSUME IInv, NEW c \in Check, NEW h \in Health, h.own, h.ours, Ends(c, h),
           UNCHANGED <<now, trackers, tracker, sessions, failing>>
    PROVE  IInv'
<1>0. now \in Time /\ RowTypes /\ CheckTypes
  BY TypeGroups DEF IInv
<1>1. CheckTypes'
  BY <1>0, IdleType DEF Ends, CheckTypes
<1>2. (RowTypes /\ FlagIsTrue /\ GossipIsOwn /\ CheckedIsStored)'
  <2>1. CASE stored' = h /\ checked' = h
    BY <1>0, <2>1 DEF RowTypes, FlagIsTrue, GossipIsOwn, CheckedIsStored
  <2>2. CASE UNCHANGED <<stored, checked>>
    BY <2>2, RowsKept
  <2>. QED
    BY <2>1, <2>2 DEF Ends, Update, Checked
<1>. QED
  BY <1>0, <1>1, <1>2, TrackersKept, TypeGroupsNext DEF IInv

\* The end of a check, which may store its best result, keeps the invariant.
LEMMA CheckEndInv ==
    ASSUME IInv, NEW c \in Check, TrackersKnow(c) \/ SwarmJoined(c) \/ SwarmNotFound(c)
    PROVE  IInv'
<1>0. now \in Time /\ CheckTypes
  BY TypeGroups DEF IInv
<1>1. UNCHANGED <<now, trackers, tracker, sessions, failing>>
  BY DEF TrackersKnow, SwarmJoined, SwarmNotFound
<1>2. \E p \in Peers, at \in Time : Ends(c, Own(p, at))
  <2>1. CASE TrackersKnow(c)
    <3>1. PICK best \in check[c].answers : Ends(c, Own(best.peers, best.at))
      BY <2>1 DEF TrackersKnow
    <3>2. best \in [peers : Peers, at : Time]
      BY <1>0, <3>1 DEF CheckTypes
    <3>. QED
      BY <3>1, <3>2
  <2>2. CASE SwarmJoined(c)
    BY <1>0, <2>2 DEF SwarmJoined
  <2>3. CASE SwarmNotFound(c)
    <3>1. 0 \in Peers /\ check[c].ended \in Time
      BY <1>0 DEF CheckTypes, Peers
    <3>. QED
      BY <2>3, <3>1 DEF SwarmNotFound
  <2>. QED
    BY <2>1, <2>2, <2>3
<1>3. PICK p \in Peers, at \in Time : Ends(c, Own(p, at))
  BY <1>2
<1>4. Own(p, at) \in Health /\ Own(p, at).own /\ Own(p, at).ours
  BY DEF Own, Health, Time
<1>. QED
  BY <1>1, <1>3, <1>4, EndInv

\* A report of a peer clears the flag of the row it is written to.
LEMMA ReportInv ==
    ASSUME IInv, NEW p \in Peers, NEW at \in 0..(MaxTime + Drift), NEW T \in SUBSET Tracker,
           ProcessTorrentHealth(Reported(p, at), T)
    PROVE  IInv'
<1>. DEFINE h == Reported(p, at)
<1>0. now \in Time /\ RowTypes /\ TrackerTypes /\ CheckTypes
  BY TypeGroups DEF IInv
<1>1. h \in Health /\ ~h.own
  BY <1>0 DEF ProcessTorrentHealth, Valid, Time, Reported, Health
<1>2. stored' = h \/ UNCHANGED stored
  BY DEF ProcessTorrentHealth, Remote
<1>3. UNCHANGED <<now, tracker, checked, check, sessions, failing>>
  BY DEF ProcessTorrentHealth
<1>. HIDE DEF h
<1>4. (RowTypes /\ FlagIsTrue /\ GossipIsOwn /\ CheckedIsStored)'
  <2>1. CASE stored' = h
    BY <1>0, <1>1, <1>3, <2>1 DEF IInv, RowTypes, FlagIsTrue, GossipIsOwn, CheckedIsStored
  <2>2. CASE UNCHANGED stored
    BY <1>3, <2>2, RowsKept
  <2>. QED
    BY <1>2, <2>1, <2>2
<1>5. TrackerTypes'
  BY <1>0, <1>3 DEF ProcessTorrentHealth, TrackerTypes
<1>7. (now \in Time)' /\ CheckTypes'
  BY <1>0, <1>3 DEF CheckTypes
<1>. QED
  BY <1>4, <1>5, <1>7, TypeGroupsNext DEF IInv

\* Starting checks, joining the swarm, and the end of the program.
LEMMA StartInv ==
    ASSUME IInv, UNCHANGED <<now, stored, checked, trackers, tracker, failing>>, CheckTypes'
    PROVE  IInv'
<1>1. (now \in Time)'
  BY TypeGroups DEF IInv
<1>. QED
  BY <1>1, RowsKept, TrackersKept, TypeGroupsNext DEF IInv

\* Every step preserves the invariant.
THEOREM StepInv == IInv /\ [Next]_vars => IInv'
<1>. SUFFICES ASSUME IInv, [Next]_vars PROVE IInv'
  OBVIOUS
<1>0. now \in Time /\ RowTypes /\ TrackerTypes /\ CheckTypes
  BY TypeGroups DEF IInv
<1>1. ASSUME NEW C \in SUBSET Check, CheckLocalTorrents(C) PROVE IInv'
  <2>1. CheckTypes'
    BY <1>0, <1>1, IdleType DEF CheckLocalTorrents, Asked, CheckTypes, TrackerTypes, Idle
  <2>. QED
    BY <1>1, <2>1, StartInv DEF CheckLocalTorrents
<1>2. ASSUME NEW c \in Check, ForcedCheck(c) PROVE IInv'
  <2>1. CheckTypes'
    BY <1>0, <1>2, IdleType DEF ForcedCheck, Asked, CheckTypes, TrackerTypes, Idle
  <2>. QED
    BY <1>2, <2>1, StartInv DEF ForcedCheck
<1>3. ASSUME NEW c \in Check, NEW t \in Tracker, Answered(c, t) \/ Failed(c, t) PROVE IInv'
  BY <1>3, AnswerInv
<1>4. ASSUME NEW c \in Check, JoinSwarm(c) PROVE IInv'
  <2>1. CheckTypes'
    BY <1>0, <1>4 DEF JoinSwarm, CheckTypes
  <2>. QED
    BY <1>4, <2>1, StartInv DEF JoinSwarm
<1>5. ASSUME NEW c \in Check, TrackersKnow(c) \/ SwarmJoined(c) \/ SwarmNotFound(c) PROVE IInv'
  BY <1>5, CheckEndInv
<1>6. ASSUME NEW p \in Peers, NEW at \in 0..(MaxTime + Drift), NEW T \in {{}} \cup {{t} : t \in Tracker},
             ProcessTorrentHealth(Reported(p, at), T)
      PROVE  IInv'
  <2>1. T \in SUBSET Tracker
    BY <1>6
  <2>. QED
    BY <1>6, <2>1, ReportInv
<1>7. CASE LoadTorrentsChecked
  <2>1. RowTypes' /\ FlagIsTrue' /\ CheckedIsStored'
    BY <1>0, <1>7 DEF LoadTorrentsChecked, Loaded, IInv, RowTypes, FlagIsTrue, CheckedIsStored
  <2>2. GossipIsOwn'
    BY <1>0, <1>7 DEF LoadTorrentsChecked, Loaded, IInv, RowTypes, FlagIsTrue, GossipIsOwn
  <2>3. (now \in Time)' /\ CheckTypes'
    BY <1>0, <1>7 DEF LoadTorrentsChecked, CheckTypes
  <2>4. UNCHANGED <<trackers, tracker, failing>>
    BY <1>7 DEF LoadTorrentsChecked
  <2>. QED
    BY <2>1, <2>2, <2>3, <2>4, TrackersKept, TypeGroupsNext DEF IInv
<1>8. CASE Restart
  <2>1. RowTypes' /\ FlagIsTrue' /\ CheckedIsStored' /\ GossipIsOwn'
    BY <1>0, <1>8 DEF Restart, IInv, RowTypes, FlagIsTrue, CheckedIsStored, GossipIsOwn
  <2>2. (now \in Time)' /\ CheckTypes'
    BY <1>0, <1>8, IdleType DEF Restart, CheckTypes
  <2>3. UNCHANGED <<trackers, tracker, failing>>
    BY <1>8 DEF Restart
  <2>. QED
    BY <2>1, <2>2, <2>3, TrackersKept, TypeGroupsNext DEF IInv
<1>9. CASE Tick
  <2>1. (now \in Time)' /\ CheckTypes'
    BY <1>0, <1>9 DEF Tick, Time, CheckTypes
  <2>2. UNCHANGED <<stored, checked, trackers, tracker, failing>>
    BY <1>9 DEF Tick
  <2>. QED
    BY <2>1, <2>2, RowsKept, TrackersKept, TypeGroupsNext DEF IInv
<1>10. CASE UNCHANGED vars
  <2>1. CheckTypes'
    BY <1>0, <1>10 DEF vars, CheckTypes
  <2>. QED
    BY <1>10, <2>1, StartInv DEF vars
<1>. QED
  BY <1>1, <1>2, <1>3, <1>4, <1>5, <1>6, <1>7, <1>8, <1>9, <1>10 DEF Next, Progress

\* The invariant holds in every behaviour.
THEOREM Invariance == Spec => []IInv
BY InitInv, StepInv, PTL DEF Spec

\* What is gossiped as the result of our own check is one, whatever peers report about
\* the same torrent and however often the program is restarted.
THEOREM OwnGossip == Spec => []GossipIsOwn
<1>1. IInv => GossipIsOwn
  BY DEF IInv
<1>. QED
  BY <1>1, Invariance, PTL

\* The results in memory agree with the database.
THEOREM Agreement == Spec => []CheckedIsStored
<1>1. IInv => CheckedIsStored
  BY DEF IInv
<1>. QED
  BY <1>1, Invariance, PTL

\* A fresh result of our own is only replaced by another one of our own.
THEOREM FreshStays == Spec => FreshOwnStays
<1>. DEFINE Holds == stored \in Health /\ stored.own /\ ~Old(stored)
<1>1. ASSUME [Next]_vars, Holds PROVE stored'.own
  <2>1. ASSUME NEW c \in Check, NEW h, h.own, Ends(c, h) PROVE stored'.own
    BY <1>1, <2>1 DEF Ends, Update
  <2>2. ASSUME NEW c \in Check, TrackersKnow(c) \/ SwarmJoined(c) \/ SwarmNotFound(c)
        PROVE  stored'.own
    <3>1. \A p, at : Own(p, at).own
      BY DEF Own
    <3>2. \E p, at : Ends(c, Own(p, at))
      BY <2>2 DEF TrackersKnow, SwarmJoined, SwarmNotFound
    <3>. QED
      BY <2>1, <3>1, <3>2
  <2>3. ASSUME NEW p, NEW at, NEW T, ProcessTorrentHealth(Reported(p, at), T)
        PROVE  stored'.own
    <3>1. ~ShouldReplace(Reported(p, at), stored) /\ stored # NoHealth
      BY <1>1 DEF ShouldReplace, Reported
    <3>. QED
      BY <1>1, <2>3, <3>1 DEF ProcessTorrentHealth
  <2>4. CASE UNCHANGED stored
    BY <1>1, <2>4
  <2>. QED
    BY <1>1, <2>2, <2>3, <2>4
       DEF Next, Progress, CheckLocalTorrents, ForcedCheck, Answered, Failed, SessionEnds,
           JoinSwarm, LoadTorrentsChecked, Restart, Tick, vars
<1>2. [Next]_vars => [Holds => stored'.own]_vars
  BY <1>1
<1>. QED
  BY <1>2, PTL DEF Spec, FreshOwnStays
-----------------------------------------------------------------------------
(***************************************************************************)
(* The sessions of trackers, whatever the trackers and the proxy do.       *)
(*                                                                         *)
(* A future is only ever registered under the id that its session has, and *)
(* only until that session is cleaned (IdInv).  An id is drawn beside      *)
(* those of the listed sessions, and a session that runs is listed: so the *)
(* second id of a session differs from its first, and a request under the  *)
(* id that it has asks for what it waits for (SentInv).                    *)
(***************************************************************************)
USE SessionAssumption DEF Waiting, Running

ShapeInv ==
    /\ pc \in [Session -> Running \cup {"none", "created", "cleaning", "ended"}]
    /\ Udp \subseteq Session
    /\ action \in [Session -> {"CONNECT", "SCRAPE"}] /\ tid \in [Session -> Tid \cup {0}]
    /\ pending \in [Tid -> Session \cup {NoSession}]
    /\ outcome \in [Session -> {"none", "ok", "failed", "raised", "cancelled"}]
    /\ \A r \in sent : r.by \in Session /\ r.tid \in Tid

IdInv ==
    \A t \in Tid : pending[t] # NoSession =>
        /\ pending[t] \in Udp /\ t = tid[pending[t]]
        /\ pc[pending[t]] \in {"waiting", "cleaning"}

PhaseInv ==
    \A s \in Session :
        /\ pc[s] = "none" => s \notin Udp /\ \A r \in sent : r.by # s
        /\ s \in Udp => tid[s] \in Tid
        /\ s \in Udp /\ pc[s] \in Running \cup {"created"} => s \in active
        /\ pc[s] = "resolving" => s \in Udp
        /\ pc[s] \in {"none", "created", "resolving"} => action[s] = "CONNECT"
        /\ s \in active /\ pc[s] = "ended" => outcome[s] = "cancelled"
        /\ s \in cleanup_task => pc[s] \in {"cleaning", "ended"}

SentInv ==
    \A s \in Session : \A r \in sent : r.by = s =>
        /\ action[s] = "CONNECT" => r.tid = tid[s]
        /\ r.tid = tid[s] => r.action = action[s]

SessInv == ShapeInv /\ IdInv /\ PhaseInv /\ SentInv /\ spoiled = {}

\* A session that is not waiting for an answer goes on, or any ends its run.
LEMMA Moved ==
    ASSUME SessInv, UNCHANGED <<udp, Udp, spoiled>>, NEW s,
           NEW p \in (Running \ {"waiting"}) \cup {"cleaning"}, pc' = [pc EXCEPT ![s] = p],
           pc[s] \in Running \cup {"created"}, pc[s] = "waiting" => p = "cleaning",
           p = "resolving" => s \in Udp /\ pc[s] = "created",
           \/ UNCHANGED <<outcome, cleanup_task>>
           \/ p = "cleaning" /\ \E how \in {"ok", "failed", "raised"} : Concludes(s, how)
    PROVE  SessInv'
<1>. USE DEF udp
<1>1. ShapeInv'
  <2>1. pc' \in [Session -> Running \cup {"none", "created", "cleaning", "ended"}]
    BY DEF SessInv, ShapeInv
  <2>2. outcome' \in [Session -> {"none", "ok", "failed", "raised", "cancelled"}]
    BY DEF SessInv, ShapeInv, Concludes
  <2>. QED
    BY <2>1, <2>2 DEF SessInv, ShapeInv
<1>2. \A x \in Session : pc'[x] = IF x = s THEN p ELSE pc[x]
  BY DEF SessInv, ShapeInv
<1>3. \A x \in Session \ {s} : outcome'[x] = outcome[x] /\ (x \in cleanup_task' => x \in cleanup_task)
  BY DEF SessInv, ShapeInv, Concludes
<1>4. s \in cleanup_task' => p = "cleaning" \/ s \notin Session
  BY DEF SessInv, PhaseInv, Concludes
<1>5. IdInv'
  BY <1>2 DEF SessInv, ShapeInv, IdInv
<1>6. PhaseInv'
  BY <1>2, <1>3, <1>4 DEF SessInv, ShapeInv, PhaseInv
<1>7. SentInv'
  BY DEF SessInv, SentInv
<1>. QED
  BY <1>1, <1>5, <1>6, <1>7 DEF SessInv

\* clean_session, or the cleanup that failed() scheduled: the session's id is free, whoever
\* waits under it.
LEMMA Removed ==
    ASSUME SessInv, NEW s \in Session, RemoveTransactionId(s),
           UNCHANGED <<Udp, action, tid, sent, spoiled>>,
           \/ UNCHANGED <<pc, outcome>> /\ cleanup_task' = cleanup_task \ {s} /\ s \in cleanup_task
           \/ /\ pc[s] = "cleaning" /\ pc' = [pc EXCEPT ![s] = "ended"]
              /\ UNCHANGED <<outcome, cleanup_task>>
           \/ s \in Udp /\ pc[s] = "waiting" /\ Concludes(s, "ok")
    PROVE  SessInv'
<1>1. ShapeInv'
  BY DEF SessInv, ShapeInv, RemoveTransactionId, Concludes
<1>2. /\ \A x \in Session \ {s} : pc'[x] = pc[x] /\ outcome'[x] = outcome[x]
      /\ pc'[s] \in {"cleaning", "ended"}
      /\ \A x \in Session : x \in cleanup_task' => x \in cleanup_task
  BY DEF SessInv, ShapeInv, PhaseInv, Concludes
<1>3. \A t \in Tid : pending'[t] # NoSession =>
         pending'[t] = pending[t] /\ pending[t] # s
  BY DEF SessInv, ShapeInv, IdInv, RemoveTransactionId
<1>4. IdInv'
  BY <1>2, <1>3 DEF SessInv, ShapeInv, IdInv
<1>5. PhaseInv'
  BY <1>2 DEF SessInv, ShapeInv, PhaseInv, RemoveTransactionId
<1>6. SentInv'
  BY DEF SessInv, SentInv
<1>. QED
  BY <1>1, <1>4, <1>5, <1>6 DEF SessInv

\* send_request leaves with what the session asks for under the id that it has by then,
\* and with a table in which no other id stands for the session.
LEMMA Sent ==
    ASSUME SessInv, NEW s \in Udp, NEW table \in [Tid -> Session \cup {NoSession}],
           pc[s] \in Running \cup {"created"}, UNCHANGED <<Udp, active, spoiled>>,
           \A u \in Tid : table[u] # NoSession => table[u] = pending[u] /\ table[u] # s,
           \/ UNCHANGED <<action, tid>>
           \/ /\ action[s] = "CONNECT" /\ action' = [action EXCEPT ![s] = "SCRAPE"]
              /\ \E t \in Tid \ {tid[s]} : tid' = [tid EXCEPT ![s] = t],
           \/ Register(s, action'[s], tid'[s]) /\ pending' = [table EXCEPT ![tid'[s]] = s]
           \/ /\ Concludes(s, "failed") \/ Concludes(s, "raised")
              /\ pending' = table /\ UNCHANGED sent
           \/ /\ pc' = [pc EXCEPT ![s] = "dialling"]
              /\ pending' = table /\ UNCHANGED <<sent, outcome, cleanup_task>>
    PROVE  SessInv'
<1>1. s \in Session /\ s \in active /\ tid[s] \in Tid
  BY DEF SessInv, ShapeInv, PhaseInv
<1>2. /\ tid'[s] \in Tid
      /\ \A x \in Session \ {s} : tid'[x] = tid[x] /\ action'[x] = action[x]
      /\ tid' \in [Session -> Tid \cup {0}]
      /\ action' \in [Session -> {"CONNECT", "SCRAPE"}]
  BY <1>1 DEF SessInv, ShapeInv
<1>3. /\ \A x \in Session \ {s} : pc'[x] = pc[x] /\ outcome'[x] = outcome[x]
      /\ \A x \in Session \ {s} : x \in cleanup_task' => x \in cleanup_task
      /\ pc'[s] \in {"waiting", "cleaning", "dialling"}
      /\ s \in cleanup_task' => pc'[s] = "cleaning"
  BY <1>1 DEF SessInv, ShapeInv, PhaseInv, Register, Concludes
<1>4. ShapeInv'
  BY <1>1, <1>2 DEF SessInv, ShapeInv, Register, Concludes
<1>5. IdInv'
  <2>1. ASSUME NEW u \in Tid, pending'[u] # NoSession, pending'[u] # s
        PROVE  /\ pending'[u] \in Udp' /\ u = tid'[pending'[u]]
               /\ pc'[pending'[u]] \in {"waiting", "cleaning"}
    <3>1. pending'[u] = pending[u]
      BY <1>2, <2>1
    <3>2. /\ pending[u] \in Udp /\ u = tid[pending[u]]
          /\ pc[pending[u]] \in {"waiting", "cleaning"}
      BY <2>1, <3>1 DEF SessInv, IdInv
    <3>3. pending[u] \in Session \ {s}
      BY <2>1, <3>1, <3>2 DEF SessInv, ShapeInv
    <3>. QED
      BY <1>2, <1>3, <3>1, <3>2, <3>3
  <2>2. ASSUME NEW u \in Tid, pending'[u] = s, s # NoSession
        PROVE  u = tid'[s] /\ pc'[s] = "waiting"
    <3>1. Register(s, action'[s], tid'[s]) /\ pending' = [table EXCEPT ![tid'[s]] = s]
      BY <2>2
    <3>2. u = tid'[s]
      BY <2>2, <3>1
    <3>3. pc'[s] = "waiting"
      BY <1>1, <3>1 DEF Register, SessInv, ShapeInv
    <3>. QED
      BY <3>2, <3>3
  <2>. QED
    BY <2>1, <2>2 DEF IdInv
<1>6. /\ sent \subseteq sent'
      /\ \A r \in sent' \ sent : r.by = s /\ r.tid = tid'[s] /\ r.action = action'[s]
  BY DEF Register
<1>7. PhaseInv'
  BY <1>1, <1>2, <1>3, <1>6 DEF SessInv, ShapeInv, PhaseInv
<1>8. SentInv'
  <2>1. ASSUME NEW r \in sent, r.by = s
        PROVE  (action'[s] = "CONNECT" => r.tid = tid'[s]) /\ (r.tid = tid'[s] => r.action = action'[s])
    <3>1. (action[s] = "CONNECT" => r.tid = tid[s]) /\ (r.tid = tid[s] => r.action = action[s])
      BY <1>1, <2>1 DEF SessInv, SentInv
    <3>2. CASE UNCHANGED <<action, tid>>
      BY <3>1, <3>2
    <3>3. CASE action[s] = "CONNECT" /\ action'[s] = "SCRAPE" /\ tid'[s] # tid[s]
      BY <3>1, <3>3
    <3>. QED
      BY <1>1, <3>2, <3>3 DEF SessInv, ShapeInv
  <2>. QED
    BY <1>2, <1>6, <2>1 DEF SessInv, SentInv
<1>. QED
  BY <1>4, <1>5, <1>7, <1>8 DEF SessInv

\* send_request for a session that was not waiting yet, or has just been answered.
LEMMA Requested ==
    ASSUME SessInv, NEW s \in Udp, NEW a, NEW t, NEW table \in [Tid -> Session \cup {NoSession}],
           pc[s] \in Running \cup {"created"}, UNCHANGED <<Udp, active, spoiled>>,
           \A u \in Tid : table[u] # NoSession => table[u] = pending[u] /\ table[u] # s,
           \/ UNCHANGED <<action, tid>>
           \/ /\ action[s] = "CONNECT" /\ action' = [action EXCEPT ![s] = "SCRAPE"]
              /\ \E u \in Tid \ {tid[s]} : tid' = [tid EXCEPT ![s] = u],
           a = action'[s], t = tid'[s], SendRequest(s, a, t, table)
    PROVE  SessInv'
BY Sent DEF SendRequest

\* Nothing is registered for a session that does not wait.
LEMMA Unregistered ==
    ASSUME SessInv, NEW s \in Session, pc[s] \notin {"waiting", "cleaning"}
    PROVE  \A u \in Tid : pending[u] # NoSession => pending[u] # s
BY DEF SessInv, IdInv

\* connect()
LEMMA Connects ==
    ASSUME SessInv, NEW s \in Udp, pc[s] \in {"created", "resolving"}, Connect(s),
           UNCHANGED <<Udp, spoiled>>
    PROVE  SessInv'
<1>1. s \in Session /\ pending \in [Tid -> Session \cup {NoSession}]
  BY DEF SessInv, ShapeInv
<1>2. \A u \in Tid : pending[u] # NoSession => pending[u] # s
  BY <1>1, Unregistered
<1>3. CASE ready
  <2>1. /\ SendRequest(s, "CONNECT", tid[s], pending) /\ UNCHANGED <<action, tid, active>>
    BY <1>3 DEF Connect
  <2>2. action[s] = "CONNECT"
    BY <1>1 DEF SessInv, PhaseInv
  <2>. QED
    BY <1>1, <1>2, <2>1, <2>2, Requested
<1>4. CASE ~ready
  BY <1>1, <1>2, <1>4, Sent DEF Connect
<1>. QED
  BY <1>3, <1>4

\* An answer, whichever request it is for.
LEMMA Received ==
    ASSUME SessInv, NEW r \in sent, NEW good \in BOOLEAN, TransportReceived(r, good)
    PROVE  SessInv'
<1>. DEFINE s == pending[r.tid]
            emptied == [pending EXCEPT ![r.tid] = NoSession]
<1>1. /\ r.by \in Session /\ r.tid \in Tid /\ s \in Udp /\ s \in Session /\ r.tid = tid[s]
      /\ emptied \in [Tid -> Session \cup {NoSession}] /\ UNCHANGED <<Udp>>
      /\ \A u \in Tid : emptied[u] # NoSession => emptied[u] = pending[u] /\ emptied[u] # s
  <2>1. r.by \in Session /\ r.tid \in Tid /\ s # NoSession /\ UNCHANGED <<Udp>>
    BY DEF TransportReceived, SessInv, ShapeInv, kinds
  <2>2. s \in Udp /\ r.tid = tid[s] /\ s \in Session
    BY <2>1 DEF SessInv, ShapeInv, IdInv
  <2>3. \A u \in Tid \ {r.tid} : emptied[u] # NoSession => emptied[u] = pending[u] /\ emptied[u] # s
    BY <2>1, <2>2 DEF SessInv, ShapeInv, IdInv
  <2>4. emptied \in [Tid -> Session \cup {NoSession}] /\ emptied[r.tid] = NoSession
    BY <2>1 DEF SessInv, ShapeInv
  <2>. QED
    BY <2>1, <2>2, <2>3, <2>4
<1>2. CASE ~Waiting(s)
  <2>1. pending' = emptied /\ UNCHANGED <<pc, action, tid, active, sent, outcome, cleanup_task, spoiled>>
    BY <1>2 DEF TransportReceived
  <2>2. ShapeInv' /\ PhaseInv' /\ SentInv'
    BY <1>1, <2>1 DEF SessInv, ShapeInv, PhaseInv, SentInv
  <2>3. IdInv'
    BY <1>1, <2>1 DEF SessInv, IdInv
  <2>. QED
    BY <2>1, <2>2, <2>3 DEF SessInv
<1>3. CASE Waiting(s)
  <2>1. spoiled' = spoiled
    BY <1>1, <1>3 DEF TransportReceived, SessInv, SentInv
  <2>2. CASE r.action = "CONNECT" /\ r.action = action[s] /\ Connected(s)
    <3>1. PICK t \in Fresh :
             /\ action' = [action EXCEPT ![s] = "SCRAPE"] /\ tid' = [tid EXCEPT ![s] = t]
             /\ UNCHANGED active
             /\ SendRequest(s, "SCRAPE", t, [pending EXCEPT ![tid[s]] = NoSession])
      BY <2>2 DEF Connected
    <3>2. t \in Tid \ {tid[s]}
      BY <1>1, <1>3 DEF Fresh, SessInv, PhaseInv
    <3>3. action'[s] = "SCRAPE" /\ tid'[s] = t /\ pc[s] = "waiting"
      BY <1>1, <1>3, <3>1 DEF SessInv, ShapeInv
    <3>4. SendRequest(s, "SCRAPE", t, emptied)
      BY <1>1, <3>1
    <3>5. /\ action[s] = "CONNECT" /\ action' = [action EXCEPT ![s] = "SCRAPE"]
          /\ \E u \in Tid \ {tid[s]} : tid' = [tid EXCEPT ![s] = u]
      BY <2>2, <3>1, <3>2
    <3>6. UNCHANGED <<Udp, active, spoiled>>
      BY <1>1, <2>1, <3>1
    <3>. HIDE DEF emptied, s
    <3>. QED
      BY <1>1, <3>3, <3>4, <3>5, <3>6, Requested
  <2>3. CASE Scraped(s)
    BY <1>1, <1>3, <2>1, <2>3, Removed DEF Scraped
  <2>4. CASE Mismatch(s)
    <3>1. Concludes(s, "failed") /\ pending' = emptied /\ UNCHANGED <<action, tid, active, sent>>
      BY <1>1, <2>4 DEF Mismatch
    <3>. HIDE DEF emptied, s
    <3>. QED
      BY <1>1, <1>3, <2>1, <3>1, Sent
  <2>. QED
    BY <1>3, <2>2, <2>3, <2>4 DEF TransportReceived
<1>. QED
  BY <1>2, <1>3

\* The proxy's last reply: the session sends at last, or raises.
LEMMA AgreedInv ==
    ASSUME SessInv, NEW s, NEW c, pc[s] = "command", Agreed(s, c), UNCHANGED <<Udp, spoiled>>
    PROVE  SessInv'
<1>1. CASE s \notin Udp
  <2>1. pc' = [pc EXCEPT ![s] = "get"] /\ UNCHANGED <<udp, outcome, cleanup_task>>
    BY <1>1 DEF Agreed, udp
  <2>. QED
    BY <2>1, Moved
<1>2. CASE s \in Udp
  <2>1. /\ s \in Session /\ pending \in [Tid -> Session \cup {NoSession}]
        /\ \A u \in Tid : pending[u] # NoSession => pending[u] # s
    <3>1. s \in Session /\ pending \in [Tid -> Session \cup {NoSession}]
      BY <1>2 DEF SessInv, ShapeInv
    <3>. QED
      BY <3>1, Unregistered
  <2>2. /\ UNCHANGED <<action, tid, active>>
        /\ \/ Register(s, action'[s], tid'[s]) /\ pending' = [pending EXCEPT ![tid'[s]] = s]
           \/ Concludes(s, "raised") /\ pending' = pending /\ UNCHANGED sent
    BY <1>2 DEF Agreed, Raises
  <2>. QED
    BY <1>2, <2>1, <2>2, Sent
<1>. QED
  BY <1>1, <1>2

\* A UDP session is made with an id of its own and listed.
LEMMA Created ==
    ASSUME SessInv, NEW s \in Session, NEW is_udp \in BOOLEAN, NEW proxy \in BOOLEAN,
           Create(s, is_udp, proxy)
    PROVE  SessInv'
<1>1. /\ pc[s] = "none" /\ pc' = [pc EXCEPT ![s] = "created"] /\ s \notin Udp
      /\ UNCHANGED <<action, pending, sent, outcome, cleanup_task, spoiled>>
      /\ Udp' = IF is_udp THEN Udp \cup {s} ELSE Udp
  BY DEF Create, SessInv, PhaseInv
<1>2. \/ is_udp /\ \E t \in Tid : tid' = [tid EXCEPT ![s] = t] /\ active' = active \cup {s}
      \/ ~is_udp /\ UNCHANGED <<tid, active>>
  BY DEF Create, FirstId, Fresh
<1>3. /\ \A x \in Session \ {s} : pc'[x] = pc[x] /\ tid'[x] = tid[x] /\ (x \in active' <=> x \in active)
                                  /\ (x \in Udp' <=> x \in Udp)
      /\ pc'[s] = "created" /\ (s \in Udp' => s \in active' /\ tid'[s] \in Tid)
  BY <1>1, <1>2 DEF SessInv, ShapeInv
<1>4. ShapeInv'
  BY <1>1, <1>2 DEF SessInv, ShapeInv
<1>5. IdInv'
  <2>1. \A t \in Tid : pending[t] # NoSession => pending[t] \in Session \ {s}
    BY <1>1 DEF SessInv, ShapeInv, IdInv
  <2>. QED
    BY <1>1, <1>3, <2>1 DEF SessInv, IdInv
<1>6. PhaseInv'
  BY <1>1, <1>3 DEF SessInv, ShapeInv, PhaseInv
<1>7. SentInv'
  BY <1>1, <1>3 DEF SessInv, ShapeInv, SentInv, PhaseInv
<1>. QED
  BY <1>1, <1>4, <1>5, <1>6, <1>7 DEF SessInv

\* TorrentChecker.shutdown
LEMMA ShutDown ==
    ASSUME SessInv, Shutdown PROVE SessInv'
<1>. USE DEF kinds, udp
<1>1. /\ \A s \in Session : /\ pc'[s] = IF pc[s] \in Running THEN "cleaning"
                                        ELSE IF pc[s] = "created" THEN "ended" ELSE pc[s]
                            /\ outcome'[s] = IF pc[s] \in Running \cup {"created"}
                                             THEN "cancelled" ELSE outcome[s]
      /\ UNCHANGED <<udp, Udp, cleanup_task, spoiled>>
  BY DEF Shutdown
<1>2. ShapeInv'
  BY DEF Shutdown, SessInv, ShapeInv
<1>3. IdInv'
  BY <1>1 DEF SessInv, ShapeInv, IdInv
<1>4. PhaseInv'
  BY <1>1 DEF SessInv, PhaseInv
<1>5. SentInv'
  BY <1>1 DEF SessInv, SentInv
<1>. QED
  BY <1>1, <1>2, <1>3, <1>4, <1>5 DEF SessInv

\* The process starts without sessions.
LEMMA SessInit == TrackersInit => SessInv
BY DEF TrackersInit, SessInv, ShapeInv, IdInv, PhaseInv, SentInv

\* Steps of the proxy and its client.
LEMMA SessSame ==
    ASSUME SessInv, UNCHANGED <<pc, udp, Udp, outcome, cleanup_task, spoiled>>
    PROVE  SessInv'
BY DEF SessInv, ShapeInv, IdInv, PhaseInv, SentInv, udp

\* Every step keeps the ids and futures with the sessions they stand for.
THEOREM SessStep == SessInv /\ [TrackersNext]_session_vars => SessInv'
<1>. SUFFICES ASSUME SessInv, [TrackersNext]_session_vars PROVE SessInv'
  OBVIOUS
<1>. USE DEF rest, kinds
<1>1. ASSUME NEW s \in Session, Start(s) PROVE SessInv'
  <2>1. CASE s \in Udp \cap Proxied /\ Connect(s)
    BY <1>1, <2>1, Connects DEF Start
  <2>2. CASE s \in Udp \ Proxied /\ pc' = [pc EXCEPT ![s] = "resolving"]
             /\ UNCHANGED <<udp, outcome, cleanup_task>>
    BY <1>1, <2>2, Moved DEF Start
  <2>3. ASSUME NEW p \in {"dialling", "get"}, pc' = [pc EXCEPT ![s] = p],
               UNCHANGED <<udp, outcome, cleanup_task>>
        PROVE  SessInv'
    BY <1>1, <2>3, Moved DEF Start
  <2>. QED
    BY <1>1, <2>1, <2>2, <2>3 DEF Start
<1>2. ASSUME NEW s \in Session, TimedOut(s) PROVE SessInv'
  <2>1. pc[s] \in Running /\ Concludes(s, "failed") /\ UNCHANGED <<udp, Udp, spoiled>>
    BY <1>2 DEF TimedOut, Timed
  <2>. QED
    BY <2>1, Moved DEF Concludes
<1>3. ASSUME NEW s \in Session, Cleanup(s) \/ ScheduledCleanup(s) PROVE SessInv'
  BY <1>3, Removed DEF Cleanup, ScheduledCleanup
<1>4. ASSUME NEW s, pc[s] \in Running, UNCHANGED <<udp, Udp, spoiled>>,
             \E how \in {"ok", "failed", "raised"} : Concludes(s, how)
      PROVE  SessInv'
  <2>1. pc' = [pc EXCEPT ![s] = "cleaning"]
    BY <1>4 DEF Concludes
  <2>. QED
    BY <1>4, <2>1, Moved
<1>5. ASSUME NEW s, Raises(s), pc[s] \in Running, UNCHANGED <<udp, Udp, spoiled>> PROVE SessInv'
  BY <1>4, <1>5 DEF Raises
<1>6. ASSUME NEW s \in Session, Dialled(s) \/ DialFailed(s) \/ Endpoint(s) PROVE SessInv'
  <2>1. CASE DialFailed(s) \/ (Endpoint(s) /\ Raises(s))
    BY <1>5, <2>1 DEF DialFailed, Endpoint
  <2>2. ASSUME NEW p \in {"login", "command"}, pc' = [pc EXCEPT ![s] = p], pc[s] \in {"dialling", "endpoint"},
               UNCHANGED <<udp, Udp, spoiled, outcome, cleanup_task>>
        PROVE  SessInv'
    BY <2>2, Moved
  <2>. QED
    BY <1>6, <2>1, <2>2 DEF Dialled, Endpoint
<1>7. ASSUME NEW s \in Session, NEW ok \in BOOLEAN, Resolved(s, ok) \/ HttpResponse(s, ok) PROVE SessInv'
  <2>1. CASE Resolved(s, ok) /\ ok
    BY <2>1, Connects DEF Resolved, SessInv, PhaseInv
  <2>2. CASE (Resolved(s, ok) /\ ~ok) \/ HttpResponse(s, ok)
    BY <1>4, <2>2 DEF Resolved, HttpResponse
  <2>. QED
    BY <1>7, <2>1, <2>2
<1>8. ASSUME NEW c \in Session, LoginReply(c) PROVE SessInv'
  <2>. DEFINE s == Head(clients[c].getters)
  <2>1. pc[s] = "login" /\ UNCHANGED <<udp, Udp, spoiled>>
    BY <1>8 DEF LoginReply
  <2>2. CASE Raises(s)
    BY <1>5, <2>1, <2>2
  <2>3. ASSUME NEW p \in {"endpoint", "command"}, pc' = [pc EXCEPT ![s] = p], UNCHANGED <<outcome, cleanup_task>>
        PROVE  SessInv'
    BY <2>1, <2>3, Moved
  <2>. QED
    BY <1>8, <2>2, <2>3 DEF LoginReply
<1>9. ASSUME NEW c \in Session, CommandReply(c) PROVE SessInv'
  <2>. DEFINE s == Head(clients[c].getters)
  <2>1. pc[s] = "command" /\ UNCHANGED <<Udp, spoiled>>
    BY <1>9 DEF CommandReply
  <2>2. CASE Agreed(s, c)
    BY <2>1, <2>2, AgreedInv
  <2>3. CASE Raises(s) /\ UNCHANGED udp
    BY <1>5, <2>1, <2>3
  <2>. QED
    BY <1>9, <2>2, <2>3 DEF CommandReply
<1>10. ASSUME NEW c \in Session, \/ \E d \in clients[c].open : ConnectionLost(c, d)
                                 \/ \E r \in clients[c].owed, ok \in BOOLEAN : ProxyReply(c, r, ok)
       PROVE  SessInv'
  BY <1>10, SessSame DEF ConnectionLost, ProxyReply
<1>11. CASE CreateSocket
  BY <1>11, SessSame DEF CreateSocket
<1>12. CASE UNCHANGED session_vars
  BY <1>12, SessSame DEF session_vars
<1>. QED
  BY <1>1, <1>2, <1>3, <1>6, <1>7, <1>8, <1>9, <1>10, <1>11, <1>12, Received, Created, ShutDown DEF TrackersNext

\* Whatever timed out, raised, was refused or was answered late or twice, a session that is
\* over is neither listed nor waited for.
THEOREM NothingIsLeft == TrackersSpec => []NothingLeft
<1>1. SessInv => NothingLeft
  BY DEF SessInv, ShapeInv, IdInv, PhaseInv, NothingLeft, Over
<1>. QED
  BY <1>1, SessInit, SessStep, PTL DEF TrackersSpec

\* No session fails on an answer to a request of its own that was answered before.
THEOREM NoneSpoiled == TrackersSpec => []DuplicatesAreHarmless
<1>1. SessInv => DuplicatesAreHarmless
  BY DEF SessInv, DuplicatesAreHarmless
<1>. QED
  BY <1>1, SessInit, SessStep, PTL DEF TrackersSpec
=============================================================================
