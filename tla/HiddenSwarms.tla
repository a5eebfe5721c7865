----------------------------- MODULE HiddenSwarms -----------------------------
(***************************************************************************)
(* tribler/core/tunnel/community.py: how the anonymous downloads get their *)
(* hidden swarms, their introduction points and, when a circuit breaks,    *)
(* their BitTorrent peers back.                                            *)
(*                                                                         *)
(* Every second the community polls the states the DownloadManager last    *)
(* published (every fourth second) and compares them with those of its own *)
(* previous poll.  The circuits themselves belong to ipv8's tunnel         *)
(* community: they are external, as are swarms, which it keeps.            *)
(***************************************************************************)
EXTENDS Integers, FiniteSetsExt

CONSTANTS
    InfoHash,      \* torrents; the lookup hash is one to one with the infohash
    Hops,          \* hop counts of the instance, 0: not anonymous
    Statuses,      \* download statuses of the instance
    Circuit,       \* circuits that exist at the same time
    MinCircuits, MaxCircuits, MaxIntroPoints, DefaultHops,   \* settings
    MaxAssociates, \* bound on the UDP associates of one hop count
    MaxEvents      \* bound on the changes that the environment makes

ASSUME HopsAssumption == Hops \subseteq Nat /\ IsFiniteSet(InfoHash)
ASSUME CircuitLimits == /\ MinCircuits \in Nat /\ MaxCircuits \in Nat
                        /\ MaxIntroPoints \in Nat /\ MaxAssociates \in Nat
                        /\ MaxEvents \in Nat

AllStatuses == {"DOWNLOADING", "SEEDING", "METADATA", "STOPPED",
                "STOPPED_ON_ERROR", "HASHCHECKING"}
Active      == {"DOWNLOADING", "SEEDING", "METADATA"}
Gone        == "None"          \* new_states.get(info_hash) is None

ASSUME StatusAssumption == Statuses \subseteq AllStatuses

VARIABLES
    downloads,       \* DownloadManager.downloads: a record per infohash, or NoDl
    last_states,     \* DownloadManager._last_states_list
    download_states, \* the community's view after its last poll
    circuits_needed, \* hop count -> number of data circuits to keep
    swarms,          \* ipv8: the hidden swarms, with the hops they were joined at
    circuits,        \* ipv8: circuits by id
    introducing,     \* create_introduction_point tasks that have not run yet
    bittorrent_peers,\* downloads with peers that wait for a circuit
    listening,       \* hop counts whose session reported its listen port
    missed,          \* history: infohashes with a change that no walk has acted on
    events

state == <<download_states, circuits_needed, swarms, introducing, missed>>
vars  == <<downloads, last_states, download_states, circuits_needed,
           swarms, circuits, introducing, bittorrent_peers, listening, missed, events>>

NoDl      == [hops |-> 0, status |-> Gone]
AnonHops  == Hops \ {0}
NoCircuit == [ctype |-> 0, state |-> "none"]

\* A download without anonymity is like none: every handler passes over it.
Dl        == [hops : AnonHops, status : Statuses] \cup {NoDl}
-----------------------------------------------------------------------------
(***************************************************************************)
(* The circuits.                                                           *)
(***************************************************************************)
\* The type of a data circuit is its hop count, that of an introduction point the
\* infohash it is for.
Free          == {c \in Circuit : circuits[c] = NoCircuit}

\* find_circuits(): the data circuits that are ready.
FindCircuits(cs, hops) == {c \in Circuit : cs[c].ctype \in hops /\ cs[c].state = "ready"}

\* Introduction points count from the moment they are asked for until they are gone.
IntroPoints  == {c \in Circuit : circuits[c].ctype \in InfoHash}
IpHashes     == {circuits[c].ctype : c \in IntroPoints}

\* leave_swarm: ipv8 drops the swarm and removes its introduction points.
ClosedFor(hashes) ==
    [c \in Circuit |-> IF circuits[c].ctype \in hashes
                       THEN [circuits[c] EXCEPT !.state = "closing"] ELSE circuits[c]]
-----------------------------------------------------------------------------
(***************************************************************************)
(* monitor_downloads.                                                      *)
(***************************************************************************)
\* Hidden downloads (lookups of metadata) are passed over too.
Anonymous     == {ih \in InfoHash : last_states[ih].hops > 0}
NewStates     == [ih \in InfoHash |-> IF ih \in Anonymous THEN last_states[ih].status ELSE Gone]

\* The status is read again from the Download: one that was removed or replaced
\* since keeps the status it had.
LiveStatus(ih) == IF downloads[ih].hops = last_states[ih].hops
                  THEN downloads[ih].status ELSE last_states[ih].status
ActiveAt(h)    == {ih \in Anonymous : last_states[ih].hops = h /\ LiveStatus(ih) \in Active}

Wanted(h)      == Min({Max({Cardinality(ActiveAt(h)), MinCircuits}), MaxCircuits})
HopsInUse      == {h \in AnonHops : h = DefaultHops \/ ActiveAt(h) # {}}
CircuitsNeeded(associates) ==
    [h \in Hops |-> IF h \in HopsInUse THEN Max({Wanted(h), 2 * associates[h]}) ELSE 0]

\* What the walk over the infohashes does to one of them, and to the count.
Changed(ih)    == NewStates[ih] # download_states[ih]
Joins(ih)      == /\ Changed(ih) /\ NewStates[ih] \in Active
                  /\ download_states[ih] # "METADATA" \/ NewStates[ih] # "DOWNLOADING"
BugLeaves(ih)  == Changed(ih) /\ NewStates[ih] = Gone
Leaves(ih)     == Changed(ih) /\ NewStates[ih] \in {"STOPPED", Gone}
Introduces(ih) == NewStates[ih] = "SEEDING" /\ ih \notin IpHashes
Todo           == MaxIntroPoints - Cardinality(IntroPoints)

\* The infohashes that the walk reaches: none without room for an introduction point,
\* otherwise the walk, in the arbitrary order of a set, stops at the one that fills it.
Walks ==
    IF Todo <= 0 THEN {{}}
    ELSE {seen \in SUBSET InfoHash :
            LET made == Cardinality({ih \in seen : Introduces(ih)})
            IN  \/ made < Todo /\ seen = InfoHash
                \/ made = Todo}

\* monitor_hidden_swarms
MonitorHiddenSwarms(seen) ==
    LET leaving == {ih \in seen : Leaves(ih)}
    IN  /\ swarms' = [ih \in InfoHash |->
                        IF ih \notin seen THEN swarms[ih]
                        ELSE IF Joins(ih) THEN last_states[ih].hops
                        ELSE IF ih \in leaving THEN 0 ELSE swarms[ih]]
        /\ circuits' = ClosedFor(leaving)
        /\ introducing' = introducing \cup {ih \in seen : Introduces(ih)}

\* The forced DHT announces are left out: they only talk to libtorrent.
MonitorDownloads(seen, associates) ==
    /\ MonitorHiddenSwarms(seen)
    /\ download_states' = NewStates
    /\ circuits_needed' = CircuitsNeeded(associates)

\* The tasks that one poll starts have run long before the next.
PollDownloadManager ==
    /\ introducing = {}
    /\ \E seen \in Walks, associates \in [Hops -> 0..MaxAssociates] :
         /\ MonitorDownloads(seen, associates)
         /\ missed' = {ih \in InfoHash : IF ih \in seen
                                         THEN ih \in missed /\ ~Joins(ih) /\ ~Leaves(ih)
                                         ELSE ih \in missed \/ Changed(ih)}
    /\ UNCHANGED <<downloads, last_states, bittorrent_peers, listening, events>>

\* create_introduction_point: the task looks the download up again and needs the port
\* its session listens at (without it get_session(hops).listen_port() raises, a Future
\* has no such method); ipv8 makes the circuit when it finds a peer for it.
BugCreateIntroductionPoint(ih) ==
    /\ ih \in introducing
    /\ introducing' = introducing \ {ih}
    /\ UNCHANGED <<downloads, last_states, download_states, circuits_needed,
                   swarms, circuits, bittorrent_peers, listening, missed, events>>
CreateIntroductionPoint(ih) ==
    /\ ih \in introducing
    /\ introducing' = introducing \ {ih}
    /\ IF downloads[ih] # NoDl /\ downloads[ih].hops \notin listening
       THEN UNCHANGED circuits
       ELSE IF Free # {}
            THEN \E c \in Free : circuits' = [circuits EXCEPT ![c] =
                                                [ctype |-> ih, state |-> "extending"]]
            ELSE UNCHANGED circuits
    /\ UNCHANGED <<downloads, last_states, download_states, circuits_needed,
                   swarms, bittorrent_peers, listening, missed, events>>
-----------------------------------------------------------------------------
(***************************************************************************)
(* A circuit breaks: the peers that were reached through it.               *)
(***************************************************************************)
\* update_torrent: the peers of the circuit that libtorrent lists for a download are
\* remembered, and at once added again when there is another circuit for them (the
\* closing one is no longer found).
BugUpdateTorrent(lost, cs) == bittorrent_peers \cup lost
UpdateTorrent(lost, cs) ==
    IF lost # {} /\ FindCircuits(cs, AnonHops) # {} THEN {} ELSE bittorrent_peers \cup lost

\* remove_circuit, up to the await of ipv8's.
RemoveCircuit(c) ==
    /\ circuits[c].state \in {"extending", "ready"} /\ events < MaxEvents
    /\ circuits' = [circuits EXCEPT ![c].state = "closing"]
    /\ \E lost \in SUBSET {ih \in InfoHash : downloads[ih] # NoDl} :
         bittorrent_peers' = UpdateTorrent(lost, circuits')
    /\ events' = events + 1
    /\ UNCHANGED <<downloads, last_states, state, listening>>

\* ipv8 removes the closed circuit for good.
CircuitGone(c) ==
    /\ circuits[c].state = "closing"
    /\ circuits' = [circuits EXCEPT ![c] = NoCircuit]
    /\ UNCHANGED <<downloads, last_states, state, bittorrent_peers, listening, events>>

\* ipv8 builds data circuits while fewer than circuits_needed exist.
BuildCircuit(c, h) ==
    /\ circuits[c] = NoCircuit
    /\ Cardinality({d \in Circuit : circuits[d].ctype = h}) < circuits_needed[h]
    /\ circuits' = [circuits EXCEPT ![c] = [ctype |-> h, state |-> "extending"]]
    /\ UNCHANGED <<downloads, last_states, state, bittorrent_peers, listening, events>>

\* _ours_on_created_extended, when the circuit has its last hop: readd_bittorrent_peers.
BugOursOnCreatedExtended(c) ==
    /\ circuits[c].state = "extending"
    /\ circuits' = [circuits EXCEPT ![c].state = "ready"]
    /\ UNCHANGED <<downloads, last_states, state, bittorrent_peers, listening, events>>
OursOnCreatedExtended(c) ==
    /\ circuits[c].state = "extending"
    /\ circuits' = [circuits EXCEPT ![c].state = "ready"]
    /\ bittorrent_peers' = {}
    /\ UNCHANGED <<downloads, last_states, state, listening, events>>
-----------------------------------------------------------------------------
(***************************************************************************)
(* The DownloadManager.                                                    *)
(***************************************************************************)

\* A download is added, changes its status, gets another hop count or is removed.
DownloadChanges(ih, d) ==
    /\ d # downloads[ih] /\ events < MaxEvents
    /\ downloads' = [downloads EXCEPT ![ih] = d]
    /\ events' = events + 1
    /\ UNCHANGED <<last_states, state, circuits, bittorrent_peers, listening>>

\* sesscb_states_callback publishes the list every fourth second.
PublishStates ==
    /\ last_states # downloads
    /\ last_states' = downloads
    /\ UNCHANGED <<downloads, state, circuits, bittorrent_peers, listening, events>>

\* listen_succeeded_alert
SessionListens(h) ==
    /\ h \notin listening /\ \E ih \in InfoHash : downloads[ih].hops = h
    /\ listening' = listening \cup {h}
    /\ UNCHANGED <<downloads, last_states, state, circuits, bittorrent_peers, events>>

Init ==
    /\ downloads = [ih \in InfoHash |-> NoDl]
    /\ last_states = [ih \in InfoHash |-> NoDl]
    /\ download_states = [ih \in InfoHash |-> Gone]
    /\ circuits_needed = [h \in Hops |-> 0]
    /\ swarms = [ih \in InfoHash |-> 0]
    /\ circuits = [c \in Circuit |-> NoCircuit]
    /\ introducing = {} /\ bittorrent_peers = {} /\ listening = {} /\ missed = {} /\ events = 0

Next ==
    \/ PollDownloadManager
    \/ PublishStates
    \/ \E ih \in InfoHash : CreateIntroductionPoint(ih)
    \/ \E c \in Circuit : \/ RemoveCircuit(c) \/ CircuitGone(c)
                          \/ OursOnCreatedExtended(c)
                          \/ \E h \in AnonHops : BuildCircuit(c, h)
    \/ \E ih \in InfoHash, d \in Dl : DownloadChanges(ih, d)
    \/ \E h \in AnonHops : SessionListens(h)

\* Polls, tasks and states are on timers of the event loop; circuits that are asked for
\* are built and closed ones go (ipv8's own timers); a session reports its port.
Fairness ==
    /\ WF_vars(PollDownloadManager) /\ WF_vars(PublishStates)
    /\ WF_vars(\E ih \in InfoHash : CreateIntroductionPoint(ih))
    /\ WF_vars(\E c \in Circuit : CircuitGone(c))
    /\ WF_vars(\E c \in Circuit : OursOnCreatedExtended(c))
    /\ WF_vars(\E c \in Circuit, h \in AnonHops : BuildCircuit(c, h))
    /\ WF_vars(\E h \in AnonHops : SessionListens(h))

Spec     == Init /\ [][Next]_vars
FairSpec == Spec /\ Fairness
-----------------------------------------------------------------------------
(***************************************************************************)
(* Properties.                                                             *)
(***************************************************************************)

\* Every variable keeps its shape.
TypeOK ==
    /\ downloads \in [InfoHash -> Dl] /\ last_states \in [InfoHash -> Dl]
    /\ download_states \in [InfoHash -> Statuses \cup {Gone}]
    /\ circuits_needed \in [Hops -> Nat] /\ swarms \in [InfoHash -> Hops \cup {0}]
    /\ circuits \in [Circuit -> {NoCircuit} \cup
                        [ctype : AnonHops \cup InfoHash, state : {"extending", "ready", "closing"}]]
    /\ introducing \subseteq InfoHash /\ bittorrent_peers \subseteq InfoHash
    /\ listening \subseteq AnonHops /\ missed \subseteq InfoHash /\ events \in 0..MaxEvents

\* The community is in the swarm of an active download and in none of a stopped or
\* removed one, except for the changes that fell to a walk that had no room.
SwarmsFollowStates ==
    \A ih \in InfoHash \ missed :
        /\ download_states[ih] \in Active => swarms[ih] # 0
        /\ download_states[ih] \in {"STOPPED", Gone} => swarms[ih] = 0

\* Peers wait for a circuit only as long as no data circuit is ready: neither the loss of
\* one of several circuits nor a circuit that is just closing leaves them behind.
NobodyWaitsBehindACircuit ==
    bittorrent_peers # {} => FindCircuits(circuits, AnonHops) = {}

\* Peers that were lost with their circuit are added again once a circuit is built.
PeersComeBack == bittorrent_peers # {} ~> bittorrent_peers = {}

\* A download that keeps seeding gets its introduction point, also after the circuit
\* of the first one broke, unless the limit is used up.
SeedingIsIntroduced ==
    \A ih \in InfoHash :
        []<>(downloads[ih].status = "SEEDING" /\ downloads[ih].hops > 0
                => ih \in IpHashes \/ Todo <= 0)

\* What the comment "Join/leave hidden swarm as needed." says: no change is missed.
NoChangeMissed == missed = {}

\* A swarm is joined with the hop count that its download has.
SwarmHopsAreCurrent ==
    \A ih \in InfoHash : last_states[ih] = downloads[ih] /\ download_states = NewStates
        /\ swarms[ih] # 0 => swarms[ih] = downloads[ih].hops
=============================================================================
