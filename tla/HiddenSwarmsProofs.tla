------------------------- MODULE HiddenSwarmsProofs -------------------------
(***************************************************************************)
(* For any torrents, hop counts, circuits and limits, and however polls,   *)
(* published states, tasks and circuits interleave: the hidden swarms are  *)
(* those of the downloads that the walks have come to, and no peer waits   *)
(* while a data circuit is ready.                                          *)
(*                                                                         *)
(* Both are inductive beside the types.  What makes them so is the joint   *)
(* step: a walk joins with the hop count of the states it compares, and    *)
(* the peers that a circuit loses are dealt with before the loop runs on.  *)
(***************************************************************************)
EXTENDS HiddenSwarms, FiniteSetTheorems, TLAPS

IInv == TypeOK /\ SwarmsFollowStates /\ NobodyWaitsBehindACircuit

USE HopsAssumption, CircuitLimits, StatusAssumption

\* The types of circuits, of which one step changes at most one and closes others.
CircuitType == [ctype : AnonHops \cup InfoHash, state : {"extending", "ready", "closing"}]
CircuitsOK(cs) == cs \in [Circuit -> {NoCircuit} \cup CircuitType]

\* A download has hops, and then it is anonymous, or there is none.
LEMMA HopsOfDl == ASSUME NEW d \in Dl
                  PROVE  /\ d.hops \in Nat
                         /\ d.hops > 0 => d.hops \in AnonHops /\ d.status \in Statuses
<1>1. CASE d = NoDl
  BY <1>1 DEF NoDl
<1>2. CASE d \in [hops : AnonHops, status : Statuses]
  BY <1>2 DEF AnonHops
<1>. QED
  BY <1>1, <1>2 DEF Dl

\* Max and Min of two numbers are one of them (circuits_needed).
LEMMA MaxOfTwo == ASSUME NEW a \in Nat, NEW b \in Nat PROVE Max({a, b}) \in Nat
<1>1. \E x \in {a, b} : \A y \in {a, b} : x >= y
  OBVIOUS
<1>. QED
  BY <1>1 DEF Max

\* The lesser of two numbers (limits of circuits) is a number.
LEMMA MinOfTwo == ASSUME NEW a \in Nat, NEW b \in Nat PROVE Min({a, b}) \in Nat
<1>1. \E x \in {a, b} : \A y \in {a, b} : x <= y
  OBVIOUS
<1>. QED
  BY <1>1 DEF Min

\* monitor_downloads keeps a number of circuits for every hop count.
LEMMA NeededType ==
    ASSUME NEW associates \in [Hops -> 0..MaxAssociates]
    PROVE  CircuitsNeeded(associates) \in [Hops -> Nat]
<1>1. ASSUME NEW h \in Hops PROVE Max({Wanted(h), 2 * associates[h]}) \in Nat
  <2>1. IsFiniteSet(ActiveAt(h))
    BY FS_Subset DEF ActiveAt, Anonymous
  <2>2. Cardinality(ActiveAt(h)) \in Nat
    BY <2>1, FS_CardinalityType
  <2>3. Max({Cardinality(ActiveAt(h)), MinCircuits}) \in Nat
    BY <2>2, MaxOfTwo
  <2>4. Wanted(h) \in Nat
    BY <2>3, MinOfTwo DEF Wanted
  <2>5. 2 * associates[h] \in Nat
    OBVIOUS
  <2>. QED
    BY <2>4, <2>5, MaxOfTwo
<1>. QED
  BY <1>1 DEF CircuitsNeeded

\* What the walk compares with: a status, of the anonymous downloads only.
LEMMA StatesType ==
    ASSUME TypeOK
    PROVE  /\ NewStates \in [InfoHash -> Statuses \cup {Gone}]
           /\ \A ih \in InfoHash : NewStates[ih] # Gone => last_states[ih].hops \in AnonHops
<1>1. \A ih \in InfoHash : last_states[ih] \in Dl
  BY DEF TypeOK
<1>2. \A ih \in Anonymous : last_states[ih].hops \in AnonHops /\ last_states[ih].status \in Statuses
  BY <1>1, HopsOfDl DEF Anonymous
<1>. QED
  BY <1>2 DEF NewStates, Gone
-----------------------------------------------------------------------------
\* The community starts without downloads, swarms and circuits.
THEOREM InitInv == Init => IInv
<1>. SUFFICES ASSUME Init PROVE IInv
  OBVIOUS
<1>1. TypeOK
  BY DEF Init, TypeOK, Dl, Gone
<1>2. SwarmsFollowStates
  BY DEF Init, SwarmsFollowStates, Active, Gone
<1>3. NobodyWaitsBehindACircuit
  BY DEF Init, NobodyWaitsBehindACircuit
<1>. QED
  BY <1>1, <1>2, <1>3 DEF IInv

\* One poll, whichever infohashes its walk comes to.
LEMMA PollInv == ASSUME IInv, PollDownloadManager PROVE IInv'
<1>. PICK seen \in Walks, associates \in [Hops -> 0..MaxAssociates] :
        /\ MonitorDownloads(seen, associates)
        /\ missed' = {ih \in InfoHash : IF ih \in seen
                                        THEN ih \in missed /\ ~Joins(ih) /\ ~Leaves(ih)
                                        ELSE ih \in missed \/ Changed(ih)}
  BY DEF PollDownloadManager
<1>. DEFINE leaving == {ih \in seen : Leaves(ih)}
<1>1. seen \subseteq InfoHash
  BY DEF Walks
<1>2. /\ swarms' = [ih \in InfoHash |->
                       IF ih \notin seen THEN swarms[ih]
                       ELSE IF Joins(ih) THEN last_states[ih].hops
                       ELSE IF ih \in leaving THEN 0 ELSE swarms[ih]]
      /\ circuits' = ClosedFor(leaving)
      /\ introducing' = introducing \cup {ih \in seen : Introduces(ih)}
      /\ download_states' = NewStates
      /\ circuits_needed' = CircuitsNeeded(associates)
  BY DEF MonitorDownloads, MonitorHiddenSwarms
<1>3. /\ NewStates \in [InfoHash -> Statuses \cup {Gone}]
      /\ \A ih \in InfoHash : NewStates[ih] # Gone => last_states[ih].hops \in AnonHops
  BY StatesType DEF IInv
<1>4. \A ih \in InfoHash : Joins(ih) => last_states[ih].hops \in AnonHops /\ ~Leaves(ih)
  BY <1>3 DEF Joins, Leaves, Active, Gone
<1>5. CircuitsOK(circuits')
  <2>1. \A c \in Circuit : circuits[c].ctype \in leaving =>
            [circuits[c] EXCEPT !.state = "closing"] \in CircuitType
    BY <1>1 DEF IInv, TypeOK, CircuitType, NoCircuit
  <2>. QED
    BY <1>2, <2>1 DEF ClosedFor, CircuitsOK, IInv, TypeOK, CircuitType
<1>6. TypeOK'
  <2>1. swarms' \in [InfoHash -> Hops \cup {0}]
    BY <1>2, <1>4 DEF IInv, TypeOK, AnonHops
  <2>2. circuits_needed' \in [Hops -> Nat]
    BY <1>2, NeededType
  <2>. QED
    BY <1>1, <1>2, <1>3, <1>5, <2>1, <2>2
       DEF PollDownloadManager, IInv, TypeOK, CircuitsOK, CircuitType
<1>7. SwarmsFollowStates'
  <2>. SUFFICES ASSUME NEW ih \in InfoHash, ih \notin missed'
                PROVE  /\ NewStates[ih] \in Active => swarms'[ih] # 0
                       /\ NewStates[ih] \in {"STOPPED", Gone} => swarms'[ih] = 0
    BY <1>2 DEF SwarmsFollowStates
  <2>1. CASE ih \in seen /\ Joins(ih)
    BY <1>2, <1>4, <2>1 DEF Joins, Active, Gone, AnonHops
  <2>2. CASE ih \in seen /\ Leaves(ih)
    BY <1>2, <1>4, <2>2 DEF Leaves, Active, Gone
  <2>3. CASE ih \in seen /\ ~Joins(ih) /\ ~Leaves(ih)
    <3>1. swarms'[ih] = swarms[ih] /\ ih \notin missed
      BY <1>2, <2>3
    <3>. QED
      BY <2>3, <3>1 DEF IInv, SwarmsFollowStates, Joins, Leaves, Changed, Active, Gone
  <2>4. CASE ih \notin seen
    <3>1. swarms'[ih] = swarms[ih] /\ ih \notin missed /\ NewStates[ih] = download_states[ih]
      BY <1>2, <2>4 DEF Changed
    <3>. QED
      BY <3>1 DEF IInv, SwarmsFollowStates
  <2>. QED
    BY <2>1, <2>2, <2>3, <2>4
<1>8. NobodyWaitsBehindACircuit'
  <2>1. bittorrent_peers' = bittorrent_peers
    BY DEF PollDownloadManager
  <2>2. \A c \in Circuit : circuits'[c].state = "ready" => circuits'[c] = circuits[c]
    BY <1>2 DEF ClosedFor, IInv, TypeOK, NoCircuit
  <2>. QED
    BY <2>1, <2>2 DEF IInv, NobodyWaitsBehindACircuit, FindCircuits
<1>. QED
  BY <1>6, <1>7, <1>8 DEF IInv

\* A circuit breaks; its peers wait only if no other one is ready.
LEMMA RemoveCircuitInv == ASSUME IInv, NEW c \in Circuit, RemoveCircuit(c) PROVE IInv'
<1>. PICK lost \in SUBSET {ih \in InfoHash : downloads[ih] # NoDl} :
        bittorrent_peers' = UpdateTorrent(lost, circuits')
  BY DEF RemoveCircuit
<1>1. circuits' = [circuits EXCEPT ![c].state = "closing"] /\ circuits[c] # NoCircuit
  BY DEF RemoveCircuit, NoCircuit
<1>2. circuits[c] \in CircuitType
  BY <1>1 DEF IInv, TypeOK, CircuitType
<1>3. TypeOK'
  <2>1. CircuitsOK(circuits')
    BY <1>1, <1>2 DEF CircuitsOK, IInv, TypeOK, CircuitType
  <2>2. bittorrent_peers' \subseteq InfoHash
    BY DEF UpdateTorrent, IInv, TypeOK
  <2>3. events' \in 0..MaxEvents
    BY DEF RemoveCircuit, IInv, TypeOK
  <2>4. UNCHANGED <<downloads, last_states, download_states, circuits_needed, swarms,
                    introducing, listening, missed>>
    BY DEF RemoveCircuit, state
  <2>. QED
    BY <2>1, <2>2, <2>3, <2>4 DEF IInv, TypeOK, CircuitsOK, CircuitType
<1>4. SwarmsFollowStates'
  BY DEF RemoveCircuit, state, IInv, SwarmsFollowStates
<1>5. NobodyWaitsBehindACircuit'
  <2>1. FindCircuits(circuits', AnonHops) \subseteq FindCircuits(circuits, AnonHops)
    BY <1>1 DEF IInv, TypeOK, FindCircuits
  <2>. QED
    BY <2>1 DEF IInv, NobodyWaitsBehindACircuit, UpdateTorrent
<1>. QED
  BY <1>3, <1>4, <1>5 DEF IInv

\* A circuit is asked for, for data or as an introduction point, or is gone.
LEMMA CircuitsChange ==
    ASSUME IInv, NEW c \in Circuit, NEW r \in {NoCircuit} \cup CircuitType, r.state # "ready",
           circuits' = [circuits EXCEPT ![c] = r], bittorrent_peers' = bittorrent_peers
    PROVE  CircuitsOK(circuits') /\ NobodyWaitsBehindACircuit'
<1>1. CircuitsOK(circuits')
  BY DEF CircuitsOK, IInv, TypeOK, CircuitType
<1>2. FindCircuits(circuits', AnonHops) \subseteq FindCircuits(circuits, AnonHops)
  BY DEF IInv, TypeOK, FindCircuits
<1>. QED
  BY <1>1, <1>2 DEF IInv, NobodyWaitsBehindACircuit

\* The task of an introduction point.
LEMMA IntroduceInv ==
    ASSUME IInv, NEW ih \in InfoHash, CreateIntroductionPoint(ih) PROVE IInv'
<1>1. SwarmsFollowStates'
  BY DEF CreateIntroductionPoint, IInv, SwarmsFollowStates
<1>2. CircuitsOK(circuits') /\ NobodyWaitsBehindACircuit'
  <2>1. CASE circuits' = circuits
    BY <2>1 DEF CreateIntroductionPoint, IInv, TypeOK, CircuitsOK, CircuitType,
                NobodyWaitsBehindACircuit
  <2>2. CASE \E c \in Free : circuits' = [circuits EXCEPT ![c] = [ctype |-> ih, state |-> "extending"]]
    <3>1. [ctype |-> ih, state |-> "extending"] \in CircuitType
      BY DEF CircuitType
    <3>2. PICK c \in Circuit : circuits' = [circuits EXCEPT ![c] = [ctype |-> ih, state |-> "extending"]]
      BY <2>2 DEF Free
    <3>3. bittorrent_peers' = bittorrent_peers
      BY DEF CreateIntroductionPoint
    <3>. QED
      BY <3>1, <3>2, <3>3, CircuitsChange
  <2>. QED
    BY <2>1, <2>2 DEF CreateIntroductionPoint
<1>3. TypeOK'
  BY <1>2 DEF CreateIntroductionPoint, IInv, TypeOK, CircuitsOK, CircuitType
<1>. QED
  BY <1>1, <1>2, <1>3 DEF IInv

\* ipv8's own steps with circuits.
LEMMA CircuitInv ==
    ASSUME IInv, NEW c \in Circuit,
           \/ CircuitGone(c) \/ OursOnCreatedExtended(c)
           \/ \E h \in AnonHops : BuildCircuit(c, h)
    PROVE  IInv'
<1>1. SwarmsFollowStates'
  BY DEF CircuitGone, OursOnCreatedExtended, BuildCircuit, state, IInv, SwarmsFollowStates
<1>2. CircuitsOK(circuits') /\ NobodyWaitsBehindACircuit' /\ bittorrent_peers' \subseteq InfoHash
  <2>1. CASE CircuitGone(c)
    <3>1. /\ circuits' = [circuits EXCEPT ![c] = NoCircuit] /\ NoCircuit.state # "ready"
          /\ bittorrent_peers' = bittorrent_peers
      BY <2>1 DEF CircuitGone, NoCircuit
    <3>. QED
      BY <3>1, CircuitsChange DEF IInv, TypeOK
  <2>2. CASE OursOnCreatedExtended(c)
    <3>1. circuits[c] \in CircuitType
      BY <2>2 DEF OursOnCreatedExtended, IInv, TypeOK, CircuitType, NoCircuit
    <3>. QED
      BY <2>2, <3>1 DEF OursOnCreatedExtended, IInv, TypeOK, CircuitsOK, CircuitType,
                        NobodyWaitsBehindACircuit
  <2>3. ASSUME NEW h \in AnonHops, BuildCircuit(c, h)
        PROVE  CircuitsOK(circuits') /\ NobodyWaitsBehindACircuit' /\ bittorrent_peers' \subseteq InfoHash
    <3>1. [ctype |-> h, state |-> "extending"] \in CircuitType
      BY DEF CircuitType
    <3>2. /\ circuits' = [circuits EXCEPT ![c] = [ctype |-> h, state |-> "extending"]]
          /\ bittorrent_peers' = bittorrent_peers
      BY <2>3 DEF BuildCircuit
    <3>. QED
      BY <3>1, <3>2, CircuitsChange DEF IInv, TypeOK
  <2>. QED
    BY <2>1, <2>2, <2>3
<1>3. TypeOK'
  BY <1>2 DEF CircuitGone, OursOnCreatedExtended, BuildCircuit, state,
              IInv, TypeOK, CircuitsOK, CircuitType
<1>. QED
  BY <1>1, <1>2, <1>3 DEF IInv

\* The DownloadManager, its sessions, and steps that change nothing.
LEMMA ManagerInv ==
    ASSUME IInv,
           \/ PublishStates \/ UNCHANGED vars
           \/ \E ih \in InfoHash, d \in Dl : DownloadChanges(ih, d)
           \/ \E h \in AnonHops : SessionListens(h)
    PROVE  IInv'
<1>1. SwarmsFollowStates' /\ NobodyWaitsBehindACircuit'
  BY DEF PublishStates, DownloadChanges, SessionListens, state, vars, IInv,
         SwarmsFollowStates, NobodyWaitsBehindACircuit
<1>2. TypeOK'
  BY DEF PublishStates, DownloadChanges, SessionListens, state, vars, IInv, TypeOK
<1>. QED
  BY <1>1, <1>2 DEF IInv

\* Every step stays in the invariant.
THEOREM StepInv == IInv /\ [Next]_vars => IInv'
BY PollInv, RemoveCircuitInv, IntroduceInv, CircuitInv, ManagerInv DEF Next

\* The community's tables and circuits keep their types, also when more than one circuit
\* closes at a time.
THEOREM TypeCorrect == Spec => []TypeOK
<1>1. IInv => TypeOK
  BY DEF IInv
<1>. QED
  BY <1>1, InitInv, StepInv, PTL DEF Spec

\* The community is in the swarm of an active download and in none of a stopped or removed
\* one, except for changes that no walk has come to (monitor_hidden_swarms).
THEOREM SwarmsFollow == Spec => []SwarmsFollowStates
<1>1. IInv => SwarmsFollowStates
  BY DEF IInv
<1>. QED
  BY <1>1, InitInv, StepInv, PTL DEF Spec

\* No peer waits while a data circuit is ready (update_torrent, readd_bittorrent_peers).
THEOREM NobodyWaits == Spec => []NobodyWaitsBehindACircuit
<1>1. IInv => NobodyWaitsBehindACircuit
  BY DEF IInv
<1>. QED
  BY <1>1, InitInv, StepInv, PTL DEF Spec
=============================================================================
