-------------------------- MODULE MetadataStoreProofs ------------------------
(***************************************************************************)
(* What comes into the metadata store: from peers (RemoteSelect), and from *)
(* the store of an older version (Upgrade).                                *)
(*                                                                         *)
(* For any torrents, requests, chunk sizes, search results and packet      *)
(* limit, and whatever the network and the database threads do: no more    *)
(* than packets_limit responses to a request are taken in, and the GUI is  *)
(* told of a new torrent once.                                             *)
(*                                                                         *)
(* The limit is kept because a request's own countdown and the responses   *)
(* taken in add up (Budget).  A torrent is reported once because the       *)
(* transaction that adds it makes it known: the torrents that threads have *)
(* found to be new are known, belong to one thread and are not reported    *)
(* yet (Pending).                                                          *)
(***************************************************************************)
EXTENDS RemoteSelect, Upgrade, FiniteSetTheorems, WellFoundedInduction, TLAPS

\* What a request may still take in and what it took in make the limit.
Budget ==
    \A r \in Request :
        /\ request[r].state = "unused"  => accepted[r] = 0 /\ request[r].limit = PacketsLimit
        /\ request[r].state = "waiting" => accepted[r] + request[r].limit = PacketsLimit
        /\ accepted[r] <= PacketsLimit

\* Torrents a thread found to be new, which the GUI has yet to hear of.
Pending ==
    /\ \A b \in blobs : \A t \in b.new : t \in known /\ t \in Torrent /\ reported[t] = 0
    /\ \A b, d \in blobs : \A t \in b.new : t \in d.new => b = d
    /\ \A t \in Torrent : reported[t] # 0 => t \in known

IInv == TypeOK /\ Budget /\ Pending /\ ReportedOnce

USE SizeAssumption, LimitAssumption, ResultsAssumption, BoundAssumption DEF database, responder

\* What the peers send each other are packets.
LEMMA PacketTypes ==
    /\ \A r \in Request : Query(r) \in Packets
    /\ \A r \in Request, T \in SUBSET Torrent : Response(r, T) \in Packets
    /\ \A m \in Packets : m.req \in Request
    /\ \A m \in Packets : m.type = "response" => m.entries \subseteq Torrent
BY DEF Query, Response, Packets

\* What the request cache and the threads hold.
LEMMA RecordTypes ==
    /\ Unused \in SelectRequests
    /\ \A q \in SelectRequests : Counted(q) \in SelectRequests
    /\ \A b \in Blobs, stage \in {"health", "payloads", "stored"}, new \in SUBSET Torrent :
          /\ [b EXCEPT !.stage = stage, !.new = new] \in Blobs
          /\ [b EXCEPT !.stage = stage, !.new = new].new = new
    /\ \A b \in Blobs : b.req \in Request /\ b.entries \subseteq Torrent /\ b.new \subseteq Torrent
<1>1. Unused \in SelectRequests
  BY DEF Unused, SelectRequests
<1>2. ASSUME NEW q \in SelectRequests PROVE Counted(q) \in SelectRequests
  BY DEF SelectRequests, Counted
<1>3. ASSUME NEW b \in Blobs, NEW stage \in {"health", "payloads", "stored"}, NEW new \in SUBSET Torrent
      PROVE  /\ [b EXCEPT !.stage = stage, !.new = new] \in Blobs
             /\ [b EXCEPT !.stage = stage, !.new = new].new = new
  BY DEF Blobs
<1>4. \A b \in Blobs : b.req \in Request /\ b.entries \subseteq Torrent /\ b.new \subseteq Torrent
  BY DEF Blobs
<1>. QED
  BY <1>1, <1>2, <1>3, <1>4

\* Less-than is contained in a well-founded relation.
LEMMA LessIsWellFounded ==
    \E R : IsWellFoundedOn(R, Nat) /\ \A x, y \in Nat : x < y => <<x, y>> \in R
<1>1. IsWellFoundedOn(OpToRel(<, Nat), Nat)
  BY NatLessThanWellFounded, Zenon
<1>2. \A x, y \in Nat : x < y => <<x, y>> \in OpToRel(<, Nat)
  BY Zenon DEF OpToRel
<1>. QED
  BY <1>1, <1>2, Zenon

\* A set of natural numbers that is not empty has a least element.
LEMMA HasLeast ==
    ASSUME NEW T, T \subseteq Nat, T # {}
    PROVE  \E x \in T : \A y \in T : x <= y
<1>1. PICK R : IsWellFoundedOn(R, Nat) /\ \A x, y \in Nat : x < y => <<x, y>> \in R
  BY LessIsWellFounded
<1>2. IsWellFoundedOn(R, Nat)
  BY <1>1
<1>3. PICK x \in T : \A y \in T : ~(<<y, x>> \in R)
  BY <1>2, WFMin
<1>4. \A y \in T : ~(y < x)
  BY <1>1, <1>3
<1>. QED
  BY <1>4

\* Min returns it.
LEMMA MinIsLeast ==
    ASSUME NEW T, T \subseteq Nat, T # {}
    PROVE  Min(T) \in T /\ \A y \in T : Min(T) <= y
BY HasLeast DEF Min

\* A chunk ends after the entry it starts with and not after the end of the list.
LEMMA StopInRange ==
    ASSUME NEW results \in Seq(Torrent), NEW index \in Nat, index < Len(results)
    PROVE  Stop(results, index) \in (index + 1)..(Len(results) + 1)
<1>. DEFINE T == {k \in (index + 1)..Len(results) : ~Taken(results, index, k)}
                 \cup {Len(results) + 1}
<1>1. T \subseteq (index + 1)..(Len(results) + 1) /\ T # {}
  OBVIOUS
<1>2. T \subseteq Nat
  BY <1>1
<1>3. Min(T) \in T
  BY <1>1, <1>2, MinIsLeast
<1>. QED
  BY <1>1, <1>3 DEF Stop

\* The types, in groups that steps change together.
RequestTypes  == request \in [Request -> SelectRequests] /\ accepted \in [Request -> Nat]
DatabaseTypes == blobs \subseteq Blobs /\ states \subseteq Torrent /\ known \subseteq Torrent
ServerTypes   == /\ deliveries \in [Request -> 0..MaxDeliveries]
                 /\ serving \in [Request -> Nat] /\ inProgress \in Int
SendingTypes  == sending = NoSending \/ sending \in Unsent

\* The parts of TypeOK, by who keeps the state.
LEMMA TypeGroups ==
    TypeOK <=> /\ RequestTypes /\ DatabaseTypes /\ ServerTypes /\ SendingTypes
               /\ peerKnown \in BOOLEAN /\ reported \in [Torrent -> Nat]
               /\ network \subseteq Packets
BY DEF TypeOK, RequestTypes, DatabaseTypes, ServerTypes, SendingTypes

\* Initially nothing is under way.
THEOREM InitInv == Init => IInv
<1>1. SUFFICES ASSUME Init PROVE IInv
  OBVIOUS
<1>2. TypeOK
  <2>1. RequestTypes
    BY <1>1, RecordTypes DEF Init, RequestTypes
  <2>2. DatabaseTypes
    BY <1>1 DEF Init, DatabaseTypes
  <2>3. ServerTypes /\ SendingTypes
    BY <1>1 DEF Init, ServerTypes, SendingTypes
  <2>4. peerKnown \in BOOLEAN /\ reported \in [Torrent -> Nat] /\ network \subseteq Packets
    BY <1>1 DEF Init
  <2>. QED
    BY <2>1, <2>2, <2>3, <2>4, TypeGroups
<1>3. Budget
  BY <1>1 DEF Init, Budget, Unused
<1>4. Pending /\ ReportedOnce
  BY <1>1 DEF Init, Pending, ReportedOnce
<1>. QED
  BY <1>2, <1>3, <1>4 DEF IInv

\* The same with primes, to put the groups together after a step.
LEMMA TypeGroupsNext ==
    ASSUME RequestTypes', DatabaseTypes', ServerTypes', SendingTypes',
           (peerKnown \in BOOLEAN)', (reported \in [Torrent -> Nat])', (network \subseteq Packets)'
    PROVE  TypeOK'
BY DEF TypeOK, RequestTypes, DatabaseTypes, ServerTypes, SendingTypes

\* Sending a query.
LEMMA QueryInv ==
    ASSUME IInv, NEW r \in Request, NEW kind \in {"search", "resolve"},
           NEW about \in Torrent \cup {NoTorrent}, kind = "resolve" => about \in Torrent,
           SendRemoteSelect(r, kind, about),
           states' \subseteq Torrent,
           UNCHANGED <<peerKnown, blobs, known, reported, accepted, responder>>
    PROVE  IInv'
<1>. DEFINE q == [Unused EXCEPT !.state = "waiting", !.kind = kind, !.about = about]
<1>0. RequestTypes /\ DatabaseTypes /\ network \subseteq Packets
  BY TypeGroups DEF IInv
<1>1. TypeOK'
  <2>1. q \in SelectRequests
    BY RecordTypes DEF SelectRequests
  <2>2. RequestTypes'
    BY <1>0, <2>1 DEF SendRemoteSelect, RequestTypes
  <2>3. (network \subseteq Packets)'
    BY <1>0, PacketTypes DEF SendRemoteSelect
  <2>4. DatabaseTypes'
    BY <1>0 DEF DatabaseTypes
  <2>5. /\ ServerTypes' /\ SendingTypes'
        /\ (peerKnown \in BOOLEAN)' /\ (reported \in [Torrent -> Nat])'
    BY TypeGroups DEF IInv, ServerTypes, SendingTypes
  <2>. QED
    BY <2>2, <2>3, <2>4, <2>5, TypeGroupsNext
<1>2. Budget'
  BY <1>0 DEF SendRemoteSelect, Unused, RequestTypes, IInv, Budget
<1>3. (Pending /\ ReportedOnce)'
  BY DEF IInv, Pending, ReportedOnce
<1>. QED
  BY <1>1, <1>2, <1>3 DEF IInv

\* Taking a response in: the countdown goes down by what the count goes up.
LEMMA ResponseInv ==
    ASSUME IInv, NEW m \in network, OnRemoteSelectResponse(m)
    PROVE  IInv'
<1>0. RequestTypes /\ DatabaseTypes /\ network \subseteq Packets
  BY TypeGroups DEF IInv
<1>1. m.req \in Request /\ m.entries \subseteq Torrent
  BY <1>0, PacketTypes DEF OnRemoteSelectResponse
<1>2. TypeOK'
  <2>0. Counted(request[m.req]) \in SelectRequests
    BY <1>0, <1>1, RecordTypes DEF RequestTypes
  <2>1. RequestTypes'
    BY <1>0, <1>1, <2>0 DEF OnRemoteSelectResponse, RequestTypes
  <2>2. [req |-> m.req, nr |-> accepted[m.req], entries |-> m.entries, stage |-> "health",
         new |-> {}] \in Blobs
    BY <1>0, <1>1 DEF RequestTypes, Blobs
  <2>3. DatabaseTypes'
    BY <1>0, <2>2 DEF OnRemoteSelectResponse, DatabaseTypes
  <2>4. /\ ServerTypes' /\ SendingTypes' /\ (network \subseteq Packets)'
        /\ (peerKnown \in BOOLEAN)' /\ (reported \in [Torrent -> Nat])'
    BY TypeGroups DEF OnRemoteSelectResponse, IInv, ServerTypes, SendingTypes
  <2>. QED
    BY <2>1, <2>3, <2>4, TypeGroupsNext
<1>3. Budget'
  BY <1>0, <1>1 DEF OnRemoteSelectResponse, Counted, RequestTypes, SelectRequests, IInv, Budget
<1>4. (Pending /\ ReportedOnce)'
  BY DEF OnRemoteSelectResponse, IInv, Pending, ReportedOnce
<1>. QED
  BY <1>2, <1>3, <1>4 DEF IInv

\* The end of a thread's transaction: what it found to be new was unknown until then.
LEMMA TransactionInv ==
    ASSUME IInv, NEW b \in blobs, StoreHealth(b) \/ StorePayloads(b) \/ StoreFails(b)
    PROVE  IInv'
<1>0. DatabaseTypes /\ b \in Blobs /\ b.entries \subseteq Torrent
  BY TypeGroups, RecordTypes DEF IInv, DatabaseTypes
<1>1. PICK stage \in {"payloads", "stored"}, new \in SUBSET (b.entries \ known) :
        /\ Advance(b, stage, new) /\ new \subseteq known'
        /\ known \subseteq known' /\ known' \subseteq Torrent /\ states' \subseteq Torrent
  <2>1. CASE StoreHealth(b) \/ StoreFails(b)
    <3>1. /\ known' = known /\ states' \subseteq Torrent
          /\ Advance(b, "payloads", {}) \/ Advance(b, "stored", {})
      BY <1>0, <2>1 DEF StoreHealth, StoreFails, DatabaseTypes
    <3>. QED
      BY <1>0, <3>1 DEF DatabaseTypes
  <2>2. CASE StorePayloads(b)
    <3>1. New(b) \in SUBSET (b.entries \ known) /\ New(b) \subseteq known'
      BY <2>2 DEF StorePayloads, New
    <3>2. Advance(b, "stored", New(b)) /\ known' = known \cup b.entries /\ states' = states \cup b.entries
      BY <2>2 DEF StorePayloads
    <3>. QED
      BY <1>0, <3>1, <3>2 DEF DatabaseTypes
  <2>. QED
    BY <2>1, <2>2
<1>2. UNCHANGED <<request, peerKnown, reported, accepted, network, responder>>
  BY DEF StoreHealth, StorePayloads, StoreFails
<1>. DEFINE d == [b EXCEPT !.stage = stage, !.new = new]
<1>3. d \in Blobs /\ d.new = new
  <2>1. new \in SUBSET Torrent
    BY <1>0
  <2>. QED
    BY <1>0, <2>1, RecordTypes
<1>4. blobs' = (blobs \ {b}) \cup {d}
  BY <1>1 DEF Advance
<1>. HIDE DEF d
<1>5. TypeOK'
  <2>1. DatabaseTypes'
    BY <1>0, <1>1, <1>3, <1>4 DEF DatabaseTypes
  <2>2. /\ RequestTypes' /\ ServerTypes' /\ SendingTypes' /\ (network \subseteq Packets)'
        /\ (peerKnown \in BOOLEAN)' /\ (reported \in [Torrent -> Nat])'
    BY <1>2, TypeGroups DEF IInv, RequestTypes, ServerTypes, SendingTypes
  <2>. QED
    BY <2>1, <2>2, TypeGroupsNext
<1>6. Budget'
  BY <1>2 DEF IInv, Budget
<1>7. ReportedOnce'
  BY <1>2 DEF IInv, ReportedOnce
<1>8. Pending'
  <2>1. \A t \in new : t \in Torrent /\ t \notin known
    BY <1>0
  <2>2. \A e \in blobs' : \A t \in e.new : t \in known' /\ t \in Torrent /\ reported'[t] = 0
    BY <1>1, <1>2, <1>3, <1>4, <2>1 DEF IInv, Pending
  <2>3. \A e, f \in blobs' : \A t \in e.new : t \in f.new => e = f
    BY <1>1, <1>3, <1>4 DEF IInv, Pending
  <2>4. \A t \in Torrent : reported'[t] # 0 => t \in known'
    BY <1>1, <1>2 DEF IInv, Pending
  <2>. QED
    BY <2>2, <2>3, <2>4 DEF Pending
<1>. QED
  BY <1>5, <1>6, <1>7, <1>8 DEF IInv

\* The GUI hears of the thread's new torrents, which are no other thread's.
LEMMA ProcessedInv ==
    ASSUME IInv, NEW b \in blobs, OnProcessed(b)
    PROVE  IInv'
<1>0. RequestTypes /\ DatabaseTypes /\ reported \in [Torrent -> Nat]
  BY TypeGroups DEF IInv
<1>1. b.req \in Request
  BY <1>0, RecordTypes DEF DatabaseTypes
<1>2. reported' \in [Torrent -> Nat]
  BY <1>0 DEF OnProcessed
<1>3. \A t \in Torrent : \/ reported'[t] = reported[t]
                         \/ t \in b.new /\ reported'[t] = reported[t] + 1
  BY <1>0 DEF OnProcessed
<1>4. TypeOK'
  <2>1. RequestTypes'
    <3>1. request' = [request EXCEPT ![b.req] = [@ EXCEPT !.responded = TRUE]]
      BY <1>0, <1>1 DEF OnProcessed, RequestTypes
    <3>2. \A q \in SelectRequests : [q EXCEPT !.responded = TRUE] \in SelectRequests
      BY DEF SelectRequests
    <3>3. request' \in [Request -> SelectRequests]
      BY <1>0, <1>1, <3>1, <3>2 DEF RequestTypes
    <3>. QED
      BY <1>0, <3>3 DEF OnProcessed, RequestTypes
  <2>2. DatabaseTypes'
    BY <1>0 DEF OnProcessed, DatabaseTypes
  <2>3. /\ ServerTypes' /\ SendingTypes' /\ (network \subseteq Packets)' /\ (peerKnown \in BOOLEAN)'
    BY TypeGroups DEF OnProcessed, IInv, ServerTypes, SendingTypes
  <2>. QED
    BY <1>2, <2>1, <2>2, <2>3, TypeGroupsNext
<1>5. Budget'
  BY <1>0, <1>1 DEF OnProcessed, RequestTypes, SelectRequests, IInv, Budget
<1>6. ReportedOnce'
  BY <1>3 DEF IInv, Pending, ReportedOnce
<1>7. Pending'
  <2>1. blobs' = blobs \ {b} /\ known' = known
    BY DEF OnProcessed
  <2>2. \A d \in blobs' : \A t \in d.new : t \in known' /\ t \in Torrent /\ reported'[t] = 0
    BY <1>3, <2>1 DEF IInv, Pending
  <2>3. \A d, e \in blobs' : \A t \in d.new : t \in e.new => d = e
    BY <2>1 DEF IInv, Pending
  <2>4. \A t \in Torrent : reported'[t] # 0 => t \in known'
    BY <1>3, <2>1 DEF IInv, Pending
  <2>. QED
    BY <2>2, <2>3, <2>4 DEF Pending
<1>. QED
  BY <1>4, <1>5, <1>6, <1>7 DEF IInv

\* A request times out.
LEMMA TimeoutInv ==
    ASSUME IInv, NEW r \in Request, OnQueryTimeout(r)
    PROVE  IInv'
<1>0. RequestTypes
  BY TypeGroups DEF IInv
<1>1. TypeOK'
  <2>1. RequestTypes'
    <3>1. \A q \in SelectRequests : [q EXCEPT !.state = "over"] \in SelectRequests
      BY DEF SelectRequests
    <3>. QED
      BY <1>0, <3>1 DEF OnQueryTimeout, RequestTypes
  <2>2. peerKnown' \in BOOLEAN
    BY DEF OnQueryTimeout
  <2>3. /\ DatabaseTypes' /\ ServerTypes' /\ SendingTypes' /\ (network \subseteq Packets)'
        /\ (reported \in [Torrent -> Nat])'
    BY TypeGroups DEF OnQueryTimeout, IInv, DatabaseTypes, ServerTypes, SendingTypes
  <2>. QED
    BY <2>1, <2>2, <2>3, TypeGroupsNext
<1>2. Budget'
  BY <1>0 DEF OnQueryTimeout, RequestTypes, SelectRequests, IInv, Budget
<1>3. (Pending /\ ReportedOnce)'
  BY DEF OnQueryTimeout, IInv, Pending, ReportedOnce
<1>. QED
  BY <1>1, <1>2, <1>3 DEF IInv

\* The responder changes nothing at the requester.
LEMMA ResponderInv ==
    ASSUME IInv, UNCHANGED <<request, peerKnown, blobs, database, reported, accepted>>,
           ServerTypes', SendingTypes', (network \subseteq Packets)'
    PROVE  IInv'
<1>1. /\ RequestTypes' /\ DatabaseTypes'
      /\ (peerKnown \in BOOLEAN)' /\ (reported \in [Torrent -> Nat])'
  BY TypeGroups DEF IInv, RequestTypes, DatabaseTypes
<1>2. TypeOK'
  BY <1>1, TypeGroupsNext
<1>3. (Budget /\ Pending /\ ReportedOnce)'
  BY DEF IInv, Budget, Pending, ReportedOnce
<1>. QED
  BY <1>2, <1>3 DEF IInv

\* A chunk holds torrents of the result.
LEMMA SendChunkInv == ASSUME IInv, SendChunk PROVE IInv'
<1>. DEFINE results == sending.results
            index   == sending.index
            chunk   == {results[k] : k \in (index + 1)..(Stop(results, index) - 1)}
<1>0. ServerTypes /\ network \subseteq Packets
  BY TypeGroups DEF IInv
<1>1. /\ sending \in [req : Request, results : Seq(Torrent), index : Nat]
      /\ index < Len(results)
  BY TypeGroups DEF IInv, SendChunk, Responsive, SendingTypes, Unsent
<1>2. results \in Seq(Torrent) /\ index \in Nat /\ Len(results) \in Nat /\ sending.req \in Request
  BY <1>1
<1>3. Stop(results, index) \in (index + 1)..(Len(results) + 1)
  BY <1>1, <1>2, StopInRange
<1>4. chunk \subseteq Torrent
  BY <1>2, <1>3
<1>5. NextIndex(results, index) \in Nat
  BY <1>2, <1>3 DEF NextIndex
<1>. HIDE DEF results, index, chunk
<1>6. (network \subseteq Packets)'
  <2>1. network' = network \cup {Response(sending.req, chunk)}
    BY DEF SendChunk, results, index, chunk
  <2>. QED
    BY <1>0, <1>2, <1>4, <2>1, PacketTypes
<1>7. SendingTypes'
  <2>1. CASE sending' = NoSending
    BY <2>1 DEF SendingTypes
  <2>2. CASE sending' # NoSending
    <3>1. /\ sending' = [sending EXCEPT !.index = NextIndex(results, index)]
          /\ ~(NextIndex(results, index) >= Len(results))
      BY <2>2 DEF SendChunk, results, index
    <3>2. /\ sending' \in [req : Request, results : Seq(Torrent), index : Nat]
          /\ sending'.index = NextIndex(results, index) /\ sending'.results = results
      BY <1>1, <1>5, <3>1 DEF results
    <3>3. sending'.index < Len(sending'.results)
      BY <1>2, <1>5, <3>1, <3>2
    <3>. QED
      BY <3>2, <3>3 DEF SendingTypes, Unsent
  <2>. QED
    BY <2>1, <2>2
<1>8. ServerTypes'
  BY <1>0 DEF SendChunk, ServerTypes
<1>. QED
  BY <1>6, <1>7, <1>8, ResponderInv DEF SendChunk

\* The responder's other steps: refusing, starting and ending a query.
LEMMA ServeInv ==
    ASSUME IInv, NEW r \in Request, OnRemoteSelect(r) \/ QueryDone(r) \/ QueryFailed(r)
    PROVE  IInv'
<1>0. ServerTypes /\ SendingTypes /\ RequestTypes /\ network \subseteq Packets
  BY TypeGroups DEF IInv
<1>1. CASE OnRemoteSelect(r)
  <2>1. ServerTypes' /\ SendingTypes'
    BY <1>0, <1>1 DEF OnRemoteSelect, ServerTypes, SendingTypes
  <2>2. (network \subseteq Packets)'
    BY <1>0, <1>1, PacketTypes DEF OnRemoteSelect
  <2>. QED
    BY <1>1, <2>1, <2>2, ResponderInv DEF OnRemoteSelect
<1>2. CASE QueryDone(r)
  <2>1. PICK results \in Answers(r) :
          IF results = <<>>
          THEN /\ network' = network \cup {Response(r, {})}
               /\ UNCHANGED sending
          ELSE /\ sending' = [req |-> r, results |-> results, index |-> 0]
               /\ UNCHANGED network
    BY <1>2 DEF QueryDone
  <2>2. SendingTypes'
    <3>1. CASE results = <<>>
      BY <1>0, <2>1, <3>1 DEF SendingTypes
    <3>2. CASE results # <<>>
      <4>1. results \in Seq(Torrent)
        <5>1. CASE results \in Results
          BY <5>1
        <5>2. CASE request[r].kind # "search" /\ results = <<request[r].about>>
          <6>1. request[r].kind # "search" => request[r].about \in Torrent
            BY <1>0 DEF RequestTypes, SelectRequests
          <6>. QED
            BY <5>2, <6>1
        <5>. QED
          BY <2>1, <3>2, <5>1, <5>2 DEF Answers
      <4>2. 0 < Len(results)
        BY <3>2, <4>1
      <4>. QED
        BY <2>1, <3>2, <4>1, <4>2 DEF SendingTypes, Unsent
    <3>. QED
      BY <3>1, <3>2
  <2>3. (network \subseteq Packets)'
    BY <1>0, <2>1, PacketTypes
  <2>4. ServerTypes'
    BY <1>0, <1>2 DEF QueryDone, ServerTypes
  <2>. QED
    BY <1>2, <2>2, <2>3, <2>4, ResponderInv DEF QueryDone
<1>3. CASE QueryFailed(r)
  <2>1. ServerTypes' /\ SendingTypes' /\ (network \subseteq Packets)'
    BY <1>0, <1>3 DEF QueryFailed, AfterFailure, ServerTypes, SendingTypes
  <2>. QED
    BY <1>3, <2>1, ResponderInv DEF QueryFailed
<1>. QED
  BY <1>1, <1>2, <1>3

\* Every step preserves the invariant.
THEOREM StepInv == IInv /\ [Next]_vars => IInv'
<1>. SUFFICES ASSUME IInv, [Next]_vars PROVE IInv'
  OBVIOUS
<1>1. ASSUME NEW r \in Request, SendSearchRequest(r) PROVE IInv'
  BY <1>1, QueryInv DEF SendSearchRequest, IInv, TypeOK
<1>2. ASSUME NEW t \in Torrent, NEW r \in Request, OnHealth(t, r) PROVE IInv'
  <2>1. states' \subseteq Torrent
    BY <1>2 DEF OnHealth, StatesWith, IInv, TypeOK
  <2>. QED
    BY <1>2, <2>1, QueryInv DEF OnHealth
<1>3. ASSUME NEW m \in network, OnRemoteSelectResponse(m) PROVE IInv'
  BY <1>3, ResponseInv
<1>4. ASSUME NEW b \in blobs, StoreHealth(b) \/ StorePayloads(b) \/ StoreFails(b) PROVE IInv'
  BY <1>4, TransactionInv
<1>5. ASSUME NEW b \in blobs, OnProcessed(b) PROVE IInv'
  BY <1>5, ProcessedInv
<1>6. ASSUME NEW r \in Request, OnQueryTimeout(r) PROVE IInv'
  BY <1>6, TimeoutInv
<1>7. ASSUME NEW r \in Request, OnRemoteSelect(r) \/ QueryDone(r) \/ QueryFailed(r) PROVE IInv'
  BY <1>7, ServeInv
<1>8. CASE SendChunk
  BY <1>8, SendChunkInv
<1>9. CASE UNCHANGED vars
  BY <1>9 DEF vars, IInv, TypeOK, Budget, Pending, ReportedOnce
<1>. QED
  BY <1>1, <1>2, <1>3, <1>4, <1>5, <1>6, <1>7, <1>8, <1>9 DEF Next, Requester, Responder

\* The invariant holds in every behaviour.
THEOREM Invariance == Spec => []IInv
BY InitInv, StepInv, PTL DEF Spec

\* Requests, blobs, packets, counters and what is being sent have their types.
THEOREM TypeCorrect == Spec => []TypeOK
<1>1. IInv => TypeOK
  BY DEF IInv
<1>. QED
  BY <1>1, Invariance, PTL

\* However many copies and chunks arrive, and however long the database takes, no more
\* than packets_limit responses to one request are taken in.
THEOREM LimitKept == Spec => []LimitIsKept
<1>1. IInv => LimitIsKept
  BY DEF IInv, Budget, LimitIsKept
<1>. QED
  BY <1>1, Invariance, PTL

\* A torrent is reported as new at most once, by whichever thread added it.
THEOREM Once == Spec => []ReportedOnce
<1>1. IInv => ReportedOnce
  BY DEF IInv
<1>. QED
  BY <1>1, Invariance, PTL
-----------------------------------------------------------------------------
(***************************************************************************)
(* The responder counts its running queries, so that a text query waits    *)
(* for none; and it sends what it has behind it.                           *)
(***************************************************************************)

\* The running queries, one by one.
Running == {x \in Request \X (Nat \ {0}) : x[2] <= serving[x[1]]}
Counting == IsFiniteSet(Running) /\ inProgress = Cardinality(Running)

\* A request that is not made yet is not about a torrent.
Unmade == \A r \in Request : request[r].state = "unused" => request[r].kind = "search"

ServerInv == Counting /\ OneTextQuery /\ NothingSkipped /\ Unmade

\* One query more, or one less.
LEMMA CountingUp ==
    ASSUME IInv, Counting, NEW r \in Request, serving' = [serving EXCEPT ![r] = @ + 1],
           inProgress' = inProgress + 1
    PROVE  Counting'
<1>1. serving \in [Request -> Nat]
  BY DEF IInv, TypeOK
<1>2. Running' = Running \cup {<<r, serving[r] + 1>>}
  BY <1>1 DEF Running
<1>3. <<r, serving[r] + 1>> \notin Running
  BY <1>1 DEF Running
<1>. QED
  BY <1>2, <1>3, FS_AddElement DEF Counting

\* A query that ends takes itself, and no other, off the counter.
LEMMA CountingDown ==
    ASSUME IInv, Counting, NEW r \in Request, serving[r] > 0,
           serving' = [serving EXCEPT ![r] = @ - 1], inProgress' = inProgress - 1
    PROVE  Counting'
<1>1. serving \in [Request -> Nat]
  BY DEF IInv, TypeOK
<1>2. Running' = Running \ {<<r, serving[r]>>}
  BY <1>1 DEF Running
<1>3. <<r, serving[r]>> \in Running
  BY <1>1 DEF Running
<1>. QED
  BY <1>2, <1>3, FS_RemoveElement DEF Counting

\* A query that starts when none runs is the only one.
LEMMA NoneRuns ==
    ASSUME IInv, Counting, inProgress = 0
    PROVE  \A q \in Request : serving[q] = 0
<1>1. serving \in [Request -> Nat]
  BY DEF IInv, TypeOK
<1>2. Running = {}
  BY FS_EmptySet DEF Counting
<1>3. \A q \in Request : serving[q] > 0 => <<q, 1>> \in Running
  BY <1>1 DEF Running
<1>. QED
  BY <1>1, <1>2, <1>3

\* A text query starts only when nothing runs, and its end leaves no other behind.
LEMMA TextQueries ==
    ASSUME IInv, OneTextQuery, Counting, NEW r \in Request, UNCHANGED request,
           \/ ~Refused(r) /\ serving' = [serving EXCEPT ![r] = @ + 1]
           \/ serving[r] > 0 /\ serving' = [serving EXCEPT ![r] = @ - 1]
    PROVE  OneTextQuery'
<1>1. serving \in [Request -> Nat]
  BY DEF IInv, TypeOK
<1>2. CASE serving[r] > 0 /\ serving' = [serving EXCEPT ![r] = @ - 1]
  BY <1>1, <1>2 DEF OneTextQuery
<1>3. CASE ~Refused(r) /\ serving' = [serving EXCEPT ![r] = @ + 1]
  <2>1. CASE request[r].kind = "search"
    BY <1>1, <1>3, <2>1, NoneRuns DEF OneTextQuery, Refused
  <2>2. CASE request[r].kind # "search"
    BY <1>1, <1>3, <2>2 DEF OneTextQuery
  <2>. QED
    BY <2>1, <2>2
<1>. QED
  BY <1>2, <1>3

\* The requester's steps leave the responder alone, and make no request one for a text.
LEMMA RequesterSteps ==
    ASSUME IInv, ServerInv, network \subseteq network', UNCHANGED responder,
           \A r \in Request : /\ request'[r].kind = "search" => request[r].kind = "search"
                              /\ request'[r].state = "unused" =>
                                     request[r].state = "unused" /\ request'[r].kind = request[r].kind
    PROVE  ServerInv'
<1>1. Counting'
  BY DEF ServerInv, Counting, Running
<1>2. OneTextQuery'
  BY DEF ServerInv, OneTextQuery
<1>3. NothingSkipped'
  BY DEF ServerInv, NothingSkipped, Responsive
<1>4. Unmade'
  BY DEF ServerInv, Unmade
<1>. QED
  BY <1>1, <1>2, <1>3, <1>4 DEF ServerInv

\* The next chunk begins where this one ends, or sends the second entry again.
LEMMA ChunkSteps ==
    ASSUME IInv, ServerInv, SendChunk
    PROVE  ServerInv'
<1>. DEFINE results == sending.results
            index   == sending.index
            stop    == Stop(results, index)
            chunk   == {results[k] : k \in (index + 1)..(stop - 1)}
            packet  == Response(sending.req, chunk)
<1>1. /\ sending \in [req : Request, results : Seq(Torrent), index : Nat] /\ index < Len(results)
      /\ results \in Seq(Torrent) /\ index \in Nat
  BY TypeGroups DEF IInv, SendChunk, Responsive, SendingTypes, Unsent
<1>2. stop \in (index + 1)..(Len(results) + 1)
  BY <1>1, StopInRange
<1>3. index = 0 => stop # 1
  <2>1. SUFFICES ASSUME index = 0, stop = 1 PROVE FALSE
    OBVIOUS
  <2>. DEFINE T == {k \in 1..Len(results) : ~Taken(results, 0, k)} \cup {Len(results) + 1}
  <2>2. T \subseteq Nat /\ T # {}
    BY <1>1
  <2>3. Min(T) \in T
    BY <2>2, MinIsLeast
  <2>4. 1 \notin T
    BY <1>1 DEF Taken
  <2>5. stop = Min(T)
    <3>1. index + 1 = 1
      BY <2>1
    <3>. QED
      BY <2>1, <3>1 DEF Stop
  <2>. QED
    BY <2>1, <2>3, <2>4, <2>5
<1>4. /\ network' = network \cup {packet}
      /\ sending' = IF NextIndex(results, index) >= Len(results) THEN NoSending
                    ELSE [sending EXCEPT !.index = NextIndex(results, index)]
      /\ UNCHANGED <<request, serving, inProgress>>
  BY DEF SendChunk
<1>5. NextIndex(results, index) = IF stop = index + 1 THEN 1 ELSE stop - 1
  BY DEF NextIndex
<1>6. packet.type = "response" /\ packet.req = sending.req /\ packet.entries = chunk
  BY DEF Response
<1>7. ~Responsive
  BY DEF SendChunk
<1>. HIDE DEF stop, packet
<1>8. NothingSkipped'
  <2>1. SUFFICES ASSUME ~Responsive', NEW k \in 1..sending'.index
                 PROVE  \E m \in network' : m.type = "response" /\ m.req = sending'.req
                                            /\ sending'.results[k] \in m.entries
    BY DEF NothingSkipped
  <2>2. sending' = [sending EXCEPT !.index = NextIndex(results, index)]
    BY <1>4, <2>1 DEF Responsive
  <2>3. sending'.req = sending.req /\ sending'.results = results /\ sending'.index = NextIndex(results, index)
    BY <1>1, <2>2
  <2>4. CASE k <= index
    <3>1. k \in 1..index
      BY <1>1, <1>2, <1>5, <2>1, <2>3, <2>4
    <3>. QED
      BY <1>4, <1>7, <2>3, <3>1 DEF ServerInv, NothingSkipped
  <2>5. CASE k > index
    <3>1. k \in (index + 1)..(stop - 1)
      BY <1>1, <1>2, <1>3, <1>5, <2>1, <2>3, <2>5
    <3>2. results[k] \in chunk
      BY <3>1
    <3>. QED
      BY <1>4, <1>6, <2>3, <3>2
  <2>. QED
    BY <1>1, <1>2, <1>5, <2>1, <2>3, <2>4, <2>5
<1>9. Counting' /\ OneTextQuery' /\ Unmade'
  BY <1>4 DEF ServerInv, Counting, Running, OneTextQuery, Unmade
<1>. QED
  BY <1>8, <1>9 DEF ServerInv

\* Every step keeps the responder's counter and what it sends.
THEOREM ServerStep == IInv /\ ServerInv /\ [Next]_vars => ServerInv'
<1>. SUFFICES ASSUME IInv, ServerInv, [Next]_vars PROVE ServerInv'
  OBVIOUS
<1>0. RequestTypes
  BY TypeGroups DEF IInv
<1>1. ASSUME NEW r \in Request, SendSearchRequest(r) \/ (\E t \in Torrent : OnHealth(t, r)) PROVE ServerInv'
  <2>1. PICK kind \in {"search", "resolve"}, about \in Torrent \cup {NoTorrent} : SendRemoteSelect(r, kind, about)
    BY <1>1 DEF SendSearchRequest, OnHealth
  <2>2. \A q \in Request : /\ request'[q].kind = "search" => request[q].kind = "search"
                           /\ request'[q].state = "unused" =>
                                  request[q].state = "unused" /\ request'[q].kind = request[q].kind
    <3>1. request[r].kind = "search"
      BY <2>1 DEF SendRemoteSelect, ServerInv, Unmade
    <3>. DEFINE new == [Unused EXCEPT !.state = "waiting", !.kind = kind, !.about = about]
    <3>2. request' = [request EXCEPT ![r] = new] /\ new.state = "waiting"
      BY <2>1 DEF SendRemoteSelect, Unused
    <3>. HIDE DEF new
    <3>. QED
      BY <1>0, <3>1, <3>2 DEF RequestTypes
  <2>. QED
    BY <1>1, <2>1, <2>2, RequesterSteps DEF SendSearchRequest, OnHealth, SendRemoteSelect
<1>2. ASSUME NEW m \in network, OnRemoteSelectResponse(m) PROVE ServerInv'
  <2>1. \A q \in Request : /\ request'[q].kind = request[q].kind
                           /\ request'[q].state = "unused" =>
                                  request[q].state = "unused" /\ request'[q].kind = request[q].kind
    BY <1>0, <1>2 DEF OnRemoteSelectResponse, Counted, RequestTypes, SelectRequests
  <2>. QED
    BY <1>2, <2>1, RequesterSteps DEF OnRemoteSelectResponse
<1>3. ASSUME NEW b \in blobs, StoreHealth(b) \/ StorePayloads(b) \/ StoreFails(b) PROVE ServerInv'
  BY <1>3, RequesterSteps DEF StoreHealth, StorePayloads, StoreFails
<1>4. ASSUME NEW b \in blobs, OnProcessed(b) PROVE ServerInv'
  <2>1. \A q \in Request : /\ request'[q].kind = request[q].kind
                           /\ request'[q].state = "unused" =>
                                  request[q].state = "unused" /\ request'[q].kind = request[q].kind
    BY <1>0, <1>4 DEF OnProcessed, RequestTypes, SelectRequests
  <2>. QED
    BY <1>4, <2>1, RequesterSteps DEF OnProcessed
<1>5. ASSUME NEW r \in Request, OnQueryTimeout(r) PROVE ServerInv'
  <2>1. \A q \in Request : /\ request'[q].kind = request[q].kind
                           /\ request'[q].state = "unused" =>
                                  request[q].state = "unused" /\ request'[q].kind = request[q].kind
    BY <1>0, <1>5 DEF OnQueryTimeout, RequestTypes, SelectRequests
  <2>. QED
    BY <1>5, <2>1, RequesterSteps DEF OnQueryTimeout
<1>6. ASSUME NEW r \in Request, OnRemoteSelect(r) PROVE ServerInv'
  <2>1. CASE Refused(r)
    BY <1>6, <2>1 DEF OnRemoteSelect, ServerInv, Counting, Running, OneTextQuery, NothingSkipped, Responsive, Unmade
  <2>2. CASE ~Refused(r)
    BY <1>6, <2>2, CountingUp, TextQueries DEF OnRemoteSelect, ServerInv, NothingSkipped, Responsive, Unmade
  <2>. QED
    BY <2>1, <2>2
<1>7. ASSUME NEW r \in Request, QueryDone(r) PROVE ServerInv'
  <2>1. NothingSkipped'
    BY <1>7 DEF QueryDone, NothingSkipped, Responsive
  <2>. QED
    BY <1>7, <2>1, CountingDown, TextQueries DEF QueryDone, ServerInv, Unmade
<1>8. ASSUME NEW r \in Request, QueryFailed(r) PROVE ServerInv'
  BY <1>8, CountingDown, TextQueries DEF QueryFailed, AfterFailure, ServerInv, NothingSkipped, Responsive, Unmade
<1>9. CASE SendChunk
  BY <1>9, ChunkSteps
<1>10. CASE UNCHANGED vars
  BY <1>10, RequesterSteps DEF vars
<1>. QED
  BY <1>1, <1>2, <1>3, <1>4, <1>5, <1>6, <1>7, <1>8, <1>9, <1>10 DEF Next, Requester, Responder

\* A responder that serves nobody.
THEOREM ServerInit == Init => ServerInv
<1>. SUFFICES ASSUME Init PROVE ServerInv
  OBVIOUS
<1>1. Running = {}
  BY DEF Init, Running
<1>2. Counting
  BY <1>1, FS_EmptySet DEF Init, Counting
<1>. QED
  BY <1>2 DEF Init, ServerInv, OneTextQuery, NothingSkipped, Responsive, Unmade, Unused

\* Both sides' invariants hold in every behaviour.
THEOREM ServerInvariance == Spec => [](IInv /\ ServerInv)
<1>1. Init => IInv /\ ServerInv
  BY InitInv, ServerInit
<1>2. IInv /\ ServerInv /\ [Next]_vars => (IInv /\ ServerInv)'
  BY StepInv, ServerStep
<1>. QED
  BY <1>1, <1>2, PTL DEF Spec

\* The counter of running queries keeps all text queries but one away, however the threads'
\* ends, failures and repeated queries interleave.
THEOREM TextQueriesAlone == Spec => []OneTextQuery
<1>1. ServerInv => OneTextQuery
  BY DEF ServerInv
<1>. QED
  BY <1>1, ServerInvariance, PTL

\* Whatever the sizes of the entries and of a chunk: what send_db_results has behind it was sent.
THEOREM NoneSkipped == Spec => []NothingSkipped
<1>1. ServerInv => NothingSkipped
  BY DEF ServerInv
<1>. QED
  BY <1>1, ServerInvariance, PTL
-----------------------------------------------------------------------------
(***************************************************************************)
(* The import of the old version.  What is imported stays so, whatever the *)
(* user and the network do meanwhile.  Hence what the thread has gone      *)
(* through, by the step that it is at, is done (GoneThrough): a checkpoint *)
(* that is not left to copy is there, a row that no batch still to come    *)
(* has is imported or was in a batch that failed.                          *)
(***************************************************************************)
USE UpgradeBounds

CopyIsThere(c)     == copies[c] # "none"
NodeIsThere(r)     == nodes[r] = 1 \/ r \in failed["ChannelNode"]
TrackerIsThere(r)  == failures[r] >= 0 \/ r \in failed["TrackerState"]
RelationIsThere(r) == r \in relation \/ \E t \in Table : r \in failed[t]

CopiesDone   == \A c \in Checkpoint : CopyIsThere(c)
NodesDone    == \A r \in Row : NodeIsThere(r)
TrackersDone == \A r \in Row : TrackerIsThere(r)
RelationDone == \A r \in Row : RelationIsThere(r)
AllDone      == CopiesDone /\ NodesDone /\ TrackersDone /\ RelationDone

\* A batch that is still to come has the row.
Ahead(r) == \E start \in todo : r \in Batch(start)

GoneThrough ==
    /\ thread \in {"copies", "copying"} => \A c \in Checkpoint \ todo : CopyIsThere(c)
    /\ thread \in Table \cup {"marker"} => CopiesDone
    /\ thread = "ChannelNode"  => \A r \in Row : Ahead(r) \/ NodeIsThere(r)
    /\ thread \in {"TrackerState", "Relation", "marker"} => NodesDone
    /\ thread = "TrackerState" => \A r \in Row : Ahead(r) \/ TrackerIsThere(r)
    /\ thread \in {"Relation", "marker"} => TrackersDone
    /\ thread = "Relation"     => \A r \in Row : Ahead(r) \/ RelationIsThere(r)
    /\ thread = "marker"       => RelationDone

TablesType ==
    /\ copies \in [Checkpoint -> {"none", "partial", "old", "new"}]
    /\ nodes \in [Row -> {0, 1}] /\ failures \in [Row -> Int]
    /\ failed \in [Table -> SUBSET Row] /\ relation \subseteq Row

ImportInv ==
    /\ TablesType
    /\ source \/ removed
    /\ ~removed => GoneThrough /\ (marker => AllDone)

\* What is imported, or was in a batch that failed, stays so.
Stays == /\ \A c \in Checkpoint : CopyIsThere(c) => CopyIsThere(c)'
         /\ \A r \in Row : /\ NodeIsThere(r) => NodeIsThere(r)'
                           /\ TrackerIsThere(r) => TrackerIsThere(r)'
                           /\ RelationIsThere(r) => RelationIsThere(r)'

LEMMA Monotone ==
    ASSUME \A c \in Checkpoint : copies[c] # "none" => copies'[c] # "none",
           \A r \in Row : /\ nodes[r] = 1 => nodes'[r] = 1
                          /\ failures[r] >= 0 => failures'[r] >= 0,
           relation \subseteq relation', \A t \in Table : failed[t] \subseteq failed'[t]
    PROVE  Stays
BY DEF Stays, CopyIsThere, NodeIsThere, TrackerIsThere, RelationIsThere, Table

\* Steps beside the thread, and those with which it stops or begins.
LEMMA ImportKept ==
    ASSUME ImportInv, TablesType', Stays, source' \/ removed', removed => removed',
           UNCHANGED <<thread, todo>> \/ thread' \in {"none", "settings", "write", "writing"},
           marker' = marker
    PROVE  ImportInv'
<1>1. AllDone => AllDone'
  BY DEF Stays, AllDone, CopiesDone, NodesDone, TrackersDone, RelationDone
<1>2. GoneThrough => GoneThrough'
  BY DEF Stays, GoneThrough, CopiesDone, NodesDone, TrackersDone, RelationDone, Ahead, Table
<1>. QED
  BY <1>1, <1>2 DEF ImportInv

\* Every row is in a batch: a batch begins at every second one.
LEMMA EveryRow ==
    ASSUME BatchSize # 1, NEW r \in Row PROVE \E start \in Starts : r \in Batch(start)
<1>1. r \in Nat /\ 1 <= r /\ r <= Rows
  BY DEF Row
<1>2. CASE r % 2 = 1
  BY <1>1, <1>2 DEF Starts, Batch
<1>3. CASE r % 2 = 0
  <2>1. r - 1 \in Row /\ (r - 1) % 2 = 1
    BY <1>1, <1>3 DEF Row
  <2>. QED
    BY <1>1, <2>1 DEF Starts, Batch
<1>. QED
  BY <1>1, <1>2, <1>3

\* A checkpoint is copied, found to be there, or half copied.
LEMMA CopiesInv ==
    ASSUME ImportInv, NEW c \in Checkpoint, CopyCheckpoint(c) \/ CopyDone(c)
    PROVE  ImportInv'
<1>1. /\ UNCHANGED <<nodes, failures, relation, failed, removed, source, marker>>
      /\ copies' \in [Checkpoint -> {"none", "partial", "old", "new"}]
      /\ thread \in {"copies", "copying"} /\ thread' \in {"copies", "copying"}
  BY DEF CopyCheckpoint, CopyDone, Goes, hist, ImportInv, TablesType
<1>2. Stays
  BY <1>1, Monotone DEF CopyCheckpoint, CopyDone, ImportInv, TablesType
<1>3. TablesType'
  BY <1>1 DEF ImportInv, TablesType
<1>4. ~removed => \A x \in Checkpoint \ todo' : CopyIsThere(x)'
  <2>1. \/ todo' = todo
        \/ todo' = todo \ {c} /\ (copies'[c] # "none" \/ ~source)
    BY DEF CopyCheckpoint, CopyDone, Goes, ImportInv, TablesType
  <2>. QED
    BY <1>1, <1>2, <2>1 DEF ImportInv, GoneThrough, Stays, CopyIsThere
<1>5. ~removed => GoneThrough'
  BY <1>1, <1>4 DEF GoneThrough, Table
<1>6. AllDone => AllDone'
  BY <1>2 DEF Stays, AllDone, CopiesDone, NodesDone, TrackersDone, RelationDone
<1>. QED
  BY <1>1, <1>3, <1>5, <1>6 DEF ImportInv

\* The old database is copied as a whole, or its tables are gone through.
LEMMA DatabaseInv ==
    ASSUME BatchSize # 1, ImportInv, OpenDatabase PROVE ImportInv'
<1>1. UNCHANGED <<copies, failed, removed, source, marker>> /\ thread = "copies" /\ todo = {}
  BY DEF OpenDatabase, hist
<1>2. TablesType'
  BY <1>1 DEF OpenDatabase, ImportInv, TablesType
<1>3. Stays
  <2>1. OldFailures >= 0 /\ relation \subseteq Row
    BY DEF ImportInv, TablesType
  <2>2. /\ \A r \in Row : nodes[r] = 1 => nodes'[r] = 1
        /\ \A r \in Row : failures[r] >= 0 => failures'[r] >= 0
        /\ relation \subseteq relation'
    BY <2>1 DEF OpenDatabase
  <2>. QED
    BY <1>1, <2>2, Monotone
<1>4. ~removed => CopiesDone'
  BY <1>1, <1>3 DEF ImportInv, GoneThrough, CopiesDone, Stays
<1>5. CASE source /\ has_db
  <2>1. thread' = "ChannelNode" /\ \A r \in Row : Ahead(r)'
    BY <1>5, EveryRow DEF OpenDatabase, Goes, Ahead, Batch
  <2>2. ~removed => GoneThrough'
    BY <1>4, <2>1 DEF GoneThrough
  <2>. QED
    BY <1>1, <1>2, <1>3, <2>2 DEF ImportInv, Stays, AllDone, CopiesDone, NodesDone, TrackersDone, RelationDone
<1>6. CASE source /\ ~has_db
  <2>1. thread' = "marker" /\ NodesDone' /\ TrackersDone' /\ RelationDone'
    BY <1>6 DEF OpenDatabase, Goes, NodesDone, TrackersDone, RelationDone, NodeIsThere, TrackerIsThere,
                RelationIsThere
  <2>2. ~removed => GoneThrough'
    BY <1>4, <2>1 DEF GoneThrough, Table
  <2>. QED
    BY <1>1, <1>2, <1>4, <2>1, <2>2 DEF ImportInv, AllDone
<1>7. CASE ~source
  BY <1>1, <1>2, <1>7 DEF ImportInv
<1>. QED
  BY <1>5, <1>6, <1>7

\* After a batch the rows of it are done, whether it was injected or failed.
LEMMA BatchInv ==
    ASSUME BatchSize # 1, ImportInv, NEW t \in Table, NEW start \in Row,
           Inject(t, start) \/ BatchFails(t, start)
    PROVE  ImportInv'
<1>1. UNCHANGED <<copies, removed, source, marker>> /\ thread = t /\ start \in todo /\ AfterBatch(t, start)
  BY DEF Inject, BatchFails, hist, disk
<1>2. TablesType'
  <2>1. CASE Inject(t, start)
    <3>1. failed' = failed /\ nodes' \in [Row -> {0, 1}] /\ relation' \subseteq Row
      BY <2>1 DEF Inject, ImportInv, TablesType, InsertNode, Batch, hist
    <3>2. \A r \in Row : AddFailures(r) \in Int
      BY DEF ImportInv, TablesType, AddFailures
    <3>3. failures' \in [Row -> Int]
      BY <2>1, <3>2 DEF Inject, ImportInv, TablesType
    <3>. QED
      BY <1>1, <3>1, <3>3 DEF ImportInv, TablesType
  <2>2. CASE BatchFails(t, start)
    BY <1>1, <2>2 DEF BatchFails, ImportInv, TablesType, disk, Batch
  <2>. QED
    BY <2>1, <2>2
<1>3. Stays
  <2>1. CASE Inject(t, start)
    <3>1. /\ \A r \in Row : nodes[r] = 1 => nodes'[r] = 1
          /\ relation \subseteq relation' /\ failed' = failed
      BY <2>1 DEF Inject, InsertNode, hist
    <3>2. \A r \in Row : failures[r] >= 0 => failures'[r] >= 0
      BY <2>1 DEF Inject, AddFailures, ImportInv, TablesType
    <3>. QED
      BY <1>1, <3>1, <3>2, Monotone
  <2>2. CASE BatchFails(t, start)
    <3>1. UNCHANGED <<nodes, failures, relation>> /\ \A x \in Table : failed[x] \subseteq failed'[x]
      BY <2>2 DEF BatchFails, disk, ImportInv, TablesType
    <3>. QED
      BY <1>1, <3>1, Monotone
  <2>. QED
    BY <2>1, <2>2
<1>. SUFFICES ASSUME ~removed PROVE ImportInv'
  BY <1>1, <1>2 DEF ImportInv
<1>4. CopiesDone' /\ (AllDone => AllDone')
  BY <1>1, <1>3 DEF ImportInv, GoneThrough, Stays, AllDone, CopiesDone, NodesDone, TrackersDone, RelationDone
<1>5. ASSUME NEW r \in Row, r \in Batch(start)
      PROVE  /\ t = "ChannelNode" => NodeIsThere(r)'
             /\ t = "TrackerState" => TrackerIsThere(r)'
             /\ t = "Relation" => RelationIsThere(r)'
  <2>1. CASE BatchFails(t, start)
    BY <1>5, <2>1 DEF BatchFails, ImportInv, TablesType, NodeIsThere, TrackerIsThere, RelationIsThere
  <2>2. CASE Inject(t, start) /\ t = "ChannelNode"
    BY <1>5, <2>2 DEF Inject, InsertNode, NodeIsThere, ImportInv, TablesType
  <2>3. CASE Inject(t, start) /\ t = "TrackerState"
    BY <1>5, <2>3 DEF Inject, AddFailures, TrackerIsThere, ImportInv, TablesType
  <2>4. CASE Inject(t, start) /\ t = "Relation"
    <3>1. NodeIsThere(r) /\ TrackerIsThere(r)
      BY <1>1, <2>4 DEF ImportInv, GoneThrough, NodesDone, TrackersDone
    <3>2. relation' = relation \cup {x \in Batch(start) : nodes[x] > 0 /\ failures[x] >= 0}
          /\ failed' = failed
      BY <2>4 DEF Inject, hist
    <3>. QED
      BY <1>5, <2>4, <3>1, <3>2 DEF NodeIsThere, TrackerIsThere, RelationIsThere, Table
  <2>. QED
    BY <2>1, <2>2, <2>3, <2>4
<1>6. ASSUME NEW r \in Row, \E s \in todo \ {start} : r \in Batch(s)
      PROVE  todo \ {start} # {}
  BY <1>6
<1>7. ASSUME NEW r \in Row, ~\E s \in todo \ {start} : r \in Batch(s)
      PROVE  /\ t = "ChannelNode" => NodeIsThere(r)'
             /\ t = "TrackerState" => TrackerIsThere(r)'
             /\ t = "Relation" => RelationIsThere(r)'
  <2>1. CASE Ahead(r)
    BY <1>5, <1>7, <2>1 DEF Ahead
  <2>2. CASE ~Ahead(r)
    BY <1>1, <1>3, <2>2 DEF ImportInv, GoneThrough, Stays
  <2>. QED
    BY <2>1, <2>2
<1>8. /\ t \in {"TrackerState", "Relation"} => NodesDone'
      /\ t = "Relation" => TrackersDone'
  BY <1>1, <1>3 DEF ImportInv, GoneThrough, Stays, NodesDone, TrackersDone
<1>9. CASE todo \ {start} # {}
  <2>1. thread' = t /\ todo' = todo \ {start}
    BY <1>1, <1>9 DEF AfterBatch, Goes
  <2>2. \A r \in Row : Ahead(r)' <=> \E s \in todo \ {start} : r \in Batch(s)
    BY <2>1 DEF Ahead, Batch
  <2>3. GoneThrough'
    BY <1>4, <1>7, <1>8, <2>1, <2>2 DEF GoneThrough, Table
  <2>. QED
    BY <1>1, <1>2, <1>4, <2>3 DEF ImportInv
<1>10. CASE todo \ {start} = {}
  <2>1. source
    BY DEF ImportInv
  <2>2. /\ t = "ChannelNode" => thread' = "TrackerState" /\ todo' = Starts /\ NodesDone'
        /\ t = "TrackerState" => thread' = "Relation" /\ todo' = Starts /\ NodesDone' /\ TrackersDone'
        /\ t = "Relation" => thread' = "marker" /\ NodesDone' /\ TrackersDone' /\ RelationDone'
    BY <1>1, <1>7, <1>8, <1>10, <2>1
       DEF AfterBatch, Next3, Goes, NodesDone, TrackersDone, RelationDone, Table
  <2>3. t # "Relation" => \A r \in Row : Ahead(r)'
    BY <2>2, EveryRow DEF Ahead, Batch, Table
  <2>4. GoneThrough'
    BY <1>4, <2>2, <2>3 DEF GoneThrough, Table
  <2>. QED
    BY <1>1, <1>2, <1>4, <2>4 DEF ImportInv
<1>. QED
  BY <1>9, <1>10

\* Every step keeps the account of what is imported.
THEOREM ImportStep == BatchSize # 1 /\ ImportInv /\ [UpgradeNext]_upgrade_vars => ImportInv'
<1>. SUFFICES ASSUME BatchSize # 1, ImportInv, [UpgradeNext]_upgrade_vars PROVE ImportInv'
  OBVIOUS
<1>. USE DEF mem, disk, hist, task
<1>1. ASSUME UNCHANGED <<copies, nodes, failures, relation, failed, marker>>, source' \/ removed',
             removed => removed',
             UNCHANGED <<thread, todo>> \/ thread' \in {"none", "settings", "write", "writing"}
      PROVE  ImportInv'
  <2>1. TablesType' /\ Stays
    BY <1>1, Monotone DEF ImportInv, TablesType
  <2>. QED
    BY <1>1, <2>1, ImportKept
<1>2. ASSUME NEW k \in Key, ImportSetting(k) PROVE ImportInv'
  BY <1>1, <1>2 DEF ImportSetting, Goes, Fails, ImportInv
<1>3. CASE UpgradeWrites
  BY <1>1, <1>3 DEF UpgradeWrites, Goes, ImportInv
<1>4. CASE UpgradeWritten
  <2>1. CASE source
    <3>1. thread' = "copies" /\ todo' = Checkpoint
      BY <1>4, <2>1 DEF UpgradeWritten, Goes
    <3>2. GoneThrough'
      BY <3>1 DEF GoneThrough, Table
    <3>. QED
      BY <1>4, <3>2 DEF UpgradeWritten, ImportInv, TablesType, AllDone, CopiesDone, NodesDone, TrackersDone,
                        RelationDone, CopyIsThere, NodeIsThere, TrackerIsThere, RelationIsThere
  <2>2. CASE ~source
    BY <1>1, <1>4, <2>2 DEF UpgradeWritten, Goes, Fails, ImportInv
  <2>. QED
    BY <2>1, <2>2
<1>5. CASE WriteMarker
  <2>1. marker' = TRUE /\ thread = "marker" /\ thread' = "none"
        /\ UNCHANGED <<source, copies, nodes, failures, relation, failed, removed>>
    BY <1>5 DEF WriteMarker, Goes
  <2>2. ~removed => AllDone'
    BY <2>1 DEF ImportInv, GoneThrough, AllDone, CopiesDone, NodesDone, TrackersDone, RelationDone,
                CopyIsThere, NodeIsThere, TrackerIsThere, RelationIsThere
  <2>3. GoneThrough'
    BY <2>1 DEF GoneThrough, Table
  <2>. QED
    BY <2>1, <2>2, <2>3 DEF ImportInv, TablesType
<1>6. CASE PerformUpgrade
  BY <1>1, <1>6 DEF PerformUpgrade, Goes, ImportInv
<1>7. CASE SettingsWritten \/ \E k \in Key, v \in Value : UpdateSettings(k, v)
  BY <1>1, <1>7 DEF SettingsWritten, UpdateSettings, ImportInv
<1>8. CASE RemoveVersion
  BY <1>1, <1>8 DEF RemoveVersion
<1>9. CASE Meanwhile
  <2>1. UNCHANGED <<source, removed, marker, thread, todo, relation, failed>>
    BY <1>9 DEF Meanwhile
  <2>2. \/ (\E c \in Checkpoint : copies' = [copies EXCEPT ![c] = "new"]) /\ UNCHANGED <<nodes, failures>>
        \/ (\E r \in Row : nodes' = [nodes EXCEPT ![r] = 1]) /\ UNCHANGED <<copies, failures>>
        \/ (\E r \in Row : failures' = [failures EXCEPT ![r] = 0]) /\ UNCHANGED <<copies, nodes>>
    BY <1>9 DEF Meanwhile
  <2>3. /\ \A c \in Checkpoint : copies[c] # "none" => copies'[c] # "none"
        /\ \A r \in Row : nodes[r] = 1 => nodes'[r] = 1
        /\ \A r \in Row : failures[r] >= 0 => failures'[r] >= 0
    <3>1. CASE (\E c \in Checkpoint : copies' = [copies EXCEPT ![c] = "new"]) /\ UNCHANGED <<nodes, failures>>
      BY <3>1 DEF ImportInv, TablesType
    <3>2. CASE (\E r \in Row : nodes' = [nodes EXCEPT ![r] = 1]) /\ UNCHANGED <<copies, failures>>
      BY <3>2 DEF ImportInv, TablesType
    <3>3. CASE (\E r \in Row : failures' = [failures EXCEPT ![r] = 0]) /\ UNCHANGED <<copies, nodes>>
      BY <3>3 DEF ImportInv, TablesType
    <3>. QED
      BY <2>2, <3>1, <3>2, <3>3
  <2>4. TablesType'
    BY <2>1, <2>2 DEF ImportInv, TablesType
  <2>5. Stays
    BY <2>1, <2>3, Monotone
  <2>. QED
    BY <2>1, <2>4, <2>5, ImportKept DEF ImportInv
<1>10. CASE Crash \/ Restart
  BY <1>1, <1>10 DEF Crash, Restart, Goes, ImportInv
<1>11. CASE UNCHANGED upgrade_vars
  BY <1>1, <1>11 DEF upgrade_vars, ImportInv
<1>. QED
  BY <1>2, <1>3, <1>4, <1>5, <1>6, <1>7, <1>8, <1>9, <1>10, <1>11, CopiesInv, DatabaseInv, BatchInv
     DEF UpgradeNext, Thread

\* However often the upgrade is asked for, cut short by a crash, or run beside the user and
\* the network: the marker says that everything was imported, what failed excepted. With
\* batches of one row it does not, as a batch begins at every second one.
THEOREM MarkedIsImported == BatchSize # 1 => (UpgradeSpec => []MarkerMeansImported)
<1>. SUFFICES ASSUME BatchSize # 1 PROVE UpgradeSpec => []MarkerMeansImported
  OBVIOUS
<1>1. UpgradeInit => ImportInv
  BY DEF UpgradeInit, ImportInv, TablesType, GoneThrough, Table
<1>2. ImportInv /\ [UpgradeNext]_upgrade_vars => ImportInv'
  BY ImportStep
<1>3. ImportInv => MarkerMeansImported
  BY DEF ImportInv, AllDone, CopiesDone, NodesDone, TrackersDone, RelationDone, CopyIsThere, NodeIsThere,
         TrackerIsThere, RelationIsThere, MarkerMeansImported
<1>. QED
  BY <1>1, <1>2, <1>3, PTL DEF UpgradeSpec
=============================================================================
