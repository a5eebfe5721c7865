--------------------------- MODULE DHTHealthProofs ---------------------------
(***************************************************************************)
(* For any number of lookups, transaction ids, peers and timers: a kept    *)
(* transaction stands for a listed lookup, and the filters of an infohash  *)
(* are its own as long as libtorrent does not reuse an id too early.       *)
(*                                                                         *)
(* The filters are only own because of what the manager believes about the *)
(* answers on their way, which the invariant adds (Believed).              *)
(***************************************************************************)
EXTENDS DHTHealth, TLAPS

\* The manager ignores an answer on its way or knows what it is about.
Believed == \A q \in asked : outstanding[q.tid] \in {NoInfohash, q.infohash}

\* No transaction id is asked about twice at the same time.
AskedOnce == \A q, r \in asked : q.tid = r.tid => q = r

IInv == /\ TypeOK
        /\ OutstandingIsListed
        /\ ReuseEarly \/ (AskedOnce /\ Believed /\ FiltersAreOwn)

USE NoInfohashAssumption, ReuseAssumption

\* A process starts without lookups.
THEOREM InitInv == Init => IInv
BY DEF Init, IInv, TypeOK, OutstandingIsListed, AskedOnce, Believed, FiltersAreOwn, Query, Bit

\* Starting a lookup.
LEMMA GetHealthInv == ASSUME IInv, NEW i \in Infohash, GetHealth(i) PROVE IInv'
<1>1. PICK n \in TaskName :
        tasks' = IF tasks[n] = NoInfohash THEN [tasks EXCEPT ![n] = i] ELSE tasks
  BY DEF GetHealth
<1>2. TypeOK'
  BY <1>1 DEF GetHealth, IInv, TypeOK, Bit
<1>3. OutstandingIsListed'
  BY DEF GetHealth, IInv, TypeOK, OutstandingIsListed, Listed
<1>4. ReuseEarly \/ (AskedOnce /\ Believed /\ FiltersAreOwn)'
  BY DEF GetHealth, IInv, TypeOK, AskedOnce, Believed, FiltersAreOwn
<1>. QED
  BY <1>2, <1>3, <1>4 DEF IInv

\* The timer of a lookup.
LEMMA FinalizeInv == ASSUME IInv, NEW n \in TaskName, FinalizeLookup(n) PROVE IInv'
<1>. DEFINE i == tasks[n]
<1>1. i \in Infohash
  BY DEF FinalizeLookup, IInv, TypeOK
<1>2. TypeOK'
  BY <1>1 DEF FinalizeLookup, Forgotten, IInv, TypeOK, Bit
<1>3. OutstandingIsListed'
  BY <1>1 DEF FinalizeLookup, Forgotten, IInv, TypeOK, OutstandingIsListed, Listed
<1>4. CASE ReuseEarly
  BY <1>2, <1>3, <1>4 DEF IInv
<1>5. CASE ~ReuseEarly
  <2>1. AskedOnce'
    BY <1>5 DEF FinalizeLookup, IInv, AskedOnce
  <2>2. Believed'
    BY <1>5 DEF FinalizeLookup, Forgotten, IInv, TypeOK, Query, Believed
  <2>3. FiltersAreOwn'
    BY <1>1, <1>5 DEF FinalizeLookup, IInv, TypeOK, FiltersAreOwn
  <2>. QED
    BY <1>2, <1>3, <2>1, <2>2, <2>3 DEF IInv
<1>. QED
  BY <1>4, <1>5

\* An outgoing query.
LEMMA RequestingInv ==
    ASSUME IInv, NEW t \in Transaction, NEW i \in Infohash, RequestingBloomfilters(t, i)
    PROVE  IInv'
<1>1. TypeOK'
  BY DEF RequestingBloomfilters, Overheard, IInv, TypeOK, Query
<1>2. OutstandingIsListed'
  BY DEF RequestingBloomfilters, Overheard, IInv, TypeOK, OutstandingIsListed, Listed
<1>3. CASE ReuseEarly
  BY <1>1, <1>2, <1>3 DEF IInv
<1>4. CASE ~ReuseEarly
  <2>1. AskedOnce'
    BY <1>4 DEF RequestingBloomfilters, IInv, AskedOnce
  <2>2. Believed'
    BY <1>4 DEF RequestingBloomfilters, Overheard, IInv, TypeOK, Query, Believed
  <2>3. FiltersAreOwn'
    BY <1>4 DEF RequestingBloomfilters, IInv, FiltersAreOwn
  <2>. QED
    BY <1>1, <1>2, <2>1, <2>2, <2>3 DEF IInv
<1>. QED
  BY <1>3, <1>4

\* An incoming response.
LEMMA ReceivedInv ==
    ASSUME IInv, NEW q \in Query, NEW seeds \in SUBSET Peer, NEW peers \in SUBSET Peer,
           ReceivedBloomfilters(q, seeds, peers)
    PROVE  IInv'
<1>. DEFINE i == outstanding[q.tid]
<1>1. q.tid \in Transaction /\ q.infohash \in Infohash /\ q \in asked
  BY DEF Query, ReceivedBloomfilters
<1>2. i \in Infohash \cup {NoInfohash}
  BY <1>1 DEF IInv, TypeOK
<1>3. ({q.infohash} \X seeds) \subseteq Bit /\ ({q.infohash} \X peers) \subseteq Bit
  BY <1>1 DEF Bit
<1>4. TypeOK'
  <2>1. bf_seeders' \in [Infohash -> SUBSET Bit] /\ bf_peers' \in [Infohash -> SUBSET Bit]
    BY <1>2, <1>3 DEF ReceivedBloomfilters, Combine, IInv, TypeOK
  <2>. QED
    BY <2>1 DEF ReceivedBloomfilters, IInv, TypeOK
<1>5. OutstandingIsListed'
  BY DEF ReceivedBloomfilters, IInv, OutstandingIsListed, Listed
<1>6. CASE ReuseEarly
  BY <1>4, <1>5, <1>6 DEF IInv
<1>7. CASE ~ReuseEarly
  <2>1. AskedOnce' /\ Believed'
    BY <1>7 DEF ReceivedBloomfilters, IInv, AskedOnce, Believed
  <2>2. FiltersAreOwn'
    <3>1. CASE i = NoInfohash
      BY <1>7, <3>1 DEF ReceivedBloomfilters, IInv, FiltersAreOwn
    <3>2. CASE i # NoInfohash
      <4>1. i = q.infohash /\ i \in Infohash
        BY <1>1, <1>2, <1>7, <3>2 DEF IInv, Believed
      <4>2. \A b \in ({q.infohash} \X seeds) \cup ({q.infohash} \X peers) : b[1] = i
        BY <4>1
      <4>3. /\ bf_seeders' = [bf_seeders EXCEPT ![i] = @ \cup ({q.infohash} \X seeds)]
            /\ bf_peers' = [bf_peers EXCEPT ![i] = @ \cup ({q.infohash} \X peers)]
        BY <3>2 DEF ReceivedBloomfilters, Combine
      <4>. QED
        BY <1>7, <4>1, <4>2, <4>3 DEF IInv, TypeOK, FiltersAreOwn
    <3>. QED
      BY <3>1, <3>2
  <2>. QED
    BY <1>4, <1>5, <2>1, <2>2 DEF IInv
<1>. QED
  BY <1>6, <1>7

\* Every step stays in the invariant.
THEOREM StepInv == IInv /\ [Next]_vars => IInv'
<1>. SUFFICES ASSUME IInv, [Next]_vars PROVE IInv'
  OBVIOUS
<1>1. ASSUME NEW i \in Infohash, CancelLookup(i) PROVE IInv'
  BY <1>1 DEF CancelLookup, IInv, TypeOK, OutstandingIsListed, Listed, AskedOnce, Believed, FiltersAreOwn
<1>2. ASSUME NEW q \in Query, Unanswered(q) PROVE IInv'
  BY <1>2 DEF Unanswered, IInv, TypeOK, OutstandingIsListed, Listed, AskedOnce, Believed, FiltersAreOwn
<1>3. CASE UNCHANGED vars
  BY <1>3 DEF vars, IInv, TypeOK, OutstandingIsListed, Listed, AskedOnce, Believed, FiltersAreOwn
<1>. QED
  BY <1>1, <1>2, <1>3, GetHealthInv, FinalizeInv, RequestingInv, ReceivedInv DEF Next

\* A transaction the manager keeps always stands for a listed lookup, so that
\* received_bloomfilters finds its filters.
THEOREM KeptIsListed == Spec => []OutstandingIsListed
<1>1. IInv => OutstandingIsListed
  BY DEF IInv
<1>. QED
  BY <1>1, InitInv, StepInv, PTL DEF Spec

\* Unless libtorrent reuses an id too early, no filter holds another swarm's peers.
THEOREM OwnFilters == Spec => [](ReuseEarly \/ FiltersAreOwn)
<1>1. IInv => ReuseEarly \/ FiltersAreOwn
  BY DEF IInv
<1>. QED
  BY <1>1, InitInv, StepInv, PTL DEF Spec
=============================================================================
