------------------------------ MODULE DHTHealth ------------------------------
(***************************************************************************)
(* tribler/core/libtorrent/download_manager/dht_health_manager: estimating *)
(* the health of a torrent from the BEP33 bloom filters in DHT traffic.    *)
(*                                                                         *)
(* The manager does not send queries itself.  It asks libtorrent to, and   *)
(* overhears libtorrent's packets: an outgoing get_peers query couples a   *)
(* transaction id to an infohash, an incoming response with that id then   *)
(* adds to the filters of the infohash.  libtorrent reuses its ids, and    *)
(* uses them for infohashes nobody asked the manager about.                *)
(***************************************************************************)
EXTENDS Integers, FiniteSets

CONSTANTS
    Infohash,      \* what the DHT is queried about
    Transaction,   \* libtorrent's transaction ids
    Peer,          \* what a bloom filter contains
    TaskName,      \* names under which register_task can file a lookup's timer
    ReuseEarly,    \* libtorrent may reuse an id while a node still owes an answer to it
    NoInfohash

ASSUME ReuseAssumption == ReuseEarly \in BOOLEAN
ASSUME NoInfohashAssumption == NoInfohash \notin Infohash

VARIABLES
    lookup_futures,  \* the future of each lookup, "none" if the infohash is not listed
    bf_seeders,      \* the filters; the bits an infohash has been given
    bf_peers,
    outstanding,     \* the infohash each transaction id was last overheard for
    tasks,           \* finalize_lookup timers by their task name
    asked            \* libtorrent's queries whose answer is still on its way

vars == <<lookup_futures, bf_seeders, bf_peers, outstanding, tasks, asked>>

Query == [tid : Transaction, infohash : Infohash]
Listed(i) == lookup_futures[i] # "none"

\* The bits in a filter, each with the swarm of the node that reported it.
Bit == Infohash \X Peer

\* combine_bloomfilters: the bytes are OR-ed.
Combine(bf1, bf2) == bf1 \cup bf2
-----------------------------------------------------------------------------
\* A first call lists the lookup before it registers the timer.  The name of the
\* timer contains the address of a temporary object, not the infohash
\* ("hexlify(infohash).decode" is not called), so any name may come up; a name that
\* is taken makes register_task raise.  A later call returns the listed future.
GetHealth(i) ==
    /\ ~Listed(i)
    /\ lookup_futures' = [lookup_futures EXCEPT ![i] = "pending"]
    /\ bf_seeders' = [bf_seeders EXCEPT ![i] = {}]
    /\ bf_peers' = [bf_peers EXCEPT ![i] = {}]
    /\ \E n \in TaskName :
          tasks' = IF tasks[n] = NoInfohash THEN [tasks EXCEPT ![n] = i] ELSE tasks
    /\ UNCHANGED <<outstanding, asked>>

\* A caller that gives up cancels the future, which all callers share.
CancelLookup(i) ==
    /\ lookup_futures[i] = "pending"
    /\ lookup_futures' = [lookup_futures EXCEPT ![i] = "cancelled"]
    /\ UNCHANGED <<bf_seeders, bf_peers, outstanding, tasks, asked>>

\* The timer fires: transactions of the infohash are forgotten, the future answered.
BugForgotten(i) == outstanding
Forgotten(i) == [t \in Transaction |-> IF outstanding[t] = i THEN NoInfohash ELSE outstanding[t]]

FinalizeLookup(n) ==
    LET i == tasks[n]
    IN  /\ i # NoInfohash
        /\ tasks' = [tasks EXCEPT ![n] = NoInfohash]
        /\ outstanding' = Forgotten(i)
        /\ lookup_futures' = [lookup_futures EXCEPT ![i] = "none"]
        /\ bf_seeders' = [bf_seeders EXCEPT ![i] = {}]
        /\ bf_peers' = [bf_peers EXCEPT ![i] = {}]
        /\ UNCHANGED asked

\* What the manager overhears of a query: note the id, or forget what it stood for.
BugOverheard(t, i) == IF Listed(i) THEN [outstanding EXCEPT ![t] = i] ELSE outstanding
Overheard(t, i) == [outstanding EXCEPT ![t] = IF Listed(i) THEN i ELSE NoInfohash]

\* libtorrent sends a get_peers query, for a lookup or for reasons of its own.
RequestingBloomfilters(t, i) ==
    /\ ReuseEarly \/ \A q \in asked : q.tid # t
    /\ asked' = asked \cup {[tid |-> t, infohash |-> i]}
    /\ outstanding' = Overheard(t, i)
    /\ UNCHANGED <<lookup_futures, bf_seeders, bf_peers, tasks>>

\* A response arrives; the filters it carries describe the swarm it was asked about.
ReceivedBloomfilters(q, seeds, peers) ==
    LET i == outstanding[q.tid]
    IN  /\ q \in asked /\ asked' = asked \ {q}
        /\ IF i = NoInfohash
           THEN UNCHANGED <<bf_seeders, bf_peers>>
           ELSE /\ bf_seeders' = [bf_seeders EXCEPT ![i] = Combine(@, {q.infohash} \X seeds)]
                /\ bf_peers' = [bf_peers EXCEPT ![i] = Combine(@, {q.infohash} \X peers)]
        /\ UNCHANGED <<lookup_futures, outstanding, tasks>>

\* The node never answers.
Unanswered(q) ==
    /\ q \in asked /\ asked' = asked \ {q}
    /\ UNCHANGED <<lookup_futures, bf_seeders, bf_peers, outstanding, tasks>>
-----------------------------------------------------------------------------
Init == /\ lookup_futures = [i \in Infohash |-> "none"]
        /\ bf_seeders = [i \in Infohash |-> {}]
        /\ bf_peers = [i \in Infohash |-> {}]
        /\ outstanding = [t \in Transaction |-> NoInfohash]
        /\ tasks = [n \in TaskName |-> NoInfohash]
        /\ asked = {}

Next == \/ \E i \in Infohash : GetHealth(i) \/ CancelLookup(i)
        \/ \E n \in TaskName : FinalizeLookup(n)
        \/ \E t \in Transaction, i \in Infohash : RequestingBloomfilters(t, i)
        \/ \E q \in Query, seeds, peers \in SUBSET Peer : ReceivedBloomfilters(q, seeds, peers)
        \/ \E q \in Query : Unanswered(q)

Spec == Init /\ [][Next]_vars

\* The event loop runs every timer it was given.
FairSpec == Spec /\ \A n \in TaskName : WF_vars(FinalizeLookup(n))
-----------------------------------------------------------------------------
TypeOK == /\ lookup_futures \in [Infohash -> {"none", "pending", "cancelled"}]
          /\ bf_seeders \in [Infohash -> SUBSET Bit]
          /\ bf_peers \in [Infohash -> SUBSET Bit]
          /\ outstanding \in [Transaction -> Infohash \cup {NoInfohash}]
          /\ tasks \in [TaskName -> Infohash \cup {NoInfohash}]
          /\ asked \subseteq Query

\* A transaction that is kept stands for a lookup that is listed and has filters, so
\* that received_bloomfilters finds them and a late answer never reaches the filters
\* of a lookup that is over.
OutstandingIsListed ==
    \A t \in Transaction : outstanding[t] # NoInfohash => Listed(outstanding[t])

\* An infohash's filters only hold what nodes reported about its own swarm,
\* although libtorrent reuses the transaction ids for other infohashes.
FiltersAreOwn ==
    \A i \in Infohash : \A b \in bf_seeders[i] \cup bf_peers[i] : b[1] = i

\* Every lookup is finalized: ":param timeout: The timeout of the lookup"
\* (get_health).  The code does not keep this, see GetHealth.
LookupEnds == \A i \in Infohash : Listed(i) ~> ~Listed(i)
=============================================================================
