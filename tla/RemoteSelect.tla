----------------------------- MODULE RemoteSelect ----------------------------
(***************************************************************************)
(* tribler/core/content_discovery: one peer searches the database of       *)
(* another over UDP.                                                       *)
(*                                                                         *)
(* The requester lists every query in its request cache, counts the        *)
(* responses it accepts, stores their torrents in database threads, tells  *)
(* the GUI what is new and drops a peer that does not respond in time.  It *)
(* also resolves torrents it hears about in health gossip.  The responder  *)
(* runs the queries in database threads and cuts their results in chunks   *)
(* that fit a packet.  The network may lose, repeat and reorder packets.   *)
(***************************************************************************)
EXTENDS Integers, Sequences, FiniteSets, FiniteSetsExt

CONSTANTS
    Request,       \* identifiers in the request cache
    Torrent,
    Size,          \* size of each torrent's entry in a chunk
    ChunkSize,     \* what a chunk may hold: maximum_payload_size without the headers
    Results,       \* the answers the responder's database may give to a search
    PacketsLimit,  \* SelectRequest.packets_limit
    MaxDeliveries, \* bound on how often the network delivers one query
    NoTorrent, NoSending

ASSUME SizeAssumption    == Size \in [Torrent -> Nat \ {0}]
ASSUME LimitAssumption   == PacketsLimit \in Nat \ {0}
ASSUME ResultsAssumption == Results \subseteq Seq(Torrent)
ASSUME BoundAssumption   == MaxDeliveries \in Nat

VARIABLES
    request,     \* the requester's SelectRequests
    peerKnown,   \* the responder is one of the requester's peers
    blobs,       \* accepted responses whose processing has not ended
    states,      \* torrents with a TorrentState in the requester's database
    known,       \* torrents with metadata there
    reported,    \* how often the GUI was told that a torrent is new
    accepted,    \* how many responses to a request were accepted
    network,     \* packets sent so far; each may be lost, late or delivered again
    deliveries,  \* how often a query was delivered
    serving,     \* running database queries of the responder, by request
    inProgress,  \* remote_queries_in_progress
    sending      \* the results send_db_results is sending, or NoSending

database  == <<states, known>>
responder == <<deliveries, serving, inProgress, sending>>
vars == <<request, peerKnown, blobs, states, known, reported, accepted, network,
          deliveries, serving, inProgress, sending>>

\* kind: "search" has a text filter and a GUI callback, "resolve" asks for one torrent.
\* state: "unused"; "waiting" in the request cache; "over": popped from it
Unused == [state |-> "unused", kind |-> "search", about |-> NoTorrent,
           limit |-> PacketsLimit, responded |-> FALSE]

Query(r)             == [type |-> "query", req |-> r]
Response(r, entries) == [type |-> "response", req |-> r, entries |-> entries]

\* The responder's event loop does nothing else inside send_db_results.
Responsive == sending = NoSending
-----------------------------------------------------------------------------
(***************************************************************************)
(* The requester.                                                          *)
(***************************************************************************)

SendRemoteSelect(r, kind, about) ==
    /\ request[r].state = "unused"
    /\ request' = [request EXCEPT ![r] = [Unused EXCEPT !.state = "waiting", !.kind = kind,
                                                        !.about = about]]
    /\ network' = network \cup {Query(r)}

\* The user searches.
SendSearchRequest(r) ==
    /\ peerKnown
    /\ SendRemoteSelect(r, "search", NoTorrent)
    /\ UNCHANGED <<peerKnown, blobs, database, reported, accepted, responder>>

\* Health gossip: an unknown torrent gets a TorrentState and is asked for.
StatesWith(t) == states \cup {t}

OnHealth(t, r) ==
    /\ t \notin states
    /\ states' = StatesWith(t)
    /\ SendRemoteSelect(r, "resolve", t)
    /\ UNCHANGED <<peerKnown, blobs, known, reported, accepted, responder>>

\* A response to a request in the cache: count it, pop the request at the limit, and
\* hand the blob to a database thread.
BugCounted(q) == IF q.limit >= 1 THEN [q EXCEPT !.limit = @ - 1] ELSE [q EXCEPT !.state = "over"]
Counted(q) == IF q.limit > 1 THEN [q EXCEPT !.limit = @ - 1] ELSE [q EXCEPT !.state = "over"]

OnRemoteSelectResponse(m) ==
    /\ m \in network /\ m.type = "response"
    /\ request[m.req].state = "waiting"
    /\ request' = [request EXCEPT ![m.req] = Counted(@)]
    /\ accepted' = [accepted EXCEPT ![m.req] = @ + 1]
    /\ blobs' = blobs \cup {[req |-> m.req, nr |-> accepted[m.req], entries |-> m.entries,
                             stage |-> "health", new |-> {}]}
    /\ UNCHANGED <<peerKnown, database, reported, network, responder>>

Advance(b, stage, new) == blobs' = (blobs \ {b}) \cup {[b EXCEPT !.stage = stage, !.new = new]}

\* process_squashed_mdblob, in a thread: first a transaction for the health ...
StoreHealth(b) ==
    /\ b \in blobs /\ b.stage = "health"
    /\ states' = states \cup b.entries
    /\ Advance(b, "payloads", {})
    /\ UNCHANGED <<request, peerKnown, known, reported, accepted, network, responder>>

\* ... then one that adds the torrents that are not there yet; they alone are NEW_OBJECT.
BugNew(b) == b.entries
New(b) == b.entries \ known

StorePayloads(b) ==
    /\ b \in blobs /\ b.stage = "payloads"
    /\ known' = known \cup b.entries
    /\ states' = states \cup b.entries
    /\ Advance(b, "stored", New(b))
    /\ UNCHANGED <<request, peerKnown, reported, accepted, network, responder>>

\* A transaction fails: process_compressed_mdblob_threaded returns no results.
StoreFails(b) ==
    /\ b \in blobs /\ b.stage \in {"health", "payloads"}
    /\ Advance(b, "stored", {})
    /\ UNCHANGED <<request, peerKnown, database, reported, accepted, network, responder>>

\* Back in the event loop: the callback, and the peer has responded.
OnProcessed(b) ==
    /\ b \in blobs /\ b.stage = "stored"
    /\ blobs' = blobs \ {b}
    /\ reported' = IF request[b.req].kind = "search"
                   THEN [t \in Torrent |-> IF t \in b.new THEN reported[t] + 1 ELSE reported[t]]
                   ELSE reported
    /\ request' = [request EXCEPT ![b.req].responded = TRUE]
    /\ UNCHANGED <<peerKnown, database, accepted, network, responder>>

\* The request cache drops the request, and the peer if it has not responded.
OnQueryTimeout(r) ==
    /\ request[r].state = "waiting"
    /\ request' = [request EXCEPT ![r].state = "over"]
    /\ peerKnown' = (peerKnown /\ request[r].responded)
    /\ UNCHANGED <<blobs, database, reported, accepted, network, responder>>
-----------------------------------------------------------------------------
(***************************************************************************)
(* The responder.                                                          *)
(***************************************************************************)

\* process_rpc_query_rate_limited: a text query is refused, with an empty result,
\* while any query is running.
BugRefused(r) == FALSE
Refused(r) == inProgress # 0 /\ request[r].kind = "search"

OnRemoteSelect(r) ==
    /\ Responsive
    /\ Query(r) \in network /\ deliveries[r] < MaxDeliveries
    /\ deliveries' = [deliveries EXCEPT ![r] = @ + 1]
    /\ IF Refused(r)
       THEN /\ network' = network \cup {Response(r, {})}
            /\ UNCHANGED <<serving, inProgress>>
       ELSE /\ serving' = [serving EXCEPT ![r] = @ + 1]
            /\ inProgress' = inProgress + 1
            /\ UNCHANGED network
    /\ UNCHANGED <<request, peerKnown, blobs, database, reported, accepted, sending>>

Answers(r) == IF request[r].kind = "search" THEN Results
              ELSE {<<>>, <<request[r].about>>}

\* The query thread returns: send_db_results starts.
QueryDone(r) ==
    /\ Responsive /\ serving[r] > 0
    /\ serving' = [serving EXCEPT ![r] = @ - 1]
    /\ inProgress' = inProgress - 1
    /\ \E results \in Answers(r) :
          IF results = <<>>
          THEN /\ network' = network \cup {Response(r, {})}
               /\ UNCHANGED sending
          ELSE /\ sending' = [req |-> r, results |-> results, index |-> 0]
               /\ UNCHANGED network
    /\ UNCHANGED <<request, peerKnown, blobs, database, reported, accepted, deliveries>>

\* The query raises: nothing is sent, but the counter goes down (finally).
AfterFailure == inProgress - 1

QueryFailed(r) ==
    /\ Responsive /\ serving[r] > 0
    /\ serving' = [serving EXCEPT ![r] = @ - 1]
    /\ inProgress' = AfterFailure
    /\ UNCHANGED <<request, peerKnown, blobs, database, reported, accepted, network,
                   deliveries, sending>>

\* entries_to_chunk, for results from the index on: entry number k is taken if the
\* chunk fits with it, or if it is the first of the whole list.
Taken(results, index, k) ==
    k = 1 \/ MapThenSumSet(LAMBDA j : Size[results[j]], (index + 1)..k) <= ChunkSize

\* The first entry that is left for the next chunk, Len(results) + 1 if none is.
Stop(results, index) ==
    Min({k \in (index + 1)..Len(results) : ~Taken(results, index, k)} \cup {Len(results) + 1})

\* The index it returns: "index" stays 0 when no entry was taken.
BugNextIndex(results, index) == Stop(results, index)
NextIndex(results, index) ==
    IF Stop(results, index) = index + 1 THEN 1 ELSE Stop(results, index) - 1

SendChunk ==
    LET results == sending.results
        index   == sending.index
    IN  /\ ~Responsive
        /\ network' = network \cup
              {Response(sending.req, {results[k] : k \in (index + 1)..(Stop(results, index) - 1)})}
        /\ sending' = IF NextIndex(results, index) >= Len(results) THEN NoSending
                      ELSE [sending EXCEPT !.index = NextIndex(results, index)]
        /\ UNCHANGED <<request, peerKnown, blobs, database, reported, accepted, deliveries,
                       serving, inProgress>>
-----------------------------------------------------------------------------
Init == /\ request = [r \in Request |-> Unused]
        /\ peerKnown = TRUE
        /\ blobs = {}
        /\ \E T \in SUBSET Torrent : known = T /\ states = T
        /\ reported = [t \in Torrent |-> 0]
        /\ accepted = [r \in Request |-> 0]
        /\ network = {}
        /\ deliveries = [r \in Request |-> 0]
        /\ serving = [r \in Request |-> 0]
        /\ inProgress = 0
        /\ sending = NoSending

Requester == \/ \E r \in Request : SendSearchRequest(r) \/ OnQueryTimeout(r)
             \/ \E t \in Torrent, r \in Request : OnHealth(t, r)
             \/ \E m \in network : OnRemoteSelectResponse(m)
             \/ \E b \in blobs : StoreHealth(b) \/ StorePayloads(b) \/ StoreFails(b) \/ OnProcessed(b)

Responder == \/ \E r \in Request : OnRemoteSelect(r) \/ QueryDone(r) \/ QueryFailed(r)
             \/ SendChunk

Next == Requester \/ Responder

Spec == Init /\ [][Next]_vars

-----------------------------------------------------------------------------
SelectRequests == {q \in [state : {"unused", "waiting", "over"}, kind : {"search", "resolve"},
                          about : Torrent \cup {NoTorrent}, limit : 1..PacketsLimit,
                          responded : BOOLEAN] : q.kind = "resolve" => q.about \in Torrent}
Blobs   == [req : Request, nr : Nat, entries : SUBSET Torrent,
            stage : {"health", "payloads", "stored"}, new : SUBSET Torrent]
Packets == [type : {"query"}, req : Request]
           \cup [type : {"response"}, req : Request, entries : SUBSET Torrent]
Unsent  == {s \in [req : Request, results : Seq(Torrent), index : Nat] :
              s.index < Len(s.results)}

TypeOK ==
    /\ request \in [Request -> SelectRequests]
    /\ peerKnown \in BOOLEAN
    /\ blobs \subseteq Blobs
    /\ states \subseteq Torrent /\ known \subseteq Torrent
    /\ reported \in [Torrent -> Nat] /\ accepted \in [Request -> Nat]
    /\ network \subseteq Packets
    /\ deliveries \in [Request -> 0..MaxDeliveries]
    /\ serving \in [Request -> Nat] /\ inProgress \in Int
    /\ sending = NoSending \/ sending \in Unsent

\* However many copies and chunks arrive while others are being processed, no more
\* than packets_limit responses to one request are taken in.
LimitIsKept == \A r \in Request : accepted[r] <= PacketsLimit

\* The GUI is told at most once that a torrent is new, although the same torrent may
\* be in responses that are processed by several threads at a time.
ReportedOnce == \A t \in Torrent : reported[t] <= 1

\* At most one text query runs at a time.
OneTextQuery ==
    LET text == {r \in Request : request[r].kind = "search" /\ serving[r] > 0} IN
    \A r, q \in text : r = q /\ serving[r] = 1

\* What send_db_results has behind it has been sent: no entry falls between two chunks.
NothingSkipped ==
    ~Responsive => \A k \in 1..sending.index : \E m \in network :
                      m.type = "response" /\ m.req = sending.req /\ sending.results[k] \in m.entries

(***************************************************************************)
(* What the comments promise and the code does not keep.                   *)
(***************************************************************************)

\* "The first entry is always added even if the resulted size exceeds the chunk
\* size." (entries_to_chunk): every chunk of a non-empty result has an entry.
FirstEntryIsAdded ==
    [][~Responsive => \E m \in network' : /\ m.type = "response" /\ m.req = sending.req
                                          /\ sending.results[sending.index + 1] \in m.entries]_sending

\* "Remove a peer if it failed to respond to our select request." (_on_query_timeout):
\* a peer whose response was accepted in time stays.
ResponderStays ==
    [][\A r \in Request : accepted[r] > 0 /\ request[r].state = "waiting"
                          /\ request'[r].state = "over" => peerKnown' = peerKnown]_vars
=============================================================================
