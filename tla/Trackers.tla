------------------------------- MODULE Trackers -------------------------------
(***************************************************************************)
(* tribler/core/torrent_checker/torrentchecker_session.py and socks5/:     *)
(* the sessions that ask trackers for the health of torrents.              *)
(*                                                                         *)
(* All UDP sessions share one socket manager, which hands an answer to the *)
(* session that waits under its transaction id.  Anonymous sessions speak  *)
(* through a SOCKS5 proxy, and the UDP ones share the client that the      *)
(* manager keeps for it.  The trackers and the proxy are the environment:  *)
(* they may answer late, twice, wrongly or never.                          *)
(***************************************************************************)
EXTENDS Integers, Sequences, FiniteSets

CONSTANTS
    Session,   \* the TrackerSessions of the instance, numbered as they are created
    Tid,       \* transaction ids, random and 31 bits wide in the code
    NoSession,
    MaxLost    \* bound on the connections to the proxy that are lost

ASSUME SessionAssumption ==
    /\ IsFiniteSet(Session) /\ Session \subseteq Nat /\ NoSession = 0 /\ 0 \notin Session
    /\ Tid \subseteq Nat \ {0} /\ MaxLost \in Nat
\* generate_transaction_id draws until it finds an id that is free.
ASSUME EnoughIds == Cardinality(Tid) > Cardinality(Session)

VARIABLES
    pc,        \* session -> where its coroutine is
    Udp,       \* sessions for udp:// trackers, the others are HTTP
    Proxied,   \* sessions created while downloads are anonymous by default
    action,    \* session -> what it asks for, TRACKER_ACTION_CONNECT or _SCRAPE
    tid,       \* session -> its transaction_id
    active,    \* sessions in UdpTrackerSession._active_session_dict
    pending,   \* UdpSocketManager.tracker_sessions: id -> whose future is there
    sent,      \* requests that left and may be answered, any number of times
    outcome,   \* session -> how connect_to_tracker ended
    cleanup_task, \* sessions whose failed() scheduled a cleanup that has not run
    kept,      \* proxy_transports: the client kept for the proxy
    clients,   \* SOCKS5 clients, named after the session that made them
    using,     \* session -> its Socks5Client
    ready,     \* the socket manager has a transport
    stopping,  \* TorrentChecker.shutdown was called
    lost,      \* the number of connections to the proxy lost so far
    spoiled    \* history: sessions that failed on an answer to their own older request

kinds == <<Udp, Proxied>>
udp  == <<action, tid, active, pending, sent>>
sock == <<kept, clients, using>>
rest == <<kinds, ready, stopping, spoiled>>
session_vars == <<pc, udp, outcome, cleanup_task, sock, lost, rest>>

\* The transport of a client (the session that dialled it), its open connections, the
\* answers that the proxy owes on them, its queue of one, the sessions in queue.get(),
\* and whether it has a UDP connection.
Client  == [link |-> NoSession, open |-> {}, owed |-> {}, queue |-> "empty",
            getters |-> <<>>, connection |-> FALSE]
Running == {"resolving", "dialling", "login", "endpoint", "command", "waiting", "get"}
Waiting(s) == pc[s] = "waiting"
Without(q, s) == SelectSeq(q, LAMBDA x : x # s)
-----------------------------------------------------------------------------
(***************************************************************************)
(* The end of a session.                                                   *)
(***************************************************************************)
\* connect_to_tracker returns or raises; get_tracker_response books the outcome and
\* enters clean_session.
Concludes(s, how) ==
    /\ pc' = [pc EXCEPT ![s] = "cleaning"]
    /\ outcome' = [outcome EXCEPT ![s] = how]
    /\ cleanup_task' = IF how = "failed" THEN cleanup_task \cup {s} ELSE cleanup_task

\* What the steps of the SOCKS5 client raise: an HTTP session turns any exception into a
\* failure, a UDP session only a timeout or an address that does not resolve.
Raises(s) == Concludes(s, IF s \in Udp THEN "raised" ELSE "failed")

BugRemoveTransactionId(s) == active' = active \ {s} /\ UNCHANGED pending

\* remove_transaction_id: whoever waits under the id by now.
RemoveTransactionId(s) ==
    /\ active' = active \ {s}
    /\ pending' = IF s \in Udp THEN [pending EXCEPT ![tid[s]] = NoSession] ELSE pending

Cleanup(s) ==
    /\ pc[s] = "cleaning"
    /\ pc' = [pc EXCEPT ![s] = "ended"]
    /\ RemoveTransactionId(s)
    /\ UNCHANGED <<action, tid, sent, outcome, cleanup_task, sock, lost, rest>>

\* The cleanup that failed() scheduled runs beside that of clean_session.
ScheduledCleanup(s) ==
    /\ s \in cleanup_task
    /\ cleanup_task' = cleanup_task \ {s}
    /\ RemoveTransactionId(s)
    /\ UNCHANGED <<pc, action, tid, sent, outcome, sock, lost, rest>>
-----------------------------------------------------------------------------
(***************************************************************************)
(* The socket manager.                                                     *)
(***************************************************************************)
\* Drawing an id: none that a listed session has, its own included.  Ids are
\* interchangeable: of those that were never used the model draws the first.
Used  == {tid[s] : s \in Session} \cup {r.tid : r \in sent}
Fresh == {t \in Tid \ {tid[s] : s \in active} : t \in Used \/ \A u \in Tid \ Used : t <= u}

\* send_request, once there is something to send through: the datagram leaves and the
\* session's future is registered under its id.
Register(s, a, t) ==
    /\ pc' = [pc EXCEPT ![s] = "waiting"]
    /\ sent' = sent \cup {[by |-> s, action |-> a, tid |-> t]}
    /\ UNCHANGED <<outcome, cleanup_task>>

Associated(c) == clients[c].link # NoSession /\ clients[c].connection
ClientFor(s)  == IF kept = NoSession THEN s ELSE kept

\* The first part of send_request for a session that asks for a, under id t; table is the
\* manager's table so far.  Writing to the socket may raise OSError.
SendRequest(s, a, t, table) ==
    IF s \in Proxied /\ ~Associated(ClientFor(s))
    THEN /\ pc' = [pc EXCEPT ![s] = "dialling"]
         /\ using' = [using EXCEPT ![s] = ClientFor(s)]
         /\ pending' = table
         /\ UNCHANGED <<sent, outcome, cleanup_task, kept, clients>>
    ELSE /\ UNCHANGED sock
         /\ \/ Register(s, a, t) /\ pending' = [table EXCEPT ![t] = s]
            \/ s \notin Proxied /\ Concludes(s, "failed") /\ pending' = table /\ UNCHANGED sent

\* connect(): also a proxied session needs the manager's own transport.
Connect(s) ==
    /\ IF ready THEN SendRequest(s, "CONNECT", tid[s], pending)
       ELSE Concludes(s, "failed") /\ UNCHANGED <<pending, sent, sock>>
    /\ UNCHANGED <<action, tid, active>>

\* An answer that carries the right action and size; it finishes the session or takes it on.
BugConnected(s) ==
    /\ action' = [action EXCEPT ![s] = "SCRAPE"]
    /\ UNCHANGED <<tid, active>>
    /\ SendRequest(s, "SCRAPE", tid[s], [pending EXCEPT ![tid[s]] = NoSession])
Connected(s) == \E t \in Fresh :
    /\ action' = [action EXCEPT ![s] = "SCRAPE"]
    /\ tid' = [tid EXCEPT ![s] = t]
    /\ UNCHANGED active
    /\ SendRequest(s, "SCRAPE", t, [pending EXCEPT ![tid[s]] = NoSession])

Scraped(s) ==
    /\ Concludes(s, "ok")
    /\ RemoveTransactionId(s)
    /\ UNCHANGED <<action, tid, sent, sock>>

Mismatch(s) ==
    /\ Concludes(s, "failed")
    /\ pending' = [pending EXCEPT ![tid[s]] = NoSession]
    /\ UNCHANGED <<action, tid, active, sent, sock>>

\* transport_received: the future is popped; one that is done (its session timed out) is
\* passed over.  The answer is for request r; good: neither an error nor of a wrong size.
TransportReceived(r, good) ==
    LET s == pending[r.tid] IN
    /\ r \in sent /\ s # NoSession
    /\ IF ~Waiting(s)
       THEN pending' = [pending EXCEPT ![r.tid] = NoSession]
            /\ UNCHANGED <<pc, action, tid, active, sent, outcome, cleanup_task, sock, spoiled>>
       ELSE /\ IF good /\ r.action = action[s]
               THEN IF r.action = "CONNECT" THEN Connected(s) ELSE Scraped(s)
               ELSE Mismatch(s)
            /\ spoiled' = IF r.by = s /\ r.action # action[s] THEN spoiled \cup {s} ELSE spoiled
    /\ UNCHANGED <<lost, kinds, ready, stopping>>
-----------------------------------------------------------------------------
(***************************************************************************)
(* The SOCKS5 client.                                                      *)
(***************************************************************************)
\* _send: write to the transport and wait in the queue.
Send(c, s, what) == [c EXCEPT !.owed = @ \cup {<<c.link, what>>}, !.getters = Append(@, s)]

\* _login: the new connection replaces the transport, whoever uses the old one.
Dialled(s) ==
    LET c == using[s] IN
    /\ pc[s] = "dialling"
    /\ clients' = [clients EXCEPT ![c] =
                     Send([@ EXCEPT !.link = s, !.open = @ \cup {s}], s, "method")]
    /\ pc' = [pc EXCEPT ![s] = "login"]
    /\ UNCHANGED <<udp, outcome, cleanup_task, kept, using, lost, rest>>

DialFailed(s) ==
    /\ pc[s] = "dialling"
    /\ Raises(s)
    /\ UNCHANGED <<udp, sock, lost, rest>>

\* data_received before there is a connection: dropped unless the queue is empty.
ProxyReply(c, r, granted) ==
    /\ r \in clients[c].owed
    /\ clients' = [clients EXCEPT ![c].owed = @ \ {r},
         ![c].queue = IF @ = "empty" THEN (IF granted THEN r[2] ELSE "refusal") ELSE @]
    /\ UNCHANGED <<pc, udp, outcome, cleanup_task, kept, using, lost, rest>>

\* connection_lost: of any connection the client ever made; who waits is not woken.
ConnectionLost(c, d) ==
    /\ d \in clients[c].open /\ lost < MaxLost
    /\ lost' = lost + 1
    /\ clients' = [clients EXCEPT ![c].open = @ \ {d}, ![c].link = NoSession,
                                  ![c].owed = {r \in @ : r[1] # d}]
    /\ UNCHANGED <<pc, udp, outcome, cleanup_task, kept, using, rest>>

\* The first session in queue.get() takes the reply.  To the login any reply that starts
\* with a success will do; a method is too short to be the reply to a command.
Taken(c) == [clients EXCEPT ![c].queue = "empty", ![c].getters = Tail(@)]

LoginReply(c) ==
    LET s == Head(clients[c].getters) IN
    /\ clients[c].queue # "empty" /\ clients[c].getters # <<>> /\ pc[s] = "login"
    /\ UNCHANGED <<udp, kept, using, lost, rest>>
    /\ \/ clients[c].queue # "refusal" /\ s \in Udp
          /\ pc' = [pc EXCEPT ![s] = "endpoint"]
          /\ clients' = Taken(c) /\ UNCHANGED <<outcome, cleanup_task>>
       \/ clients[c].queue # "refusal" /\ s \notin Udp /\ clients[c].link # NoSession
          /\ pc' = [pc EXCEPT ![s] = "command"]
          /\ clients' = [Taken(c) EXCEPT ![c] = Send(@, s, "command")]
          /\ UNCHANGED <<outcome, cleanup_task>>
       \/ (clients[c].queue = "refusal" \/ (s \notin Udp /\ clients[c].link = NoSession))
          /\ Raises(s) /\ clients' = Taken(c)

\* _associate_udp has its local endpoint and asks the proxy for the relay.
Endpoint(s) ==
    LET c == using[s] IN
    /\ pc[s] = "endpoint"
    /\ UNCHANGED <<udp, kept, using, lost, rest>>
    /\ IF clients[c].link = NoSession THEN Raises(s) /\ UNCHANGED clients
       ELSE /\ pc' = [pc EXCEPT ![s] = "command"]
            /\ clients' = [clients EXCEPT ![c] = Send(@, s, "command")]
            /\ UNCHANGED <<outcome, cleanup_task>>

\* associate_udp or connect_tcp is done: a UDP session keeps the client for the others,
\* unless there is one, and sends (if the transport is still there), HTTP starts its GET.
Agreed(s, c) ==
    /\ clients' = [Taken(c) EXCEPT ![c].connection = s \in Udp]
    /\ UNCHANGED <<action, tid, active, using>>
    /\ kept' = IF s \in Udp /\ kept = NoSession THEN c ELSE kept
    /\ IF s \notin Udp
       THEN /\ pc' = [pc EXCEPT ![s] = "get"]
            /\ UNCHANGED <<pending, sent, outcome, cleanup_task>>
       ELSE IF clients[c].link = NoSession
       THEN Raises(s) /\ UNCHANGED <<pending, sent>>
       ELSE Register(s, action[s], tid[s]) /\ pending' = [pending EXCEPT ![tid[s]] = s]

CommandReply(c) ==
    LET s == Head(clients[c].getters) IN
    /\ clients[c].queue # "empty" /\ clients[c].getters # <<>> /\ pc[s] = "command"
    /\ IF clients[c].queue = "command" THEN Agreed(s, c)
       ELSE Raises(s) /\ clients' = Taken(c) /\ UNCHANGED <<udp, kept, using>>
    /\ UNCHANGED <<lost, rest>>
-----------------------------------------------------------------------------
(***************************************************************************)
(* The sessions.                                                           *)
(***************************************************************************)
\* UdpTrackerSession: a session draws its first id when it is made.
FirstId(s) == \E t \in Fresh : tid' = [tid EXCEPT ![s] = t] /\ active' = active \cup {s}

\* create_tracker_session, by the URL of the tracker and the hops that are configured.
Create(s, is_udp, proxy) ==
    /\ pc[s] = "none" /\ ~stopping /\ \A o \in Session : o < s => pc[o] # "none"
    /\ pc' = [pc EXCEPT ![s] = "created"]
    /\ Udp' = IF is_udp THEN Udp \cup {s} ELSE Udp
    /\ Proxied' = IF proxy THEN Proxied \cup {s} ELSE Proxied
    /\ IF is_udp THEN FirstId(s) ELSE UNCHANGED <<tid, active>>
    /\ UNCHANGED <<action, pending, sent, outcome, cleanup_task, sock, lost, ready, stopping, spoiled>>

\* connect_to_tracker up to its first wait.
Start(s) ==
    /\ pc[s] = "created"
    /\ \/ s \in Udp \ Proxied /\ pc' = [pc EXCEPT ![s] = "resolving"]
          /\ UNCHANGED <<udp, outcome, cleanup_task, sock>>
       \/ s \in Udp \cap Proxied /\ Connect(s)
       \/ s \notin Udp /\ pc' = [pc EXCEPT ![s] = IF s \in Proxied THEN "dialling" ELSE "get"]
          /\ UNCHANGED <<udp, outcome, cleanup_task, sock>>
    /\ UNCHANGED <<lost, rest>>

Resolved(s, found) ==
    /\ pc[s] = "resolving"
    /\ IF found THEN Connect(s) ELSE Concludes(s, "failed") /\ UNCHANGED <<udp, sock>>
    /\ UNCHANGED <<lost, rest>>

\* process_scrape_response: a body that decodes and holds no failure reason.
HttpResponse(s, good) ==
    /\ pc[s] = "get"
    /\ Concludes(s, IF good THEN "ok" ELSE "failed")
    /\ UNCHANGED <<udp, sock, lost, rest>>

\* The timeout spans everything that the session waits for.
BugTimed == {"resolving", "waiting", "get"}
Timed    == Running
TimedOut(s) ==
    /\ pc[s] \in Timed
    /\ Concludes(s, "failed")
    /\ clients' = [clients EXCEPT ![using[s]].getters = Without(@, s)]
    /\ UNCHANGED <<udp, kept, using, lost, rest>>

\* create_socket_or_schedule, which tries again every ten seconds.
CreateSocket ==
    /\ ~ready /\ ~stopping /\ ready' = TRUE
    /\ UNCHANGED <<kinds, pc, udp, outcome, cleanup_task, sock, lost, stopping, spoiled>>

\* TorrentChecker.shutdown cancels the checks: those that run clean their session, a
\* coroutine that never started does not.
Shutdown ==
    /\ ~stopping /\ stopping' = TRUE
    /\ pc' = [s \in Session |-> IF pc[s] \in Running THEN "cleaning"
                                ELSE IF pc[s] = "created" THEN "ended" ELSE pc[s]]
    /\ outcome' = [s \in Session |-> IF pc[s] \in Running \cup {"created"}
                                     THEN "cancelled" ELSE outcome[s]]
    /\ clients' = [c \in Session |-> [clients[c] EXCEPT !.getters = <<>>]]
    /\ UNCHANGED <<kinds, udp, cleanup_task, kept, using, lost, ready, spoiled>>

TrackersInit ==
    /\ pc = [s \in Session |-> "none"] /\ Udp = {} /\ Proxied = {}
    /\ action = [s \in Session |-> "CONNECT"] /\ tid = [s \in Session |-> 0]
    /\ active = {} /\ pending = [t \in Tid |-> NoSession] /\ sent = {}
    /\ outcome = [s \in Session |-> "none"] /\ cleanup_task = {}
    /\ kept = NoSession /\ clients = [s \in Session |-> Client]
    /\ using = [s \in Session |-> s]
    /\ ready = FALSE /\ stopping = FALSE /\ lost = 0 /\ spoiled = {}

TrackersNext ==
    \/ \E s \in Session : \/ Start(s) \/ TimedOut(s)
                          \/ Cleanup(s) \/ ScheduledCleanup(s)
                          \/ Dialled(s) \/ DialFailed(s) \/ Endpoint(s)
                          \/ \E ok \in BOOLEAN : Resolved(s, ok) \/ HttpResponse(s, ok)
                          \/ \E is_udp, proxy \in BOOLEAN : Create(s, is_udp, proxy)
    \/ \E r \in sent, ok \in BOOLEAN : TransportReceived(r, ok)
    \/ \E c \in Session : \/ LoginReply(c) \/ CommandReply(c)
                          \/ \E d \in clients[c].open : ConnectionLost(c, d)
                          \/ \E r \in clients[c].owed, ok \in BOOLEAN : ProxyReply(c, r, ok)
    \/ CreateSocket \/ Shutdown

TrackersSpec == TrackersInit /\ [][TrackersNext]_session_vars

\* The event loop runs what is ready and its timers fire; trackers and the proxy owe
\* nothing.
TrackersFairness == \A s \in Session : /\ WF_session_vars(Start(s)) /\ WF_session_vars(TimedOut(s))
                                      /\ WF_session_vars(Cleanup(s)) /\ WF_session_vars(ScheduledCleanup(s))
TrackersFairSpec == TrackersSpec /\ TrackersFairness
-----------------------------------------------------------------------------
(***************************************************************************)
(* Properties.                                                             *)
(***************************************************************************)

\* Every variable keeps its shape.
TrackersTypeOK ==
    /\ pc \in [Session -> Running \cup {"none", "created", "cleaning", "ended"}]
    /\ Udp \cup Proxied \cup active \cup cleanup_task \cup spoiled \subseteq Session
    /\ action \in [Session -> {"CONNECT", "SCRAPE"}] /\ tid \in [Session -> Tid \cup {0}]
    /\ pending \in [Tid -> Session \cup {NoSession}]
    /\ outcome \in [Session -> {"none", "ok", "failed", "raised", "cancelled"}]
    /\ kept \in Session \cup {NoSession} /\ using \in [Session -> Session]
    /\ \A c \in Session : /\ clients[c].link \in Session \cup {NoSession}
                          /\ clients[c].open \subseteq Session
                          /\ clients[c].getters \in Seq(Session)
    /\ ready \in BOOLEAN /\ stopping \in BOOLEAN /\ lost \in 0..MaxLost

\* When the sessions that started are over, no id and no future of theirs is left,
\* whatever timed out, raised or was answered late in between.
Over(s) == pc[s] = "ended" /\ s \notin cleanup_task /\ outcome[s] # "cancelled"
NothingLeft == \A s \in Session : Over(s) =>
    s \notin active /\ \A t \in Tid : pending[t] # s

\* A second answer to a request that was answered does not fail the session that asked,
\* which by then waits for something else.
DuplicatesAreHarmless == spoiled = {}

\* Every check of a tracker ends, also behind a proxy that drops the connection or never
\* replies.
SessionsEnd == \A s \in Session : pc[s] = "created" ~> pc[s] = "ended"

\* Refuted: a waiting session may lose its place to the second cleanup of the session
\* that had its id before.
WaitersAreListed == \A s \in Session : Waiting(s) /\ s \in Udp => pending[tid[s]] = s

\* Refuted: "Whether this client is associated over UDP."  A client that logs in again
\* counts as associated by its old connection.
AssociatedIsGranted == \A s \in Session :
    pc[s] \in {"login", "endpoint", "command"} /\ s \in Udp => ~Associated(using[s])
=============================================================================
