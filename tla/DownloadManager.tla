--------------------------- MODULE DownloadManager ---------------------------
(***************************************************************************)
(* tribler/core/libtorrent/download_manager: the life of ONE infohash.     *)
(*                                                                         *)
(* Every table of the DownloadManager is keyed by infohash and no handler  *)
(* below touches two of them, so the model keeps one entry of each table:  *)
(* downloads[infohash], metainfo_requests[infohash], the checkpoint file   *)
(* <infohash>.conf and the torrent that each libtorrent session holds.     *)
(*                                                                         *)
(* The client's calls are asyncio coroutines.  A coroutine runs alone until*)
(* it awaits something unfinished: "running" names the coroutine that has  *)
(* not given up the event loop yet, and every other step waits for it.     *)
(* Sessions and torrents belong to libtorrent, which runs in threads of    *)
(* its own and reports through alerts.                                     *)
(***************************************************************************)
EXTENDS Integers, Sequences, FiniteSets

CONSTANTS
    Download,      \* identities of Download objects
    Coro,          \* coroutines in flight at the same time
    Loader,        \* the one that runs load_checkpoints; the others serve clients
    Hops,          \* keys of ltsessions: one libtorrent session per hop count
    HandleNr,      \* distinguishes the torrent_handles of one session
    Calls,         \* the kinds of call the clients make, a subset of AllCalls
    ColdSessions,  \* sessions that nobody has awaited yet
    Seeded,        \* sessions that reach a peer with the torrent's metadata
    MaxAlerts,     \* bound on the alerts queued in one session
    MaxCrashes,    \* bound on the number of crashes
    NoDownload, NoHandle, NoHops, NoCoro

AllCalls == {"lookup", "health", "start", "load", "remove", "hops"}

ASSUME CallsAssumption == Calls \subseteq AllCalls
ASSUME ColdAssumption  == ColdSessions \subseteq Hops
ASSUME LoaderAssumption == Loader \in Coro
ASSUME NullAssumption  == /\ NoDownload \notin Download
                          /\ NoHops \notin Hops
                          /\ NoCoro \notin Coro
                          /\ NoHandle \notin [hops : Hops, nr : HandleNr]

VARIABLES
    downloads,     \* the Download listed for the infohash, or NoDownload
    requests,      \* the MetainfoLookup listed for it; download = NoDownload: none
    cached,        \* metainfo_cache has an entry for the infohash
    obj,           \* the Download objects
    co,            \* the coroutines
    running,       \* the coroutine that holds the event loop, or NoCoro
    conf,          \* hop count in the checkpoint file, NoHops: there is no file
    loading,       \* load_checkpoints still has the file on its list
    session,       \* state of the executor task behind each ltsessions entry
    torrent,       \* the handle of the torrent in each session, or NoHandle
    known,         \* libtorrent has the metadata of the torrent in the session
    adding,        \* sessions with an _async_add_torrent task on its way
    alerts,        \* alerts each session has not delivered yet
    dropping,      \* handles with a scheduled callback to remove them again
    crashes

table    == <<downloads, requests, cached>>
external == <<session, torrent, known, adding, dropping>>
disk     == <<conf, loading>>
vars     == <<downloads, requests, cached, obj, co, running, conf, loading,
              session, torrent, known, adding, alerts, dropping, crashes>>

Handle    == [hops : Hops, nr : HandleNr]
NoRequest == [download |-> NoDownload, pending |-> 0]

\* Where a coroutine is suspended:
\*   starting    start_handle: await get_session
\*   evicting    start_handle: await remove_download(the lookup's download)
\*   waiting     get_metainfo: await wait_for(shield(future_metainfo), timeout)
\*   sampling    get_metainfo: await sleep, the health check
\*   finishing   get_metainfo's finally: await remove_download
\*   adding      update_hops: save_resume_data awaits get_handle
\*   saving      update_hops: save_resume_data awaits the alert
\*   rehoming    update_hops: await remove_download
\*   removing    the client's own await remove_download
Removals == {"evicting", "finishing", "rehoming", "removing"}
Places   == {"idle", "starting", "waiting", "sampling", "adding", "saving"} \cup Removals
IdleCo   == [call |-> "none", at |-> "idle", dl |-> NoDownload, victim |-> NoDownload,
             hops |-> NoHops]

FutureState == {"pending", "done", "cancelled"}

NewObj(hidden, hops) ==
    [hidden |-> hidden, hops |-> hops, handle |-> NoHandle, closed |-> FALSE,
     added |-> "pending", metainfo |-> "pending"]

Requested == requests.download # NoDownload

\* handle.is_valid()
Valid(h) == h # NoHandle /\ torrent[h.hops] = h

\* A Download object nobody refers to any more is garbage: its identity is free.
Fresh(d) == /\ downloads # d /\ requests.download # d
            /\ \A c \in Coro : co[c].dl # d /\ co[c].victim # d

FreshHandle(h) == /\ torrent[h.hops] # h /\ h \notin dropping
                  /\ \A d \in Download : Fresh(d) \/ obj[d].handle # h
                  /\ \A i \in 1..Len(alerts[h.hops]) : alerts[h.hops][i].handle # h

Alert(type, h) == [type |-> type, handle |-> h]

Idle == running = NoCoro

\* A client's coroutine that is free to make a call.
Free(c) == Idle /\ c # Loader /\ co[c].at = "idle"
-----------------------------------------------------------------------------
(***************************************************************************)
(* Pieces of the handlers.                                                 *)
(***************************************************************************)

\* Download.shutdown up to its first suspension: the alert handlers are gone
\* and the futures that are not done are cancelled.
Closed(o) ==
    [o EXCEPT !.closed   = TRUE,
              !.added    = IF @ = "pending" THEN "cancelled" ELSE @,
              !.metainfo = IF @ = "pending" THEN "cancelled" ELSE @]

\* session.remove_torrent: the handle is invalid at once, the alert follows.
RemoveFromSession(h) ==
    /\ torrent' = [torrent EXCEPT ![h.hops] = NoHandle]
    /\ alerts' = [alerts EXCEPT ![h.hops] = Append(@, Alert("removed", h))]

\* remove_download up to the await of download.shutdown.
BeginRemoval(v) ==
    /\ obj' = [obj EXCEPT ![v] = Closed(@)]
    /\ IF Valid(obj[v].handle) THEN RemoveFromSession(obj[v].handle)
                               ELSE UNCHANGED <<torrent, alerts>>

\* The table and the file once download.shutdown has returned: only the Download
\* that is still listed is unlisted, and only then is the file unlinked.
BugDownloadsWithout(v) == downloads
BugConfKept(v)         == conf
DownloadsWithout(v) == IF downloads = v THEN NoDownload ELSE downloads
ConfWithout(v)      == IF downloads = v THEN NoHops ELSE conf

\* Download.checkpoint with a valid handle; libtorrent decides whether it needs saving.
Checkpointed(q, d, h) ==
    {q} \cup (IF obj[d].hidden THEN {} ELSE {[q EXCEPT ![h.hops] = Append(@, Alert("saved", h))]})

\* Download.process_alert(add_torrent_alert): on_add_torrent_alert, then the futures.
Added(o, h) ==
    IF o.closed THEN o
    ELSE [o EXCEPT !.handle = IF Valid(h) THEN h ELSE @, !.added = "done"]

\* start_download from the creation of the Download up to start_handle's
\* await of get_session; dls and file are the entry and the checkpoint at that moment.
CreateDownload(c, call, hidden, hops, dls, file) ==
    \E d \in {x \in Download : Fresh(x)} :
        /\ obj' = [obj EXCEPT ![d] = NewObj(hidden, hops)]
        /\ conf' = IF ~hidden /\ file = NoHops THEN hops ELSE file
        /\ downloads' = IF Requested THEN dls ELSE d
        /\ co' = [co EXCEPT ![c] = [IdleCo EXCEPT !.call = call, !.at = "starting", !.dl = d]]
        /\ session' = [session EXCEPT ![hops] = IF @ = "absent" THEN "creating" ELSE @]
        /\ running' = IF session[hops] = "ready" THEN c ELSE NoCoro

\* The end of start_handle: reuse the session's handle (post_alert) or add the
\* torrent anew, then return.  A lookup lists its request and awaits the metadata;
\* awaiting a future that is done does not suspend it.
AddTorrent(c) ==
    LET d == co[c].dl
        s == obj[d].hops
        h == torrent[s]
    IN  /\ IF h # NoHandle
           THEN /\ obj' = [obj EXCEPT ![d] = Added(@, h)]
                /\ alerts' \in IF obj[d].closed THEN {alerts} ELSE Checkpointed(alerts, d, h)
                /\ UNCHANGED adding
           ELSE /\ adding' = adding \cup {s}
                /\ UNCHANGED <<obj, alerts>>
        /\ UNCHANGED torrent
        /\ IF co[c].call \in {"lookup", "health"}
           THEN /\ requests' = [download |-> d, pending |-> 1]
                /\ co' = [co EXCEPT ![c] = [@ EXCEPT !.at = "waiting", !.victim = NoDownload]]
                /\ running' = IF obj[d].metainfo = "pending" THEN NoCoro ELSE c
           ELSE /\ co' = [co EXCEPT ![c] = IdleCo]
                /\ running' = NoCoro
                /\ UNCHANGED requests

\* get_metainfo's finally clause: whoever leaves last removes the Download it
\* waited on, which need not be the one that is listed as requested.
BugLastToLeave == requests.pending <= 1
LastToLeave == Requested /\ requests.pending <= 1

Finally(c) ==
    /\ requests' = IF Requested THEN [requests EXCEPT !.pending = @ - 1] ELSE requests
    /\ IF LastToLeave
       THEN /\ BeginRemoval(co[c].dl)
            /\ co' = [co EXCEPT ![c] = [@ EXCEPT !.at = "finishing", !.victim = co[c].dl]]
       ELSE /\ co' = [co EXCEPT ![c] = IdleCo]
            /\ UNCHANGED <<obj, torrent, alerts>>
-----------------------------------------------------------------------------
(***************************************************************************)
(* get_metainfo.                                                           *)
(***************************************************************************)

\* A lookup that finds a request or a Download for the infohash waits on it;
\* only the first kind is counted.
Joined == IF Requested THEN [requests EXCEPT !.pending = @ + 1] ELSE requests

LookupJoin(c) ==
    \E call \in Calls \cap {"lookup", "health"} :
        LET d == IF Requested THEN requests.download ELSE downloads
        IN  /\ Free(c)
            /\ ~(cached /\ call = "lookup")
            /\ d # NoDownload
            /\ requests' = Joined
            /\ co' = [co EXCEPT ![c] = [IdleCo EXCEPT !.call = call, !.at = "waiting", !.dl = d]]
            /\ running' = IF obj[d].metainfo = "pending" THEN NoCoro ELSE c
            /\ UNCHANGED <<downloads, cached, obj, alerts, crashes, disk, external>>

\* A lookup that finds neither starts a hidden, never checkpointed Download.
LookupStart(c) ==
    \E call \in Calls \cap {"lookup", "health"}, hops \in Hops :
        /\ Free(c)
        /\ ~(cached /\ call = "lookup")
        /\ ~Requested /\ downloads = NoDownload
        /\ CreateDownload(c, call, TRUE, hops, downloads, conf)
        /\ UNCHANGED <<requests, cached, loading, torrent, known, adding, alerts, dropping, crashes>>

\* The metadata is there.  A health check first sleeps for the rest of its timeout.
LookupAnswered(c) ==
    /\ running \in {c, NoCoro} /\ co[c].at = "waiting"
    /\ obj[co[c].dl].metainfo = "done"
    /\ running' = NoCoro
    /\ IF co[c].call = "health"
       THEN /\ co' = [co EXCEPT ![c].at = "sampling"]
            /\ UNCHANGED <<requests, cached, obj, torrent, alerts>>
       ELSE /\ cached' = TRUE
            /\ Finally(c)
    /\ UNCHANGED <<downloads, disk, session, known, adding, dropping, crashes>>

LookupSampled(c) ==
    /\ Idle /\ co[c].at = "sampling"
    /\ cached' = TRUE
    /\ Finally(c)
    /\ UNCHANGED <<downloads, running, disk, session, known, adding, dropping, crashes>>

\* TimeoutError, or CancelledError: somebody shut the Download down.
LookupFailed(c) ==
    /\ running \in {c, NoCoro} /\ co[c].at = "waiting"
    /\ obj[co[c].dl].metainfo # "done"
    /\ running' = NoCoro
    /\ Finally(c)
    /\ UNCHANGED <<downloads, cached, disk, session, known, adding, dropping, crashes>>

\* The finally clause after its await: forget the request, whoever made it.
LookupRemoved(c) ==
    /\ Idle /\ co[c].at = "finishing"
    /\ downloads' = DownloadsWithout(co[c].victim)
    /\ conf' = ConfWithout(co[c].victim)
    /\ requests' = NoRequest
    /\ co' = [co EXCEPT ![c] = IdleCo]
    /\ UNCHANGED <<cached, obj, running, loading, alerts, crashes, external>>

\* _task_cleanup_metainfo_cache
CacheExpires ==
    /\ Idle /\ cached
    /\ cached' = FALSE
    /\ UNCHANGED <<downloads, requests, obj, co, running, alerts, crashes, disk, external>>
-----------------------------------------------------------------------------
(***************************************************************************)
(* start_download, start_handle, load_checkpoint.  Starting an infohash    *)
(* that is listed and not being looked up returns the listed Download and  *)
(* changes nothing modelled here.                                          *)
(***************************************************************************)

BugStartCreates == TRUE
StartCreates == downloads = NoDownload \/ Requested

UserStart(c) ==
    \E hops \in Hops :
        /\ "start" \in Calls
        /\ Free(c)
        /\ StartCreates
        /\ CreateDownload(c, "start", FALSE, hops, downloads, conf)
        /\ UNCHANGED <<requests, cached, loading, torrent, known, adding, alerts, dropping, crashes>>

\* The file is skipped when the infohash is listed, or when it is gone by now.
BugLoadSkips == conf = NoHops \/ downloads = NoDownload
LoadSkips == conf = NoHops \/ downloads # NoDownload
LoadCheckpoint(c) ==
    /\ "load" \in Calls
    /\ Idle /\ c = Loader /\ co[c].at = "idle"
    /\ loading /\ loading' = FALSE
    /\ IF LoadSkips
       THEN UNCHANGED <<downloads, obj, co, conf, running, session>>
       ELSE CreateDownload(c, "load", FALSE, conf, downloads, conf)
    /\ UNCHANGED <<requests, cached, torrent, known, adding, alerts, dropping, crashes>>

\* start_handle once its session exists.
StartHandle(c) ==
    LET other == requests.download
    IN  /\ running \in {c, NoCoro} /\ co[c].at = "starting"
        /\ session[obj[co[c].dl].hops] = "ready"
        /\ IF Requested /\ other # co[c].dl
           THEN /\ requests' = NoRequest
                /\ BeginRemoval(other)
                /\ co' = [co EXCEPT ![c] = [@ EXCEPT !.at = "evicting", !.victim = other]]
                /\ running' = NoCoro
                /\ UNCHANGED adding
           ELSE AddTorrent(c)
        /\ UNCHANGED <<downloads, cached, disk, session, known, dropping, crashes>>

\* The lookup's Download is gone; the checkpoint is left alone.
Evicted(c) ==
    /\ Idle /\ co[c].at = "evicting"
    /\ downloads' = co[c].dl
    /\ AddTorrent(c)
    /\ UNCHANGED <<cached, disk, session, known, dropping, crashes>>
-----------------------------------------------------------------------------
(***************************************************************************)
(* remove_download and update_hops as the client calls them, on a Download *)
(* the client can see: not a hidden one.                                   *)
(***************************************************************************)

UserRemove(c) ==
    /\ "remove" \in Calls
    /\ Free(c)
    /\ downloads # NoDownload /\ ~obj[downloads].hidden
    /\ BeginRemoval(downloads)
    /\ co' = [co EXCEPT ![c] = [IdleCo EXCEPT !.call = "remove", !.at = "removing",
                                              !.dl = downloads, !.victim = downloads]]
    /\ UNCHANGED <<table, running, disk, session, known, adding, dropping, crashes>>

UserRemoved(c) ==
    /\ Idle /\ co[c].at = "removing"
    /\ downloads' = DownloadsWithout(co[c].victim)
    /\ conf' = ConfWithout(co[c].victim)
    /\ co' = [co EXCEPT ![c] = IdleCo]
    /\ UNCHANGED <<requests, cached, obj, running, loading, alerts, crashes, external>>

\* save_resume_data asks libtorrent for the data; an invalid handle raises and
\* update_hops is abandoned.
SaveResumeData(c, d, state) ==
    IF Valid(obj[d].handle)
    THEN /\ alerts' = [alerts EXCEPT ![obj[d].hops] = Append(@, Alert("saved", obj[d].handle))]
         /\ co' = [co EXCEPT ![c] = [state EXCEPT !.at = "saving"]]
    ELSE /\ co' = [co EXCEPT ![c] = IdleCo]
         /\ UNCHANGED alerts

UpdateHops(c) ==
    \E hops \in Hops :
        LET d == downloads
            state == [IdleCo EXCEPT !.call = "hops", !.at = "adding", !.dl = d, !.hops = hops]
        IN  /\ "hops" \in Calls
            /\ Free(c)
            /\ d # NoDownload
            /\ IF obj[d].handle = NoHandle /\ obj[d].added = "pending"
               THEN /\ co' = [co EXCEPT ![c] = state]
                    /\ UNCHANGED alerts
               ELSE SaveResumeData(c, d, state)
            /\ UNCHANGED <<table, obj, running, crashes, disk, external>>

\* get_handle resolves; when it is cancelled, so is update_hops.
HopsAdded(c) ==
    /\ Idle /\ co[c].at = "adding"
    /\ obj[co[c].dl].added # "pending"
    /\ IF obj[co[c].dl].added = "done"
       THEN SaveResumeData(c, co[c].dl, co[c])
       ELSE /\ co' = [co EXCEPT ![c] = IdleCo]
            /\ UNCHANGED alerts
    /\ UNCHANGED <<table, obj, running, crashes, disk, external>>

\* The alert, its failure, the timeout and a cancelled future all end the wait alike.
HopsSaved(c) ==
    /\ Idle /\ co[c].at = "saving"
    /\ BeginRemoval(co[c].dl)
    /\ co' = [co EXCEPT ![c] = [@ EXCEPT !.at = "rehoming", !.victim = co[c].dl]]
    /\ UNCHANGED <<table, running, disk, session, known, adding, dropping, crashes>>

\* The old Download is gone and the new one is created in the same step.
HopsRemoved(c) ==
    LET dls  == DownloadsWithout(co[c].victim)
        file == ConfWithout(co[c].victim)
    IN  /\ Idle /\ co[c].at = "rehoming"
        /\ IF dls # NoDownload /\ ~Requested
           THEN /\ co' = [co EXCEPT ![c] = IdleCo]
                /\ downloads' = dls /\ conf' = file
                /\ UNCHANGED <<obj, running, session>>
           ELSE CreateDownload(c, "hops", FALSE, co[c].hops, dls, file)
        /\ UNCHANGED <<requests, cached, loading, torrent, known, adding, alerts, dropping, crashes>>
-----------------------------------------------------------------------------
(***************************************************************************)
(* libtorrent, and process_alert for what it reports.                      *)
(***************************************************************************)

SessionReady(s) ==
    /\ Idle /\ session[s] = "creating"
    /\ session' = [session EXCEPT ![s] = "ready"]
    /\ UNCHANGED <<table, obj, co, running, disk, torrent, known, adding, alerts, dropping, crashes>>

\* _async_add_torrent after the DHT readiness wait.  Replacing the task does not
\* stop the old one: it catches the cancellation and adds its torrent right away.
\* Adding a torrent the session holds reports the handle it has.
AsyncAddTorrent(s) ==
    /\ Idle /\ s \in adding /\ Len(alerts[s]) < MaxAlerts
    /\ adding' = adding \ {s}
    /\ \E h \in {x \in Handle : x.hops = s /\
                    IF torrent[s] = NoHandle THEN FreshHandle(x) ELSE torrent[s] = x} :
          /\ torrent' = [torrent EXCEPT ![s] = h]
          /\ known' = [known EXCEPT ![s] = IF torrent[s] = NoHandle THEN FALSE ELSE @]
          /\ alerts' = [alerts EXCEPT ![s] = Append(@, Alert("added", h))]
    /\ UNCHANGED <<table, obj, co, running, disk, session, dropping, crashes>>

\* The swarm delivers the torrent's metadata.
MetadataArrives(s) ==
    /\ Idle /\ s \in Seeded /\ torrent[s] # NoHandle /\ ~known[s] /\ Len(alerts[s]) < MaxAlerts
    /\ known' = [known EXCEPT ![s] = TRUE]
    /\ alerts' = [alerts EXCEPT ![s] = Append(@, Alert("metadata", torrent[s]))]
    /\ UNCHANGED <<table, obj, co, running, disk, session, torrent, adding, dropping, crashes>>

BugReceiver(s) == downloads
\* process_alert hands an alert to the listed Download of that session only.
Receiver(s) == IF downloads # NoDownload /\ obj[downloads].hops = s THEN downloads ELSE NoDownload

Rest(s) == [alerts EXCEPT ![s] = Tail(@)]

Pending(s, type) == /\ Idle /\ alerts[s] # <<>>
                    /\ Head(alerts[s]).type = type

OnAddTorrent(s) ==
    LET h == Head(alerts[s]).handle
        d == Receiver(s)
    IN  /\ Pending(s, "added")
        /\ IF d # NoDownload
           THEN /\ obj' = [obj EXCEPT ![d] = Added(@, h)]
                /\ alerts' \in IF obj[d].closed \/ ~Valid(h) THEN {Rest(s)}
                               ELSE Checkpointed(Rest(s), d, h)
                /\ UNCHANGED dropping
           ELSE /\ dropping' = dropping \cup {h}
                /\ alerts' = Rest(s)
                /\ UNCHANGED obj
        /\ UNCHANGED <<table, co, running, disk, session, torrent, known, adding, crashes>>

\* The callback process_alert schedules for a torrent whose Download is unknown.
DropTorrent(h) ==
    /\ Idle /\ h \in dropping
    /\ dropping' = dropping \ {h}
    /\ IF Valid(h) THEN RemoveFromSession(h) ELSE UNCHANGED <<torrent, alerts>>
    /\ UNCHANGED <<table, obj, co, running, disk, session, known, adding, crashes>>

\* on_torrent_removed_alert does not ask which handle was removed.
OnTorrentRemoved(s) ==
    LET d == Receiver(s)
    IN  /\ Pending(s, "removed")
        /\ alerts' = Rest(s)
        /\ obj' = IF d # NoDownload /\ ~obj[d].closed
                  THEN [obj EXCEPT ![d].handle = NoHandle] ELSE obj
        /\ UNCHANGED <<table, co, running, crashes, disk, external>>

OnMetadataReceived(s) ==
    LET d == Receiver(s)
    IN  /\ Pending(s, "metadata")
        /\ IF d # NoDownload /\ ~obj[d].closed
           THEN /\ obj' = [obj EXCEPT ![d].metainfo = "done"]
                /\ alerts' \in IF Valid(obj[d].handle)
                               THEN Checkpointed(Rest(s), d, obj[d].handle) ELSE {Rest(s)}
           ELSE /\ alerts' = Rest(s)
                /\ UNCHANGED obj
        /\ UNCHANGED <<table, co, running, crashes, disk, external>>

\* on_save_resume_data_alert writes the receiver's configuration.
OnSaveResumeData(s) ==
    LET d == Receiver(s)
    IN  /\ Pending(s, "saved")
        /\ alerts' = Rest(s)
        /\ conf' = IF d # NoDownload /\ ~obj[d].closed /\ ~obj[d].hidden
                   THEN obj[d].hops ELSE conf
        /\ UNCHANGED <<table, obj, co, running, loading, crashes, external>>

\* The process dies; only the checkpoint file survives, and the next run loads it.
Crash ==
    /\ crashes < MaxCrashes
    /\ crashes' = crashes + 1
    /\ downloads' = NoDownload /\ requests' = NoRequest /\ cached' = FALSE
    /\ \E s \in Hops : obj' = [d \in Download |-> NewObj(FALSE, s)]
    /\ co' = [c \in Coro |-> IdleCo]
    /\ running' = NoCoro
    /\ loading' = (conf # NoHops)
    /\ session' = [s \in Hops |-> IF s \in ColdSessions THEN "absent" ELSE "ready"]
    /\ torrent' = [s \in Hops |-> NoHandle]
    /\ known' = [s \in Hops |-> FALSE]
    /\ adding' = {} /\ dropping' = {}
    /\ alerts' = [s \in Hops |-> <<>>]
    /\ UNCHANGED conf
-----------------------------------------------------------------------------
\* A fresh process, with or without a checkpoint from an earlier run.
Init ==
    /\ downloads = NoDownload /\ requests = NoRequest /\ cached = FALSE
    /\ \E s \in Hops : obj = [d \in Download |-> NewObj(FALSE, s)]
    /\ co = [c \in Coro |-> IdleCo]
    /\ running = NoCoro
    /\ conf \in {NoHops} \cup (IF "load" \in Calls THEN Hops ELSE {})
    /\ loading = (conf # NoHops)
    /\ session = [s \in Hops |-> IF s \in ColdSessions THEN "absent" ELSE "ready"]
    /\ torrent = [s \in Hops |-> NoHandle]
    /\ known = [s \in Hops |-> FALSE]
    /\ adding = {} /\ dropping = {}
    /\ alerts = [s \in Hops |-> <<>>]
    /\ crashes = 0

Lookup(c) == \/ LookupJoin(c) \/ LookupStart(c) \/ LookupAnswered(c)
             \/ LookupSampled(c) \/ LookupFailed(c) \/ LookupRemoved(c)

Start(c) == UserStart(c) \/ LoadCheckpoint(c) \/ StartHandle(c) \/ Evicted(c)

Change(c) == \/ UserRemove(c) \/ UserRemoved(c)
             \/ UpdateHops(c) \/ HopsAdded(c) \/ HopsSaved(c) \/ HopsRemoved(c)

OnAlert(s) == \/ OnAddTorrent(s) \/ OnTorrentRemoved(s)
              \/ OnMetadataReceived(s) \/ OnSaveResumeData(s)

Libtorrent(s) == SessionReady(s) \/ AsyncAddTorrent(s) \/ MetadataArrives(s)

Next == \/ \E c \in Coro : Lookup(c) \/ Start(c) \/ Change(c)
        \/ \E s \in Hops : Libtorrent(s) \/ OnAlert(s)
        \/ \E h \in Handle : DropTorrent(h)
        \/ CacheExpires
        \/ Crash

Spec == Init /\ [][Next]_vars

\* What the event loop and libtorrent owe: a suspended coroutine is resumed once
\* what it awaits is done (every wait but get_handle's has a timeout or an end),
\* alerts are popped every second, scheduled callbacks run, load_checkpoints goes on.
Resume(c) == \/ LookupAnswered(c) \/ LookupSampled(c) \/ LookupFailed(c) \/ LookupRemoved(c)
             \/ StartHandle(c) \/ Evicted(c) \/ UserRemoved(c)
             \/ HopsAdded(c) \/ HopsSaved(c) \/ HopsRemoved(c)

Fairness == /\ \A c \in Coro : WF_vars(Resume(c))
            /\ \A s \in Hops : WF_vars(OnAlert(s)) /\ WF_vars(SessionReady(s))
            /\ WF_vars(\E h \in Handle : DropTorrent(h))
            /\ WF_vars(LoadCheckpoint(Loader))

FairSpec == Spec /\ Fairness
-----------------------------------------------------------------------------
(***************************************************************************)
(* Properties.                                                             *)
(***************************************************************************)

\* Every variable has the shape the code gives it.
TypeOK ==
    /\ downloads \in Download \cup {NoDownload}
    /\ requests \in [download : Download \cup {NoDownload}, pending : Int]
    /\ cached \in BOOLEAN
    /\ obj \in [Download -> [hidden : BOOLEAN, hops : Hops, handle : Handle \cup {NoHandle},
                             closed : BOOLEAN, added : FutureState, metainfo : FutureState]]
    /\ co \in [Coro -> [call : AllCalls \cup {"none"}, at : Places,
                        dl : Download \cup {NoDownload}, victim : Download \cup {NoDownload},
                        hops : Hops \cup {NoHops}]]
    /\ running \in Coro \cup {NoCoro}
    /\ conf \in Hops \cup {NoHops}
    /\ loading \in BOOLEAN
    /\ session \in [Hops -> {"absent", "creating", "ready"}]
    /\ torrent \in [Hops -> Handle \cup {NoHandle}]
    /\ known \in [Hops -> BOOLEAN]
    /\ adding \subseteq Hops
    /\ alerts \in [Hops -> Seq([type : {"added", "removed", "metadata", "saved"}, handle : Handle])]
    /\ dropping \subseteq Handle
    /\ crashes \in Nat

\* A Download only ever holds a handle of the session for its own hop count,
\* whatever alerts of its predecessors are still on their way: a download that
\* asks for anonymity is never given a torrent of another session (process_alert's
\* comparison of the hop counts, start_handle's reuse of an existing handle).
HandleInOwnSession ==
    \A d \in Download : obj[d].handle # NoHandle => obj[d].handle.hops = obj[d].hops

\* Two Downloads in use never hold the same torrent (start_handle reuses handles).
HandleExclusive ==
    \A d, e \in Download :
        d # e /\ ~Fresh(d) /\ ~Fresh(e) /\ ~obj[d].closed /\ ~obj[e].closed
          /\ obj[d].handle # NoHandle => obj[d].handle # obj[e].handle

\* The checkpoint of a listed download has the hop count it runs with: a crash in
\* the middle of update_hops never brings it back with less anonymity.
CheckpointKeepsHops ==
    downloads # NoDownload /\ ~obj[downloads].hidden /\ ~obj[downloads].closed
        => conf = obj[downloads].hops

\* A lookup never shuts down a download of the user, also when it waited on it
\* (get_metainfo's finally removes its own local variable "download"). Kept with sessions
\* that exist; a lookup that waits for its session is listed beside a download of the user,
\* and a second lookup, which waits on that download uncounted, then leaves as the last one.
LookupSparesUser ==
    [][\A d \in Download :
          downloads = d /\ ~obj[d].hidden /\ ~obj[d].closed /\ obj'[d].closed =>
             \E c \in Coro : co'[c].at \in {"removing", "rehoming"} /\ co'[c].victim = d]_vars

\* A Download that was shut down is unlisted in the end.
ClosedLeaves ==
    \A d \in Download : (downloads = d /\ obj[d].closed) ~> downloads # d

\* After a restart the checkpointed download is listed again, unless its file was
\* removed meanwhile.
RestartRestores ==
    (loading /\ conf # NoHops) ~> (conf = NoHops \/ downloads # NoDownload)

(***************************************************************************)
(* What the code's comments and tests promise and the code does not keep.  *)
(***************************************************************************)

\* A Download that was shut down stays listed only while some remove_download
\* that will unlist it is still suspended: no dead entry stays in downloads. Kept with
\* sessions that exist; a start that waits for its session lists a Download after its removal.
ClosedIsLeaving ==
    downloads # NoDownload /\ obj[downloads].closed =>
        \E c \in Coro : co[c].at \in Removals /\ co[c].victim = downloads

\* Only a client that removes or rehomes its download unlinks a checkpoint:
\* "Leave the checkpoint. Any checkpoint that exists will belong to the download
\* we are currently starting" (start_handle).
CheckpointIsTheUsers ==
    [][conf # NoHops /\ conf' = NoHops =>
          \E c \in Coro : co[c].at \in {"removing", "rehoming"} /\ co'[c] # co[c]]_vars

\* A hidden Download in use is listed as a request, so that a start by the user
\* replaces it instead of returning it.
HiddenIsRequested ==
    Idle /\ downloads # NoDownload /\ obj[downloads].hidden /\ ~obj[downloads].closed
        => requests.download = downloads

\* A hidden Download in use has a lookup that will remove it: "Keep metainfo
\* downloads in self.downloads for now because we will need to remove it later".
LookupCleansUp ==
    downloads # NoDownload /\ obj[downloads].hidden /\ ~obj[downloads].closed =>
        \E c \in Coro : co[c].dl = downloads /\ co[c].at # "idle"

\* Every torrent in a session has a Download that will remove it or is about to be
\* removed: "A torrent got added, but the download is already removed" (process_alert).
TorrentIsOwned ==
    \A s \in Hops : torrent[s] # NoHandle =>
        \/ \E d \in Download : ~Fresh(d) /\ obj[d].handle = torrent[s]
        \/ torrent[s] \in dropping
        \/ \E i \in 1..Len(alerts[s]) : alerts[s][i] = Alert("added", torrent[s])

\* A download comes into the table by a call that starts it, never as the late
\* effect of a change to a download that was removed meanwhile.
RemovedStaysRemoved ==
    [][downloads = NoDownload /\ downloads' # NoDownload =>
          \E c \in Coro : co[c].at = "idle" /\ co'[c].at # "idle"]_vars
=============================================================================
