--------------------------------- MODULE Feeds ---------------------------------
(***************************************************************************)
(* core/rss and core/watch_folder: two tasks of the session that look at   *)
(* a feed, or at a folder, every now and then and hand what is new to the  *)
(* database and to the DownloadManager.                                    *)
(*                                                                         *)
(* A task that is cancelled takes no further step.  What it was waiting    *)
(* for is cancelled with it.                                               *)
(***************************************************************************)
EXTENDS Integers, FiniteSets

CONSTANTS
    Url,         \* feeds that exist
    Entry,       \* torrents that may be in a feed
    File,        \* .torrent and .magnet files that may be in the folder
    Magnet,      \* those that hold a magnet link
    Content(_),  \* the infohash of each file
    Zones,       \* how far west of Greenwich a computer may be, in the units of clock; east < 0
    MaxChanges   \* bound on what users and servers do

ASSUME FeedsAssumption == Magnet \subseteq File /\ MaxChanges \in Nat /\ Zones \subseteq Int

VARIABLES
    zone,           \* where this computer is
    feed, modified, \* what each feed holds, and the time at which it changed last
    clock,          \* the servers' time
    answered_error, \* history: the server answered with an error since then
    watchers,       \* urls that RSSWatcherManager has a watcher for
    saved_urls,     \* "rss/urls" in the file
    check,          \* where the task of each watcher is
    last_modified,  \* the date of the last answer, 0: none
    previous_entries, todo, \* what it read last, and what of it is to be resolved
    tried,          \* history: entries that were resolved, or could not be
    folder,         \* files in the watch folder
    task,           \* where the task of each file is
    listed,         \* infohash -> "none", "partial" (not in a libtorrent session) or "added"
    session,        \* ltsessions[hops]: "absent", "creating", "ready" or "cancelled"
    changes

rssVars   == <<zone, feed, modified, clock, answered_error, watchers, saved_urls, check,
               last_modified, previous_entries, todo, tried>>
watchVars == <<folder, task, listed, session>>
feedVars  == <<rssVars, watchVars, changes>>

Infohash == {Content(f) : f \in File}

FeedsInit ==
    /\ zone \in Zones
    /\ feed = [u \in Url |-> {}] /\ modified = [u \in Url |-> 0] /\ clock = 1
    /\ answered_error = [u \in Url |-> FALSE]
    /\ watchers = {} /\ saved_urls \in SUBSET Url
    /\ check = [u \in Url |-> "none"] /\ last_modified = [u \in Url |-> 0]
    /\ previous_entries = [u \in Url |-> {}] /\ todo = [u \in Url |-> {}]
    /\ tried = [u \in Url |-> {}]
    /\ folder = {} /\ task = [f \in File |-> "none"]
    /\ listed = [i \in Infohash |-> "none"] /\ session = "absent"
    /\ changes = 0
-----------------------------------------------------------------------------
(***************************************************************************)
(* RSS.                                                                    *)
(***************************************************************************)
Bounded == changes < MaxChanges /\ changes' = changes + 1

\* The server's clock is fine enough to tell two changes apart.
FeedChanges(u, entries) ==
    /\ Bounded /\ entries # feed[u]
    /\ feed' = [feed EXCEPT ![u] = entries]
    /\ clock' = clock + 1 /\ modified' = [modified EXCEPT ![u] = clock + 1]
    /\ answered_error' = [answered_error EXCEPT ![u] = FALSE]
    /\ UNCHANGED <<zone, watchers, saved_urls, check, last_modified, previous_entries, todo, tried,
                   watchVars>>

\* Watchers that are not listed any more are stopped, new ones start from nothing.
Watch(urls) ==
    /\ watchers' = urls
    /\ check' = [u \in Url |-> IF u \notin urls THEN "none"
                               ELSE IF u \in watchers THEN check[u] ELSE "sleeping"]
    /\ last_modified' = [u \in Url |-> IF u \in watchers THEN last_modified[u] ELSE 0]
    /\ previous_entries' = [u \in Url |-> IF u \in watchers THEN previous_entries[u] ELSE {}]
    /\ todo' = [u \in Url |-> IF u \in watchers \cap urls THEN todo[u] ELSE {}]

\* The endpoint sets "rss/urls" but does not write the file.
UpdateFeeds(urls) ==
    /\ Bounded /\ Watch(urls)
    /\ UNCHANGED <<zone, feed, modified, clock, answered_error, saved_urls, tried, watchVars>>

\* Every minute, but at most as often as the server wants.
Check(u) ==
    /\ check[u] = "sleeping"
    /\ check' = [check EXCEPT ![u] = "fetching"]
    /\ UNCHANGED <<zone, feed, modified, clock, answered_error, watchers, saved_urls, last_modified,
                   previous_entries, todo, tried, watchVars, changes>>

\* No answer: the next check asks again.
BugDate(u) == clock
Date(u)    == last_modified[u]
FetchFails(u) ==
    /\ check[u] = "fetching"
    /\ check' = [check EXCEPT ![u] = "sleeping"]
    /\ last_modified' = [last_modified EXCEPT ![u] = Date(u)]
    /\ UNCHANGED <<zone, feed, modified, clock, answered_error, watchers, saved_urls,
                   previous_entries, todo, tried, watchVars, changes>>

\* The request is conditional on the date of the last answer.  That date is in GMT; mktime
\* takes it for local time: it is read as many hours later as the computer is west.
Condition(u) == IF last_modified[u] = 0 THEN 0 ELSE last_modified[u] + zone

\* Any answer sets the date of the next condition: also one that brings no content.
Fetched(u, status) ==
    /\ check[u] = "fetching"
    /\ status = "NotModified" => Condition(u) >= modified[u]
    /\ last_modified' = [last_modified EXCEPT ![u] = clock]
    /\ answered_error' = [answered_error EXCEPT ![u] = @ \/ status = "Error"]
    /\ IF status = "OK"
       THEN LET new == feed[u] \ previous_entries[u] IN
            /\ previous_entries' = [previous_entries EXCEPT ![u] = feed[u]]
            /\ todo' = [todo EXCEPT ![u] = new]
            /\ check' = [check EXCEPT ![u] = IF new = {} THEN "sleeping" ELSE "resolving"]
       ELSE /\ check' = [check EXCEPT ![u] = "sleeping"]
            /\ UNCHANGED <<previous_entries, todo>>
    /\ UNCHANGED <<zone, feed, modified, clock, watchers, saved_urls, tried, watchVars, changes>>

\* The torrent file is added to the database, or an error of the kinds that are expected
\* is logged; any other exception ends the watcher's task for good.
Resolve(u, e, outcome) ==
    /\ check[u] = "resolving" /\ e \in todo[u]
    /\ todo' = [todo EXCEPT ![u] = IF outcome = "raised" THEN {} ELSE @ \ {e}]
    /\ check' = [check EXCEPT ![u] = IF outcome = "raised" THEN "dead"
                                     ELSE IF todo'[u] = {} THEN "sleeping" ELSE @]
    /\ tried' = [tried EXCEPT ![u] = @ \cup {e}]
    /\ UNCHANGED <<zone, feed, modified, clock, answered_error, watchers, saved_urls, last_modified,
                   previous_entries, watchVars, changes>>
-----------------------------------------------------------------------------
(***************************************************************************)
(* The watch folder.                                                       *)
(***************************************************************************)
ChangeFolder(f) ==
    /\ Bounded
    /\ folder' = (folder \cup {f}) \ (folder \cap {f})
    /\ UNCHANGED <<rssVars, task, listed, session>>

\* check: the task of every file is replaced.  One that waits for its libtorrent session
\* takes the future with it that everybody else waits for, too.
BugWatched == Magnet
Watched    == File
CheckFolder ==
    /\ folder # {}
    /\ task' = [f \in File |-> IF f \in folder \cap Watched THEN "loading" ELSE task[f]]
    /\ session' = IF \E f \in folder : task[f] = "starting" THEN "cancelled" ELSE session
    /\ UNCHANGED <<rssVars, folder, listed, changes>>

\* A torrent that is listed is left alone; a file that cannot be read is given up.
ProcessTorrentFile(f) ==
    LET i == Content(f) IN
    /\ task[f] = "loading"
    /\ IF f \notin folder \/ listed[i] # "none"
       THEN /\ task' = [task EXCEPT ![f] = "none"]
            /\ UNCHANGED <<listed, session>>
       ELSE /\ listed' = [listed EXCEPT ![i] = IF session = "ready" THEN "added" ELSE "partial"]
            /\ session' = IF session = "absent" THEN "creating" ELSE session
            /\ task' = [task EXCEPT ![f] = IF session \in {"absent", "creating"} THEN "starting" ELSE "none"]
    /\ UNCHANGED <<rssVars, folder, changes>>

SessionCreated ==
    /\ session = "creating" /\ session' = "ready"
    /\ UNCHANGED <<rssVars, folder, task, listed, changes>>

\* start_handle goes on, or is cancelled with the future.
Started(f) ==
    /\ task[f] = "starting" /\ session \in {"ready", "cancelled"}
    /\ task' = [task EXCEPT ![f] = "none"]
    /\ listed' = IF session = "ready" /\ listed[Content(f)] = "partial"
                 THEN [listed EXCEPT ![Content(f)] = "added"] ELSE listed
    /\ UNCHANGED <<rssVars, folder, session, changes>>

UserRemoves(i) ==
    /\ Bounded /\ listed[i] # "none"
    /\ listed' = [listed EXCEPT ![i] = "none"]
    /\ UNCHANGED <<rssVars, folder, task, session>>
-----------------------------------------------------------------------------
\* The components are launched, and their tasks cancelled when the overlays stop.  What is
\* listed then has a checkpoint, from which the next session lists it again.
FeedsStart == Watch(saved_urls)
              /\ UNCHANGED <<zone, feed, modified, clock, answered_error, saved_urls, tried, watchVars,
                             changes>>
FeedsStop ==
    /\ Watch({})
    /\ task' = [f \in File |-> "none"]
    /\ session' = "absent"
    /\ UNCHANGED <<zone, feed, modified, clock, answered_error, saved_urls, tried, folder, listed,
                   changes>>

RssWork(u) ==
    \/ Check(u) \/ FetchFails(u)
    \/ \E status \in {"OK", "NotModified", "Error"} : Fetched(u, status)
    \/ \E e \in Entry, outcome \in {"tried", "raised"} : Resolve(u, e, outcome)
WatchWork == CheckFolder \/ SessionCreated \/ \E f \in File : ProcessTorrentFile(f) \/ Started(f)

RssNext ==
    \/ \E u \in Url : RssWork(u) \/ \E entries \in SUBSET Entry : FeedChanges(u, entries)
    \/ \E urls \in SUBSET Url : UpdateFeeds(urls)
WatchNext ==
    \/ WatchWork
    \/ \E f \in File : ChangeFolder(f)
    \/ \E i \in Infohash : UserRemoves(i)
-----------------------------------------------------------------------------
\* Every variable keeps its shape.
FeedsTypeOK ==
    /\ \A u \in Url : feed[u] \cup previous_entries[u] \cup todo[u] \cup tried[u] \subseteq Entry
    /\ \A u \in Url : modified[u] \in 0..clock /\ last_modified[u] \in 0..clock
    /\ zone \in Zones
    /\ answered_error \in [Url -> BOOLEAN] /\ watchers \cup saved_urls \subseteq Url
    /\ check \in [Url -> {"none", "sleeping", "fetching", "resolving", "dead"}]
    /\ folder \subseteq File /\ task \in [File -> {"none", "loading", "starting"}]
    /\ listed \in [Infohash -> {"none", "partial", "added"}]
    /\ session \in {"absent", "creating", "ready", "cancelled"} /\ changes \in 0..MaxChanges

\* What is new in a feed that stays watched is tried, unless the server answered with an
\* error since, or an exception has ended the watcher: in Greenwich and east of it, the
\* condition of a request never hides what was not read (last_modified, previous_entries).
Tried(u, e) == e \in tried[u] \/ e \notin feed[u] \/ u \notin watchers
               \/ answered_error[u] \/ check[u] = "dead"
NewsIsTried ==
    \A u \in Url, e \in Entry :
        (e \in feed[u] /\ u \in watchers /\ zone <= 0) ~> Tried(u, e)

\* Refuted: west of Greenwich the condition lies ahead of the time at which it is read, and
\* hides what is posted until then.
NewsIsTriedAnywhere ==
    \A u \in Url, e \in Entry : (e \in feed[u] /\ u \in watchers) ~> Tried(u, e)

\* Refuted: "remove torrents that are removed while we are watching".
RemovedWithTheFile ==
    \A i \in Infohash : (listed[i] # "none")
        ~> (listed[i] = "none" \/ \E f \in folder : Content(f) = i)

\* Refuted: a check that comes while a session is being created cancels its creation, and
\* nobody creates it again.
SessionsAreCreated == (session = "creating") ~> (session = "ready")

\* Refuted: what an exception leaves unread is never read, not even if the feed is posted again.
WatchersLive == \A u \in Url : check[u] # "dead"

\* Refuted: an error answer moves the date of the condition past what was never read.
ErrorsHideNothing ==
    \A u \in Url : u \in watchers /\ check[u] = "sleeping" /\ Condition(u) >= modified[u]
                     => previous_entries[u] = feed[u]
=============================================================================
