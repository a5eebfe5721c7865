# Tribler in TLA+

Models, checks and proofs about the Python core of Tribler: a BitTorrent client with
anonymous downloads, peer-to-peer search and torrent health. Paths below are relative to
`src/src/tribler/core` unless they say otherwise. `PROJECT.json` maps each definition to
the lines it stands for and lists components, hazards, runs and theorems.

The core is one asyncio process. Almost all code runs in one event loop, so that the
hazards are not data races between lines but what happens **across an `await`**: another
coroutine runs, the table that was read changes. Beside the loop run libtorrent's threads
(they report through alerts that are popped once a second), threads for the database, for
creating libtorrent sessions and for the upgrade, other peers and trackers over UDP, and
other processes with the same state directory. The models interleave whole stretches of
code between two awaits.

## 1. Inventory

| Component | State | Operations and interactions | What makes it correct |
|---|---|---|---|
| **DownloadManager** `libtorrent/download_manager/download_manager.py` | `downloads`, `metainfo_requests`, `metainfo_cache`, `ltsessions`, checkpoint files | `get_metainfo`, `start_download`, `start_handle`, `load_checkpoints`, `remove_download`, `update_hops`, `get_session`, limits, `process_alert`; called by REST, torrent checker, RSS, watch folder | a download is listed, checkpointed and removed once, keeps its anonymity, no lookup touches the user's download; sessions have the limits the user set |
| **Download** `download.py`, `download_state.py`, `download_config.py` | handle, `lt_status`, config, resume data, trackers | stop, resume, recheck, selection, trackers, moves, post-handle operations, alert handlers, `checkpoint` | what the user asked for reaches libtorrent and outlives a restart |
| **Stream** `stream.py` | cursors, piece priorities and deadlines | `enable`, `seek`, readers of HTTP ranges, `close` | a reader gets its pieces; connections do not undo each other's cursors |
| **DHTHealthManager** `dht_health_manager.py` | lookups, transaction ids, bloom filters | `get_health`, `finalize_lookup`; hears libtorrent's DHT packets through alerts | filters hold peers of their own swarm |
| **Content discovery** `content_discovery/` | request cache, `remote_queries_in_progress` | remote select (asks and answers), health gossip, timeouts; stores through MetadataStore | limits hold, results are complete, told once |
| **Torrent checker** `torrent_checker/` | sessions, `_torrents_checked`, TrackerState rows | local and forced checks, `update_torrent_health`; trackers, DHT, swarm | what we gossip we checked; stale results do not replace fresh ones |
| **Tracker sessions, SOCKS5** `torrentchecker_session.py`, `socks5/` | transaction ids, futures by id, the proxy's client | connect, scrape, cleanup; through a proxy or not | an answer reaches its own session; nothing is left behind |
| **MetadataStore** `database/` | SQLite rows | transactions in threads, blobs of torrents, health | each torrent once; chunks are complete |
| **Hidden swarms** `tunnel/community.py` | `download_states`, swarms, circuits, waiting peers | polls downloads, joins and leaves swarms, introduction points, removal of circuits | a swarm is joined while its download needs it; no peer waits for nothing |
| **Events** `restapi/events_endpoint.py` | open streams, queue, undelivered error | notifications and errors to each client | each client gets each event from its first on; none falls out of the list |
| **RSS, watch folder** `rss/`, `watch_folder/` | watchers, dates, entries; tasks of files | timers that fetch and scan; start lookups and downloads | no news and no file is lost |
| **Session, components, REST server** `session.py`, `components.py`, `restapi/rest_manager.py`, `src/src/run_tribler.py` | what is started, port and key in configuration.json | start and shutdown in order, finding a running core | the right core gets the torrent; shutdown loses nothing |
| **Versioning, upgrade, configuration** `versioning/`, `upgrade_script.py`, `tribler_config.py` | version directories, database, marker, configuration | import in a thread, settings | an interrupted import can be repeated; settings survive |

The other parts (conversions, scores, statistics, the web GUI, packaging) keep no state of
interest; `PROJECT.json` lists all of them with what is and is not modelled. What is hard
to test here, with the lines where it bites, is under "hazards" there.

## 2. Modules

How they build on each other: `LtSessions` extends `DHTHealth` and implements it;
`TrackerLists` extends `DownloadControl`; `Session` extends `Events` and `Feeds` and runs
their actions while the core serves; the others stand alone. `MC*` modules give TLC its
instances.

### DownloadManager
Every table is keyed by infohash and no handler touches two entries, so the model keeps
**one infohash**: `downloads`, `requests` (the `MetainfoLookup`), `cached`, `conf` (the
checkpoint file, abstracted to its hop count). `co` holds the coroutines and where each is
suspended; `running` is the one that has not yielded yet, because awaiting a future that is
done does not suspend. `session`, `torrent`, `known`, `adding`, `alerts`, `dropping` are
libtorrent's side. An action is what a handler does between two awaits. `Crash` keeps only
the file.

Choices: only lookups remove hidden Downloads (the REST API does not list them); a
suspended `download.shutdown` lasts any time; `need_save_resume_data` is a free choice;
`adding` is a set, because a replaced AddTorrent task catches the cancellation and adds its
torrent anyway; Downloads that nobody refers to are garbage and their identities are used
again. Sessions in `ColdSessions` are created by the first `get_session`; those in
`Seeded` reach a peer that has the metadata.

### LtSessions and DHTHealth
The libtorrent sessions, one per hop count: the future in `ltsessions`, the thread that
creates the session and reads the limits, the callbacks that wait for the future, the
advanced limits by the half hour; the task that pops the alerts of all sessions in turn;
the shutdown. `get_health`, its timer and the packets the manager overhears are DHTHealth,
where they are heard at once. In LtSessions they wait in the queue, several to a batch,
and **`HealthBehindAlerts`, a theorem, says that the result still implements DHTHealth** (`INSTANCE
DHTHealth WITH asked <- Heard`: a question counts as asked for an infohash when the alert
of it is taken). The timer's task name contains a memory address
(`dht_health_manager.py:53`), so `TaskName` is any name. `ReuseEarly` says whether
libtorrent may reuse a transaction id while another node still owes an answer. No code in
`src/` attaches this manager to a DownloadManager; its tests do.

### DownloadControl and TrackerLists
One Download under all requests of its user. Handlers are functions from worlds (Download,
torrent, queue of alerts, checkpoint) to worlds, so that one handler can call another, as
the code does. libtorrent's status is only known from the last alert that carried it
(`lt_status`); several decisions are taken from it when it is old. Quit, crash and start
go through the checkpoint, also one without resume data, whose parameters are made from
the old metainfo (`resume_from_legacy`). Files have priorities, which three things set: the
selection (`Selected`), the request for one file's priority (`RequestFilePriority`) and the
Stream of a player (`EnableStream`, `CloseReader`, `ClosedStream`). `stream` holds the file of
the download's Stream, which once made stays as long as the Download and makes
`set_selected_files` do nothing; `players` says who waits for a file or plays it. `touched` is a
history: the files whose priority somebody set since the selection was last applied. Nothing
in `src/` switches the share mode on, so its branches are left out.

TrackerLists adds the three lists of trackers (in libtorrent, in the TorrentDef, in the
checkpoint) and the status of each tracker. A save copies the handle's list into the TorrentDef
and from there into the checkpoint (`Saved`, `download.py:577`), so that what a request or the
default trackers changed on one side only is the same everywhere after the next save. `subject`
makes a behaviour about control, about files or about trackers: all of its requests go to
that part, beside stops, resumes, exits and crashes.

### Playback
Stream, its readers and the HTTP handler: pieces with priorities, cursors per connection,
polling loops as actions of their own. Two files of two pieces in the run; `FileLen` and
`Buffer` are constants. A check may lose pieces (`PieceLost`). A read looks up what it needs
in the file that the Stream is on, and returns when that is there, on whichever file the
Stream is by then.

### HiddenSwarms
Downloads change (`DownloadChanges`), the states that are published lag behind
(`last_states`), the community polls those (`PollDownloadManager`) and compares them with
the ones of its last poll. The walk over the infohashes ends when the introduction points
are used up (`Walks`). Circuits break and are built by ipv8; the peers behind them are
added again or wait in `bittorrent_peers`.

### RemoteSelect
Both roles of remote select. `network` is the set of packets ever sent: a packet can be
lost (never received), repeated and overtaken. The requester's database threads are `blobs`
with their stage; two transactions store health and torrents separately, each may fail.
The responder's loop is blocked while `sending`. Sizes of entries are fixed numbers (the
compressor's state is abstracted), gossip is one torrent at a time, `accepted` is a history.

### TorrentHealth and Trackers
TorrentHealth is the health of one torrent under concurrent checks, gossip and restarts.
(Seeders, leechers) is compared as a pair and kept as its rank; `ours` and `failing` are
histories. Time passes in `Tick`. Trackers is what is below one check: the sessions, their
transaction ids and the futures in the socket manager, timeouts, the two cleanups of a
session, the SOCKS5 client with its queue of one reply that UDP sessions share.

### Events, Feeds, Session
Events: `_write_data` awaits one stream after the other and replaces the list at its end.
Feeds: the watchers of RSS feeds with their conditional requests, and the watch folder with
a task per file. The date of a condition is read in the computer's time zone: `Condition` moves
it by `zone`, the distance west of Greenwich (`rss/rss.py:111`). Session: processes that share a state directory; `main()` step by step up
to `Session.start`, the shutdown in its order, crashes, ports that another program gets.
`memory` is what a process has of the configuration, `file` what is on disk, `api_key` the key
that the server of a core asks for, which is that of the configuration when the Session was
built. A user chooses another key by `CORE_API_KEY` in the environment (`Run`) or over the
settings endpoint (`SettingsWritten`, which stands for the import of an older version's
settings too: both merge into the configuration and write it); the running server does not
learn of it.
`use` makes a behaviour about one of the event stream, the feeds, the folder or the
command line: these meet only in starts and stops.

### Upgrade
The import in its thread: settings, checkpoints (a copy takes two steps), three tables in
batches (one transaction each), the marker. Beside it the settings endpoint, which writes
the same configuration file, the removal of the old version, and the database's other
writers.

### Proof modules
Each stands beside the modules it is about, which it extends: `DownloadManagerProofs`
(DownloadManager, Playback), `DHTHealthProofs`, `LtSessionsProofs` (which uses the theorems of
`DHTHealthProofs` through the refinement), `MetadataStoreProofs` (RemoteSelect, Upgrade: what
peers and an older version bring into the store), `TorrentCheckerProofs` (TorrentHealth,
Trackers), `HiddenSwarmsProofs`, `SessionProofs` (Session with Events) and
`TrackerListsProofs` (TrackerLists with DownloadControl). Playback, Trackers and Upgrade
share such a module with another one, so the names of their specifications say whose they are
(`PlaybackSpec`, `TrackersSpec`, `UpgradeSpec`).

## 3. Runs

| Run | Bounds | Properties |
|---|---|---|
| `dm_lookups` | 2 clients and the loader, 3 Downloads, 1 session, 2 alerts in its queue | `LookupSparesUser` |
| `dm_hops` | the same with 2 sessions, both being created, no peer with the metadata | `HandleInOwnSession`, `HandleExclusive`, `CheckpointKeepsHops` |
| `dm_restart` | 2 clients and the loader, 2 Downloads, 1 crash, fairness | `ClosedLeaves`, `RestartRestores` |
| `lt_sessions` | 3 sessions, 1 change of the settings, 2 alerts, 2 infohashes, 2 task names | `LimitsAreCurrent`, `OutstandingIsListed`, `FiltersAreOwn`, `HealthBehindAlerts` |
| `control` | 2 files, one player each, 2 trackers, 2 requests, crashes or exits, 2 alerts | `SelectionApplied`, `StoppedRests`, `OwedIsListed`, `RemovedStaysAway`, `CheckpointFollows`, `StatusIsLatest` |
| `playback` | 2 connections, 2 files of 2 pieces, 3 events (requests, stops, lost pieces), fairness | `NoOrphanCursor`, `ReadsAreComplete`, `ConnectionsEnd` |
| `hs_swarms` | 2 infohashes, 3 circuits, 1 introduction point, 3 events, fairness | `SwarmsFollowStates`, `NobodyWaitsBehindACircuit`, `PeersComeBack`, `SeedingIsIntroduced` |
| `rs_search` | 2 requests, 3 torrents of two sizes, results of every length 0 to 3, 2 responses each | `LimitIsKept`, `ReportedOnce`, `OneTextQuery`, `NothingSkipped` |
| `th_results` | 2 checks, 1 tracker, ranks 0..1, times 2..4 with freshness 1, fairness | `GossipIsOwn`, `CheckedIsStored`, `FreshOwnStays`, `ChecksEnd` |
| `trackers` | 2 sessions, 3 ids, 1 lost connection, fairness | `NothingLeft`, `DuplicatesAreHarmless`, `SessionsEnd` |
| `upgrade` | 1 checkpoint, 3 rows in batches of 3, 2 settings, 2 imports, 2 events | `MarkerMeansImported` |
| `session` | 2 processes, 2 starts, 1 accident, 2 event streams with 3 messages, 1 feed with 2 entries, 3 time zones, 2 files of one torrent, 1 key that a user chose, fairness | `OpenStreamsStayListed`, `NoGaps`, `Authorised`, `WatchedIsListed`, `NewsIsTried` |

Each property is stated in words above its definition. The type invariants (`TypeOK`,
or with the module's name before it, as `FeedsTypeOK`) hold in the same instances when they are
put in the place of the properties. Those of DownloadManager, RemoteSelect, HiddenSwarms
and Playback are theorems; the types that the other proofs need are parts of their invariants.

Why the bounds are enough: an interaction needs one actor on each side of an await and a
third to disturb them. In DownloadManager that is two clients beside libtorrent, with a
third Download so that one is leaving, one is listed and one is starting; two sessions are
needed to confuse their alerts. In RemoteSelect two requests race for the counter, and the
entry of double size ends chunks at the limit and short of it. In TorrentHealth time
covers fresh, stale, and a second result after the stale one. In DownloadControl two
requests and a queue of two alerts give: asked, not yet heard of, asked again, with a crash
in the place of either. In Trackers a third id is needed so that an id can be free, taken
or reused. In Upgrade three rows make two overlapping batches. In Events two streams and
three messages make one stream come or go while the other is written to and a message
waits. All bounds (`Max*`, `Room`, `Long`, `Subjects`, `Topics`, `Uses`, `Announcing`) are
constants or named in the modules, and stand in guards.

Deadlock checking is off: clients may stop calling and the bounded events are used up.

### Fairness
Safety is checked without any. What liveness assumes:

* `DownloadManager.FairSpec`: each wait of a coroutine ends, because every one has a
  timeout or is resumed by the loop (the exception, `get_handle`, is enabled only when its
  future is done); each session's alerts are popped by a periodic task; scheduled
  callbacks and `load_checkpoints` go on. Clients, torrents and metadata are not fair.
* `Playback`: polling loops go on, clients read what they are sent, and a download that
  runs makes progress (weak fairness of `PieceFinished`); players, stops and lost pieces
  are not fair.
* `HiddenSwarms`: polls, published states and tasks are on timers; circuits that are asked
  for are built and closed ones go, which are ipv8's own timers; a session reports its port.
* `TorrentHealth`: tracker sessions and `get_metainfo` have timeouts.
* `Trackers`: coroutines that are ready run, the session's timeout fires, cleanups that are
  scheduled run. Trackers and the proxy owe nothing.
* `Session`: the timers of RSS and the watch folder; a feed that is asked again and again
  answers at some time with something else than an error (strong fairness); a file is read
  in less time than lies between two checks of the folder.

## 4. Proofs

All theorems hold for every value of the constants under the named assumptions of the
modules: null values are not in the sets they stand beside; numbers are naturals or integers;
`HopsAssumption` (finitely many infohashes), `TrackersAssumption` (finitely many trackers, the
default ones among them), `SelectionsAssumption` and `SettingsAssumption` (what a user can
select and set), `LtSessionsAssumption` (the plain session and that of lookups are among the
sessions). Each proof rests on an inductive invariant: it holds initially, one lemma per
group of actions keeps it, `[Next]_vars` keeps it, and it implies the property. None of the
properties below is inductive alone, except beside the types in HiddenSwarms; what has
to be added, and why, is this:

* **DownloadManager: `TypeCorrect`, `OwnSession`** (`IInv`). A handle reaches a Download from
  the session's table or an alert, so `IInv` adds that those only hold handles of their own
  session, and that a suspended coroutine has the Download (and victim and hop count) its
  resumption uses. That a download which asks for anonymity never runs on a torrent of
  another session is then independent of the number of lookups, removals, crashes and late
  alerts.
  **`Exclusive`** says `HandleExclusive` under `NoLookups` (no `get_metainfo` among the
  calls): `OneInv` adds that a Download in use is the listed one and that what a suspended
  removal removes is closed. With lookups TLC refutes both, by Downloads that a lookup was
  evicted from. **`KeepsHops`** says `CheckpointKeepsHops`, under `NoLookups` and
  `StartsAreFirst`: nobody starts a download whose checkpoint is still to be loaded. A start
  that comes earlier keeps the old file, and TLC finds it. `ConfInv` adds that a file without
  a listed download is one that is not loaded yet. Both hypotheses are met by the instance of
  `dm_hops`.
  **`SparesUser`** says `LookupSparesUser`, with any lookups, under `ColdSessions = {}` (the
  libtorrent sessions exist, as in `dm_lookups`). `SpareInv` adds that nobody waits on a
  download of the user while a lookup is requested. For that, a Download whose `start_handle`
  is not over must be known to nobody else while a lookup is requested: it may
  replace the hidden one in the table (`Unseen`). Without the hypothesis TLC refutes the
  property (section 5).
* **Playback: `PlaybackTyped`, `CursorsOwned`, `ReadsComplete`** (`PlaybackInv`). A read that
  waits does so for the pieces of some file at its own offset, and an offset stays within
  the file until the last piece was read; that files are apart is arithmetic with their
  length (`FilesApart`). A cursor is entered by a read only, and a connection that
  has read can only end through `StreamReader.close`, which drops it.
* **DHTHealth: `KeptIsListed`, `OwnFilters`.** An id kept stands for a listed lookup.
  Unless ids are reused early, a kept id has the infohash of the query its node will
  answer, so that answers only reach filters of their own swarm.
* **LtSessions: `Implements`.** The refinement: `SessionsSpec => DHTHealth!Spec` with `asked <-
  Heard`, unless ids are reused early. Alerts wait in the order of the packets (`InOrder`,
  `Paired`: behind the query of an id comes its end, and behind that its next query), in the
  batch that was popped and behind it in the session's queue. So the first alert about an id
  tells what the manager knows of it. `MapsToStep` goes by the alert that is heard; every
  other step stutters or is one of DHTHealth's. **`OwnFiltersBehindAlerts`** follows from it
  and `OwnFilters`. **`KeptBehindAlerts`** holds with early reuse as well, and is proved
  directly. **`LimitsCurrent`** (`CurrentInv`): a session is current, or a callback that waits,
  or the thread that creates it, will make it so; `Threads` says which futures have a thread.
  The exception stays in the property: sessions in `overwritten`, whose thread read older limits.
* **Trackers: `NothingIsLeft`, `NoneSpoiled`**, from one invariant, `SessInv`: an id in the
  table is the one its session has by now, and that session waits or is being cleaned
  (`IdInv`); a session on its way is listed, and a cleanup that is scheduled belongs to one that
  is over (`PhaseInv`); the requests on the network under a session's present id ask for what
  it is doing now, and as long as it connects it never had another id (`SentInv`). An answer
  that comes twice thus carries an old id, or is the first of its kind.
* **Upgrade: `MarkedIsImported`** (`ImportInv`). Unless the old version was removed, each phase of
  the thread has behind it what the phases before import, and in its own phase a row is
  imported, failed, or in a batch that is still to come. What is there stays, in whichever
  way the user, the network and crashes go on (`Monotone`). That every row is in a batch is
  where `BatchSize # 1` is needed: a batch begins at every second row whatever its size
  (`upgrade_script.py:39`), so batches of one would skip half of the rows. The code uses 20.
* **RemoteSelect: `TypeCorrect`, `LimitKept`, `Once`.** `accepted + limit` stays within the
  packet limit while a request waits. For `Once`, a torrent that is still in the `new` of a
  stored blob, or was reported, is in the database, and in only one of them.
  **`TextQueriesAlone`**: the counter is the number of the queries that run, as the cardinality
  of a set (`Counting`), so a text query that finds it at zero is alone. **`NoneSkipped`**: the
  end of a chunk is the least of a set of numbers, whose existence is proved from a
  well-founded relation.
* **TorrentHealth: `OwnGossip`, `Agreement`, `FreshStays`.** A row with `self_checked` was
  written by a check of ours, whatever was reported in between; results in memory equal
  the row as long as the row is our own.
* **HiddenSwarms: `TypeCorrect`, `SwarmsFollow`, `NobodyWaits`.** Inductive beside the types,
  because a walk joins and leaves by the same states it records, and the peers of a closing
  circuit are dealt with before the loop runs on, whichever circuits close with it.
* **TrackerLists with DownloadControl: `SelectionReaches`, `StoppedStays`, `OwedStays`,
  `RemovedAway`, `FollowsTheUser`, `ShownIsLatest`**, from one invariant, `Invariance`.
  Handlers are functions of worlds. Nearly all of them are `Quiet` or `Calm`: one transitive
  relation says all they may change, so a handler that calls three others is three uses of it.
  `IInv` adds: the handle comes with the one add alert, before all that tell of saved resume
  data (`HandleInv`); the task of the operations works on all that is owed (`OwedInv`);
  a torrent without its handle is still to be saved, so that its list becomes the TorrentDef's
  and the checkpoint's (`FollowInv`); libtorrent fetches of the files that nobody touched
  those that are selected, as soon as the download knows its metadata (`Fetches`); the newest
  alert about a tracker tells what libtorrent knows of it (`StatusInv`).
  `SelectionReaches` is about files that nobody played or gave a priority since the
  selection was applied: for the others the code does not keep it (section 5).
* **Session with Events: `CoresAnswer`** (`KeysInv`): a port in the file comes with the key that
  the core at this port asks for, unless the configuration of that core was `changed` since it
  listens; the same holds of what a process has in memory, unless it is `outdated`; and a
  process that looks for a core has a key, which its own server would ask for (`Steps`).
  `outdated` is the history of the two ways in which a process has a wrong key. It read the
  configuration of a core after it was changed: that is `KeyInFileIsAskedFor`, which the code
  does not keep (section 5). Or it read it before the core itself did again: two that start at
  once both make the first key, the core restarts with the other's key, and a third still
  looks for it with the key before. A key that is changed after a process read the file does no
  harm, as the server goes on asking for the one it was built with.
  **`ClientsStay`, `NothingMissed`** (`StreamsInv`, `WriterInv`): the queue and the message being
  written continue what was sent; a listed stream has this message or the one before,
  depending on the side of the writer it is on; those processed are the streams before
  the writer but for clients that are gone. `WriterInv` ends when the server is closed.

Only model-checked:

* liveness under fairness, which needs ENABLED: `ClosedLeaves`, `RestartRestores`,
  `ConnectionsEnd`, `PeersComeBack`, `SeedingIsIntroduced`, `ChecksEnd`, `SessionsEnd`,
  `WatchedIsListed`, `NewsIsTried`. Feeds has no other properties.

Every invariant and every action property that a run checks is the statement of a theorem.

## 5. Where the code and its comments disagree

The modules state these under "Refuted", or under what the comments promise and the code
does not keep. TLC refutes each when it takes the place of the properties in the named run
(with the change that is given; properties with `~>` need the fairness of the run).

| Property | Run | What the code does |
|---|---|---|
| `CheckpointIsTheUsers` | `dm_lookups`, calls "lookup" and "load" | a lookup that comes before `load_checkpoints` reaches the file ends by unlinking the user's checkpoint ("Leave the checkpoint. Any checkpoint that exists will belong to the download we are currently starting", `download_manager.py:763`) |
| `RemovedStaysRemoved` | `dm_hops` | a download removed while `update_hops` waits is started again (`:973`) |
| `LookupCleansUp` | `dm_lookups` | a lookup pops the request of a newer one, whose hidden Download stays (`:608`) |
| `HiddenIsRequested` | `dm_lookups`, `ColdSessions = {s0}` | a hidden Download is listed without its request until the session exists (`:586`) |
| `TorrentIsOwned` | `dm_lookups` | a torrent whose add alert comes during a removal stays in its session |
| `LookupSparesUser` | `dm_lookups`, `Hops = {s0, s1}`, `ColdSessions = {s1}`, calls "lookup" and "start" | a lookup that waits for its session lists its request when a download of the user has been listed meanwhile; another lookup, which waits on that download without being counted, then leaves as the last one and removes it with its content (`:604`) |
| `ClosedIsLeaving` | `dm_lookups`, `ColdSessions = {s0}` | a Download removed before its session existed evicts a lookup and lists itself again |
| `NoLimitIsOverwritten` | `lt_sessions` | the thread that creates a session overwrites newer limits with those it read before |
| `InfiniteIsMax` | `lt_sessions` | half an hour without a limit beside one with a limit counts as 1 (comment at `:871`) |
| `AlertsAreTaken` | `lt_sessions`, a hop count in `NoServer`, `SessionsFairness` | one session that could not be created keeps the alerts of those after it from being popped |
| `ShutdownIsWhole` | `lt_sessions` | shutdown raises when the plain session is still being created |
| `LookupEnds` | DHTHealth with `FairSpec`, two task names | two timers with one task name: the first lookup never ends |
| `FiltersAreOwn` | `lt_sessions`, `ReuseEarly = TRUE` | another node's answer to the id's earlier use |
| `StaysStopped` | `control` | a recheck right after a stop runs on; after a crash a stopped download may run |
| `NoOperationLost` | `control` | operations asked for while others ran are overwritten (`download.py:364`) |
| `ShownIsFetched` | `control` | the request for one file's priority, and playing a file that is not selected, change what is fetched; `get_files` goes on showing the file as it was selected (`restapi/downloads_endpoint.py:587`, `stream.py:94`) |
| `SelectionTaken` | `control` | a selection is answered as a success and forgotten when there is no handle yet, or once any file was played: the Stream stays (`download.py:795`) |
| `StopIsNoted` | `control` | `stop` closes the Stream first, which raises without a handle, before `user_stopped` is set (`download.py:999`) |
| `RefusedIsNotAdded`, `AddedIsAnnounced` | `control` | a request that fails has added its tracker; an added tracker is not announced to (`downloads_endpoint.py:744`) |
| `StatusOfAddedIsNew` | `control` | a tracker that was removed and added between two polls shows its old status, not "Not contacted yet" |
| `OneConnection`, `OwnFile` | `playback` | two connections are registered at a time (comment at `stream.py:274`); a request for another file moves the Stream under its readers |
| `ReadsAreComplete` without `OnFile`'s case of a read that waits (`file_index = reader[c].file` alone) | `playback`, `FileLen = 3` | a read that began when the Stream was on another file waits for pieces of that one, and returns bytes of its own file that are not there (`stream.py:309`) |
| `PrioritiesAreReset` | `playback` | priorities stay raised after the reader was closed |
| `RemovalFinishes`, `ConnectionsEndRemoved` | `playback` | a connection of a removed download polls on for ever (`download_manager.py:917`) |
| `NoChangeMissed`, `SwarmHopsAreCurrent` | `hs_swarms`, `Hops <- MCHops2` for the second | changes after the last introduction point are missed; a swarm keeps the hop count it was joined with |
| `FirstEntryIsAdded` | `rs_search`, `c` of size 3 | an entry larger than a packet behind others makes an empty chunk and sends the index back to the start (`database/orm_bindings/torrent_metadata.py:173`) |
| `ResponderStays` | `rs_search` | the timeout comes while the response is being stored |
| `IntervalKept` | `th_results` | popular and old torrents overlap: a torrent is checked twice at a time (`torrent_checker.py:267`, against `:34`) |
| `DeadAfterMax` | `th_results`, `MaxFailures = 3` | one failed session is counted twice |
| `WaitersAreListed` | `trackers` | the second cleanup of a session pops the future of another that drew its id |
| `AssociatedIsGranted` | `trackers` | a client that lost its connection counts as associated as soon as it dials again (`socks5/client.py:190`) |
| `FailuresAreSummed` | `upgrade` | batches overlap and a tracker's failures are added twice (`upgrade_script.py:35`) |
| `MarkedIsWhole`, `CurrentIsKept` | `upgrade` | a file that was being copied at a crash stays half; a file that appears between look and copy is overwritten |
| `SetReadsBack` | `upgrade` | a setting whose section is missing is not set, only its section is made |
| `FileIsWhole` | `upgrade` | a crash inside a write loses all settings |
| `EventsArrive`, `ErrorsAreDelivered` | `session` | one client that stops reading stops the events of all; the kept error is lost with its client |
| `RemovedWithTheFile` | `session` | "remove torrents that are removed while we are watching" (`watch_folder/manager.py:17`) is not done |
| `SessionsAreCreated` | `session` | a check of the folder that comes while a libtorrent session is being created cancels its future for good |
| `WatchersLive`, `ErrorsHideNothing` | `session` | an exception ends a watcher; an error answer moves the date past what was not read |
| `OneCore` | `session` | two processes that start at once both become the core |
| `NewsIsTriedAnywhere` | `session` | west of Greenwich the date of the conditional request lies hours ahead (`mktime` of a GMT date, `rss/rss.py:111`): what is posted until then is answered with 304, and never read if nothing is posted after it |
| `KeyInFileIsAskedFor` | `session` | a key that is set over the settings endpoint, by an import or by `CORE_API_KEY` of a process that finds a core is in the file at once, but the running server asks for the one it was built with (`restapi/rest_manager.py:181`): whoever reads the file then is refused |
| `PartsOfCheckpointsStay`, `AllStopped` | `session` | a shutdown before all checkpoints are loaded removes their parts files; downloads that come over the API during shutdown are not stopped |

Seen while modelling, without a property: `create_introduction_point` calls `listen_port()` on
a future (`tunnel/community.py:406`); `on_save_resume_data_alert` swaps the limits of
connections and uploads (`download.py:561`); `save_resume_data` looks for the key
"save_resume_data", which `futures` never has (`:843`); `resume()` is not checkpointed; moving
the storage before the metadata is known changes only the config; `bool("False")` in
`_copy_if_exists` (`upgrade_script.py`); `perform_upgrade` does not ask `can_upgrade`;
`update_feeds` does not
write the configuration; `find_api_server` takes any HTTP answer for a core's; processes that
make the first key at once overwrite each other's, and a core that restarts may come back with
another (`run_tribler.py:183`); `start_download` of `run_tribler.py` repeats without end on
401; exceptions of the SOCKS5 client reach the checker raw, without `is_failed`.

## 6. Plan

All safety properties of the runs are proved. Open: an abstract DownloadManager, a table that
the user alone changes, and the part of the detailed one that implements it (lookups do not,
nor do removals beside starts: section 5); the Downloads of several infohashes at a time; the
exit nodes' cache and the strategy of discovery, if IPv8 is modelled.

## 7. Not modelled

libtorrent's protocol, IPv8's, SQL and SQLite's own guarantees, file contents, text and byte
formats, scores in floating point, statistics, the web GUI. In the modelled parts: the DHT
readiness task and proxy settings of DownloadManager; the rest of a popped batch of alerts
that a KeyError loses (`download_manager.py:476`); tiers of trackers, trackers of the
torrent_info at a change of hops, peer counts in a tracker's status; the priorities of pieces
inside DownloadControl (Playback has them), a second player of one file, checkpoints
disabled for hidden lookups (`download.py:545`; DownloadManager has the lookups); the `safe_seeding` branch of
`sesscb_states_callback` inside DownloadControl (the change of hops is in DownloadManager);
limits of a single download; a crash in the middle of the copy of the whole database; rows of
an old database without a ChannelNode, whose state the import skips
(`upgrade_script.py:311`); an event that cannot be encoded, which is dropped, and an exception
other than a reset connection, which ends the task of the event queue
(`restapi/events_endpoint.py:185`); a configured port that cannot be bound and `CORE_API_PORT`
(a port is named by its process); settings that set a key to null; a change of the time zone,
or to summer time, while feeds are watched; the
check for new versions; a second GUI client that asks for settings before a torrent is
added (`ask_download_settings` is off); `check_random_tracker`, which nothing in the
application calls.

## Running

    tlc -workers 2 -config DM_hops.cfg MCDownloadManager.tla
    tlapm DownloadManagerProofs.tla
