-------------------------------- MODULE Session --------------------------------
(***************************************************************************)
(* run_tribler.py, core/session.py, core/restapi/rest_manager.py and the   *)
(* start and the end of the DownloadManager: processes that share one state*)
(* directory, each of which looks for a core that runs already, and hands  *)
(* it its torrent, or becomes the core itself.                             *)
(*                                                                         *)
(* Main is the process whose event streams, feeds and watch folder are     *)
(* modelled (Events and Feeds).  Ports are chosen by the operating system: *)
(* the port of a core is named by its process.                             *)
(***************************************************************************)
EXTENDS Events, Feeds

CONSTANTS
    Proc, Main, None,
    Torrent,     \* one process may be given a torrent on the command line
    Key,         \* keys of the API that a user chose, each once; a key that is made is named by
                 \* its process
    Uses,        \* bound: what a behaviour is about besides starts and stops, one of these
    MaxStarts,   \* bound on the starts of processes, if it is about the command line
    MaxAccidents \* bound on crashes, restarts, timeouts, ports that change hands; none with a GUI

ASSUME SessionAssumption == Main \in Proc /\ None \notin Proc \cup Torrent \cup Key
                            /\ Uses \subseteq {"gui", "rss", "watch_folder", "cli"}

VARIABLES
    use,         \* the one of this behaviour
    at,          \* where main() of each process is
    environ,     \* CORE_API_KEY in its environment
    memory,      \* its configuration: "api/key" and "api/http_port_running"
    file,        \* configuration.json
    api_key,     \* the key that the server of its Session asks for
    foreign,     \* ports of past cores that another program got
    target,      \* the core that a process found
    changed,     \* history: cores whose key was changed in the configuration since they listen
    outdated,    \* history: processes that read the configuration of such a core, or before its
                 \* core did again
    uri,         \* the torrent it was given
    shutdown_event, restart_requested,
    checkpoints, \* torrents with a checkpoint on disk
    parts,       \* torrents with a parts file in the download directory
    downloads,   \* process -> the torrents its DownloadManager lists
    to_load,     \* process -> checkpoints that load_checkpoints has not come to
    stopped,     \* process -> downloads that its shutdown has stopped
    database,    \* process -> its metadata store is open
    starts, accidents

configVars == <<memory, file, api_key, changed, foreign, target>>
dmVars  == <<checkpoints, parts, downloads, to_load, stopped, database>>
inputs   == <<use, uri, environ>>
mainVars == <<inputs, at, outdated, shutdown_event, restart_requested, starts, accidents>>
vars == <<eventVars, feedVars, configVars, dmVars, mainVars>>

\* The steps of main(), in order: "off", "keyless", "finding" (and from there "delivering"),
\* "rest", "components", "downloads", "running", "checker", "overlays", "saving", "metadata",
\* "dark".  The API is served from "components" on, until the server is closed.
Serving(p)  == at[p] \in {"components", "downloads", "running", "checker", "overlays", "saving",
                          "metadata"}
Overlays(p) == at[p] \in {"downloads", "running", "checker"}
Loads(p)    == at[p] \in {"running", "checker", "overlays"}

Go(p, step) == at' = [at EXCEPT ![p] = step]
Cli == use = "cli"
NewKey(key) == Cli /\ key \in Key /\ \A p \in Proc : key \notin {environ[p], memory[p].key}
Accident == accidents < MaxAccidents /\ use # "gui" /\ accidents' = accidents + 1

NoConfig == [key |-> None, port |-> None]

SessionInit ==
    /\ EventsInit /\ FeedsInit
    /\ use \in Uses
    /\ use # "rss" => saved_urls = {} /\ zone = 0
    /\ at = [p \in Proc |-> "off"]
    /\ environ = [p \in Proc |-> None]
    /\ memory = [p \in Proc |-> NoConfig] /\ file = NoConfig /\ foreign = {}
    /\ api_key = [p \in Proc |-> None] /\ changed = {}
    /\ target = [p \in Proc |-> None] /\ outdated = {} /\ uri = [p \in Proc |-> None]
    /\ shutdown_event = [p \in Proc |-> FALSE] /\ restart_requested = [p \in Proc |-> FALSE]
    /\ checkpoints = {} /\ parts = {}
    /\ downloads = [p \in Proc |-> {}] /\ to_load = [p \in Proc |-> {}]
    /\ stopped = [p \in Proc |-> {}] /\ database = [p \in Proc |-> FALSE]
    /\ starts = 0 /\ accidents = 0
-----------------------------------------------------------------------------
(***************************************************************************)
(* main(), until it knows whether it is the core.                          *)
(***************************************************************************)
BugNeedsKey(conf) == TRUE
NeedsKey(conf)    == conf.key = None

\* What init_config knows: the file, with the key of the environment.
Configured(p, env) == IF env = None THEN file ELSE [file EXCEPT !.key = env]

\* The Session is built with the configuration, and its server asks for this key from then on.
Build(p, key) == api_key' = [api_key EXCEPT ![p] = key]

\* init_config reads the file; a key in the environment is written to it, also if the port
\* in it is that of another core.  (So is CORE_API_PORT, the port that is asked for.)
ReadConfig(p, env) ==
    LET conf  == Configured(p, env)
        other == {conf.port} \ {p, None}
        mixed == IF conf.key = file.key THEN changed ELSE changed \cup other
    IN  /\ memory' = [memory EXCEPT ![p] = conf]
        /\ file' = conf
        /\ Build(p, conf.key)
        /\ changed' = mixed
        /\ outdated' = IF conf.port \in mixed \ {p}
                       THEN outdated \cup {p} \cup {q \in Proc : memory[q].port = p}
                       ELSE (outdated \cup {q \in Proc : memory[q].port = p}) \ {p}
        /\ Go(p, IF NeedsKey(conf) THEN "keyless" ELSE "finding")
Run(p, torrent, env) ==
    /\ at[p] = "off" /\ starts < (IF Cli THEN MaxStarts ELSE 1) /\ starts' = starts + 1
    /\ p # Main => Cli
    /\ torrent # None => Cli
    /\ env # None => NewKey(env)
    /\ uri' = [uri EXCEPT ![p] = torrent]
    /\ environ' = [environ EXCEPT ![p] = env]
    /\ ReadConfig(p, env)
    /\ UNCHANGED <<use, shutdown_event, restart_requested, accidents, foreign,
                   target, eventVars, feedVars, dmVars>>

\* Without a key it makes one, and writes the configuration.
MakeKey(p) ==
    /\ at[p] = "keyless"
    /\ memory' = [memory EXCEPT ![p].key = p]
    /\ file' = memory'[p]
    /\ Build(p, p)
    /\ Go(p, "finding")
    /\ UNCHANGED <<inputs, changed, outdated, shutdown_event, restart_requested, starts, accidents,
                   foreign, target, eventVars, feedVars, dmVars>>

\* find_api_server takes any answer from the port for one of a core.  The port is that of
\* the configuration it read when it started.
Answers(port) == port # None /\ (Serving(port) \/ port \in foreign)

FindCore(p) ==
    /\ at[p] = "finding"
    /\ Answers(memory[p].port)
    /\ IF uri[p] = None THEN Go(p, "off") /\ UNCHANGED target
       ELSE Go(p, "delivering") /\ target' = [target EXCEPT ![p] = memory[p].port]
    /\ UNCHANGED <<inputs, outdated, shutdown_event, restart_requested, starts, accidents,
                   memory, file, api_key, changed, foreign, eventVars, feedVars, dmVars>>

\* Nobody answers, or not within a second.
FindNobody(p) ==
    /\ at[p] = "finding"
    /\ IF Answers(memory[p].port) THEN Accident ELSE UNCHANGED accidents
    /\ Go(p, "rest")
    /\ UNCHANGED <<inputs, outdated, shutdown_event, restart_requested, starts, configVars,
                   eventVars, feedVars, dmVars>>

\* start_download: PUT /api/downloads of the core, with the key of this process.  The user
\* is not asked for settings (ask_download_settings is off).
Authenticate(p) == memory[p].key = api_key[target[p]]

Given(q, t) ==
    /\ downloads' = [downloads EXCEPT ![q] = @ \cup {t}]
    /\ checkpoints' = checkpoints \cup {t}
    /\ parts' = parts \cup {t}

Deliver(p) ==
    LET q == target[p] IN
    /\ at[p] = "delivering"
    /\ IF Serving(q) /\ q \notin foreign /\ Authenticate(p)
       THEN Given(q, uri[p])
       ELSE UNCHANGED <<downloads, checkpoints, parts>>
    /\ Go(p, "off")
    /\ target' = [target EXCEPT ![p] = None]
    /\ UNCHANGED <<inputs, outdated, shutdown_event, restart_requested, starts, accidents,
                   memory, file, api_key, changed, foreign, eventVars, feedVars, to_load, stopped,
                   database>>
-----------------------------------------------------------------------------
(***************************************************************************)
(* Session.start.                                                          *)
(***************************************************************************)
\* The site listens, then the port is written, with the rest of this configuration.
StartRest(p) ==
    /\ at[p] = "rest"
    /\ memory' = [memory EXCEPT ![p].port = p]
    /\ file' = memory'[p]
    /\ foreign' = foreign \ {p} /\ changed' = changed \ {p}
    /\ Go(p, "components")
    /\ UNCHANGED <<inputs, outdated, shutdown_event, restart_requested, starts, accidents,
                   api_key, target, eventVars, feedVars, dmVars>>

\* DatabaseComponent.prepare.
OpenDatabase(p) == database' = [database EXCEPT ![p] = TRUE]

\* loader.load and ipv8.start: what the configuration enables is launched.
Launch(p) ==
    /\ at[p] = "components"
    /\ Go(p, "downloads")
    /\ OpenDatabase(p)
    /\ IF p = Main THEN FeedsStart ELSE UNCHANGED feedVars
    /\ UNCHANGED <<inputs, outdated, shutdown_event, restart_requested, starts, accidents,
                   configVars, eventVars, checkpoints, parts, downloads, to_load, stopped>>

\* download_manager.initialize and start; a torrent of its own goes over its own API.
StartDownloads(p) ==
    /\ at[p] = "downloads"
    /\ Go(p, "running")
    /\ to_load' = [to_load EXCEPT ![p] = checkpoints]
    /\ target' = [target EXCEPT ![p] = IF uri[p] = None THEN None ELSE p]
    /\ UNCHANGED <<inputs, outdated, shutdown_event, restart_requested, starts, accidents,
                   memory, file, api_key, changed, foreign, eventVars, feedVars, checkpoints, parts,
                   downloads, stopped, database>>

LoadCheckpoint(p, t) ==
    /\ Loads(p) /\ t \in to_load[p]
    /\ to_load' = [to_load EXCEPT ![p] = @ \ {t}]
    /\ downloads' = [downloads EXCEPT ![p] = @ \cup {t}]
    /\ UNCHANGED <<mainVars, configVars, eventVars, feedVars, checkpoints, parts, stopped, database>>

\* "Download on start": a task of the DownloadManager, with the key of the configuration.
DownloadOnStart(p) ==
    /\ Loads(p) /\ target[p] = p
    /\ IF Authenticate(p) THEN Given(p, uri[p]) ELSE UNCHANGED <<downloads, checkpoints, parts>>
    /\ target' = [target EXCEPT ![p] = None]
    /\ UNCHANGED <<mainVars, memory, file, api_key, changed, foreign, eventVars, feedVars, to_load,
                   stopped, database>>

\* The settings endpoint merges a request into the configuration, also one that has another
\* key, and writes it; the import of an older version's settings does the same.  The server
\* goes on asking for the key it was built with.
SettingsWritten(p, key) ==
    /\ Serving(p) /\ use # "gui" /\ (key # memory[p].key => NewKey(key))
    /\ memory' = [memory EXCEPT ![p].key = key]
    /\ file' = memory'[p]
    /\ changed' = IF key = memory[p].key THEN changed ELSE changed \cup {p}
    /\ saved_urls' = IF p = Main /\ Overlays(p) THEN watchers ELSE saved_urls
    /\ UNCHANGED <<mainVars, api_key, foreign, target, eventVars, watchVars, dmVars,
                   zone, feed, modified, clock, answered_error, watchers, check, last_modified,
                   previous_entries, todo, tried, changes>>
-----------------------------------------------------------------------------
(***************************************************************************)
(* The end: the shutdown endpoint or the tray icon, then Session.shutdown. *)
(***************************************************************************)
ShutdownRequest(p, restart) ==
    /\ Serving(p) /\ (restart => Accident) /\ (~restart => UNCHANGED accidents)
    /\ shutdown_event' = [shutdown_event EXCEPT ![p] = TRUE]
    /\ restart_requested' = [restart_requested EXCEPT ![p] = restart]
    /\ UNCHANGED <<inputs, at, outdated, starts, configVars, eventVars, feedVars, dmVars>>

StopChecker(p) ==
    /\ at[p] = "running" /\ shutdown_event[p]
    /\ Go(p, "checker")
    /\ UNCHANGED <<inputs, outdated, shutdown_event, restart_requested, starts, accidents,
                   configVars, eventVars, feedVars, dmVars>>

StopOverlays(p) ==
    /\ at[p] = "checker"
    /\ Go(p, "overlays")
    /\ IF p = Main THEN FeedsStop ELSE UNCHANGED feedVars
    /\ UNCHANGED <<inputs, outdated, shutdown_event, restart_requested, starts, accidents,
                   configVars, eventVars, dmVars>>

\* DownloadManager.shutdown: loading is cancelled, parts files of what is not listed may be
\* removed, then everything that is listed is stopped.
Orphaned(p) == parts \ downloads[p]
StopDownloads(p) ==
    /\ at[p] = "overlays"
    /\ Go(p, "saving")
    /\ to_load' = [to_load EXCEPT ![p] = {}]
    /\ \E clear_orphaned_parts \in BOOLEAN :
          parts' = IF clear_orphaned_parts THEN parts \ Orphaned(p) ELSE parts
    /\ stopped' = [stopped EXCEPT ![p] = downloads[p]]
    /\ UNCHANGED <<inputs, outdated, shutdown_event, restart_requested, starts, accidents,
                   configVars, eventVars, feedVars, checkpoints, downloads, database>>

\* Disk writes end or time out, tasks are cancelled, libtorrent's state is saved.
SaveState(p) ==
    /\ at[p] = "saving"
    /\ Go(p, "metadata")
    /\ target' = [target EXCEPT ![p] = None]
    /\ UNCHANGED <<inputs, outdated, shutdown_event, restart_requested, starts, accidents,
                   memory, file, api_key, changed, foreign, eventVars, feedVars, dmVars>>

CloseDatabase(p) ==
    /\ at[p] = "metadata"
    /\ Go(p, "dark")
    /\ database' = [database EXCEPT ![p] = FALSE]
    /\ UNCHANGED <<inputs, outdated, shutdown_event, restart_requested, starts, accidents,
                   configVars, eventVars, feedVars, checkpoints, parts, downloads, to_load, stopped>>

\* rest_manager.stop: the server waits for its handlers, then cancels them.
CancelHandler(s) ==
    /\ at[Main] = "dark" /\ Cancelled(s)
    /\ UNCHANGED <<feedVars, configVars, dmVars, mainVars>>

Fresh(p) ==
    /\ downloads' = [downloads EXCEPT ![p] = {}] /\ to_load' = [to_load EXCEPT ![p] = {}]
    /\ stopped' = [stopped EXCEPT ![p] = {}] /\ database' = [database EXCEPT ![p] = FALSE]
    /\ shutdown_event' = [shutdown_event EXCEPT ![p] = FALSE]
    /\ restart_requested' = [restart_requested EXCEPT ![p] = FALSE]
    /\ target' = [target EXCEPT ![p] = None]
    /\ UNCHANGED <<checkpoints, parts>>

\* A new session in the same process, without what the endpoint had queued.
FreshEvents(p) ==
    IF p # Main THEN UNCHANGED eventVars
    ELSE /\ events_responses' = <<>> /\ queue' = <<>> /\ writer' = NoWrite
         /\ stream' = [s \in Stream |-> IF stream[s] = "none" THEN "none" ELSE "done"]
         /\ undelivered_error' = 0
         /\ UNCHANGED <<client, sent, got, errors>>

StopRest(p) ==
    /\ at[p] = "dark"
    /\ p = Main => \A s \in Stream : stream[s] \in {"none", "done"}
    /\ Fresh(p) /\ FreshEvents(p)
    /\ IF restart_requested[p]
       THEN ReadConfig(p, environ[p])
       ELSE Go(p, "off") /\ UNCHANGED <<memory, file, api_key, changed, outdated>>
    /\ UNCHANGED <<inputs, starts, accidents, foreign, feedVars>>

Crash(p) ==
    /\ at[p] # "off" /\ Accident
    /\ Go(p, "off")
    /\ Fresh(p) /\ FreshEvents(p)
    /\ IF p = Main THEN FeedsStop ELSE UNCHANGED feedVars
    /\ UNCHANGED <<inputs, outdated, starts, memory, file, api_key, changed, foreign>>

\* The port of a core that is gone is given to another program.
PortReused(p) ==
    /\ Cli /\ ~Serving(p) /\ p \notin foreign /\ Accident
    /\ foreign' = foreign \cup {p}
    /\ UNCHANGED <<inputs, at, outdated, shutdown_event, restart_requested, starts,
                   memory, file, api_key, changed, target, eventVars, feedVars, dmVars>>
-----------------------------------------------------------------------------
Gui(A) == Serving(Main) /\ use = "gui" /\ A /\ UNCHANGED <<feedVars, configVars, dmVars, mainVars>>
Rss(A) == Overlays(Main) /\ use = "rss" /\ A /\ UNCHANGED <<eventVars, configVars, dmVars, mainVars>>
WatchFolder(A) == Overlays(Main) /\ use = "watch_folder" /\ A
                  /\ UNCHANGED <<eventVars, configVars, dmVars, mainVars>>

Start(p)    == MakeKey(p) \/ FindCore(p) \/ FindNobody(p) \/ StartRest(p) \/ Launch(p)
               \/ StartDownloads(p) \/ Deliver(p)
Load(p)     == (\E t \in Torrent : LoadCheckpoint(p, t)) \/ DownloadOnStart(p)
Shutdown(p) == StopChecker(p) \/ StopOverlays(p) \/ StopDownloads(p) \/ SaveState(p)
               \/ CloseDatabase(p) \/ StopRest(p)

Next ==
    \/ \E p \in Proc :
          \/ \E t \in Torrent \cup {None}, env \in Key \cup {None} : Run(p, t, env)
          \/ Start(p) \/ Load(p) \/ Shutdown(p) \/ Crash(p) \/ PortReused(p)
          \/ \E key \in Key \cup {memory[p].key} : SettingsWritten(p, key)
          \/ \E restart \in BOOLEAN : ShutdownRequest(p, restart)
    \/ \E s \in Stream : CancelHandler(s)
    \/ Gui(EventsNext) \/ Rss(RssNext) \/ WatchFolder(WatchNext)

Spec == SessionInit /\ [][Next]_vars

\* The tasks run.  Feeds answer now and then with something else than an error;
\* reading a file takes less than the time between two checks.
Fairness ==
    /\ \A u \in Url : /\ WF_vars(Rss(Check(u)))
                      /\ SF_vars(Rss(\E status \in {"OK", "NotModified"} : Fetched(u, status)))
                      /\ WF_vars(Rss(\E e \in Entry : Resolve(u, e, "tried")))
    /\ WF_vars(WatchFolder(CheckFolder)) /\ WF_vars(WatchFolder(SessionCreated))
    /\ \A f \in File : WF_vars(WatchFolder(ProcessTorrentFile(f) \/ Started(f)))

FairSpec == Spec /\ Fairness
-----------------------------------------------------------------------------
\* Every variable keeps its shape.
TypeOK ==
    LET config == [key : Proc \cup Key \cup {None}, port : Proc \cup {None}] IN
    /\ EventsTypeOK /\ FeedsTypeOK
    /\ use \in Uses /\ memory \in [Proc -> config] /\ file \in config
    /\ environ \in [Proc -> Key \cup {None}] /\ api_key \in [Proc -> Proc \cup Key \cup {None}]
    /\ foreign \cup changed \cup outdated \subseteq Proc /\ target \in [Proc -> Proc \cup {None}]
    /\ uri \in [Proc -> Torrent \cup {None}]
    /\ shutdown_event \in [Proc -> BOOLEAN] /\ restart_requested \in [Proc -> BOOLEAN]
    /\ checkpoints \cup parts \subseteq Torrent
    /\ \A p \in Proc : downloads[p] \cup to_load[p] \cup stopped[p] \subseteq Torrent
    /\ database \in [Proc -> BOOLEAN]
    /\ starts \in 0..MaxStarts /\ accidents \in 0..MaxAccidents

\* What a process sends to the core that it found has the key that the core asks for, also
\* after crashes and restarts and with two cores that write one file, and also if the core
\* was given another key after this process read it; but not if it read the configuration
\* after such a change, or before the core itself did again (outdated).
Authorised ==
    \A p \in Proc \ outdated :
        at[p] = "delivering" /\ Serving(target[p]) /\ target[p] \notin foreign => Authenticate(p)

\* Refuted: the key in the configuration is the one that the server asks for.
KeyInFileIsAskedFor ==
    \A p \in Proc :
        at[p] = "delivering" /\ Serving(target[p]) /\ target[p] \notin foreign => Authenticate(p)

\* The torrent of a file that stays in the folder is listed while the session runs, by this
\* file or by one with the same torrent.
WatchedIsListed ==
    \A f \in File : (f \in folder /\ Overlays(Main))
        ~> (f \notin folder \/ listed[Content(f)] # "none" \/ ~Overlays(Main))

\* Refuted: "Used by run_tribler.py to detect duplicate sessions."
OneCore == \A p, q \in Proc : Serving(p) /\ Serving(q) => p = q

\* Refuted: the parts file of a download that is not loaded yet is removed with the orphans.
PartsOfCheckpointsStay == [][\A t \in checkpoints : t \in parts => t \in parts']_vars

\* Refuted: a download that comes over the API while the others are being stopped is not.
AllStopped == \A p \in Proc : at[p] = "dark" => downloads[p] \subseteq stopped[p]
=============================================================================
