---------------------------- MODULE DownloadControl ----------------------------
(***************************************************************************)
(* How the user's wishes for one download (stop, resume, check, these      *)
(* files, play one, only the metadata, default trackers) reach libtorrent  *)
(* and the checkpoint: downloads_endpoint.py, Download, Stream,            *)
(* DownloadConfig and DownloadState.  libtorrent answers with alerts that  *)
(* wait in a queue, its status is only known from the last alert that      *)
(* carried it, and what the checkpoint says was true when it was written.  *)
(* Files have priorities here; those of pieces are left out.               *)
(***************************************************************************)
EXTENDS Integers, FiniteSets, Sequences, SequencesExt

CONSTANTS
    File,          \* files of the torrent
    Selections,    \* the sets of files a user may select
    AutoManaged,   \* the setting auto_managed, for new downloads
    SeedingStops,  \* the seeding limits are reached as soon as the torrent seeds
    HasCompleted,  \* a directory for completed downloads is configured
    Tracker,       \* trackers a torrent may have
    Default,       \* those of the file of default trackers
    Subjects,      \* bound: what a behaviour's requests are about: "control", "files" or "trackers"
    MaxEvents,     \* bound on requests, crashes and exits
    MaxAlerts      \* bound on the alerts that wait, for libtorrent and for requests

ASSUME SelectionsAssumption == Selections \subseteq SUBSET File /\ {File} \subseteq Selections \ {{}}
ASSUME SettingsAssumption   == AutoManaged \in BOOLEAN
ASSUME TrackersAssumption   == Default \subseteq Tracker /\ IsFiniteSet(Tracker)

VARIABLES
    subject,   \* the one of this behaviour
    defaults,  \* the trackers in the file of default trackers, if there is one
    download,  \* the Download object with its config and its tasks
    torrent,   \* external: the torrent in libtorrent
    alerts,    \* external: alerts that _task_process_alerts has not popped yet
    disk,      \* the checkpoint file
    session,   \* "up", "quitting" or "down"
    waiting,   \* what waits for a checkpoint: the "task" or the "exit"
    rest,      \* history: the user asked for it to rest, and nothing excuses it if it runs
    owed,      \* history: operations asked for and neither done nor asked for while others ran
    events

vars == <<subject, defaults, download, torrent, alerts, disk, session, waiting, rest, owed, events>>

Op    == {"trackers", "backup"}
Flags == [paused : BOOLEAN, auto : BOOLEAN]
Dirs  == {"saveas", "completed"}

\* DownloadConfig, as far as it is not constant.
Config == [user_stopped : BOOLEAN, auto_managed : BOOLEAN, stop_after_metainfo : BOOLEAN,
           files : Selections, post_handle_ops : SUBSET Op, dest : Dirs]

NoStatus == [known |-> FALSE, paused |-> FALSE, auto |-> FALSE, state |-> "none"]
Absent   == [present |-> FALSE, paused |-> FALSE, auto |-> FALSE, state |-> "none",
             meta |-> FALSE, wanted |-> {}, path |-> "saveas", dirty |-> FALSE,
             trackers |-> <<>>, due |-> {}, results |-> [t \in Tracker |-> "none"]]
NoTask   == [at |-> "none", remaining |-> {}]

Alert(kind) == [kind |-> kind]

\* Handlers are functions from worlds to worlds: several of them make one step.
World     == [d |-> download, t |-> torrent, q |-> alerts, f |-> disk]
Become(x) == download' = x.d /\ torrent' = x.t /\ alerts' = x.q /\ disk' = x.f

Valid(x)  == x.d.handle /\ x.t.present
-----------------------------------------------------------------------------
(***************************************************************************)
(* Download.                                                               *)
(***************************************************************************)

\* DownloadState.get_status.
Status(s) == IF ~s.known THEN "STOPPED"
             ELSE IF s.paused THEN IF s.auto THEN "QUEUED" ELSE "STOPPED"
             ELSE s.state

SetFlags(x, paused, auto) ==
    [x EXCEPT !.t.paused = paused, !.t.auto = auto,
              !.t.dirty = @ \/ paused # x.t.paused \/ auto # x.t.auto]

\* With a handle its trackers replace those of the TorrentDef.
BugSavedTrackers(x) == x.d.trackers
SavedTrackers(x)    == IF x.d.handle THEN ToSet(x.t.trackers) ELSE x.d.trackers

\* on_save_resume_data_alert: the flags are those of the last status, the trackers those of
\* the handle, the rest is the config of this moment.  (Checkpoints are only disabled for
\* the hidden lookups of DownloadManager.)
Saved(x) ==
    LET flags == IF x.d.lt_status.known
                 THEN [paused |-> x.d.lt_status.paused, auto |-> x.d.lt_status.auto]
                 ELSE x.d.flags
        trackers == SavedTrackers(x)
    IN  [x EXCEPT !.d.flags = flags, !.d.resumable = TRUE, !.d.trackers = trackers,
                  !.f = [config |-> x.d.config, flags |-> flags, meta |-> x.d.meta,
                         trackers |-> trackers, resumable |-> TRUE]]

\* checkpoint with an existing file: nothing without a handle, or when libtorrent has
\* nothing new.
Checkpoint(x) ==
    IF Valid(x) /\ x.t.dirty
    THEN [x EXCEPT !.t.dirty = FALSE, !.q = Append(@, Alert("save"))]
    ELSE x

\* set_selected_files of what the config has selected: nothing once there is a Stream.
\* (Nothing switches the share mode on.)
BugSelected(x) == x
Selected(x) ==
    IF ~Valid(x) \/ ~x.d.meta THEN x
    ELSE IF x.d.stream # {} THEN [x EXCEPT !.d.touched = File]
    ELSE [x EXCEPT !.t.wanted = x.d.config.files, !.d.touched = {}]

\* Files that libtorrent is told to fetch, whatever is selected.
Raised(x, files) == [x EXCEPT !.t.wanted = @ \cup files, !.d.touched = @ \cup files]

\* get_files, for a download with a handle.
FilePriority(x, f) == IF f \in x.t.wanted THEN 4 ELSE 0
FilesInfo(x) ==
    IF ~x.d.meta THEN {}
    ELSE {[index |-> f, included |-> f \in x.d.config.files, priority |-> FilePriority(x, f)] : f \in File}

\* stop closes the Stream first: its file gets the priority of a selected one.  That raises
\* when there is no handle.
ClosedStream(x) == IF x.d.stream = {} THEN x ELSE Raised(x, x.d.stream)

BugPause(x) == Checkpoint(SetFlags(x, TRUE, x.d.config.auto_managed))
Pause(x)    == Checkpoint(SetFlags(x, TRUE, FALSE))
Stop(x, user) ==
    IF Valid(x)
    THEN LET y == ClosedStream(x)
         IN  Pause(IF user THEN [y EXCEPT !.d.config.user_stopped = TRUE] ELSE y)
    ELSE IF user /\ x.d.stream = {} THEN [x EXCEPT !.d.config.user_stopped = TRUE] ELSE x

Resume(x) ==
    LET y == [x EXCEPT !.d.config.user_stopped = FALSE]
    IN  IF Valid(y) THEN SetFlags(y, FALSE, y.d.config.auto_managed) ELSE y

ForceRecheck(x) ==
    IF Valid(x) /\ x.d.meta
    THEN [SetFlags(x, FALSE, x.t.auto) EXCEPT
             !.d.pause_after = @ \/ Status(x.d.lt_status) = "STOPPED",
             !.d.checkpoint_after = TRUE, !.t.state = "HASHCHECKING"]
    ELSE x

\* update_lt_status: a torrent that seeds beyond its limits is stopped.
UpdateStatus(x) ==
    LET s == [known |-> TRUE, paused |-> x.t.paused, auto |-> x.t.auto, state |-> x.t.state]
        y == [x EXCEPT !.d.lt_status = s]
    IN  IF Status(s) = "SEEDING" /\ SeedingStops THEN Stop(y, FALSE) ELSE y

OnMetadataReceived(x) ==
    LET y == IF Valid(x)
             THEN Checkpoint(Selected([x EXCEPT !.d.meta = TRUE, !.d.trackers = @ \cup ToSet(x.t.trackers)]))
             ELSE x
    IN  [y EXCEPT !.d.metainfo = TRUE]

\* on_add_torrent_alert.
OnAddTorrent(x) ==
    LET y == [x EXCEPT !.d.handle = TRUE]
        s == Selected(SetFlags(y, y.t.paused, y.d.config.auto_managed))
        user_stopped == s.d.config.user_stopped
        r == IF ~s.d.config.auto_managed /\ (~user_stopped \/ ~s.d.resumable)
             THEN [SetFlags(s, FALSE, s.t.auto) EXCEPT !.d.pause_after = user_stopped]
             ELSE s
    IN  Checkpoint(r)

\* on_state_changed_alert: a metadata alert that libtorrent did not send is made up.
OnStateChanged(x) ==
    IF ~x.d.handle THEN x
    ELSE LET y == UpdateStatus(x)
         IN  IF x.t.state = "DOWNLOADING" /\ ~y.d.meta THEN OnMetadataReceived(y) ELSE y

OnTorrentChecked(x) ==
    LET y == IF x.d.pause_after /\ x.d.handle
             THEN [SetFlags(x, TRUE, x.t.auto) EXCEPT !.d.pause_after = FALSE] ELSE x
    IN  IF y.d.checkpoint_after
        THEN Checkpoint([y EXCEPT !.d.checkpoint_after = FALSE]) ELSE y

MoveStorage(x, dir) ==
    IF ~Valid(x) THEN x
    ELSE [x EXCEPT !.t.path = IF x.d.meta THEN dir ELSE @, !.d.config.dest = dir]

\* on_torrent_finished_alert: the files move to the directory for completed downloads.
OnTorrentFinished(x) ==
    IF ~Valid(x) THEN x
    ELSE LET y == Checkpoint(UpdateStatus(x))
         IN  IF HasCompleted THEN MoveStorage(y, "completed") ELSE y

\* on_tracker_reply_alert, on_tracker_error_alert, on_tracker_warning_alert.
OnTracker(x, alert) == [x EXCEPT !.d.tracker_status[alert.url] = alert.text]

Handled(x, alert) ==
    CASE alert.kind = "add"      -> OnAddTorrent(x)
      [] alert.kind = "metadata" -> OnMetadataReceived(x)
      [] alert.kind = "state"    -> OnStateChanged(x)
      [] alert.kind = "checked"  -> OnTorrentChecked(x)
      [] alert.kind = "finished" -> OnTorrentFinished(x)
      [] alert.kind = "save"     -> Saved(x)
      [] alert.kind = "tracker"  -> OnTracker(x, alert)

ProcessAlert ==
    /\ session # "down" /\ alerts # <<>>
    /\ Become(Handled([World EXCEPT !.q = Tail(@)], Head(alerts)))
    /\ waiting' = IF Head(alerts) = Alert("save") THEN {} ELSE waiting
    /\ UNCHANGED <<session, rest, owed, events>>

\* state_update_alert, once a second.
StateUpdate ==
    /\ session # "down" /\ alerts = <<>> /\ torrent.present
    /\ Become(UpdateStatus(World))
    /\ UNCHANGED <<session, waiting, rest, owed, events>>

\* sesscb_states_callback, called every second, checkpoints a download every minute, which
\* is longer than alerts wait.  (The download has no safe_seeding: DownloadManager has the
\* change of hops.)
StatesCallback ==
    /\ session = "up" /\ alerts = <<>>
    /\ Status(download.lt_status) = "DOWNLOADING" /\ Checkpoint(World) # World
    /\ Become(Checkpoint(World))
    /\ UNCHANGED <<session, waiting, rest, owed, events>>

\* save_resume_data waits ten seconds at most.
SaveTimeout(who) ==
    /\ who \in waiting
    /\ waiting' = waiting \ {who}
    /\ UNCHANGED <<download, torrent, alerts, disk, session, rest, owed, events>>
-----------------------------------------------------------------------------
(***************************************************************************)
(* libtorrent.                                                             *)
(***************************************************************************)
Idle == UNCHANGED <<download, disk, session, waiting, rest, owed, events>>
Room == session # "down" /\ Len(alerts) < MaxAlerts

\* Those of the trackers that are new to it are added at the end of the list, in any order
\* (they come from sets), and all of the list is announced to.
Orders(S) == {order \in [1 .. Cardinality(S) -> S] : ToSet(order) = S}
Longer(t, order) == [t EXCEPT !.trackers = @ \o order, !.due = ToSet(t.trackers \o order),
                              !.dirty = @ \/ order # <<>>]
AddTrackers(t, trackers) == {Longer(t, order) : order \in Orders(trackers \ ToSet(t.trackers))}

\* async_add_torrent, with the trackers that the download has when it is called.
Adding(trackers) == {[Absent EXCEPT !.trackers = order, !.due = trackers] : order \in Orders(trackers)}

\* The torrent is added with the flags of its parameters, which also have the priorities of
\* the last checkpoint, or none.
TorrentAdded ==
    /\ Room /\ ~torrent.present
    /\ \E wanted \in IF download.meta THEN SUBSET File ELSE {File} :
          torrent' = [torrent EXCEPT !.present = TRUE, !.paused = download.flags.paused,
                                     !.auto = download.flags.auto, !.meta = download.meta,
                                     !.state = IF download.meta THEN "HASHCHECKING" ELSE "METADATA",
                                     !.wanted = wanted, !.path = download.config.dest, !.dirty = TRUE]
    /\ alerts' = Append(alerts, Alert("add"))
    /\ Idle

\* It gets its metadata, and on a rare occasion tells nobody.
MetadataArrives ==
    /\ Room /\ torrent.present /\ ~torrent.paused /\ torrent.state = "METADATA"
    /\ torrent' = [torrent EXCEPT !.meta = TRUE, !.state = "HASHCHECKING", !.dirty = TRUE]
    /\ alerts' \in {alerts, Append(alerts, Alert("metadata"))}
    /\ Idle

\* Bound: a behaviour about trackers ends before the download does.
Long == subject # "trackers"

CheckEnds ==
    /\ Room /\ torrent.present /\ ~torrent.paused /\ torrent.state = "HASHCHECKING"
    /\ \E s \in IF Long THEN {"DOWNLOADING", "SEEDING"} ELSE {"DOWNLOADING"} :
          torrent' = [torrent EXCEPT !.state = s, !.dirty = TRUE]
    /\ alerts' = alerts \o <<Alert("checked"), Alert("state")>>
    /\ Idle

DownloadFinishes ==
    /\ Room /\ Long /\ torrent.present /\ ~torrent.paused /\ torrent.state = "DOWNLOADING"
    /\ torrent' = [torrent EXCEPT !.state = "SEEDING", !.dirty = TRUE]
    /\ alerts' = alerts \o <<Alert("finished"), Alert("state")>>
    /\ Idle

\* The queue of auto-managed torrents.
QueueManages ==
    /\ session # "down" /\ torrent.present /\ torrent.auto
    /\ torrent' = [torrent EXCEPT !.paused = ~@, !.dirty = TRUE]
    /\ UNCHANGED alerts
    /\ Idle
-----------------------------------------------------------------------------
(***************************************************************************)
(* Requests of the user: update_download, add_default_trackers.            *)
(***************************************************************************)
Request == /\ session = "up" /\ events < MaxEvents /\ Len(alerts) < MaxAlerts
           /\ events' = events + 1

Control == subject # "trackers" /\ Request
Engines == subject = "control" /\ Request
Choice  == subject = "files" /\ Request /\ download.meta

Waits(who, x) == IF Len(x.q) > Len(alerts) THEN waiting \cup {who} ELSE waiting

RequestStop ==
    /\ Control
    /\ Become(Stop(World, TRUE)) /\ rest' = Valid(World)
    /\ UNCHANGED <<session, waiting, owed>>

RequestResume ==
    /\ Control
    /\ Become(Resume(World)) /\ rest' = FALSE
    /\ UNCHANGED <<session, waiting, owed>>

\* Whether to pause after the check is decided by the last status, which may be old.
RequestRecheck ==
    /\ Engines
    /\ Become(ForceRecheck(World))
    /\ rest' = (rest /\ (Status(download.lt_status) = "STOPPED" \/ ~download.meta))
    /\ UNCHANGED <<session, waiting, owed>>

\* Requests about files are refused while the metadata is unknown.  This one is forgotten
\* without a handle, and once there is a Stream.
SelectFiles(files) ==
    /\ Choice
    /\ Become(IF Valid(World) /\ download.stream = {}
              THEN Selected([World EXCEPT !.d.config.files = files]) ELSE World)
    /\ UNCHANGED <<session, waiting, rest, owed>>

\* The priority of one file is set, but it is not selected with that.
RequestFilePriority ==
    /\ Choice
    /\ \E f \in File, priority \in {0, 4} :
          LET raised  == Raised(World, {f})
              lowered == [raised EXCEPT !.t.wanted = @ \ {f}]
          IN  Become(IF ~Valid(World) THEN World ELSE IF priority = 0 THEN lowered ELSE raised)
    /\ UNCHANGED <<session, waiting, rest, owed>>

\* A file is played: the download has a Stream from now on, which is of this file, and goes
\* on.  Bound: one player of a file.
RequestStream ==
    /\ Choice
    /\ \E f \in File :
          /\ download.players[f] = "none"
          /\ Become(Resume([World EXCEPT !.d.stream = {f}, !.d.players[f] = "waiting"]))
    /\ rest' = FALSE
    /\ UNCHANGED <<session, waiting, owed>>

\* set_auto_managed waits for the handle.
RequestAutoManaged ==
    /\ Engines /\ Valid(World)
    /\ \E a \in BOOLEAN : /\ Become([SetFlags(World, torrent.paused, a) EXCEPT !.d.config.auto_managed = a])
                       /\ rest' = (rest /\ ~a)
    /\ UNCHANGED <<session, waiting, owed>>

\* schedule_post_handle_ops: nothing when the task exists already.
Scheduled(d) == IF d.post.at # "none" THEN d.post
                ELSE [at |-> "waiting", remaining |-> d.config.post_handle_ops]

RequestDefaultTrackers ==
    /\ Request /\ subject # "files"
    /\ LET x == [World EXCEPT !.d.config.post_handle_ops = @ \cup {"trackers"}]
       IN  Become([x EXCEPT !.d.post = Scheduled(x.d)])
    /\ owed' = IF download.post.at = "none" THEN owed \cup {"trackers"} ELSE owed \ {"trackers"}
    /\ UNCHANGED <<session, waiting, rest>>
-----------------------------------------------------------------------------
(***************************************************************************)
(* The download's tasks.                                                   *)
(***************************************************************************)
Task == session # "down" /\ Len(alerts) < MaxAlerts /\ UNCHANGED <<session, events>>

\* stop_after_metainfo.
StopAfterMetainfo ==
    /\ Task /\ download.after = "waiting" /\ download.metainfo
    /\ LET x == Stop(World, FALSE)
       IN  Become([x EXCEPT !.d.after = "stopping"]) /\ waiting' = Waits("task", x)
    /\ UNCHANGED <<rest, owed>>

StoppedAfterMetainfo ==
    /\ Task /\ download.after = "stopping" /\ "task" \notin waiting
    /\ Become([World EXCEPT !.d.after = "none", !.d.config.stop_after_metainfo = FALSE])
    /\ UNCHANGED <<waiting, rest, owed>>

\* perform_post_handle_ops: the operations that were listed when it began, one by one.
Goes(at, remaining) ==
    download' = [download EXCEPT !.post = [at |-> at, remaining |-> remaining],
                                 !.config.post_handle_ops =
                                     IF remaining = download.post.remaining THEN @ ELSE remaining]

AfterTrackers(remaining) == IF "backup" \in remaining THEN "writing" ELSE "none"

BugPostHandle ==
    /\ Task /\ download.post.at = "waiting" /\ download.handle
    /\ Goes("none", {})
    /\ UNCHANGED <<torrent, alerts, disk, waiting, rest, owed>>
PostHandle ==
    /\ Task /\ download.post.at = "waiting" /\ download.handle
    /\ LET r == download.post.remaining
       IN  Goes(IF "trackers" \in r THEN "trackers" ELSE AfterTrackers(r), r)
    /\ UNCHANGED <<torrent, alerts, disk, waiting, rest, owed>>

AddDefaultTrackers ==
    /\ Task /\ download.post.at = "trackers"
    /\ LET r == download.post.remaining \ {"trackers"} IN Goes(AfterTrackers(r), r)
    /\ torrent' \in AddTrackers(torrent, defaults)
    /\ owed' = owed \ {"trackers"}
    /\ UNCHANGED <<alerts, disk, waiting, rest>>

\* Writing the torrent file may raise: the operation stays for the next start.
WriteBackup ==
    /\ Task /\ download.post.at = "writing"
    /\ \/ Goes("none", download.post.remaining \ {"backup"}) /\ owed' = owed \ {"backup"}
       \/ download' = [download EXCEPT !.post = NoTask] /\ UNCHANGED owed
    /\ UNCHANGED <<torrent, alerts, disk, waiting, rest>>
\* Stream.enable has seen the download at work: its file is to be fetched first.
EnableStream ==
    /\ session # "down" /\ Valid(World) /\ Status(download.lt_status) \in {"DOWNLOADING", "SEEDING"}
    /\ \E f \in File :
          /\ download.players[f] = "waiting"
          /\ Become(Raised([World EXCEPT !.d.players[f] = "playing"], {f}))
    /\ UNCHANGED <<session, waiting, rest, owed, events>>

\* StreamReader.close: when it waited for pieces, the file of the Stream, which may be another
\* by now, gets the priority of a selected one.
CloseReader ==
    /\ session # "down" /\ Valid(World)
    /\ \E f \in File, files \in {{}, download.stream} :
          /\ download.players[f] = "playing"
          /\ Become(Raised([World EXCEPT !.d.players[f] = "none"], files))
    /\ UNCHANGED <<session, waiting, rest, owed, events>>
-----------------------------------------------------------------------------
(***************************************************************************)
(* The session.                                                            *)
(***************************************************************************)
NewDownload(config, flags, meta, trackers, resumable) ==
    [trackers |-> trackers, tracker_status |-> [t \in Tracker |-> "none"], handle |-> FALSE,
     meta |-> meta, metainfo |-> FALSE, lt_status |-> NoStatus,
     pause_after |-> FALSE, checkpoint_after |-> FALSE, flags |-> flags, resumable |-> resumable,
     stream |-> {}, players |-> [f \in File |-> "none"], touched |-> {},
     config |-> config, after |-> IF config.stop_after_metainfo THEN "waiting" ELSE "none",
     post |-> NoTask]

\* DownloadManager.shutdown stops all downloads and waits for their checkpoints.
Quit ==
    /\ Request /\ session' = "quitting"
    /\ LET x == Stop(World, FALSE) IN Become(x) /\ waiting' = Waits("exit", x)
    /\ UNCHANGED <<rest, owed>>

\* Its end, or a crash.
Down ==
    /\ \/ session = "quitting" /\ "exit" \notin waiting /\ UNCHANGED events
       \/ session # "down" /\ events < MaxEvents /\ events' = events + 1
    /\ session' = "down" /\ waiting' = {} /\ alerts' = <<>> /\ torrent' = Absent
    /\ UNCHANGED <<download, disk, rest, owed>>

\* resume_from_legacy: a link, a torrent, which have no flags, or old resume data, which may.
DefaultFlags == [paused |-> TRUE, auto |-> TRUE]
FromLegacy(f) == {f, [f EXCEPT !.flags = DefaultFlags]}

\* load_legacy_checkpoint: without resume data, the parameters come from the old metainfo.
ResumeData(f) == IF f.resumable THEN {f} ELSE FromLegacy(f)

\* load_checkpoint.  A checkpoint that says less than was asked for excuses what follows.
Start ==
    /\ session = "down" /\ session' = "up"
    /\ torrent' \in Adding(disk.trackers)
    /\ \E f \in ResumeData(disk) :
          LET d == NewDownload(f.config, f.flags, f.meta, f.trackers, f.resumable)
          IN  /\ download' = IF f.config.post_handle_ops = {} THEN d
                             ELSE [d EXCEPT !.post = Scheduled(d)]
              /\ rest' = (rest /\ f.config.user_stopped /\ ~f.config.auto_managed
                               /\ f.flags.paused /\ (f.resumable => ~f.flags.auto))
    /\ owed' = owed \cap disk.config.post_handle_ops
    /\ UNCHANGED <<alerts, disk, waiting, events>>

\* _post_handle_events: none, the backup alone for a private torrent, or both.
PostHandleEvents == {{}, {"backup"}, Op}

\* create_dconfig_from_params.
NewConfig(files, stopped) ==
    [user_stopped |-> stopped, auto_managed |-> AutoManaged, files |-> files,
     stop_after_metainfo |-> FALSE, post_handle_ops |-> {}, dest |-> "saveas"]

\* add_download: the checkpoint was written before the rest of the request was noted.
\* The parameters of a new torrent say paused and auto-managed.  Checkpoints of a stopped
\* download and old ones without resume data are loaded as well.
Init ==
    \E files \in Selections, only_metadata, meta, stopped, resumable \in BOOLEAN,
       ops \in PostHandleEvents, about \in Subjects :
        LET config == NewConfig(files, stopped)
            flags  == IF stopped /\ resumable THEN [paused |-> TRUE, auto |-> FALSE]
                      ELSE DefaultFlags
            trackers == IF about = "trackers" THEN Tracker \ Default ELSE {}
            d      == NewDownload([config EXCEPT !.stop_after_metainfo = only_metadata,
                                                 !.post_handle_ops = ops],
                                  flags, meta, trackers, resumable)
        IN  /\ stopped \/ ~resumable => ops = {} /\ ~only_metadata
            /\ only_metadata => ~meta
            /\ about # "files" => files = File
            /\ about = "trackers" => ~only_metadata /\ ~stopped /\ resumable /\ ~meta
                                   /\ ops # {"backup"}
            /\ subject = about /\ defaults = IF about = "trackers" THEN Default ELSE {}
            /\ download = [d EXCEPT !.post = IF ops = {} THEN NoTask ELSE Scheduled(d)]
            /\ disk = [config |-> config, flags |-> flags, meta |-> meta, trackers |-> trackers,
                       resumable |-> resumable]
            /\ rest = (stopped /\ ~AutoManaged) /\ owed = ops
            /\ torrent \in Adding(trackers) /\ alerts = <<>> /\ session = "up"
            /\ waiting = {} /\ events = 0

Works   == ProcessAlert \/ StateUpdate \/ StatesCallback \/ StopAfterMetainfo \/ StoppedAfterMetainfo
Engine  == TorrentAdded \/ MetadataArrives \/ CheckEnds \/ DownloadFinishes \/ QueueManages
PostOps == PostHandle \/ AddDefaultTrackers \/ WriteBackup
Players == EnableStream \/ CloseReader
Asked   == \/ RequestStop \/ RequestResume \/ RequestRecheck \/ RequestAutoManaged
           \/ RequestFilePriority \/ RequestStream \/ RequestDefaultTrackers
           \/ \E files \in Selections : SelectFiles(files)
Same    == UNCHANGED <<subject, defaults>>
Next    == \/ (Works \/ Engine \/ PostOps \/ Players \/ Asked) /\ Same
           \/ (Quit \/ Down \/ Start \/ \E who \in waiting : SaveTimeout(who)) /\ Same

Spec    == Init /\ [][Next]_vars
-----------------------------------------------------------------------------
(***************************************************************************)
(* Properties.                                                             *)
(***************************************************************************)

\* Every variable keeps its shape.
TypeOK ==
    /\ download.config \in Config /\ download.flags \in Flags /\ disk.config \in Config
    /\ session \in {"up", "quitting", "down"} /\ waiting \subseteq {"task", "exit"}
    /\ torrent.wanted \cup download.stream \cup download.touched \subseteq File
    /\ rest \in BOOLEAN /\ owed \subseteq Op

\* libtorrent fetches the files that are shown as included as soon as the download knows
\* its metadata, whichever of metadata, handle, request, stop and restart came first, but for
\* files that were played or given a priority since the selection was last applied.
SelectionApplied ==
    session # "down" /\ Valid(World)
        => \A info \in FilesInfo(World) :
              info.index \in download.touched \/ (info.included <=> info.priority > 0)

\* A download that the user stopped rests, unless to be checked, and is paused after that;
\* also over restarts from a checkpoint that has it, and over checks that knew it stopped.
StoppedRests ==
    rest /\ session # "down" /\ torrent.present /\ ~torrent.paused
        => \/ download.pause_after \/ Contains(alerts, Alert("add"))

\* An operation that was asked for while no other ran stays in the config until it is done.
OwedIsListed == session # "down" => owed \subseteq download.config.post_handle_ops

(***************************************************************************)
(* What the code does not keep.                                            *)
(***************************************************************************)

\* What is shown as included is what is fetched (get_files): not after file_priority, nor
\* after a file that is not selected was played.
ShownIsFetched ==
    session # "down" /\ Valid(World) => \A info \in FilesInfo(World) : info.included <=> info.priority > 0

\* What the user selects is selected: not once a file was played, nor before the handle.
SelectionTaken == [][\A files \in Selections : SelectFiles(files) => download'.config.files = files]_vars

\* A request to stop is noted: not when there is a Stream and no handle yet.
StopIsNoted == [][RequestStop => download'.config.user_stopped]_vars

\* "Unset auto managed, and revert when resuming": nothing but the user starts a download
\* that the user stopped, except to check it.
StaysStopped ==
    download.config.user_stopped /\ session = "up" /\ alerts = <<>> /\ Valid(World)
        => torrent.paused \/ download.pause_after \/ torrent.state = "HASHCHECKING"

\* The operations of the config are all done at some time, also those asked for meanwhile.
NoOperationLost ==
    [][\A op \in Op : op \in download.config.post_handle_ops /\ session' = session
          => op \in download'.config.post_handle_ops \/ op \in download.post.remaining]_vars
=============================================================================
