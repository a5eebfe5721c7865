-------------------------------- MODULE Upgrade --------------------------------
(***************************************************************************)
(* tribler/upgrade_script.py, core/versioning and tribler_config.py: the   *)
(* import of a 7.14 state directory into that of the current version, by a *)
(* thread, next to the event loop that serves the settings and the         *)
(* versions endpoints.  The process may be killed at any moment.           *)
(*                                                                         *)
(* Three tables are imported: ChannelNode, TrackerState and the relation   *)
(* of torrents and trackers.  Row i of the relation is about row i of the  *)
(* other two.  A batch is one transaction.                                 *)
(***************************************************************************)
EXTENDS Integers, FiniteSets

CONSTANTS
    Checkpoint,  \* the names of the old download checkpoints
    Rows,        \* number of rows of each old table
    BatchSize,   \* rows in a batch, 20 in the code
    OldFailures, \* failures of an old tracker
    Key, Bool,   \* settings, each in a section of its own; those converted with bool()
    MaxUpgrades, \* bound on the requests to upgrade
    MaxEvents    \* bound on what users and the network do meanwhile

ASSUME UpgradeBounds ==
    /\ Rows \in Nat /\ BatchSize \in Nat \ {0} /\ OldFailures \in Nat
    /\ Bool \subseteq Key /\ MaxUpgrades \in Nat /\ MaxEvents \in Nat

Row     == 1 .. Rows
Table   == {"ChannelNode", "TrackerState", "Relation"}
\* Values of a setting: 0 and 1, or its section is not there, or it is there without it.
Value        == {0, 1}
NoSection    == -1
EmptySection == -2
Default == 1
Old     == 0     \* what the old configuration says of every setting

VARIABLES
    up,        \* the process runs
    config,    \* TriblerConfigManager.configuration: setting -> value
    file,      \* configuration.json: absent, not JSON, or a configuration
    writing,   \* who is inside config.write: the "loop", the "thread"
    clashed,   \* both were at the same time
    source,    \* the old version's directory is there
    copies,    \* checkpoint -> "none", "partial", "old" or "new", in the current directory
    nodes,     \* row -> how many ChannelNodes the current database has of it
    failures,  \* row -> failures of its TrackerState, -1: there is none
    relation,  \* rows that are in the relation
    has_db,    \* the current database is there
    marker,    \* the .upgraded file
    thread,    \* what the "Upgrade" task does, "none" if there is no such task
    todo,      \* what is left of its step: settings, checkpoints, or batches
    copying,   \* the checkpoint that is being copied, if any
    failed,    \* history: rows per table with a batch that failed
    removed,   \* history: the old directory was removed
    upgrades, events

mem  == <<config, file, writing, clashed>>
disk == <<source, copies, nodes, failures, relation, has_db, marker>>
hist == <<failed, removed>>
task == <<thread, todo, copying>>
upgrade_vars == <<up, mem, disk, task, hist, upgrades, events>>
-----------------------------------------------------------------------------
(***************************************************************************)
(* The configuration.                                                      *)
(***************************************************************************)
Defaults == [k \in Key |-> Default]
Torn     == [state |-> "torn", conf |-> Defaults]
Absent   == [state |-> "none", conf |-> Defaults]
Json(c)  == [state |-> "json", conf |-> c]

\* get: what is not there is read from the defaults.
Get(c, k) == IF c[k] \in Value THEN c[k] ELSE Default

\* set: where the section is missing an empty one is made, but not entered.
Set(c, k, v) == [c EXCEPT ![k] = IF @ = NoSection THEN EmptySection ELSE v]

\* write: open() truncates, the dump follows.  Two writers leave one file or garbage.
WriteOpen(w) ==
    /\ writing' = writing \cup {w}
    /\ clashed' = (writing # {})
    /\ file' = Torn

WriteDump(w, written) ==
    /\ w \in writing
    /\ writing' = writing \ {w}
    /\ clashed' = (clashed /\ writing' # {})
    /\ file' \in IF clashed THEN {Json(written), Torn} ELSE {Json(written)}

\* The endpoint's handler does not yield: nothing else of the loop runs meanwhile.
LoopFree == up /\ "loop" \notin writing

UpdateSettings(k, v) ==
    /\ LoopFree /\ events < MaxEvents
    /\ config' = Set(config, k, v)
    /\ WriteOpen("loop")
    /\ events' = events + 1
    /\ UNCHANGED <<up, disk, task, hist, upgrades>>

SettingsWritten ==
    /\ up /\ WriteDump("loop", config)
    /\ UNCHANGED <<up, config, disk, task, hist, upgrades, events>>
-----------------------------------------------------------------------------
(***************************************************************************)
(* The thread.                                                             *)
(***************************************************************************)
Batch(start) == {r \in Row : r >= start /\ r < start + BatchSize}

\* batched: a new batch begins at every second row, whatever the size of a batch.
BugStarts == {r \in Row : r % 2 = 0}
Starts    == {r \in Row : r % 2 = 1}

IsUpgrading == thread # "none"

Goes(step, left) == thread' = step /\ todo' = left /\ copying' = {}
Fails == Goes("none", {})

\* can_upgrade is a question of the GUI; perform_upgrade only looks for a running task.
PerformUpgrade ==
    /\ LoopFree /\ ~IsUpgrading /\ upgrades < MaxUpgrades
    /\ upgrades' = upgrades + 1
    /\ IF source THEN Goes("settings", Key) ELSE Goes("write", {})
    /\ UNCHANGED <<up, mem, disk, hist, events>>

\* bool() of a string that is not empty is True, also that of "False".  A number that
\* does not parse raises.
Imported(k) == IF k \in Bool THEN 1 ELSE Old
ImportSetting(k) ==
    /\ up /\ thread = "settings" /\ k \in todo
    /\ \/ config' = Set(config, k, Imported(k))
          /\ Goes(IF todo = {k} THEN "write" ELSE "settings", todo \ {k})
       \/ k \notin Bool /\ Fails /\ UNCHANGED config
    /\ UNCHANGED <<up, file, writing, clashed, disk, hist, upgrades, events>>

UpgradeWrites ==
    /\ up /\ thread = "write"
    /\ WriteOpen("thread")
    /\ Goes("writing", {})
    /\ UNCHANGED <<up, config, disk, hist, upgrades, events>>

\* Listing the old checkpoints raises if they are gone by now.
UpgradeWritten ==
    /\ up /\ thread = "writing"
    /\ WriteDump("thread", config)
    /\ IF source THEN Goes("copies", Checkpoint) ELSE Fails
    /\ UNCHANGED <<up, config, disk, hist, upgrades, events>>

\* _copy_if_not_exist: what is there stays, as it is.
CopyCheckpoint(c) ==
    /\ up /\ thread = "copies" /\ c \in todo
    /\ IF source /\ copies[c] = "none"
       THEN thread' = "copying" /\ copying' = {c} /\ UNCHANGED todo
            /\ copies' = [copies EXCEPT ![c] = "partial"]
       ELSE Goes("copies", todo \ {c}) /\ UNCHANGED copies
    /\ UNCHANGED <<up, mem, source, nodes, failures, relation, has_db, marker, hist, upgrades, events>>

CopyDone(c) ==
    /\ up /\ thread = "copying" /\ c \in copying
    /\ copies' = [copies EXCEPT ![c] = "old"]
    /\ Goes("copies", todo \ {c})
    /\ UNCHANGED <<up, mem, source, nodes, failures, relation, has_db, marker, hist, upgrades, events>>

\* Without an old database there is nothing to import, without a current one the old one
\* is copied as a whole.
OpenDatabase ==
    /\ up /\ thread = "copies" /\ todo = {}
    /\ IF source /\ has_db THEN /\ Goes("ChannelNode", Starts)
                                /\ UNCHANGED <<nodes, failures, relation, has_db>>
       ELSE /\ Goes("marker", {})
            /\ IF source
               THEN /\ nodes' = [r \in Row |-> 1] /\ failures' = [r \in Row |-> OldFailures]
                    /\ relation' = Row /\ has_db' = TRUE
               ELSE UNCHANGED <<nodes, failures, relation, has_db>>
    /\ UNCHANGED <<up, mem, source, copies, marker, hist, upgrades, events>>

\* The batches of a table run in order; after the last one the next table is read.
Next3(table) == CASE table = "ChannelNode" -> "TrackerState"
                  [] table = "TrackerState" -> "Relation" [] table = "Relation" -> "marker"
AfterBatch(table, start) ==
    LET left == todo \ {start}  next == Next3(table) IN
    IF left # {} THEN Goes(table, left)
    ELSE IF next = "marker" THEN Goes(next, {})
    ELSE IF source THEN Goes(next, Starts) ELSE Fails

InsertNode(r) == IF nodes[r] = 0 THEN 1 ELSE nodes[r]

\* A tracker that is known gets the failures of the old one on top of its own, once for
\* every batch that it is in.
AddFailures(r) == IF failures[r] < 0 THEN OldFailures ELSE failures[r] + OldFailures

Inject(table, start) ==
    LET batch == Batch(start) IN
    /\ up /\ thread = table /\ start \in todo /\ \A s \in todo : start <= s
    /\ AfterBatch(table, start)
    /\ nodes' = [r \in Row |-> IF table = "ChannelNode" /\ r \in batch THEN InsertNode(r) ELSE nodes[r]]
    /\ failures' = [r \in Row |-> IF table = "TrackerState" /\ r \in batch THEN AddFailures(r)
                                  ELSE failures[r]]
    /\ relation' = IF table # "Relation" THEN relation
                   ELSE relation \cup {r \in batch : nodes[r] > 0 /\ failures[r] >= 0}
    /\ UNCHANGED <<up, mem, source, copies, has_db, marker, hist, upgrades, events>>

\* An OperationalError, after three attempts, is logged; the import goes on.
BatchFails(table, start) ==
    /\ up /\ thread = table /\ start \in todo /\ \A s \in todo : start <= s
    /\ AfterBatch(table, start)
    /\ failed' = [failed EXCEPT ![table] = @ \cup Batch(start)]
    /\ UNCHANGED <<up, mem, disk, removed, upgrades, events>>

WriteMarker ==
    /\ up /\ thread = "marker"
    /\ marker' = TRUE
    /\ Goes("none", {})
    /\ UNCHANGED <<up, mem, source, copies, nodes, failures, relation, has_db, hist, upgrades, events>>
-----------------------------------------------------------------------------
(***************************************************************************)
(* Meanwhile.                                                              *)
(***************************************************************************)
\* The endpoint removes whatever version it is told to, also while it is imported.
RemoveVersion ==
    /\ LoopFree /\ source
    /\ source' = FALSE /\ removed' = TRUE
    /\ UNCHANGED <<up, mem, copies, nodes, failures, relation, has_db, marker, task, failed, upgrades, events>>

\* The current version goes on: it checkpoints a download that was also there before,
\* and learns of torrents and trackers.
Meanwhile ==
    /\ LoopFree /\ events < MaxEvents /\ events' = events + 1
    /\ \/ \E c \in Checkpoint : copies' = [copies EXCEPT ![c] = "new"] /\ UNCHANGED <<nodes, failures>>
       \/ \E r \in Row : has_db /\ nodes[r] = 0 /\ nodes' = [nodes EXCEPT ![r] = 1]
                         /\ UNCHANGED <<copies, failures>>
       \/ \E r \in Row : has_db /\ failures[r] < 0 /\ failures' = [failures EXCEPT ![r] = 0]
                         /\ UNCHANGED <<copies, nodes>>
    /\ UNCHANGED <<up, mem, source, relation, has_db, marker, task, hist, upgrades>>

Crash ==
    /\ up /\ events < MaxEvents /\ events' = events + 1
    /\ up' = FALSE /\ writing' = {} /\ clashed' = FALSE
    /\ Goes("none", {})
    /\ UNCHANGED <<config, file, disk, hist, upgrades>>

\* A file that is not JSON is logged and passed over for the defaults.
Loaded == file.conf
Restart ==
    /\ ~up /\ up' = TRUE
    /\ config' = Loaded
    /\ UNCHANGED <<file, writing, clashed, disk, task, hist, upgrades, events>>

\* A first start, or one with the file of an older release that lacks some sections.
UpgradeInit ==
    /\ up = TRUE
    /\ file \in {Absent} \cup {Json(c) : c \in [Key -> {NoSection, Default}]}
    /\ config = Loaded
    /\ writing = {} /\ clashed = FALSE
    /\ source = TRUE /\ copies = [c \in Checkpoint |-> "none"]
    /\ nodes = [r \in Row |-> 0] /\ failures = [r \in Row |-> -1] /\ relation = {}
    /\ has_db \in BOOLEAN /\ marker = FALSE
    /\ thread = "none" /\ todo = {} /\ copying = {}
    /\ failed = [t \in Table |-> {}] /\ removed = FALSE
    /\ upgrades = 0 /\ events = 0

Thread ==
    \/ \E k \in Key : ImportSetting(k)
    \/ UpgradeWrites \/ UpgradeWritten
    \/ \E c \in Checkpoint : CopyCheckpoint(c) \/ CopyDone(c)
    \/ OpenDatabase
    \/ \E t \in Table, s \in Row : Inject(t, s) \/ BatchFails(t, s)
    \/ WriteMarker

UpgradeNext ==
    \/ Thread
    \/ PerformUpgrade \/ SettingsWritten \/ RemoveVersion \/ Meanwhile \/ Crash \/ Restart
    \/ \E k \in Key, v \in Value : UpdateSettings(k, v)

UpgradeSpec == UpgradeInit /\ [][UpgradeNext]_upgrade_vars
-----------------------------------------------------------------------------
(***************************************************************************)
(* Properties.                                                             *)
(***************************************************************************)

\* Every variable keeps its shape.
UpgradeTypeOK ==
    /\ up \in BOOLEAN /\ config \in [Key -> Value \cup {NoSection, EmptySection}]
    /\ file \in {Absent, Torn} \cup {Json(c) : c \in [Key -> Value \cup {NoSection, EmptySection}]}
    /\ writing \subseteq {"loop", "thread"} /\ clashed \in BOOLEAN
    /\ source \in BOOLEAN /\ copies \in [Checkpoint -> {"none", "partial", "old", "new"}]
    /\ nodes \in [Row -> Nat] /\ failures \in [Row -> Int] /\ relation \subseteq Row
    /\ has_db \in BOOLEAN /\ marker \in BOOLEAN
    /\ thread \in Table \cup {"none", "settings", "write", "writing", "copies", "copying", "marker"}
    /\ todo \subseteq Key \cup Checkpoint \cup Row /\ copying \subseteq Checkpoint
    /\ failed \in [Table -> SUBSET Row] /\ removed \in BOOLEAN
    /\ upgrades \in 0..MaxUpgrades /\ events \in 0..MaxEvents

\* The marker is only written when all rows and checkpoints have been gone through: what
\* is missing then was in a batch that failed, or the user removed the old version; and a
\* row is there once, although it came in two batches, again after a crash, or before the
\* import, from the network.
MarkerMeansImported ==
    marker /\ ~removed =>
        /\ \A c \in Checkpoint : copies[c] # "none"
        /\ \A r \in Row : /\ nodes[r] = 1 \/ r \in failed["ChannelNode"]
                          /\ failures[r] >= 0 \/ r \in failed["TrackerState"]
                          /\ r \in relation \/ \E t \in Table : r \in failed[t]

\* Refuted: "Import old TrackerState entries."  The batches overlap, and the failures are
\* added once for each.
FailuresAreSummed == upgrades <= 1 => \A r \in Row : failures[r] <= OldFailures

\* Refuted: a file that was being copied when the process died is never copied again.
MarkedIsWhole == marker => \A c \in Checkpoint : copies[c] # "partial"

\* Refuted: "Copy a file if it does not exist."  It may appear between the look and the copy.
CurrentIsKept == [][\A c \in Checkpoint : copies[c] = "new" => copies'[c] = "new"]_upgrade_vars

\* Refuted: "inject the defaults here and continue traversing the dict".
SetReadsBack == [][\A k \in Key, v \in Value : UpdateSettings(k, v) => Get(config', k) = v]_upgrade_vars

\* Refuted: a crash in the middle of a write loses all settings, not the last change.
FileIsWhole == ~up => file # Torn
=============================================================================
