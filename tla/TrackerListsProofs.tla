-------------------------- MODULE TrackerListsProofs --------------------------
(***************************************************************************)
(* What the user asked of a download and of its trackers reaches           *)
(* libtorrent and the checkpoint, for any files, trackers, requests,       *)
(* alerts that wait, exits and crashes.                                    *)
(*                                                                         *)
(* Handlers are functions from worlds to worlds.  Nearly all of them are   *)
(* Quiet: what they leave alone, and the little that they change, is said  *)
(* by one transitive relation, and the steps are proved from that.         *)
(***************************************************************************)
EXTENDS TrackerLists, FiniteSetTheorems, TLAPS

USE SelectionsAssumption, SettingsAssumption, TrackersAssumption
-----------------------------------------------------------------------------
(***************************************************************************)
(* Worlds.                                                                 *)
(***************************************************************************)
Texts  == {"none", "Working", "Error", "Warning"}
States == {"none", "METADATA", "HASHCHECKING", "DOWNLOADING", "SEEDING"}

StatusType   == [known : BOOLEAN, paused : BOOLEAN, auto : BOOLEAN, state : States]
PostType     == [at : {"none", "waiting", "trackers", "writing"}, remaining : SUBSET Op]
DownloadType == [trackers : SUBSET Tracker, tracker_status : [Tracker -> Texts], handle : BOOLEAN,
                 meta : BOOLEAN, metainfo : BOOLEAN, lt_status : StatusType, pause_after : BOOLEAN,
                 checkpoint_after : BOOLEAN, flags : Flags, resumable : BOOLEAN, config : Config,
                 after : {"none", "waiting", "stopping"}, post : PostType, stream : SUBSET File,
                 players : [File -> {"none", "waiting", "playing"}], touched : SUBSET File]
TorrentType  == [present : BOOLEAN, paused : BOOLEAN, auto : BOOLEAN, state : States,
                 meta : BOOLEAN, wanted : SUBSET File, path : Dirs, dirty : BOOLEAN,
                 trackers : Seq(Tracker), due : SUBSET Tracker, results : [Tracker -> Texts]]
FileType     == [config : Config, flags : Flags, meta : BOOLEAN, trackers : SUBSET Tracker,
                 resumable : BOOLEAN]
Report       == [kind : {"tracker"}, url : Tracker, text : Texts \ {"none"}]
AlertType    == [kind : {"add", "metadata", "state", "checked", "finished", "save"}] \cup Report
WorldType    == [d : DownloadType, t : TorrentType, q : Seq(AlertType), f : FileType]

Saving(q) == \E i \in DOMAIN q : q[i].kind = "save"

\* libtorrent fetches what is selected, but for files that were played or given a priority.
Fetches(x) == Valid(x) /\ x.d.meta => x.t.wanted \ x.d.touched = x.d.config.files \ x.d.touched

\* A download that rests, or will when it has its handle.
Rests(x) ==
    IF x.d.handle THEN x.t.present => ~x.t.auto /\ (x.t.paused \/ x.d.pause_after)
    ELSE /\ x.d.config.user_stopped /\ ~x.d.config.auto_managed
         /\ x.d.resumable => /\ x.d.flags.paused /\ ~x.d.flags.auto
                             /\ x.t.present => x.t.paused /\ ~x.t.auto

\* The queue got nothing, or alerts that are of no torrent's or tracker's coming.
Queued(q, p) == /\ Len(q) <= Len(p)
                /\ \A i \in DOMAIN q : p[i] = q[i]
                /\ \A i \in DOMAIN p \ DOMAIN q : p[i].kind \notin {"add", "tracker"}

Keeps(x, y) ==
    /\ y \in WorldType
    /\ y.f = x.f /\ Queued(x.q, y.q)
    /\ y.d.handle = x.d.handle /\ y.d.tracker_status = x.d.tracker_status
    /\ y.d.post = x.d.post /\ y.d.config.post_handle_ops = x.d.config.post_handle_ops
    /\ y.d.flags = x.d.flags /\ y.d.resumable = x.d.resumable
    /\ y.t.present = x.t.present
    /\ y.t.trackers = x.t.trackers /\ y.t.due = x.t.due /\ y.t.results = x.t.results
    /\ x.d.trackers \subseteq y.d.trackers /\ y.d.trackers \subseteq x.d.trackers \cup ToSet(x.t.trackers)
    /\ x.t.dirty => y.t.dirty \/ (x.d.handle /\ Saving(y.q))
    /\ Saving(y.q) => Saving(x.q) \/ x.d.handle

\* Nor does it change what is fetched against the selection.
Quiet(x, y) == Keeps(x, y) /\ (Fetches(x) => Fetches(y))

\* A download that rests goes on resting.
Calm(x, y) == Quiet(x, y) /\ (Rests(x) => Rests(y))

\* What one handler leaves alone, two do.
LEMMA QueuedTwice ==
    ASSUME NEW q \in Seq(AlertType), NEW p \in Seq(AlertType), NEW r \in Seq(AlertType),
           Queued(q, p), Queued(p, r)
    PROVE  Queued(q, r) /\ (Saving(p) => Saving(r))
BY DEF Queued, Saving

\* Whatever else they leave alone.
LEMMA KeepsTwice ==
    ASSUME NEW x \in WorldType, NEW y, NEW z, Keeps(x, y), Keeps(y, z)
    PROVE  Keeps(x, z)
<1>1. x.q \in Seq(AlertType) /\ y.q \in Seq(AlertType) /\ z.q \in Seq(AlertType)
  BY DEF Keeps, WorldType
<1>2. Queued(x.q, z.q) /\ (Saving(y.q) => Saving(z.q))
  BY <1>1, QueuedTwice DEF Keeps
<1>. QED
  BY <1>2 DEF Keeps

\* Also what is fetched.
LEMMA QuietTwice ==
    ASSUME NEW x \in WorldType, NEW y, NEW z, Quiet(x, y), Quiet(y, z)
    PROVE  Quiet(x, z)
BY KeepsTwice DEF Quiet

\* Also the rest.
LEMMA CalmTwice ==
    ASSUME NEW x \in WorldType, NEW y, NEW z, Calm(x, y), Calm(y, z)
    PROVE  Calm(x, z)
BY QuietTwice DEF Calm

\* To do nothing is quiet.
LEMMA QuietNone ==
    ASSUME NEW x \in WorldType
    PROVE  Quiet(x, x)
BY DEF Quiet, Keeps, Queued, WorldType
-----------------------------------------------------------------------------
(***************************************************************************)
(* Handlers.                                                               *)
(***************************************************************************)

\* Flags are set in libtorrent, and what it has is not saved.
LEMMA SetFlagsQuiet ==
    ASSUME NEW x \in WorldType, NEW p \in BOOLEAN, NEW a \in BOOLEAN
    PROVE  /\ Quiet(x, SetFlags(x, p, a))
           /\ SetFlags(x, p, a).d = x.d
           /\ SetFlags(x, p, a).t.paused = p /\ SetFlags(x, p, a).t.auto = a
           /\ SetFlags(x, p, a).t.state = x.t.state
<1>. DEFINE y == SetFlags(x, p, a)
<1>1. x.d \in DownloadType /\ x.t \in TorrentType /\ x.q \in Seq(AlertType) /\ x.f \in FileType
  BY DEF WorldType
<1>2. \E dirty \in BOOLEAN : /\ y.t = [x.t EXCEPT !.paused = p, !.auto = a, !.dirty = dirty]
                             /\ x.t.dirty => dirty
  BY <1>1 DEF SetFlags, WorldType, TorrentType
<1>3. y.d = x.d /\ y.q = x.q /\ y.f = x.f
  BY DEF SetFlags, WorldType
<1>4. /\ y.t \in TorrentType /\ y.t.paused = p /\ y.t.auto = a /\ y.t.state = x.t.state
      /\ y.t.present = x.t.present /\ y.t.wanted = x.t.wanted
      /\ y.t.trackers = x.t.trackers /\ y.t.due = x.t.due /\ y.t.results = x.t.results
      /\ x.t.dirty => y.t.dirty
  BY <1>1, <1>2 DEF TorrentType
<1>5. y \in WorldType
  BY <1>1, <1>3, <1>4 DEF SetFlags, WorldType
<1>. HIDE DEF y
<1>6. Quiet(x, y)
  BY <1>1, <1>3, <1>4, <1>5 DEF Quiet, Keeps, Queued, Fetches, Valid
<1>. QED
  BY <1>3, <1>4, <1>6 DEF y

\* A checkpoint is asked for at most once for what is not saved.
LEMMA CheckpointQuiet ==
    ASSUME NEW x \in WorldType
    PROVE  /\ Quiet(x, Checkpoint(x))
           /\ Checkpoint(x).d = x.d
           /\ Checkpoint(x).t.paused = x.t.paused /\ Checkpoint(x).t.auto = x.t.auto
           /\ Checkpoint(x).t.state = x.t.state
           /\ Valid(x) => Saving(Checkpoint(x).q) \/ (~x.t.dirty /\ Checkpoint(x) = x)
<1>1. x.d \in DownloadType /\ x.t \in TorrentType /\ x.q \in Seq(AlertType) /\ x.f \in FileType
  BY DEF WorldType
<1>2. CASE ~(Valid(x) /\ x.t.dirty)
  BY <1>2, QuietNone DEF Checkpoint
<1>3. CASE Valid(x) /\ x.t.dirty
  <2>. DEFINE y == [x EXCEPT !.t.dirty = FALSE, !.q = Append(@, Alert("save"))]
              p == Append(x.q, Alert("save"))
              t == [x.t EXCEPT !.dirty = FALSE]
  <2>1. y.d = x.d /\ y.f = x.f /\ y.q = p /\ y.t = t
    BY DEF WorldType
  <2>2. Alert("save") \in AlertType /\ Alert("save").kind = "save"
    BY DEF Alert, AlertType
  <2>3. /\ p \in Seq(AlertType) /\ Len(p) = Len(x.q) + 1 /\ p[Len(x.q) + 1] = Alert("save")
        /\ \A i \in DOMAIN x.q : p[i] = x.q[i]
    BY <1>1, <2>2
  <2>4. /\ t \in TorrentType /\ t.paused = x.t.paused /\ t.auto = x.t.auto /\ t.state = x.t.state
        /\ t.present = x.t.present /\ t.wanted = x.t.wanted
        /\ t.trackers = x.t.trackers /\ t.due = x.t.due /\ t.results = x.t.results
    BY <1>1 DEF TorrentType
  <2>5. y \in WorldType
    <3>. HIDE DEF t, p
    <3>. QED
      BY <1>1, <2>1, <2>3, <2>4 DEF WorldType
  <2>6. Checkpoint(x) = y
    BY <1>3, Zenon DEF Checkpoint
  <2>. HIDE DEF y
  <2>7. Queued(x.q, y.q) /\ Saving(y.q)
    <3>. HIDE DEF p
    <3>1. DOMAIN p = 1 .. Len(x.q) + 1 /\ DOMAIN x.q = 1 .. Len(x.q) /\ Len(x.q) \in Nat
      BY <1>1, <2>3
    <3>. QED
      BY <2>1, <2>2, <2>3, <3>1 DEF Queued, Saving
  <2>. HIDE DEF t
  <2>8. Quiet(x, y)
    BY <1>1, <1>3, <2>1, <2>4, <2>5, <2>7 DEF Quiet, Keeps, Fetches, Valid
  <2>. QED
    BY <2>1, <2>4, <2>6, <2>7, <2>8, Zenon
<1>. QED
  BY <1>2, <1>3

\* What changes in the Download alone.
LEMMA ObjectQuiet ==
    ASSUME NEW x \in WorldType, NEW y, NEW d \in DownloadType, y = [x EXCEPT !.d = d],
           d.handle = x.d.handle, d.tracker_status = x.d.tracker_status, d.post = x.d.post,
           d.config.post_handle_ops = x.d.config.post_handle_ops,
           d.flags = x.d.flags, d.resumable = x.d.resumable, d.touched = x.d.touched,
           x.d.trackers \subseteq d.trackers, d.trackers \subseteq x.d.trackers \cup ToSet(x.t.trackers)
    PROVE  /\ Keeps(x, y) /\ y.d = d /\ y.t = x.t /\ y.q = x.q /\ y.f = x.f
           /\ (Valid(x) /\ d.meta => x.d.meta /\ d.config.files = x.d.config.files) => Quiet(x, y)
<1>1. y.d = d /\ y.t = x.t /\ y.q = x.q /\ y.f = x.f
  BY DEF WorldType
<1>2. y \in WorldType
  BY <1>1 DEF WorldType
<1>3. x.q \in Seq(AlertType)
  BY DEF WorldType
<1>4. Queued(x.q, y.q)
  BY <1>1, <1>3 DEF Queued
<1>5. (Valid(x) /\ d.meta => x.d.meta /\ d.config.files = x.d.config.files)
         => (Fetches(x) => Fetches(y))
  BY <1>1 DEF Fetches, Valid
<1>6. Keeps(x, y)
  BY <1>1, <1>2, <1>4 DEF Keeps
<1>. QED
  BY <1>1, <1>5, <1>6 DEF Quiet

\* What else a download has when its files were touched.
Touching(d, e) == /\ e \in DownloadType /\ e.handle = d.handle /\ e.tracker_status = d.tracker_status
                  /\ e.post = d.post /\ e.config = d.config /\ e.flags = d.flags
                  /\ e.resumable = d.resumable /\ e.trackers = d.trackers /\ e.meta = d.meta
                  /\ e.pause_after = d.pause_after /\ e.stream = d.stream

\* Some files are fetched, and what was selected is no longer said of some.
Touched(x, wanted, touched) == [x EXCEPT !.t.wanted = wanted, !.d.touched = touched]

\* Of files that were played or given a priority nothing is said.
LEMMA TouchedCalm ==
    ASSUME NEW x \in WorldType, NEW wanted \in SUBSET File, NEW touched \in SUBSET File,
           NEW y, y = Touched(x, wanted, touched),
           Fetches(x) /\ Valid(x) /\ x.d.meta => wanted \ touched = x.d.config.files \ touched
    PROVE  /\ Calm(x, y) /\ Touching(x.d, y.d) /\ y.d.touched = touched /\ y.t.wanted = wanted
           /\ y.t.paused = x.t.paused /\ y.t.auto = x.t.auto /\ y.t.present = x.t.present
           /\ y.t.state = x.t.state
<1>. DEFINE t == [x.t EXCEPT !.wanted = wanted]
            d == [x.d EXCEPT !.touched = touched]
<1>1. x.d \in DownloadType /\ x.t \in TorrentType /\ x.q \in Seq(AlertType) /\ x.f \in FileType
  BY DEF WorldType
<1>2. y.d = d /\ y.f = x.f /\ y.q = x.q /\ y.t = t
  BY DEF WorldType, Touched
<1>3. /\ t \in TorrentType /\ t.paused = x.t.paused /\ t.auto = x.t.auto /\ t.state = x.t.state
      /\ t.present = x.t.present /\ t.wanted = wanted /\ t.dirty = x.t.dirty
      /\ t.trackers = x.t.trackers /\ t.due = x.t.due /\ t.results = x.t.results
  BY <1>1 DEF TorrentType
<1>4. Touching(x.d, d) /\ d.touched = touched
  BY <1>1 DEF DownloadType, Touching
<1>5. y \in [d : {d}, t : {t}, q : {x.q}, f : {x.f}]
  BY DEF WorldType, Touched
<1>. HIDE DEF t, d
<1>6. y \in WorldType
  BY <1>1, <1>3, <1>4, <1>5 DEF WorldType, Touching
<1>7. Keeps(x, y)
  BY <1>1, <1>2, <1>3, <1>4, <1>6 DEF Keeps, Queued, Touching
<1>8. Fetches(x) => Fetches(y)
  BY <1>2, <1>3, <1>4 DEF Fetches, Valid, Touching
<1>9. Rests(x) => Rests(y)
  BY <1>2, <1>3, <1>4 DEF Rests, Touching
<1>. QED
  BY <1>2, <1>3, <1>4, <1>7, <1>8, <1>9 DEF Calm, Quiet

\* The priorities of some files are raised.
LEMMA RaisedCalm ==
    ASSUME NEW x \in WorldType, NEW files \in SUBSET File
    PROVE  /\ Calm(x, Raised(x, files)) /\ Touching(x.d, Raised(x, files).d)
           /\ Raised(x, files).t.present = x.t.present
<1>. DEFINE wanted == x.t.wanted \cup files
            touched == x.d.touched \cup files
            y == Raised(x, files)
<1>1. wanted \in SUBSET File /\ touched \in SUBSET File
  BY DEF WorldType, TorrentType, DownloadType
<1>2. y = Touched(x, wanted, touched)
  BY DEF Raised, Touched
<1>3. Fetches(x) /\ Valid(x) /\ x.d.meta => wanted \ touched = x.d.config.files \ touched
  BY DEF Fetches
<1>. HIDE DEF wanted, touched, y
<1>4. Calm(x, y) /\ Touching(x.d, y.d) /\ y.t.present = x.t.present
  BY <1>1, <1>2, <1>3, TouchedCalm
<1>. QED
  BY <1>4 DEF y

\* What libtorrent is to fetch is what is selected, but for a Stream.
LEMMA SelectedQuiet ==
    ASSUME NEW x \in WorldType
    PROVE  /\ Calm(x, Selected(x)) /\ Fetches(Selected(x)) /\ Touching(x.d, Selected(x).d)
           /\ Selected(x).t.paused = x.t.paused /\ Selected(x).t.auto = x.t.auto
<1>1. x.d \in DownloadType /\ x.t.wanted \in SUBSET File /\ x.d.config.files \in SUBSET File
  BY DEF WorldType, TorrentType, DownloadType, Config
<1>2. CASE ~(Valid(x) /\ x.d.meta)
  <2>1. Selected(x) = x
    BY <1>2 DEF Selected
  <2>. QED
    BY <1>1, <1>2, <2>1, QuietNone DEF Calm, Fetches, Touching
<1>3. CASE Valid(x) /\ x.d.meta
  <2>. DEFINE y == Selected(x)
              wanted == IF x.d.stream # {} THEN x.t.wanted ELSE x.d.config.files
              touched == IF x.d.stream # {} THEN File ELSE {}
  <2>1. y = Touched(x, wanted, touched)
    <3>1. CASE x.d.stream # {}
      <4>1. y = [x EXCEPT !.d.touched = File]
        BY <1>3, <3>1 DEF Selected
      <4>. QED
        BY <3>1, <4>1 DEF WorldType, TorrentType, Touched
    <3>2. CASE x.d.stream = {}
      BY <1>3, <3>2 DEF Selected, Touched
    <3>. QED
      BY <3>1, <3>2
  <2>2. wanted \in SUBSET File /\ touched \in SUBSET File /\ wanted \ touched = x.d.config.files \ touched
    BY <1>1
  <2>. HIDE DEF wanted, touched, y
  <2>3. /\ Calm(x, y) /\ Touching(x.d, y.d) /\ y.d.touched = touched /\ y.t.wanted = wanted
        /\ y.t.paused = x.t.paused /\ y.t.auto = x.t.auto
    BY <2>1, <2>2, TouchedCalm
  <2>4. Fetches(y)
    BY <2>2, <2>3 DEF Fetches, Touching
  <2>. QED
    BY <2>3, <2>4 DEF y
<1>. QED
  BY <1>2, <1>3

\* A torrent that is paused, and not started by the queue, rests.
LEMMA PauseCalm ==
    ASSUME NEW x \in WorldType, NEW a \in BOOLEAN, a => x.t.auto
    PROVE  Calm(x, SetFlags(x, TRUE, a))
<1>. DEFINE y == SetFlags(x, TRUE, a)
<1>1. Quiet(x, y) /\ y.d = x.d /\ y.t.paused /\ y.t.auto = a
  BY SetFlagsQuiet
<1>. HIDE DEF y
<1>2. y.t.present = x.t.present
  BY <1>1 DEF Quiet, Keeps
<1>3. Rests(x) => Rests(y)
  BY <1>1, <1>2 DEF Rests
<1>. QED
  BY <1>1, <1>3 DEF Calm, y

\* A checkpoint starts nothing.
LEMMA CheckpointCalm ==
    ASSUME NEW x \in WorldType
    PROVE  Calm(x, Checkpoint(x))
BY CheckpointQuiet DEF Calm, Quiet, Keeps, Rests

\* That the user stopped it is noted.
Noted(x) == [x EXCEPT !.d.config.user_stopped = TRUE]

\* That starts nothing.
LEMMA NotedCalm ==
    ASSUME NEW x \in WorldType
    PROVE  Calm(x, Noted(x)) /\ (Valid(Noted(x)) <=> Valid(x)) /\ Noted(x).d.meta = x.d.meta
<1>. DEFINE d == [x.d EXCEPT !.config.user_stopped = TRUE]
            y == Noted(x)
<1>1. x.d \in DownloadType /\ x.d.config \in Config
  BY DEF WorldType, DownloadType
<1>2. /\ d \in DownloadType /\ d.handle = x.d.handle /\ d.tracker_status = x.d.tracker_status
      /\ d.post = x.d.post /\ d.config.post_handle_ops = x.d.config.post_handle_ops
      /\ d.flags = x.d.flags /\ d.resumable = x.d.resumable /\ d.touched = x.d.touched
      /\ d.trackers = x.d.trackers
      /\ d.meta = x.d.meta /\ d.config.files = x.d.config.files /\ d.pause_after = x.d.pause_after
      /\ d.config.auto_managed = x.d.config.auto_managed /\ d.config.user_stopped
  BY <1>1 DEF DownloadType, Config
<1>3. y = [x EXCEPT !.d = d]
  BY DEF WorldType, Noted
<1>. HIDE DEF d, y
<1>4. Quiet(x, y) /\ y.d = d /\ y.t = x.t
  BY <1>2, <1>3, ObjectQuiet
<1>. QED
  BY <1>2, <1>4 DEF Calm, Rests, Valid, y

\* The torrent is paused, not to be started by the queue, and that is saved.
LEMMA PausedCalm ==
    ASSUME NEW x \in WorldType, Valid(x)
    PROVE  Calm(x, Pause(x)) /\ Rests(Pause(x)) /\ Pause(x).d.meta = x.d.meta
<1>. DEFINE z == SetFlags(x, TRUE, FALSE)
<1>1. Calm(x, z) /\ z.d = x.d /\ z.t.paused /\ ~z.t.auto
  BY PauseCalm, SetFlagsQuiet
<1>2. z \in WorldType /\ Rests(z)
  BY <1>1 DEF Calm, Quiet, Keeps, Rests, Valid
<1>. HIDE DEF z
<1>3. Calm(z, Checkpoint(z)) /\ Checkpoint(z).d = z.d
  BY <1>2, CheckpointCalm, CheckpointQuiet
<1>4. Calm(x, Checkpoint(z))
  BY <1>1, <1>2, <1>3, CalmTwice
<1>. QED
  BY <1>1, <1>2, <1>3, <1>4 DEF Pause, z, Calm

\* stop, also when the user asks for it.
LEMMA StopCalm ==
    ASSUME NEW x \in WorldType, NEW user \in BOOLEAN
    PROVE  /\ Calm(x, Stop(x, user))
           /\ Valid(x) => Rests(Stop(x, user))
           /\ Stop(x, user).d.meta = x.d.meta
<1>1. Calm(x, x)
  BY QuietNone DEF Calm
<1>2. CASE ~Valid(x)
  <2>1. Stop(x, user) \in {x, Noted(x)}
    BY <1>2 DEF Stop, Noted
  <2>2. Calm(x, Noted(x)) /\ Noted(x).d.meta = x.d.meta
    BY NotedCalm
  <2>. QED
    BY <1>1, <1>2, <2>1, <2>2
<1>3. CASE Valid(x)
  <2>. DEFINE c == ClosedStream(x)
              n == Noted(c)
              y == IF user THEN n ELSE c
  <2>1. Stop(x, user) = Pause(y)
    BY <1>3 DEF Stop, Noted
  <2>2. Calm(x, c) /\ c.d.meta = x.d.meta /\ Valid(c)
    <3>1. x.d.stream \in SUBSET File
      BY DEF WorldType, DownloadType
    <3>2. c \in {x, Raised(x, x.d.stream)}
      BY DEF ClosedStream
    <3>3. /\ Calm(x, Raised(x, x.d.stream)) /\ Touching(x.d, Raised(x, x.d.stream).d)
          /\ Raised(x, x.d.stream).t.present = x.t.present
      BY <3>1, RaisedCalm
    <3>. HIDE DEF c
    <3>. QED
      BY <1>1, <1>3, <3>2, <3>3 DEF Touching, Valid
  <2>. HIDE DEF c
  <2>3. c \in WorldType
    BY <2>2 DEF Calm, Quiet, Keeps
  <2>4. Calm(c, n) /\ Valid(n) /\ n.d.meta = c.d.meta
    BY <2>2, <2>3, NotedCalm
  <2>. HIDE DEF n
  <2>5. Calm(x, y) /\ Valid(y) /\ y.d.meta = x.d.meta
    BY <2>2, <2>3, <2>4, CalmTwice
  <2>. HIDE DEF y
  <2>6. y \in WorldType
    BY <2>5 DEF Calm, Quiet, Keeps
  <2>7. Calm(y, Pause(y)) /\ Rests(Pause(y)) /\ Pause(y).d.meta = y.d.meta
    BY <2>5, <2>6, PausedCalm
  <2>. QED
    BY <2>1, <2>5, <2>6, <2>7, CalmTwice
<1>. QED
  BY <1>2, <1>3

\* update_lt_status; a torrent that has seeded enough is stopped.
LEMMA UpdateStatusCalm ==
    ASSUME NEW x \in WorldType
    PROVE  Calm(x, UpdateStatus(x)) /\ UpdateStatus(x).d.meta = x.d.meta
<1>. DEFINE s == [known |-> TRUE, paused |-> x.t.paused, auto |-> x.t.auto, state |-> x.t.state]
            d == [x.d EXCEPT !.lt_status = s]
            y == [x EXCEPT !.d.lt_status = s]
<1>1. x.d \in DownloadType /\ x.t \in TorrentType
  BY DEF WorldType
<1>2. s \in StatusType
  BY <1>1 DEF StatusType, TorrentType
<1>3. UpdateStatus(x) = IF Status(s) = "SEEDING" /\ SeedingStops THEN Stop(y, FALSE) ELSE y
  BY DEF UpdateStatus
<1>4. y = [x EXCEPT !.d = d]
  BY DEF WorldType
<1>. HIDE DEF s, y
<1>5. /\ d \in DownloadType /\ d.handle = x.d.handle /\ d.tracker_status = x.d.tracker_status
      /\ d.post = x.d.post /\ d.config = x.d.config
      /\ d.flags = x.d.flags /\ d.resumable = x.d.resumable /\ d.touched = x.d.touched
      /\ d.trackers = x.d.trackers
      /\ d.meta = x.d.meta /\ d.pause_after = x.d.pause_after
  BY <1>1, <1>2 DEF DownloadType
<1>. HIDE DEF d
<1>6. Quiet(x, y) /\ y.d = d /\ y.t = x.t
  BY <1>4, <1>5, ObjectQuiet
<1>7. Calm(x, y) /\ y \in WorldType
  BY <1>5, <1>6 DEF Calm, Rests, Quiet, Keeps
<1>8. Calm(y, Stop(y, FALSE)) /\ Stop(y, FALSE).d.meta = y.d.meta
  BY <1>7, StopCalm
<1>. QED
  BY <1>3, <1>5, <1>6, <1>7, <1>8, CalmTwice

\* resume rests no longer.
LEMMA ResumeQuiet ==
    ASSUME NEW x \in WorldType
    PROVE  Quiet(x, Resume(x))
<1>. DEFINE d == [x.d EXCEPT !.config.user_stopped = FALSE]
            y == [x EXCEPT !.d.config.user_stopped = FALSE]
<1>1. x.d \in DownloadType /\ x.d.config \in Config
  BY DEF WorldType, DownloadType
<1>2. y = [x EXCEPT !.d = d]
  BY DEF WorldType
<1>3. Resume(x) = IF Valid(y) THEN SetFlags(y, FALSE, y.d.config.auto_managed) ELSE y
  BY DEF Resume
<1>4. /\ d \in DownloadType /\ d.handle = x.d.handle /\ d.tracker_status = x.d.tracker_status
      /\ d.post = x.d.post /\ d.config.post_handle_ops = x.d.config.post_handle_ops
      /\ d.flags = x.d.flags /\ d.resumable = x.d.resumable /\ d.touched = x.d.touched
      /\ d.trackers = x.d.trackers
      /\ d.meta = x.d.meta /\ d.config.files = x.d.config.files
      /\ d.config.auto_managed \in BOOLEAN
  BY <1>1 DEF DownloadType, Config
<1>. HIDE DEF y, d
<1>5. Quiet(x, y) /\ y.d = d
  BY <1>2, <1>4, ObjectQuiet
<1>6. y \in WorldType
  BY <1>5 DEF Quiet, Keeps
<1>7. Quiet(y, SetFlags(y, FALSE, y.d.config.auto_managed))
  BY <1>4, <1>5, <1>6, SetFlagsQuiet
<1>. QED
  BY <1>3, <1>5, <1>6, <1>7, QuietTwice

\* force_recheck of a torrent that was known to be stopped ends with a pause.
LEMMA RecheckQuiet ==
    ASSUME NEW x \in WorldType
    PROVE  /\ Quiet(x, ForceRecheck(x))
           /\ Status(x.d.lt_status) = "STOPPED" \/ ~x.d.meta => Calm(x, ForceRecheck(x))
<1>1. CASE ~(Valid(x) /\ x.d.meta)
  BY <1>1, QuietNone DEF ForceRecheck, Calm
<1>2. CASE Valid(x) /\ x.d.meta
  <2>. DEFINE z == SetFlags(x, FALSE, x.t.auto)
              stopped == Status(x.d.lt_status) = "STOPPED"
              d == [x.d EXCEPT !.pause_after = @ \/ stopped, !.checkpoint_after = TRUE]
              t == [z.t EXCEPT !.state = "HASHCHECKING"]
              y == [z EXCEPT !.d.pause_after = @ \/ stopped, !.d.checkpoint_after = TRUE,
                             !.t.state = "HASHCHECKING"]
  <2>1. x.d \in DownloadType /\ x.t.auto \in BOOLEAN
    BY DEF WorldType, TorrentType
  <2>2. Quiet(x, z) /\ z.d = x.d /\ ~z.t.paused /\ z.t.auto = x.t.auto
    BY <2>1, SetFlagsQuiet
  <2>3. ForceRecheck(x) = y
    BY <1>2, Zenon DEF ForceRecheck
  <2>. HIDE DEF z, stopped
  <2>4. z \in WorldType /\ z.t \in TorrentType
    BY <2>2 DEF Quiet, Keeps, WorldType
  <2>5. y.d = d /\ y.t = t /\ y.q = z.q /\ y.f = z.f
    BY <2>2, <2>4 DEF WorldType
  <2>6. /\ d \in DownloadType /\ d.handle = x.d.handle /\ d.tracker_status = x.d.tracker_status
        /\ d.post = x.d.post /\ d.config = x.d.config
        /\ d.flags = x.d.flags /\ d.resumable = x.d.resumable /\ d.touched = x.d.touched
        /\ d.trackers = x.d.trackers
        /\ d.meta = x.d.meta /\ (stopped => d.pause_after)
    BY <2>1 DEF DownloadType
  <2>7. /\ t \in TorrentType /\ t.present = z.t.present /\ t.auto = z.t.auto /\ t.wanted = z.t.wanted
        /\ t.dirty = z.t.dirty /\ t.trackers = z.t.trackers /\ t.due = z.t.due /\ t.results = z.t.results
    BY <2>4 DEF TorrentType, States
  <2>. HIDE DEF d, t
  <2>8. y \in WorldType
    BY <2>4, <2>5, <2>6, <2>7 DEF WorldType
  <2>. HIDE DEF y
  <2>9. Keeps(z, y)
    BY <2>2, <2>4, <2>5, <2>6, <2>7, <2>8 DEF Keeps, Queued, WorldType
  <2>10. Fetches(z) => Fetches(y)
    BY <2>2, <2>5, <2>6, <2>7 DEF Fetches, Valid
  <2>11. Quiet(x, y)
    BY <2>2, <2>4, <2>9, <2>10, QuietTwice DEF Quiet
  <2>12. stopped /\ Rests(x) => Rests(y)
    BY <1>2, <2>2, <2>5, <2>6, <2>7 DEF Rests, Valid
  <2>. QED
    BY <1>2, <2>3, <2>11, <2>12 DEF Calm, stopped
<1>. QED
  BY <1>1, <1>2

\* on_metadata_received_alert: now there are files to select.
LEMMA MetadataCalm ==
    ASSUME NEW x \in WorldType
    PROVE  Calm(x, OnMetadataReceived(x))
<1>. DEFINE d == [x.d EXCEPT !.meta = TRUE, !.trackers = @ \cup ToSet(x.t.trackers)]
            w == [x EXCEPT !.d.meta = TRUE, !.d.trackers = @ \cup ToSet(x.t.trackers)]
            y == IF Valid(x) THEN Checkpoint(Selected(w)) ELSE x
            e == [y.d EXCEPT !.metainfo = TRUE]
            z == [y EXCEPT !.d.metainfo = TRUE]
<1>1. x.d \in DownloadType /\ ToSet(x.t.trackers) \subseteq Tracker
  BY DEF WorldType, TorrentType, ToSet
<1>2. OnMetadataReceived(x) = z
  BY DEF OnMetadataReceived
<1>3. Calm(x, y)
  <2>1. w = [x EXCEPT !.d = d]
    BY DEF WorldType
  <2>2. /\ d \in DownloadType /\ d.handle = x.d.handle /\ d.tracker_status = x.d.tracker_status
        /\ d.post = x.d.post /\ d.config = x.d.config /\ d.pause_after = x.d.pause_after
        /\ d.flags = x.d.flags /\ d.resumable = x.d.resumable /\ d.touched = x.d.touched
        /\ d.trackers = x.d.trackers \cup ToSet(x.t.trackers)
    BY <1>1 DEF DownloadType
  <2>. HIDE DEF w, d
  <2>3. Keeps(x, w) /\ w.d = d /\ w.t = x.t
    BY <2>1, <2>2, ObjectQuiet
  <2>4. w \in WorldType /\ (Rests(x) => Rests(w))
    BY <2>2, <2>3 DEF Keeps, Rests
  <2>. DEFINE v == Selected(w)
  <2>5. Calm(w, v) /\ Fetches(v)
    BY <2>4, SelectedQuiet
  <2>6. v \in WorldType
    BY <2>5 DEF Calm, Quiet, Keeps
  <2>. HIDE DEF v
  <2>7. Calm(v, Checkpoint(v))
    BY <2>6, CheckpointCalm
  <2>8. Calm(x, v)
    BY <2>3, <2>4, <2>5, KeepsTwice DEF Calm, Quiet
  <2>9. Calm(x, Checkpoint(v))
    BY <2>6, <2>7, <2>8, CalmTwice
  <2>10. Calm(x, x)
    BY QuietNone DEF Calm
  <2>. QED
    BY <2>9, <2>10 DEF v
<1>. HIDE DEF y
<1>4. y \in WorldType /\ y.d \in DownloadType
  BY <1>3 DEF Calm, Quiet, Keeps, WorldType
<1>5. z = [y EXCEPT !.d = e]
  BY <1>4 DEF WorldType
<1>6. /\ e \in DownloadType /\ e.handle = y.d.handle /\ e.tracker_status = y.d.tracker_status
      /\ e.post = y.d.post /\ e.config = y.d.config /\ e.pause_after = y.d.pause_after
      /\ e.flags = y.d.flags /\ e.resumable = y.d.resumable /\ e.touched = y.d.touched
      /\ e.trackers = y.d.trackers
      /\ e.meta = y.d.meta
  BY <1>4 DEF DownloadType
<1>. HIDE DEF e, z
<1>7. Quiet(y, z) /\ z.d = e /\ z.t = y.t
  BY <1>4, <1>5, <1>6, ObjectQuiet
<1>8. Calm(y, z)
  BY <1>6, <1>7 DEF Calm, Rests
<1>. QED
  BY <1>2, <1>3, <1>4, <1>8, CalmTwice

\* on_state_changed_alert.
LEMMA StateChangedCalm ==
    ASSUME NEW x \in WorldType
    PROVE  Calm(x, OnStateChanged(x))
<1>. DEFINE y == UpdateStatus(x)
<1>1. Calm(x, y)
  BY UpdateStatusCalm
<1>2. y \in WorldType
  BY <1>1 DEF Calm, Quiet, Keeps
<1>3. Calm(x, x)
  BY QuietNone DEF Calm
<1>4. OnStateChanged(x) \in {x, y, OnMetadataReceived(y)}
  BY DEF OnStateChanged
<1>. HIDE DEF y
<1>5. Calm(y, OnMetadataReceived(y))
  BY <1>2, MetadataCalm
<1>. QED
  BY <1>1, <1>2, <1>3, <1>4, <1>5, CalmTwice

\* on_torrent_checked_alert: the pause that was put off.
LEMMA CheckedCalm ==
    ASSUME NEW x \in WorldType
    PROVE  Calm(x, OnTorrentChecked(x))
<1>. DEFINE z == SetFlags(x, TRUE, x.t.auto)
            d == [z.d EXCEPT !.pause_after = FALSE]
            y == IF x.d.pause_after /\ x.d.handle THEN [z EXCEPT !.d.pause_after = FALSE] ELSE x
            e == [y.d EXCEPT !.checkpoint_after = FALSE]
            w == [y EXCEPT !.d.checkpoint_after = FALSE]
<1>1. OnTorrentChecked(x) = IF y.d.checkpoint_after THEN Checkpoint(w) ELSE y
  BY DEF OnTorrentChecked
<1>2. Calm(x, y)
  <2>1. CASE ~(x.d.pause_after /\ x.d.handle)
    BY <2>1, QuietNone DEF Calm
  <2>2. CASE x.d.pause_after /\ x.d.handle
    <3>1. x.t.auto \in BOOLEAN
      BY DEF WorldType, TorrentType
    <3>2. Quiet(x, z) /\ z.t.paused /\ z.d = x.d /\ z.t.auto = x.t.auto
      BY <3>1, SetFlagsQuiet
    <3>3. y = [z EXCEPT !.d.pause_after = FALSE]
      BY <2>2
    <3>. HIDE DEF z, y
    <3>4. z \in WorldType /\ z.d \in DownloadType /\ z.t.present = x.t.present
      BY <3>2 DEF Quiet, Keeps, WorldType
    <3>5. y = [z EXCEPT !.d = d]
      BY <3>3, <3>4 DEF WorldType
    <3>6. /\ d \in DownloadType /\ d.handle = z.d.handle /\ d.tracker_status = z.d.tracker_status
          /\ d.post = z.d.post /\ d.config = z.d.config /\ d.meta = z.d.meta
          /\ d.flags = z.d.flags /\ d.resumable = z.d.resumable /\ d.touched = z.d.touched
          /\ d.trackers = z.d.trackers
      BY <3>4 DEF DownloadType
    <3>. HIDE DEF d
    <3>7. Quiet(z, y) /\ y.d = d /\ y.t = z.t
      BY <3>4, <3>5, <3>6, ObjectQuiet
    <3>8. Rests(x) => Rests(y)
      BY <2>2, <3>2, <3>4, <3>6, <3>7 DEF Rests
    <3>. QED
      BY <3>2, <3>4, <3>7, <3>8, QuietTwice DEF Calm
  <2>. QED
    BY <2>1, <2>2
<1>. HIDE DEF y
<1>3. y \in WorldType /\ y.d \in DownloadType
  BY <1>2 DEF Calm, Quiet, Keeps, WorldType
<1>4. w = [y EXCEPT !.d = e]
  BY <1>3 DEF WorldType
<1>5. /\ e \in DownloadType /\ e.handle = y.d.handle /\ e.tracker_status = y.d.tracker_status
      /\ e.post = y.d.post /\ e.config = y.d.config /\ e.pause_after = y.d.pause_after
      /\ e.flags = y.d.flags /\ e.resumable = y.d.resumable /\ e.touched = y.d.touched
      /\ e.trackers = y.d.trackers
      /\ e.meta = y.d.meta
  BY <1>3 DEF DownloadType
<1>. HIDE DEF e, w
<1>6. Quiet(y, w) /\ w.d = e /\ w.t = y.t
  BY <1>3, <1>4, <1>5, ObjectQuiet
<1>7. Calm(y, w) /\ w \in WorldType
  BY <1>5, <1>6 DEF Calm, Rests, Quiet, Keeps
<1>8. Calm(w, Checkpoint(w))
  BY <1>7, CheckpointCalm
<1>9. Calm(x, w)
  BY <1>2, <1>3, <1>7, CalmTwice
<1>10. Calm(x, Checkpoint(w))
  BY <1>7, <1>8, <1>9, CalmTwice
<1>. QED
  BY <1>1, <1>2, <1>10

\* move_storage.
LEMMA MoveCalm ==
    ASSUME NEW x \in WorldType, NEW dir \in Dirs
    PROVE  Calm(x, MoveStorage(x, dir))
<1>1. CASE ~Valid(x)
  BY <1>1, QuietNone DEF MoveStorage, Calm
<1>2. CASE Valid(x)
  <2>. DEFINE path == IF x.d.meta THEN dir ELSE x.t.path
              t == [x.t EXCEPT !.path = path]
              d == [x.d EXCEPT !.config.dest = dir]
              y == [x EXCEPT !.t.path = IF x.d.meta THEN dir ELSE @, !.d.config.dest = dir]
  <2>1. MoveStorage(x, dir) = y
    BY <1>2, Zenon DEF MoveStorage
  <2>2. x.d \in DownloadType /\ x.d.config \in Config /\ x.t \in TorrentType
    BY DEF WorldType, DownloadType
  <2>3. y.d = d /\ y.t = t /\ y.q = x.q /\ y.f = x.f
    BY DEF WorldType
  <2>4. path \in Dirs
    BY <2>2 DEF TorrentType
  <2>. HIDE DEF path
  <2>5. /\ d \in DownloadType /\ d.handle = x.d.handle /\ d.tracker_status = x.d.tracker_status
        /\ d.post = x.d.post /\ d.config.post_handle_ops = x.d.config.post_handle_ops
        /\ d.config.files = x.d.config.files /\ d.config.user_stopped = x.d.config.user_stopped
        /\ d.config.auto_managed = x.d.config.auto_managed /\ d.pause_after = x.d.pause_after
        /\ d.flags = x.d.flags /\ d.resumable = x.d.resumable /\ d.touched = x.d.touched
        /\ d.trackers = x.d.trackers
        /\ d.meta = x.d.meta
    BY <2>2 DEF DownloadType, Config
  <2>6. /\ t \in TorrentType /\ t.paused = x.t.paused /\ t.auto = x.t.auto /\ t.dirty = x.t.dirty
        /\ t.present = x.t.present /\ t.wanted = x.t.wanted
        /\ t.trackers = x.t.trackers /\ t.due = x.t.due /\ t.results = x.t.results
    BY <2>2, <2>4 DEF TorrentType
  <2>. HIDE DEF t, d
  <2>7. y \in WorldType
    BY <2>3, <2>5, <2>6 DEF WorldType
  <2>. HIDE DEF y
  <2>8. Quiet(x, y)
    BY <2>3, <2>5, <2>6, <2>7 DEF Quiet, Keeps, Queued, WorldType, Fetches, Valid
  <2>9. Rests(x) => Rests(y)
    BY <2>3, <2>5, <2>6 DEF Rests
  <2>. QED
    BY <2>1, <2>8, <2>9 DEF Calm
<1>. QED
  BY <1>1, <1>2

\* on_torrent_finished_alert.
LEMMA FinishedCalm ==
    ASSUME NEW x \in WorldType
    PROVE  Calm(x, OnTorrentFinished(x))
<1>. DEFINE y == UpdateStatus(x)
            z == Checkpoint(y)
<1>1. Calm(x, y)
  BY UpdateStatusCalm
<1>2. Calm(x, x)
  BY QuietNone DEF Calm
<1>3. OnTorrentFinished(x) \in {x, z, MoveStorage(z, "completed")}
  BY DEF OnTorrentFinished
<1>. HIDE DEF y
<1>4. y \in WorldType
  BY <1>1 DEF Calm, Quiet, Keeps
<1>5. Calm(y, z)
  BY <1>4, CheckpointCalm
<1>. HIDE DEF z
<1>6. z \in WorldType /\ Calm(x, z)
  BY <1>1, <1>4, <1>5, CalmTwice DEF Calm, Quiet, Keeps
<1>7. Calm(z, MoveStorage(z, "completed"))
  BY <1>6, MoveCalm DEF Dirs
<1>. QED
  BY <1>2, <1>3, <1>6, <1>7, CalmTwice
-----------------------------------------------------------------------------
(***************************************************************************)
(* The inductive invariant.                                                *)
(***************************************************************************)
Adds(q)     == {i \in DOMAIN q : q[i].kind = "add"}
About(q, t) == {i \in DOMAIN q : q[i].kind = "tracker" /\ q[i].url = t}

\* The newest alert about a tracker tells what libtorrent knows of it.
Newest(q, t, shown, told) ==
    IF About(q, t) = {} THEN shown = told
    ELSE \A i \in About(q, t) : (\A j \in About(q, t) : j <= i) => q[i].text = told

\* The handle comes with the one alert that the torrent was added, before all checkpoints.
HandleInv == /\ download.handle => torrent.present
             /\ Saving(alerts) => download.handle
             /\ \A i, j \in Adds(alerts) : i = j
             /\ Adds(alerts) # {} <=> torrent.present /\ ~download.handle

\* The task of the operations works on all that is owed.
OwedInv == /\ OwedIsListed
           /\ download.post.at # "none" => owed \subseteq download.post.remaining
           /\ download.post.at = "trackers" => "trackers" \in download.post.remaining
           /\ download.post.at = "writing" => "backup" \in download.post.remaining

\* A new torrent is to be saved.
FollowInv == /\ torrent.present /\ ~download.handle => torrent.dirty
             /\ CheckpointFollows

StatusInv == /\ torrent.due \subseteq Listed
             /\ \A t \in Tracker \ Listed : torrent.results[t] = "none"
             /\ \A t \in Tracker \ again :
                   Newest(alerts, t, download.tracker_status[t], torrent.results[t])

ListedOnce == \A i, j \in DOMAIN torrent.trackers : torrent.trackers[i] = torrent.trackers[j] => i = j

Types == /\ download \in DownloadType /\ torrent \in TorrentType /\ alerts \in Seq(AlertType)
         /\ disk \in FileType /\ defaults \subseteq Tracker

IInv == /\ Types /\ ListedOnce /\ RemovedStaysAway
        /\ session = "down" => alerts = <<>> /\ torrent = Absent
        /\ session # "down" => /\ HandleInv /\ Fetches(World) /\ (rest => Rests(World))
                               /\ OwedInv /\ FollowInv /\ StatusInv
-----------------------------------------------------------------------------
(***************************************************************************)
(* The queue.                                                              *)
(***************************************************************************)

\* The alert that tells of saved resume data says nothing else.
LEMMA SavingIs ==
    ASSUME NEW q \in Seq(AlertType)
    PROVE  Contains(q, Alert("save")) <=> Saving(q)
<1>1. ASSUME NEW a \in AlertType, a.kind = "save" PROVE a = Alert("save")
  <2>1. a \in [kind : {"add", "metadata", "state", "checked", "finished", "save"}]
    BY <1>1 DEF AlertType, Report
  <2>. QED
    BY <1>1, <2>1 DEF Alert
<1>2. Alert("save").kind = "save"
  BY DEF Alert
<1>. QED
  BY <1>1, <1>2 DEF Contains, Saving

\* Quiet alerts at the end change nothing of what the others say.
LEMMA LongerQueue ==
    ASSUME NEW q \in Seq(AlertType), NEW p \in Seq(AlertType), Queued(q, p)
    PROVE  /\ Adds(p) = Adds(q) /\ \A t : About(p, t) = About(q, t)
           /\ \A t, shown, told : Newest(q, t, shown, told) => Newest(p, t, shown, told)
           /\ Saving(q) => Saving(p)
<1>1. Adds(p) = Adds(q) /\ \A t : About(p, t) = About(q, t)
  BY DEF Queued, Adds, About
<1>2. \A t : \A i \in About(q, t) : p[i] = q[i]
  BY DEF Queued, About
<1>3. Saving(q) => Saving(p)
  BY DEF Queued, Saving
<1>. QED
  BY <1>1, <1>2, <1>3 DEF Newest

\* The first alert is popped.
LEMMA Popped ==
    ASSUME NEW q \in Seq(AlertType), q # <<>>
    PROVE  /\ Tail(q) \in Seq(AlertType) /\ Head(q) \in AlertType /\ Head(q) = q[1]
           /\ Adds(Tail(q)) = {i - 1 : i \in Adds(q) \ {1}}
           /\ \A t : About(Tail(q), t) = {i - 1 : i \in About(q, t) \ {1}}
           /\ Saving(q) /\ Head(q).kind # "save" => Saving(Tail(q))
           /\ Saving(Tail(q)) => Saving(q)
<1>. DEFINE p == Tail(q)
<1>1. /\ p \in Seq(AlertType) /\ Head(q) = q[1] /\ Head(q) \in AlertType
      /\ Len(q) \in Nat \ {0} /\ DOMAIN q = 1 .. Len(q) /\ DOMAIN p = 1 .. Len(q) - 1
      /\ \A i \in DOMAIN p : p[i] = q[i + 1]
  OBVIOUS
<1>. HIDE DEF p
<1>2. \A i \in DOMAIN q \ {1} : i - 1 \in DOMAIN p /\ p[i - 1] = q[i]
  BY <1>1
<1>3. \A i \in DOMAIN p : i + 1 \in DOMAIN q \ {1} /\ p[i] = q[i + 1] /\ i = (i + 1) - 1
  BY <1>1
<1>4. Adds(p) = {i - 1 : i \in Adds(q) \ {1}}
  BY <1>2, <1>3 DEF Adds
<1>5. ASSUME NEW t PROVE About(p, t) = {i - 1 : i \in About(q, t) \ {1}}
  BY <1>2, <1>3 DEF About
<1>6. (Saving(q) /\ Head(q).kind # "save" => Saving(p)) /\ (Saving(p) => Saving(q))
  BY <1>1, <1>2, <1>3 DEF Saving
<1>. QED
  BY <1>1, <1>4, <1>5, <1>6 DEF p

\* What is known of a tracker stays known when the alert about another is taken, and is
\* what the alert says when it is about this one.
LEMMA PoppedStatus ==
    ASSUME NEW q \in Seq(AlertType), q # <<>>, NEW t, NEW shown, NEW told,
           Newest(q, t, shown, told)
    PROVE  Newest(Tail(q), t, IF 1 \in About(q, t) THEN q[1].text ELSE shown, told)
<1>. DEFINE p == Tail(q)
            A == About(q, t)
            B == About(p, t)
<1>1. B = {i - 1 : i \in A \ {1}}
  BY Popped
<1>2. /\ A \subseteq Nat /\ \A i \in DOMAIN p : p[i] = q[i + 1] /\ A \subseteq 1 .. Len(q)
  BY DEF About
<1>3. B \subseteq DOMAIN p /\ (\A i \in A : i >= 1) /\ DOMAIN p \subseteq Nat
  <2>1. p \in Seq(AlertType)
    BY Popped
  <2>. QED
    BY <1>2, <2>1 DEF About
<1>. HIDE DEF A, B, p
<1>4. Newest(q, t, shown, told) <=>
         IF A = {} THEN shown = told
         ELSE \A i \in A : (\A j \in A : j <= i) => q[i].text = told
  BY DEF Newest, A
<1>5. CASE B = {}
  <2>1. A \subseteq {1}
    BY <1>1, <1>5
  <2>2. 1 \in A => q[1].text = told
    BY <1>4, <2>1
  <2>3. 1 \notin A => shown = told
    BY <1>4, <2>1
  <2>. QED
    BY <1>5, <2>2, <2>3 DEF Newest, A, B, p
<1>6. CASE B # {}
  <2>1. ASSUME NEW i \in B, \A j \in B : j <= i PROVE p[i].text = told
    <3>1. i + 1 \in A
      BY <1>1, <1>2
    <3>2. ASSUME NEW j \in A PROVE j <= i + 1
      <4>1. i \in Nat /\ j \in Nat /\ j >= 1
        BY <1>2, <1>3
      <4>2. j # 1 => j - 1 \in B
        BY <1>1
      <4>. QED
        BY <2>1, <4>1, <4>2
    <3>. QED
      BY <1>2, <1>3, <1>4, <3>1, <3>2
  <2>. QED
    BY <1>6, <2>1 DEF Newest, B, p
<1>. QED
  BY <1>5, <1>6

\* Another report is the newest.
LEMMA ReportedStatus ==
    ASSUME NEW q \in Seq(AlertType), NEW a \in AlertType
    PROVE  /\ Append(q, a) \in Seq(AlertType)
           /\ Adds(Append(q, a)) = Adds(q) \cup (IF a.kind = "add" THEN {Len(q) + 1} ELSE {})
           /\ Saving(Append(q, a)) <=> Saving(q) \/ a.kind = "save"
           /\ \A t, shown, told :
                 IF a.kind = "tracker" /\ a.url = t
                 THEN a.text = told => Newest(Append(q, a), t, shown, told)
                 ELSE Newest(q, t, shown, told) => Newest(Append(q, a), t, shown, told)
<1>. DEFINE p == Append(q, a)
            n == Len(q) + 1
<1>1. /\ p \in Seq(AlertType) /\ DOMAIN p = 1 .. n /\ DOMAIN q = 1 .. n - 1 /\ n \in Nat \ {0}
      /\ p[n] = a /\ \A i \in DOMAIN q : p[i] = q[i]
  OBVIOUS
<1>. HIDE DEF p, n
<1>5. /\ \A i \in DOMAIN p : i \in DOMAIN q \/ i = n
      /\ \A i \in DOMAIN q : i \in DOMAIN p
      /\ n \in DOMAIN p /\ n \notin DOMAIN q
  BY <1>1
<1>2. Adds(p) = Adds(q) \cup (IF a.kind = "add" THEN {n} ELSE {})
  BY <1>1, <1>5 DEF Adds
<1>3. Saving(p) <=> Saving(q) \/ a.kind = "save"
  BY <1>1, <1>5 DEF Saving
<1>4. ASSUME NEW t, NEW shown, NEW told
      PROVE  IF a.kind = "tracker" /\ a.url = t
             THEN a.text = told => Newest(p, t, shown, told)
             ELSE Newest(q, t, shown, told) => Newest(p, t, shown, told)
  <2>1. CASE a.kind = "tracker" /\ a.url = t
    <3>1. About(p, t) = About(q, t) \cup {n} /\ About(q, t) \subseteq 1 .. n - 1
      BY <1>1, <1>5, <2>1 DEF About
    <3>2. \A i \in About(p, t) : (\A j \in About(p, t) : j <= i) => i = n
      BY <1>1, <3>1
    <3>. QED
      BY <1>1, <2>1, <3>1, <3>2 DEF Newest
  <2>2. CASE ~(a.kind = "tracker" /\ a.url = t)
    <3>1. About(p, t) = About(q, t) /\ \A i \in About(q, t) : p[i] = q[i]
      BY <1>1, <2>2 DEF About
    <3>. QED
      BY <2>2, <3>1 DEF Newest
  <2>. QED
    BY <2>1, <2>2
<1>. QED
  BY <1>1, <1>2, <1>3, <1>4 DEF p, n
-----------------------------------------------------------------------------
(***************************************************************************)
(* Steps.                                                                  *)
(***************************************************************************)

\* The queue after an alert that is of no torrent's or tracker's coming was popped, or none.
Rest(q) == {q} \cup (IF q # <<>> /\ Head(q).kind \notin {"add", "tracker", "save"} THEN {Tail(q)} ELSE {})

\* Those that are left say the same.
LEMMA RestOfQueue ==
    ASSUME NEW q \in Seq(AlertType), NEW p \in Rest(q)
    PROVE  /\ p \in Seq(AlertType) /\ (Adds(p) = {} <=> Adds(q) = {})
           /\ (\A i, j \in Adds(q) : i = j) => \A i, j \in Adds(p) : i = j
           /\ Saving(q) <=> Saving(p)
           /\ \A t, shown, told : Newest(q, t, shown, told) => Newest(p, t, shown, told)
<1>1. CASE p = q
  BY <1>1
<1>2. CASE q # <<>> /\ Head(q).kind \notin {"add", "tracker", "save"} /\ p = Tail(q)
  <2>1. /\ p \in Seq(AlertType) /\ Head(q) = q[1] /\ Adds(p) = {i - 1 : i \in Adds(q) \ {1}}
        /\ Saving(q) <=> Saving(p)
    BY <1>2, Popped
  <2>2. 1 \notin Adds(q) /\ \A t : 1 \notin About(q, t)
    BY <1>2, <2>1 DEF Adds, About
  <2>3. Adds(p) = {i - 1 : i \in Adds(q)} /\ Adds(q) \subseteq Nat
    BY <2>1, <2>2 DEF Adds
  <2>4. ASSUME NEW t, NEW shown, NEW told, Newest(q, t, shown, told) PROVE Newest(p, t, shown, told)
    BY <1>2, <2>2, <2>4, PoppedStatus
  <2>5. (Adds(p) = {} <=> Adds(q) = {})
        /\ ((\A i, j \in Adds(q) : i = j) => \A i, j \in Adds(p) : i = j)
    BY <2>3
  <2>. QED
    BY <2>1, <2>4, <2>5
<1>. QED
  BY <1>1, <1>2 DEF Rest

\* A quiet handler, of what is left, keeps the invariant when a download that must rest does.
LEMMA QuietStep ==
    ASSUME IInv, session # "down", session' # "down",
           NEW x \in WorldType, x.d = download, x.t = torrent, x.f = disk, x.q \in Rest(alerts),
           NEW y, Become(y), Quiet(x, y), rest' => Rests(y),
           UNCHANGED <<owed, defaults, removed, again>>
    PROVE  IInv'
<1>1. /\ alerts \in Seq(AlertType) /\ torrent \in TorrentType
      /\ HandleInv /\ Fetches(World) /\ OwedInv /\ FollowInv /\ StatusInv
  BY DEF IInv, Types
<1>2. /\ y \in WorldType /\ x.q \in Seq(AlertType) /\ y.q \in Seq(AlertType)
      /\ Queued(x.q, y.q)
  BY DEF Quiet, Keeps, WorldType
<1>3. download' = y.d /\ torrent' = y.t /\ alerts' = y.q /\ disk' = y.f
  BY DEF Become
<1>4. /\ torrent'.trackers = torrent.trackers /\ torrent'.due = torrent.due
      /\ torrent'.results = torrent.results /\ torrent'.present = torrent.present
      /\ download'.handle = download.handle /\ download'.tracker_status = download.tracker_status
      /\ download'.post = download.post
      /\ download'.config.post_handle_ops = download.config.post_handle_ops
      /\ download.trackers \subseteq download'.trackers
      /\ download'.trackers \subseteq download.trackers \cup ToSet(torrent.trackers)
      /\ disk' = disk
      /\ torrent.dirty => torrent'.dirty \/ (download.handle /\ Saving(alerts'))
      /\ Saving(alerts') => Saving(x.q) \/ download.handle
  BY <1>3 DEF Quiet, Keeps
<1>5. Types' /\ ListedOnce'
  BY <1>2, <1>3, <1>4 DEF IInv, Types, WorldType, ListedOnce
<1>6. Listed' = Listed
  BY <1>4 DEF Listed
<1>7. RemovedStaysAway'
  BY <1>4, <1>6 DEF IInv, RemovedStaysAway, Listed
<1>8. /\ Adds(alerts') = {} <=> Adds(alerts) = {}
      /\ \A i, j \in Adds(alerts') : i = j
      /\ (Saving(alerts) => Saving(alerts')) /\ (Saving(alerts') => Saving(alerts) \/ download.handle)
      /\ \A t, shown, told : Newest(alerts, t, shown, told) => Newest(alerts', t, shown, told)
  BY <1>1, <1>2, <1>3, <1>4, RestOfQueue, LongerQueue DEF HandleInv
<1>9. HandleInv'
  BY <1>1, <1>4, <1>8 DEF HandleInv
<1>10. Fetches(World)'
  <2>1. Fetches(x)
    BY <1>1 DEF Fetches, Valid, World
  <2>2. Fetches(y)
    BY <2>1 DEF Quiet
  <2>. QED
    BY <1>3, <2>2 DEF Fetches, Valid, World
<1>11. (rest => Rests(World))'
  BY <1>3 DEF Rests, World
<1>12. OwedInv'
  BY <1>1, <1>4 DEF OwedInv, OwedIsListed
<1>13. FollowInv'
  <2>2. torrent'.present /\ ~download'.handle => torrent'.dirty
    BY <1>1, <1>4 DEF FollowInv
  <2>3. CheckpointFollows'
    <3>1. Valid(World)' <=> Valid(World)
      BY <1>4 DEF Valid, World
    <3>2. alerts' \in Seq(AlertType)
      BY <1>5 DEF Types
    <3>3. ASSUME Valid(World)', ~torrent'.dirty, ~Saving(alerts')
          PROVE  disk'.trackers = Listed' /\ download'.trackers = Listed'
      <4>1. Valid(World) /\ ~torrent.dirty /\ ~Saving(alerts)
        BY <1>4, <1>8, <3>1, <3>3
      <4>2. disk.trackers = Listed /\ download.trackers = Listed
        BY <1>1, <4>1, SavingIs DEF FollowInv, CheckpointFollows
      <4>3. download'.trackers = Listed
        BY <1>4, <4>2 DEF Listed
      <4>. QED
        BY <1>4, <1>6, <4>2, <4>3
    <3>. QED
      BY <3>2, <3>3, SavingIs DEF CheckpointFollows
  <2>. QED
    BY <2>2, <2>3 DEF FollowInv
<1>14. StatusInv'
  BY <1>1, <1>4, <1>6, <1>8 DEF StatusInv
<1>. QED
  BY <1>5, <1>7, <1>9, <1>10, <1>11, <1>12, <1>13, <1>14 DEF IInv

\* The world of this moment has its type.
LEMMA WorldHasType ==
    ASSUME IInv
    PROVE  World \in WorldType /\ World.d = download /\ World.t = torrent /\ World.q = alerts /\ World.f = disk
BY DEF IInv, Types, World, WorldType

\* Handlers that a resting download sleeps through.
LEMMA CalmStep ==
    ASSUME IInv, session # "down", session' # "down", NEW y, Become(y), Calm(World, y),
           rest' => rest, UNCHANGED <<owed, defaults, removed, again>>
    PROVE  IInv'
<1>1. rest => Rests(World)
  BY DEF IInv
<1>2. rest' => Rests(y)
  BY <1>1 DEF Calm
<1>. QED
  BY <1>2, WorldHasType, QuietStep DEF Calm, Rest

\* Alerts about the torrent's life.
LEMMA AlertStep ==
    ASSUME IInv, ProcessAlert, Head(alerts).kind \in {"metadata", "state", "checked", "finished"},
           UNCHANGED <<defaults, removed, again>>
    PROVE  IInv'
<1>. DEFINE x == [World EXCEPT !.q = Tail(@)]
            y == Handled(x, Head(alerts))
<1>1. session # "down" /\ session' # "down" /\ alerts # <<>> /\ Become(y) /\ rest' = rest /\ owed' = owed
  BY DEF ProcessAlert
<1>2. World \in WorldType /\ World.d = download /\ World.t = torrent /\ World.q = alerts /\ World.f = disk
  BY WorldHasType
<1>3. Tail(alerts) \in Seq(AlertType)
  BY <1>1, Popped DEF IInv, Types
<1>4. /\ x \in WorldType /\ x.d = download /\ x.t = torrent /\ x.q = Tail(alerts) /\ x.f = disk
  BY <1>2, <1>3 DEF WorldType
<1>5. y \in {OnMetadataReceived(x), OnStateChanged(x), OnTorrentChecked(x), OnTorrentFinished(x)}
  BY DEF Handled
<1>. HIDE DEF x, y
<1>6. Calm(x, y)
  BY <1>4, <1>5, MetadataCalm, StateChangedCalm, CheckedCalm, FinishedCalm
<1>7. x.q \in Rest(alerts)
  BY <1>1, <1>4 DEF Rest
<1>8. rest => Rests(x)
  BY <1>1, <1>2, <1>4 DEF IInv, Rests
<1>. QED
  BY <1>1, <1>4, <1>6, <1>7, <1>8, QuietStep DEF Calm

\* Tasks that stop the download, save it or read its status.
LEMMA TaskStep ==
    ASSUME IInv, StateUpdate \/ StatesCallback \/ StopAfterMetainfo \/ StoppedAfterMetainfo,
           UNCHANGED <<defaults, removed, again>>
    PROVE  IInv'
<1>0. World \in WorldType /\ World.d = download
  BY WorldHasType
<1>1. CASE StateUpdate
  BY <1>0, <1>1, UpdateStatusCalm, CalmStep DEF StateUpdate
<1>2. CASE StatesCallback
  BY <1>0, <1>2, CheckpointCalm, CalmStep DEF StatesCallback
<1>3. CASE StopAfterMetainfo
  <2>. DEFINE x == Stop(World, FALSE)
              d == [x.d EXCEPT !.after = "stopping"]
              y == [x EXCEPT !.d.after = "stopping"]
  <2>1. Become(y)
    BY <1>3 DEF StopAfterMetainfo
  <2>2. Calm(World, x)
    BY <1>0, StopCalm
  <2>. HIDE DEF x
  <2>3. x \in WorldType /\ x.d \in DownloadType
    BY <2>2 DEF Calm, Quiet, Keeps, WorldType
  <2>4. y = [x EXCEPT !.d = d]
    BY <2>3 DEF WorldType
  <2>5. /\ d \in DownloadType /\ d.handle = x.d.handle /\ d.tracker_status = x.d.tracker_status
        /\ d.post = x.d.post /\ d.config = x.d.config /\ d.pause_after = x.d.pause_after
        /\ d.flags = x.d.flags /\ d.resumable = x.d.resumable /\ d.touched = x.d.touched
        /\ d.trackers = x.d.trackers
        /\ d.meta = x.d.meta
    BY <2>3 DEF DownloadType
  <2>. HIDE DEF d, y
  <2>6. Quiet(x, y) /\ y.d = d /\ y.t = x.t
    BY <2>3, <2>4, <2>5, ObjectQuiet
  <2>7. Calm(x, y)
    BY <2>5, <2>6 DEF Calm, Rests
  <2>8. Calm(World, y)
    BY <1>0, <2>2, <2>3, <2>7, CalmTwice
  <2>. QED
    BY <1>3, <2>1, <2>8, CalmStep DEF StopAfterMetainfo, Task
<1>4. CASE StoppedAfterMetainfo
  <2>. DEFINE d == [download EXCEPT !.after = "none", !.config.stop_after_metainfo = FALSE]
              y == [World EXCEPT !.d.after = "none", !.d.config.stop_after_metainfo = FALSE]
  <2>1. Become(y)
    BY <1>4 DEF StoppedAfterMetainfo
  <2>2. download \in DownloadType /\ download.config \in Config
    BY <1>0 DEF WorldType, DownloadType
  <2>3. y = [World EXCEPT !.d = d]
    BY <1>0 DEF WorldType
  <2>4. /\ d \in DownloadType /\ d.handle = download.handle /\ d.tracker_status = download.tracker_status
        /\ d.post = download.post /\ d.config.post_handle_ops = download.config.post_handle_ops
        /\ d.config.files = download.config.files /\ d.config.user_stopped = download.config.user_stopped
        /\ d.config.auto_managed = download.config.auto_managed
        /\ d.pause_after = download.pause_after
        /\ d.flags = download.flags /\ d.resumable = download.resumable
        /\ d.touched = download.touched /\ d.trackers = download.trackers
        /\ d.meta = download.meta
    BY <2>2 DEF DownloadType, Config
  <2>. HIDE DEF d, y
  <2>5. Quiet(World, y) /\ y.d = d /\ y.t = World.t
    BY <1>0, <2>3, <2>4, ObjectQuiet
  <2>6. Calm(World, y)
    BY <1>0, <2>4, <2>5 DEF Calm, Rests
  <2>. QED
    BY <1>4, <2>1, <2>6, CalmStep DEF StoppedAfterMetainfo, Task
<1>. QED
  BY <1>1, <1>2, <1>3, <1>4

\* Requests to stop, resume and check, and to manage it; the end.
LEMMA RequestStep ==
    ASSUME IInv, UNCHANGED <<defaults, removed, again>>,
           RequestStop \/ RequestResume \/ RequestRecheck \/ RequestAutoManaged \/ Quit
    PROVE  IInv'
<1>0. /\ World \in WorldType /\ World.d = download /\ World.t = torrent /\ World.q = alerts
      /\ World.f = disk /\ (rest => Rests(World)) /\ World.q \in Rest(alerts)
  <2>1. session # "down"
    BY DEF RequestStop, RequestResume, RequestRecheck, RequestAutoManaged, Quit, Control, Engines, Request
  <2>. QED
    BY <2>1, WorldHasType DEF IInv, Rest
<1>. USE DEF Control, Engines, Request
<1>1. CASE RequestStop
  <2>1. Calm(World, Stop(World, TRUE)) /\ (Valid(World) => Rests(Stop(World, TRUE)))
    BY <1>0, StopCalm
  <2>. QED
    BY <1>0, <1>1, <2>1, QuietStep DEF RequestStop, Calm
<1>2. CASE RequestResume
  BY <1>0, <1>2, ResumeQuiet, QuietStep DEF RequestResume
<1>3. CASE RequestRecheck
  <2>1. /\ Quiet(World, ForceRecheck(World))
        /\ Status(download.lt_status) = "STOPPED" \/ ~download.meta => Calm(World, ForceRecheck(World))
    BY <1>0, RecheckQuiet
  <2>. QED
    BY <1>0, <1>3, <2>1, QuietStep DEF RequestRecheck, Calm
<1>4. CASE Quit
  BY <1>0, <1>4, StopCalm, CalmStep DEF Quit
<1>6. CASE RequestAutoManaged
  <2>. DEFINE Z(a) == SetFlags(World, torrent.paused, a)
              D(a) == [Z(a).d EXCEPT !.config.auto_managed = a]
              Y(a) == [Z(a) EXCEPT !.d.config.auto_managed = a]
  <2>1. PICK a \in BOOLEAN : Become(Y(a)) /\ rest' = (rest /\ ~a)
    BY <1>6 DEF RequestAutoManaged
  <2>2. torrent.paused \in BOOLEAN
    BY <1>0 DEF WorldType, TorrentType
  <2>. DEFINE z == Z(a)
              d == D(a)
              y == Y(a)
  <2>3. Quiet(World, z) /\ z.d = download /\ z.t.paused = torrent.paused /\ z.t.auto = a
    BY <1>0, <2>2, SetFlagsQuiet
  <2>. HIDE DEF z, Z
  <2>4. z \in WorldType /\ z.d \in DownloadType /\ z.d.config \in Config
    BY <2>3 DEF Quiet, Keeps, WorldType, DownloadType
  <2>5. y = [z EXCEPT !.d = d]
    BY <2>4 DEF WorldType, z
  <2>6. /\ d \in DownloadType /\ d.handle = z.d.handle /\ d.tracker_status = z.d.tracker_status
        /\ d.post = z.d.post /\ d.config.post_handle_ops = z.d.config.post_handle_ops
        /\ d.config.files = z.d.config.files /\ d.config.user_stopped = z.d.config.user_stopped
        /\ d.config.auto_managed = a /\ d.pause_after = z.d.pause_after
        /\ d.flags = z.d.flags /\ d.resumable = z.d.resumable /\ d.touched = z.d.touched
        /\ d.trackers = z.d.trackers
        /\ d.meta = z.d.meta
    BY <2>4 DEF DownloadType, Config, z
  <2>7. Become(y)
    BY <2>1
  <2>. HIDE DEF d, y
  <2>8. Quiet(z, y) /\ y.d = d /\ y.t = z.t
    BY <2>4, <2>5, <2>6, ObjectQuiet
  <2>9. Quiet(World, y)
    BY <1>0, <2>3, <2>4, <2>8, QuietTwice
  <2>10. Valid(World)
    BY <1>6 DEF RequestAutoManaged
  <2>11. rest' => Rests(y)
    BY <1>0, <2>1, <2>3, <2>6, <2>8, <2>10 DEF Rests, Valid
  <2>. QED
    BY <1>0, <1>6, <2>7, <2>9, <2>11, QuietStep DEF RequestAutoManaged
<1>. QED
  BY <1>1, <1>2, <1>3, <1>4, <1>6

\* Requests about files: they are selected, given a priority, or played.
LEMMA FilesStep ==
    ASSUME IInv, UNCHANGED <<defaults, removed, again>>,
           RequestFilePriority \/ RequestStream \/ \E files \in Selections : SelectFiles(files)
    PROVE  IInv'
<1>0. session # "down" /\ session' # "down" /\ UNCHANGED owed
  BY DEF RequestFilePriority, RequestStream, SelectFiles, Choice, Request
<1>1. /\ World \in WorldType /\ World.d = download /\ World.t = torrent /\ World.q = alerts
      /\ World.f = disk /\ World.q \in Rest(alerts) /\ Calm(World, World)
  BY WorldHasType, QuietNone DEF Rest, Calm
<1>2. download \in DownloadType /\ download.config \in Config /\ torrent.wanted \in SUBSET File
      /\ download.touched \in SUBSET File
  BY <1>1 DEF WorldType, DownloadType, TorrentType
<1>3. ASSUME NEW files \in Selections, SelectFiles(files) PROVE IInv'
  <2>. DEFINE d == [download EXCEPT !.config.files = files]
              x == [World EXCEPT !.d.config.files = files]
              y == IF Valid(World) /\ download.stream = {} THEN Selected(x) ELSE World
  <2>3. x = [World EXCEPT !.d = d]
    BY <1>1 DEF WorldType
  <2>4. /\ d \in DownloadType /\ d.handle = download.handle /\ d.tracker_status = download.tracker_status
        /\ d.post = download.post /\ d.config.post_handle_ops = download.config.post_handle_ops
        /\ d.config.user_stopped = download.config.user_stopped
        /\ d.config.auto_managed = download.config.auto_managed
        /\ d.pause_after = download.pause_after /\ d.touched = download.touched
        /\ d.flags = download.flags /\ d.resumable = download.resumable /\ d.trackers = download.trackers
    BY <1>2 DEF DownloadType, Config
  <2>. HIDE DEF d, x
  <2>5. Keeps(World, x) /\ x.d = d /\ x.t = World.t
    BY <1>1, <2>3, <2>4, ObjectQuiet
  <2>6. x \in WorldType /\ (Rests(World) => Rests(x))
    BY <1>1, <2>4, <2>5 DEF Keeps, Rests
  <2>7. Calm(x, Selected(x)) /\ Fetches(Selected(x))
    BY <2>6, SelectedQuiet
  <2>8. Calm(World, Selected(x))
    BY <1>1, <2>5, <2>6, <2>7, KeepsTwice DEF Calm, Quiet
  <2>9. Calm(World, y)
    BY <1>1, <2>8
  <2>10. Become(y) /\ rest' = rest
    BY <1>3 DEF SelectFiles, x
  <2>. HIDE DEF y
  <2>. QED
    BY <1>0, <2>9, <2>10, CalmStep
<1>4. CASE RequestFilePriority
  <2>1. PICK f \in File, priority \in {0, 4} :
          LET raised  == Raised(World, {f})
              lowered == [raised EXCEPT !.t.wanted = @ \ {f}]
          IN  Become(IF ~Valid(World) THEN World ELSE IF priority = 0 THEN lowered ELSE raised)
    BY <1>4 DEF RequestFilePriority
  <2>. DEFINE raised  == Raised(World, {f})
              lowered == [raised EXCEPT !.t.wanted = @ \ {f}]
              wanted  == (torrent.wanted \cup {f}) \ {f}
              touched == download.touched \cup {f}
              y == IF ~Valid(World) THEN World ELSE IF priority = 0 THEN lowered ELSE raised
  <2>2. Become(y) /\ rest' = rest
    BY <1>4, <2>1 DEF RequestFilePriority
  <2>3. Calm(World, raised)
    BY <1>1, RaisedCalm
  <2>4. Calm(World, lowered)
    <3>1. lowered = Touched(World, wanted, touched)
      BY <1>1 DEF Raised, Touched, WorldType, TorrentType, DownloadType
    <3>2. Fetches(World) => (Valid(World) /\ World.d.meta => wanted \ touched = World.d.config.files \ touched)
      BY <1>1 DEF Fetches
    <3>3. wanted \in SUBSET File /\ touched \in SUBSET File
      BY <1>2
    <3>. HIDE DEF wanted, touched, lowered
    <3>. QED
      BY <1>1, <3>1, <3>2, <3>3, TouchedCalm
  <2>. HIDE DEF raised, lowered
  <2>5. Calm(World, y)
    BY <1>1, <2>3, <2>4
  <2>. HIDE DEF y
  <2>. QED
    BY <1>0, <2>2, <2>5, CalmStep
<1>5. CASE RequestStream
  <2>1. PICK f \in File : Become(Resume([World EXCEPT !.d.stream = {f}, !.d.players[f] = "waiting"]))
    BY <1>5 DEF RequestStream
  <2>. DEFINE d == [download EXCEPT !.stream = {f}, !.players[f] = "waiting"]
              x == [World EXCEPT !.d.stream = {f}, !.d.players[f] = "waiting"]
  <2>2. x = [World EXCEPT !.d = d]
    BY <1>1 DEF WorldType
  <2>3. /\ d \in DownloadType /\ d.handle = download.handle /\ d.tracker_status = download.tracker_status
        /\ d.post = download.post /\ d.config = download.config /\ d.meta = download.meta
        /\ d.touched = download.touched
        /\ d.flags = download.flags /\ d.resumable = download.resumable /\ d.trackers = download.trackers
    BY <1>2 DEF DownloadType
  <2>4. Become(Resume(x)) /\ rest' = FALSE
    BY <1>5, <2>1 DEF RequestStream
  <2>. HIDE DEF d, x
  <2>5. Quiet(World, x)
    BY <1>1, <2>2, <2>3, ObjectQuiet
  <2>6. x \in WorldType
    BY <2>5 DEF Quiet, Keeps
  <2>7. Quiet(World, Resume(x))
    BY <1>1, <2>5, <2>6, ResumeQuiet, QuietTwice
  <2>. QED
    BY <1>0, <1>1, <2>4, <2>7, QuietStep
<1>. QED
  BY <1>3, <1>4, <1>5

\* Players have their files fetched first, whatever is selected.
LEMMA PlayersStep ==
    ASSUME IInv, UNCHANGED <<defaults, removed, again>>, Players
    PROVE  IInv'
<1>1. /\ session # "down" /\ session' # "down" /\ rest' = rest /\ UNCHANGED owed
      /\ \E f \in File, at \in {"none", "playing"}, files \in SUBSET File :
            Become(Raised([World EXCEPT !.d.players[f] = at], files))
  <2>1. download.stream \in SUBSET File
    BY DEF IInv, Types, DownloadType
  <2>2. CASE EnableStream
    BY <2>2 DEF EnableStream
  <2>3. CASE CloseReader
    BY <2>1, <2>3 DEF CloseReader
  <2>. QED
    BY <2>2, <2>3 DEF Players
<1>2. PICK f \in File, at \in {"none", "playing"}, files \in SUBSET File :
         Become(Raised([World EXCEPT !.d.players[f] = at], files))
  BY <1>1
<1>3. World \in WorldType /\ World.d = download /\ download \in DownloadType
  BY WorldHasType DEF WorldType
<1>. DEFINE d == [download EXCEPT !.players[f] = at]
            x == [World EXCEPT !.d.players[f] = at]
<1>4. x = [World EXCEPT !.d = d]
  BY <1>3 DEF WorldType
<1>5. /\ d \in DownloadType /\ d.handle = download.handle /\ d.tracker_status = download.tracker_status
      /\ d.post = download.post /\ d.config = download.config /\ d.meta = download.meta
      /\ d.touched = download.touched /\ d.pause_after = download.pause_after
      /\ d.flags = download.flags /\ d.resumable = download.resumable /\ d.trackers = download.trackers
  BY <1>3 DEF DownloadType
<1>6. Become(Raised(x, files))
  BY <1>2
<1>. HIDE DEF d, x
<1>7. Quiet(World, x) /\ x.d = d /\ x.t = World.t
  BY <1>3, <1>4, <1>5, ObjectQuiet
<1>8. Calm(World, x) /\ x \in WorldType
  BY <1>3, <1>5, <1>7 DEF Calm, Rests, Quiet, Keeps
<1>9. Calm(x, Raised(x, files))
  BY <1>8, RaisedCalm
<1>. QED
  BY <1>1, <1>3, <1>6, <1>8, <1>9, CalmTwice, CalmStep

\* One alert or two about the torrent's life come in.
LEMMA QueuedMore ==
    ASSUME NEW q \in Seq(AlertType), NEW a \in AlertType, NEW b \in AlertType,
           {a.kind, b.kind} \cap {"add", "tracker", "save"} = {}
    PROVE  /\ Queued(q, q)
           /\ Append(q, a) \in Seq(AlertType) /\ Queued(q, Append(q, a))
           /\ Saving(Append(q, a)) => Saving(q)
           /\ q \o <<a, b>> \in Seq(AlertType) /\ Queued(q, q \o <<a, b>>)
           /\ Saving(q \o <<a, b>>) => Saving(q)
<1>1. Queued(q, q)
  BY DEF Queued
<1>2. Append(q, a) \in Seq(AlertType) /\ Queued(q, Append(q, a)) /\ (Saving(Append(q, a)) => Saving(q))
  <2>. DEFINE p == Append(q, a)
  <2>1. /\ p \in Seq(AlertType) /\ Len(p) = Len(q) + 1 /\ p[Len(q) + 1] = a
        /\ DOMAIN p = 1 .. Len(q) + 1 /\ DOMAIN q = 1 .. Len(q) /\ Len(q) \in Nat
        /\ \A i \in DOMAIN q : p[i] = q[i]
    OBVIOUS
  <2>. HIDE DEF p
  <2>2. \A i \in DOMAIN p : i \in DOMAIN q \/ (i = Len(q) + 1 /\ p[i] = a)
    BY <2>1
  <2>3. \A i \in DOMAIN p \ DOMAIN q : p[i].kind \notin {"add", "tracker", "save"}
    BY <2>2
  <2>4. Queued(q, p)
    BY <2>1, <2>3 DEF Queued
  <2>5. Saving(p) => Saving(q)
    BY <2>1, <2>3 DEF Saving
  <2>. QED
    BY <2>1, <2>4, <2>5 DEF p
<1>3. /\ q \o <<a, b>> \in Seq(AlertType) /\ Queued(q, q \o <<a, b>>)
      /\ Saving(q \o <<a, b>>) => Saving(q)
  <2>. DEFINE p == q \o <<a, b>>
  <2>1. /\ p \in Seq(AlertType) /\ Len(p) = Len(q) + 2 /\ p[Len(q) + 1] = a /\ p[Len(q) + 2] = b
        /\ DOMAIN p = 1 .. Len(q) + 2 /\ DOMAIN q = 1 .. Len(q) /\ Len(q) \in Nat
        /\ \A i \in DOMAIN q : p[i] = q[i]
    OBVIOUS
  <2>. HIDE DEF p
  <2>2. \A i \in DOMAIN p : i \in DOMAIN q \/ p[i] \in {a, b}
    <3>1. \A i \in DOMAIN p : i \in DOMAIN q \/ i = Len(q) + 1 \/ i = Len(q) + 2
      BY <2>1
    <3>. QED
      BY <2>1, <3>1
  <2>3. \A i \in DOMAIN p \ DOMAIN q : p[i].kind \notin {"add", "tracker", "save"}
    BY <2>2
  <2>4. Queued(q, p)
    BY <2>1, <2>3 DEF Queued
  <2>5. Saving(p) => Saving(q)
    BY <2>1, <2>3 DEF Saving
  <2>. QED
    BY <2>1, <2>4, <2>5 DEF p
<1>. QED
  BY <1>1, <1>2, <1>3

\* What libtorrent does to the torrent by itself.
LEMMA EngineStep ==
    ASSUME IInv, MetadataArrives \/ CheckEnds \/ DownloadFinishes \/ QueueManages,
           UNCHANGED <<defaults, removed, again>>
    PROVE  IInv'
<1>1. /\ session # "down" /\ session' # "down" /\ UNCHANGED <<download, disk, rest, owed>>
  BY DEF MetadataArrives, CheckEnds, DownloadFinishes, QueueManages, Idle, Room
<1>2. /\ World \in WorldType /\ World.d = download /\ World.t = torrent /\ World.q = alerts
      /\ World.f = disk
  BY WorldHasType
<1>3. download \in DownloadType /\ disk \in FileType /\ torrent \in TorrentType /\ alerts \in Seq(AlertType)
  BY DEF IInv, Types
<1>. DEFINE Alike(t) == /\ t \in TorrentType
                       /\ t.trackers = torrent.trackers /\ t.due = torrent.due /\ t.results = torrent.results
                       /\ t.present = torrent.present /\ t.wanted = torrent.wanted /\ t.auto = torrent.auto
                       /\ t.dirty /\ (t.paused = torrent.paused \/ torrent.auto)
<1>4. Alike(torrent')
  <2>1. CASE MetadataArrives
    <3>1. torrent' = [torrent EXCEPT !.meta = TRUE, !.state = "HASHCHECKING", !.dirty = TRUE]
      BY <2>1 DEF MetadataArrives
    <3>. QED
      BY <1>3, <3>1 DEF TorrentType, States
  <2>2. CASE CheckEnds
    <3>1. \E s \in {"DOWNLOADING", "SEEDING"} : torrent' = [torrent EXCEPT !.state = s, !.dirty = TRUE]
      BY <2>2 DEF CheckEnds
    <3>. QED
      BY <1>3, <3>1 DEF TorrentType, States
  <2>3. CASE DownloadFinishes
    <3>1. torrent' = [torrent EXCEPT !.state = "SEEDING", !.dirty = TRUE]
      BY <2>3 DEF DownloadFinishes
    <3>. QED
      BY <1>3, <3>1 DEF TorrentType, States
  <2>4. CASE QueueManages
    <3>1. torrent' = [torrent EXCEPT !.paused = ~@, !.dirty = TRUE] /\ torrent.auto
      BY <2>4 DEF QueueManages
    <3>. QED
      BY <1>3, <3>1 DEF TorrentType
  <2>. QED
    BY <2>1, <2>2, <2>3, <2>4
<1>5. alerts' \in Seq(AlertType) /\ Queued(alerts, alerts') /\ (Saving(alerts') => Saving(alerts))
  <2>1. \A k \in {"metadata", "checked", "state", "finished"} :
           Alert(k) \in AlertType /\ Alert(k).kind = k
    BY DEF Alert, AlertType
  <2>2. alerts' \in {alerts, Append(alerts, Alert("metadata")),
                     alerts \o <<Alert("checked"), Alert("state")>>, alerts \o <<Alert("finished"), Alert("state")>>}
    BY DEF MetadataArrives, CheckEnds, DownloadFinishes, QueueManages
  <2>. DEFINE Lengthens(p) == p \in Seq(AlertType) /\ Queued(alerts, p) /\ (Saving(p) => Saving(alerts))
  <2>3. ASSUME NEW k \in {"metadata", "checked", "state", "finished"}
        PROVE  /\ Lengthens(alerts) /\ Lengthens(Append(alerts, Alert(k)))
               /\ Lengthens(alerts \o <<Alert(k), Alert("state")>>)
    <3>1. {Alert(k).kind, Alert("state").kind} \cap {"add", "tracker", "save"} = {}
      BY <2>1
    <3>. QED
      BY <1>3, <2>1, <3>1, QueuedMore
  <2>. HIDE DEF Lengthens
  <2>4. Lengthens(alerts')
    BY <2>2, <2>3
  <2>. QED
    BY <2>4 DEF Lengthens
<1>. DEFINE y == [d |-> download, t |-> torrent', q |-> alerts', f |-> disk]
<1>6. y \in WorldType /\ y.d = download /\ y.t = torrent' /\ y.q = alerts' /\ y.f = disk
  BY <1>3, <1>4, <1>5 DEF WorldType
<1>7. Become(y)
  BY <1>1 DEF Become
<1>. HIDE DEF y
<1>8. Quiet(World, y)
  BY <1>2, <1>4, <1>5, <1>6 DEF Quiet, Keeps, Fetches, Valid
<1>9. Rests(World) => Rests(y)
  BY <1>2, <1>4, <1>6 DEF Rests
<1>. QED
  BY <1>1, <1>7, <1>8, <1>9, CalmStep DEF Calm

\* The torrent is there, with the flags of its parameters, and there is much to save.
LEMMA AddedStep ==
    ASSUME IInv, TorrentAdded, UNCHANGED <<defaults, removed, again>>
    PROVE  IInv'
<1>1. /\ session # "down" /\ session' # "down" /\ UNCHANGED <<download, disk, rest, owed>>
      /\ ~torrent.present /\ alerts' = Append(alerts, Alert("add"))
  BY DEF TorrentAdded, Idle, Room
<1>2. download \in DownloadType /\ disk \in FileType /\ torrent \in TorrentType /\ alerts \in Seq(AlertType)
  BY DEF IInv, Types
<1>3. HandleInv /\ OwedInv /\ FollowInv /\ StatusInv /\ (rest => Rests(World)) /\ ~download.handle
      /\ Adds(alerts) = {} /\ ~Saving(alerts)
  BY <1>1 DEF IInv, HandleInv
<1>4. download.flags \in Flags /\ download.meta \in BOOLEAN /\ download.config.dest \in Dirs
  BY <1>2 DEF DownloadType, Config
<1>5. /\ torrent' \in TorrentType
      /\ torrent'.trackers = torrent.trackers /\ torrent'.due = torrent.due /\ torrent'.results = torrent.results
      /\ torrent'.present /\ torrent'.dirty
      /\ torrent'.paused = download.flags.paused /\ torrent'.auto = download.flags.auto
  <2>. DEFINE s == IF download.meta THEN "HASHCHECKING" ELSE "METADATA"
  <2>1. PICK wanted \in SUBSET File :
           torrent' = [torrent EXCEPT !.present = TRUE, !.paused = download.flags.paused,
                                      !.auto = download.flags.auto, !.meta = download.meta,
                                      !.state = s, !.wanted = wanted, !.path = download.config.dest, !.dirty = TRUE]
    BY DEF TorrentAdded
  <2>2. s \in States
    BY DEF States
  <2>. HIDE DEF s
  <2>. QED
    BY <1>2, <1>4, <2>1, <2>2 DEF TorrentType, Flags
<1>6. Alert("add") \in AlertType /\ Alert("add").kind = "add"
  BY DEF Alert, AlertType
<1>7. /\ alerts' \in Seq(AlertType) /\ Adds(alerts') = {Len(alerts) + 1} /\ ~Saving(alerts')
      /\ \A t, shown, told : Newest(alerts, t, shown, told) => Newest(alerts', t, shown, told)
  BY <1>1, <1>2, <1>3, <1>6, ReportedStatus
<1>8. Types' /\ ListedOnce'
  BY <1>1, <1>2, <1>5, <1>7 DEF IInv, Types, ListedOnce
<1>9. Listed' = Listed
  BY <1>5 DEF Listed
<1>10. RemovedStaysAway'
  BY <1>1, <1>9 DEF IInv, RemovedStaysAway
<1>11. HandleInv'
  BY <1>1, <1>3, <1>5, <1>7 DEF HandleInv
<1>12. Fetches(World)' /\ CheckpointFollows'
  BY <1>1, <1>3 DEF Fetches, CheckpointFollows, Valid, World
<1>13. (rest => Rests(World))'
  BY <1>1, <1>2, <1>3, <1>5 DEF Rests, World, DownloadType
<1>14. OwedInv'
  BY <1>1, <1>3 DEF OwedInv, OwedIsListed
<1>15. FollowInv'
  BY <1>1, <1>3, <1>5, <1>9, <1>12 DEF FollowInv
<1>16. StatusInv'
  BY <1>1, <1>3, <1>5, <1>7, <1>9 DEF StatusInv
<1>. QED
  BY <1>1, <1>8, <1>10, <1>11, <1>12, <1>13, <1>14, <1>15, <1>16 DEF IInv

\* The handle comes: what was asked for before is done now.
LEMMA AddAlertStep ==
    ASSUME IInv, ProcessAlert, Head(alerts).kind = "add", UNCHANGED <<defaults, removed, again>>
    PROVE  IInv'
<1>. DEFINE x == [World EXCEPT !.q = Tail(@)]
            y == OnAddTorrent(x)
            d == [download EXCEPT !.handle = TRUE]
            b == [x EXCEPT !.d.handle = TRUE]
<1>1. session # "down" /\ session' # "down" /\ alerts # <<>> /\ Become(y) /\ rest' = rest /\ owed' = owed
  BY DEF ProcessAlert, Handled
<1>2. World \in WorldType /\ World.d = download /\ World.t = torrent /\ World.q = alerts /\ World.f = disk
  BY WorldHasType
<1>3. download \in DownloadType /\ disk \in FileType /\ torrent \in TorrentType /\ alerts \in Seq(AlertType)
  BY DEF IInv, Types
<1>4. HandleInv /\ OwedInv /\ FollowInv /\ StatusInv /\ (rest => Rests(World))
  BY <1>1 DEF IInv
<1>5. /\ Tail(alerts) \in Seq(AlertType) /\ 1 \in Adds(alerts)
      /\ Adds(Tail(alerts)) = {} /\ ~Saving(Tail(alerts)) /\ torrent.present /\ ~download.handle
  <2>1. Head(alerts) = alerts[1] /\ 1 \in DOMAIN alerts
    BY <1>1, <1>3
  <2>2. 1 \in Adds(alerts)
    BY <2>1 DEF Adds
  <2>3. torrent.present /\ ~download.handle /\ ~Saving(alerts) /\ Adds(alerts) = {1}
    BY <1>4, <2>2 DEF HandleInv
  <2>. QED
    BY <1>1, <1>3, <2>2, <2>3, Popped
<1>6. x \in WorldType /\ x.d = download /\ x.t = torrent /\ x.q = Tail(alerts) /\ x.f = disk
  BY <1>2, <1>5 DEF WorldType
<1>7. b \in WorldType /\ b.d = d /\ b.t = torrent /\ b.q = Tail(alerts) /\ b.f = disk /\ d \in DownloadType
  <2>1. d \in DownloadType
    BY <1>3 DEF DownloadType
  <2>2. b = [x EXCEPT !.d = d]
    BY <1>6
  <2>. HIDE DEF d
  <2>. QED
    BY <1>6, <2>1, <2>2 DEF WorldType
<1>8. /\ d.handle /\ d.tracker_status = download.tracker_status /\ d.post = download.post
      /\ d.config = download.config /\ d.trackers = download.trackers
      /\ d.resumable = download.resumable /\ d.touched = download.touched
      /\ d.pause_after = download.pause_after
  BY <1>3 DEF DownloadType
<1>. DEFINE a == SetFlags(b, b.t.paused, b.d.config.auto_managed)
            s == Selected(a)
            u == s.d.config.user_stopped
            g == ~s.d.config.auto_managed /\ (~u \/ ~s.d.resumable)
            r0 == SetFlags(s, FALSE, s.t.auto)
            rd == [r0.d EXCEPT !.pause_after = u]
            r1 == [r0 EXCEPT !.d.pause_after = u]
            r == IF g THEN r1 ELSE s
<1>9. y = Checkpoint(r)
  BY DEF OnAddTorrent
<1>. HIDE DEF x, y, d, b
<1>10. b.t.paused \in BOOLEAN /\ b.d.config.auto_managed \in BOOLEAN
  BY <1>3, <1>7, <1>8 DEF DownloadType, Config, TorrentType
<1>11. /\ Quiet(b, a) /\ a.d = d /\ a.t.paused = torrent.paused
       /\ a.t.auto = download.config.auto_managed
  BY <1>7, <1>8, <1>10, SetFlagsQuiet
<1>. HIDE DEF a
<1>12. a \in WorldType
  BY <1>11 DEF Quiet, Keeps
<1>13. /\ Quiet(a, s) /\ Fetches(s) /\ Touching(d, s.d) /\ s.t.paused = torrent.paused
       /\ s.t.auto = download.config.auto_managed /\ s \in WorldType
  BY <1>11, <1>12, SelectedQuiet DEF Calm, Quiet, Keeps
<1>. HIDE DEF s
<1>14. /\ s.t.auto \in BOOLEAN /\ u \in BOOLEAN /\ s.d \in DownloadType
       /\ s.d.handle /\ s.d.config = download.config /\ s.d.resumable = download.resumable
  BY <1>8, <1>13 DEF Touching, WorldType, TorrentType, DownloadType, Config
<1>15. /\ Quiet(s, r0) /\ r0.d = s.d /\ ~r0.t.paused /\ r0.t.auto = download.config.auto_managed
       /\ r0 \in WorldType
  <2>1. /\ Quiet(s, r0) /\ r0.d = s.d
        /\ r0.t.paused = FALSE /\ r0.t.auto = s.t.auto
    BY <1>13, <1>14, SetFlagsQuiet
  <2>. HIDE DEF r0
  <2>. QED
    BY <1>13, <2>1 DEF Quiet, Keeps
<1>. HIDE DEF r0
<1>16. /\ rd \in DownloadType /\ rd.handle = r0.d.handle /\ rd.tracker_status = r0.d.tracker_status
       /\ rd.post = r0.d.post /\ rd.config = r0.d.config /\ rd.pause_after = u
       /\ rd.flags = r0.d.flags /\ rd.resumable = r0.d.resumable /\ rd.touched = r0.d.touched
       /\ rd.trackers = r0.d.trackers /\ rd.meta = r0.d.meta
  BY <1>14, <1>15 DEF DownloadType
<1>17. r1 = [r0 EXCEPT !.d = rd]
  BY <1>15 DEF WorldType
<1>. HIDE DEF rd, r1, u
<1>18. Quiet(r0, r1) /\ r1.d = rd /\ r1.t = r0.t /\ r1 \in WorldType
  BY <1>15, <1>16, <1>17, ObjectQuiet DEF Keeps
<1>19. Quiet(s, r) /\ r \in WorldType
  BY <1>13, <1>15, <1>18, QuietTwice, QuietNone
<1>20. rest => Rests(r)
  <2>1. ASSUME rest
        PROVE  /\ download.config.user_stopped /\ ~download.config.auto_managed
               /\ download.resumable => torrent.paused /\ ~torrent.auto
    BY <1>2, <1>4, <1>5, <2>1 DEF Rests
  <2>2. ASSUME rest, g PROVE Rests(r)
    <3>1. u
      BY <1>14, <2>1, <2>2 DEF u
    <3>. QED
      BY <1>14, <1>15, <1>16, <1>18, <2>1, <2>2, <3>1 DEF Rests
  <2>3. ASSUME rest, ~g PROVE Rests(r)
    BY <1>13, <1>14, <2>1, <2>3 DEF Rests, u
  <2>. QED
    BY <2>2, <2>3
<1>. HIDE DEF r
<1>21. Calm(r, y)
  BY <1>9, <1>19, CheckpointCalm
<1>22. Quiet(b, y) /\ Fetches(y) /\ (rest => Rests(y))
  <2>1. Quiet(b, s)
    BY <1>7, <1>11, <1>13, QuietTwice
  <2>2. Quiet(b, r)
    BY <1>7, <1>19, <2>1, QuietTwice
  <2>. QED
    BY <1>7, <1>13, <1>19, <1>20, <1>21, <2>2, QuietTwice DEF Calm, Quiet
<1>23. download' = y.d /\ torrent' = y.t /\ alerts' = y.q /\ disk' = y.f
  BY <1>1 DEF Become
<1>24. /\ y \in WorldType /\ Queued(Tail(alerts), alerts') /\ disk' = disk
       /\ download'.handle /\ download'.tracker_status = download.tracker_status
       /\ download'.post = download.post
       /\ download'.config.post_handle_ops = download.config.post_handle_ops
       /\ download.trackers \subseteq download'.trackers
       /\ download'.trackers \subseteq download.trackers \cup ToSet(torrent.trackers)
       /\ torrent'.trackers = torrent.trackers /\ torrent'.due = torrent.due
       /\ torrent'.results = torrent.results /\ torrent'.present
       /\ torrent.dirty => torrent'.dirty \/ Saving(alerts')
  BY <1>5, <1>7, <1>8, <1>22, <1>23 DEF Quiet, Keeps
<1>25. Types' /\ ListedOnce' /\ Listed' = Listed
  BY <1>1, <1>23, <1>24 DEF IInv, Types, WorldType, ListedOnce, Listed
<1>26. RemovedStaysAway'
  BY <1>24, <1>25 DEF IInv, RemovedStaysAway, Listed
<1>27. alerts' \in Seq(AlertType) /\ Adds(alerts') = {}
  BY <1>5, <1>25, <1>24, LongerQueue DEF Types
<1>28. HandleInv'
  BY <1>24, <1>27 DEF HandleInv
<1>29. Fetches(World)' /\ (rest => Rests(World))'
  BY <1>1, <1>22, <1>23 DEF Fetches, Rests, Valid, World
<1>30. OwedInv'
  BY <1>1, <1>4, <1>24 DEF OwedInv, OwedIsListed
<1>31. FollowInv'
  <2>1. torrent.dirty
    BY <1>4, <1>5 DEF FollowInv
  <2>2. CheckpointFollows'
    BY <1>24, <1>27, <2>1, SavingIs DEF CheckpointFollows
  <2>. QED
    BY <1>24, <2>2 DEF FollowInv
<1>32. StatusInv'
  <2>1. ASSUME NEW t \in Tracker \ again'
        PROVE  Newest(alerts', t, download'.tracker_status[t], torrent'.results[t])
    <3>1. Newest(alerts, t, download.tracker_status[t], torrent.results[t])
      BY <1>4 DEF StatusInv
    <3>2. 1 \notin About(alerts, t)
      BY <1>5 DEF About, Adds
    <3>3. Newest(Tail(alerts), t, download.tracker_status[t], torrent.results[t])
      BY <1>1, <1>3, <3>1, <3>2, PoppedStatus
    <3>. QED
      BY <1>5, <1>24, <1>27, <3>3, LongerQueue
  <2>. QED
    BY <1>4, <1>24, <1>25, <2>1 DEF StatusInv
<1>. QED
  BY <1>1, <1>25, <1>26, <1>28, <1>29, <1>30, <1>31, <1>32 DEF IInv

\* The checkpoint is written, with libtorrent's trackers and the config of this moment.
LEMMA SavedStep ==
    ASSUME IInv, ProcessAlert, Head(alerts).kind = "save", UNCHANGED <<defaults, removed, again>>
    PROVE  IInv'
<1>. DEFINE x == [World EXCEPT !.q = Tail(@)]
            flags == IF x.d.lt_status.known
                     THEN [paused |-> x.d.lt_status.paused, auto |-> x.d.lt_status.auto]
                     ELSE x.d.flags
            d == [download EXCEPT !.flags = flags, !.resumable = TRUE, !.trackers = Listed]
            f == [config |-> x.d.config, flags |-> flags, meta |-> x.d.meta,
                  trackers |-> SavedTrackers(x), resumable |-> TRUE]
            y == [x EXCEPT !.d.flags = flags, !.d.resumable = TRUE, !.d.trackers = SavedTrackers(x), !.f = f]
<1>1. session # "down" /\ session' # "down" /\ alerts # <<>> /\ Become(y) /\ rest' = rest /\ owed' = owed
  BY DEF ProcessAlert, Handled, Saved
<1>2. World \in WorldType /\ World.d = download /\ World.t = torrent /\ World.q = alerts /\ World.f = disk
  BY WorldHasType
<1>3. download \in DownloadType /\ torrent \in TorrentType /\ alerts \in Seq(AlertType)
  BY DEF IInv, Types
<1>4. HandleInv /\ OwedInv /\ FollowInv /\ StatusInv /\ Fetches(World) /\ (rest => Rests(World))
  BY <1>1 DEF IInv
<1>5. Tail(alerts) \in Seq(AlertType) /\ 1 \notin Adds(alerts) /\ (\A t : 1 \notin About(alerts, t))
      /\ download.handle
  <2>1. Head(alerts) = alerts[1] /\ 1 \in DOMAIN alerts
    BY <1>1, <1>3
  <2>2. download.handle
    BY <1>4, <2>1 DEF HandleInv, Saving
  <2>. QED
    BY <1>1, <1>3, <2>1, <2>2, Popped DEF Adds, About
<1>6. x \in WorldType /\ x.d = download /\ x.t = torrent /\ x.q = Tail(alerts) /\ x.f = disk
  BY <1>2, <1>5 DEF WorldType
<1>. HIDE DEF x
<1>19. SavedTrackers(x) = Listed /\ Listed \in SUBSET Tracker
  BY <1>3, <1>5, <1>6 DEF SavedTrackers, Listed, ToSet, TorrentType
<1>7. flags \in Flags
  BY <1>3, <1>6 DEF DownloadType, StatusType, Flags
<1>. HIDE DEF flags
<1>8. /\ d \in DownloadType /\ d.handle = download.handle /\ d.tracker_status = download.tracker_status
      /\ d.post = download.post /\ d.config = download.config /\ d.trackers = Listed
      /\ d.meta = download.meta /\ d.pause_after = download.pause_after
      /\ d.touched = download.touched
  BY <1>3, <1>7, <1>19 DEF DownloadType
<1>9. f \in FileType /\ f.trackers = Listed
  BY <1>3, <1>6, <1>7, <1>19 DEF DownloadType, FileType
<1>10. y.d = d /\ y.t = torrent /\ y.q = Tail(alerts) /\ y.f = f
  BY <1>6, <1>19 DEF WorldType
<1>. HIDE DEF d, f, y
<1>11. download' = d /\ torrent' = torrent /\ alerts' = Tail(alerts) /\ disk' = f
  BY <1>1, <1>10 DEF Become
<1>12. Types' /\ ListedOnce' /\ Listed' = Listed
  BY <1>3, <1>5, <1>8, <1>9, <1>11 DEF IInv, Types, ListedOnce, Listed
<1>13. RemovedStaysAway'
  BY <1>8, <1>11, <1>12 DEF IInv, RemovedStaysAway
<1>14. HandleInv'
  <2>1. Adds(alerts) = {} /\ torrent.present
    BY <1>4, <1>5 DEF HandleInv
  <2>2. Adds(alerts') = {}
    BY <1>1, <1>3, <1>11, <2>1, Popped
  <2>. QED
    BY <1>5, <1>8, <1>11, <2>1, <2>2 DEF HandleInv
<1>15. Fetches(World)' /\ (rest => Rests(World))'
  BY <1>1, <1>2, <1>4, <1>5, <1>8, <1>11 DEF Fetches, Rests, Valid, World
<1>16. OwedInv'
  BY <1>1, <1>4, <1>8, <1>11 DEF OwedInv, OwedIsListed
<1>17. FollowInv'
  BY <1>4, <1>8, <1>9, <1>11, <1>12 DEF FollowInv, CheckpointFollows
<1>18. StatusInv'
  <2>1. ASSUME NEW t \in Tracker \ again'
        PROVE  Newest(alerts', t, download'.tracker_status[t], torrent'.results[t])
    <3>1. Newest(alerts, t, download.tracker_status[t], torrent.results[t])
      BY <1>4 DEF StatusInv
    <3>. QED
      BY <1>1, <1>3, <1>5, <1>8, <1>11, <3>1, PoppedStatus
  <2>. QED
    BY <1>4, <1>11, <1>12, <2>1 DEF StatusInv
<1>. QED
  BY <1>1, <1>12, <1>13, <1>14, <1>15, <1>16, <1>17, <1>18 DEF IInv

\* What libtorrent told of a tracker is shown.
LEMMA TrackerAlertStep ==
    ASSUME IInv, ProcessAlert, Head(alerts).kind = "tracker", UNCHANGED <<defaults, removed, again>>
    PROVE  IInv'
<1>. DEFINE x == [World EXCEPT !.q = Tail(@)]
            a == Head(alerts)
            d == [download EXCEPT !.tracker_status[a.url] = a.text]
            y == [x EXCEPT !.d.tracker_status[a.url] = a.text]
<1>1. session # "down" /\ session' # "down" /\ alerts # <<>> /\ Become(y) /\ rest' = rest /\ owed' = owed
  BY DEF ProcessAlert, Handled, OnTracker
<1>2. World \in WorldType /\ World.d = download /\ World.t = torrent /\ World.q = alerts /\ World.f = disk
  BY WorldHasType
<1>3. download \in DownloadType /\ torrent \in TorrentType /\ alerts \in Seq(AlertType) /\ disk \in FileType
  BY DEF IInv, Types
<1>4. HandleInv /\ OwedInv /\ FollowInv /\ StatusInv /\ Fetches(World) /\ (rest => Rests(World))
  BY <1>1 DEF IInv
<1>5. /\ Tail(alerts) \in Seq(AlertType) /\ 1 \notin Adds(alerts) /\ a = alerts[1]
      /\ (\A t : 1 \in About(alerts, t) <=> a.url = t) /\ a.url \in Tracker /\ a.text \in Texts
      /\ Saving(Tail(alerts)) <=> Saving(alerts)
  <2>1. a = alerts[1] /\ 1 \in DOMAIN alerts /\ a \in AlertType
    BY <1>1, <1>3
  <2>2. a \in Report
    BY <2>1 DEF AlertType
  <2>. QED
    BY <1>1, <1>3, <2>1, <2>2, Popped DEF Adds, About, Report
<1>6. x \in WorldType /\ x.d = download /\ x.t = torrent /\ x.q = Tail(alerts) /\ x.f = disk
  BY <1>2, <1>5 DEF WorldType
<1>. HIDE DEF x, a
<1>7. /\ d \in DownloadType /\ d.handle = download.handle /\ d.flags = download.flags
      /\ d.resumable = download.resumable /\ d.touched = download.touched
      /\ d.post = download.post /\ d.config = download.config /\ d.trackers = download.trackers
      /\ d.meta = download.meta /\ d.pause_after = download.pause_after
      /\ \A t \in Tracker : d.tracker_status[t] = IF t = a.url THEN a.text ELSE download.tracker_status[t]
  BY <1>3, <1>5 DEF DownloadType
<1>8. y.d = d /\ y.t = torrent /\ y.q = Tail(alerts) /\ y.f = disk
  BY <1>6 DEF WorldType
<1>. HIDE DEF d, y
<1>9. download' = d /\ torrent' = torrent /\ alerts' = Tail(alerts) /\ disk' = disk
  BY <1>1, <1>8 DEF Become
<1>10. Types' /\ ListedOnce' /\ Listed' = Listed
  BY <1>3, <1>5, <1>7, <1>9 DEF IInv, Types, ListedOnce, Listed
<1>11. RemovedStaysAway'
  BY <1>7, <1>9, <1>10 DEF IInv, RemovedStaysAway
<1>12. HandleInv'
  <2>1. Adds(Tail(alerts)) = {i - 1 : i \in Adds(alerts)} /\ Adds(alerts) \subseteq Nat
    BY <1>1, <1>3, <1>5, Popped DEF Adds
  <2>2. (Adds(Tail(alerts)) = {} <=> Adds(alerts) = {})
        /\ ((\A i, j \in Adds(alerts) : i = j) => \A i, j \in Adds(Tail(alerts)) : i = j)
    BY <2>1
  <2>. QED
    BY <1>4, <1>5, <1>7, <1>9, <2>2 DEF HandleInv
<1>13. Fetches(World)' /\ (rest => Rests(World))'
  BY <1>1, <1>2, <1>4, <1>7, <1>9 DEF Fetches, Rests, Valid, World
<1>14. OwedInv'
  BY <1>1, <1>4, <1>7, <1>9 DEF OwedInv, OwedIsListed
<1>15. FollowInv'
  <2>1. CheckpointFollows'
    BY <1>1, <1>3, <1>4, <1>5, <1>7, <1>9, <1>10, SavingIs DEF FollowInv, CheckpointFollows, Valid, World
  <2>. QED
    BY <1>4, <1>7, <1>9, <1>10, <2>1 DEF FollowInv
<1>16. StatusInv'
  <2>1. ASSUME NEW t \in Tracker \ again'
        PROVE  Newest(alerts', t, download'.tracker_status[t], torrent'.results[t])
    <3>1. Newest(alerts, t, download.tracker_status[t], torrent.results[t])
      BY <1>4 DEF StatusInv
    <3>2. download'.tracker_status[t]
            = IF 1 \in About(alerts, t) THEN alerts[1].text ELSE download.tracker_status[t]
      BY <1>5, <1>7, <1>9
    <3>. QED
      BY <1>1, <1>3, <1>9, <3>1, <3>2, PoppedStatus
  <2>. QED
    BY <1>4, <1>9, <1>10, <2>1 DEF StatusInv
<1>. QED
  BY <1>1, <1>10, <1>11, <1>12, <1>13, <1>14, <1>15, <1>16 DEF IInv

\* The operations after the handle: the task goes on, and the config lists what is left.
LEMMA PostStep ==
    ASSUME IInv, session # "down", session' # "down",
           NEW post \in PostType, NEW ops \in SUBSET Op,
           download' = [download EXCEPT !.post = post, !.config.post_handle_ops = ops],
           UNCHANGED <<torrent, alerts, disk, rest, defaults, removed, again>>, OwedInv'
    PROVE  IInv'
<1>1. download \in DownloadType /\ torrent \in TorrentType /\ alerts \in Seq(AlertType) /\ disk \in FileType
  BY DEF IInv, Types
<1>2. /\ download' \in DownloadType /\ download'.handle = download.handle
      /\ download'.flags = download.flags /\ download'.resumable = download.resumable
      /\ download'.touched = download.touched
      /\ download'.trackers = download.trackers /\ download'.tracker_status = download.tracker_status
      /\ download'.meta = download.meta /\ download'.pause_after = download.pause_after
      /\ download'.config.files = download.config.files
      /\ download'.config.user_stopped = download.config.user_stopped
      /\ download'.config.auto_managed = download.config.auto_managed
  BY <1>1 DEF DownloadType, Config
<1>3. HandleInv /\ FollowInv /\ StatusInv /\ Fetches(World) /\ (rest => Rests(World))
  BY DEF IInv
<1>4. World.d = download /\ World.t = torrent
  BY WorldHasType
<1>5. Types' /\ ListedOnce' /\ Listed' = Listed
  BY <1>1, <1>2 DEF IInv, Types, ListedOnce, Listed
<1>6. RemovedStaysAway'
  BY <1>2, <1>5 DEF IInv, RemovedStaysAway
<1>7. HandleInv'
  BY <1>2, <1>3 DEF HandleInv
<1>8. Fetches(World)' /\ (rest => Rests(World))'
  BY <1>2, <1>3, <1>4 DEF Fetches, Rests, Valid, World
<1>9. FollowInv'
  BY <1>2, <1>3, <1>4, <1>5 DEF FollowInv, CheckpointFollows, Valid, World
<1>10. StatusInv'
  BY <1>2, <1>3, <1>5 DEF StatusInv
<1>. QED
  BY <1>5, <1>6, <1>7, <1>8, <1>9, <1>10 DEF IInv

\* Who asked for an operation while the task was there already is owed nothing.
LEMMA OperationsStep ==
    ASSUME IInv, PostHandle \/ WriteBackup \/ RequestDefaultTrackers,
           UNCHANGED <<defaults, removed, again>>
    PROVE  IInv'
<1>1. /\ download \in DownloadType /\ download.post \in PostType /\ download.config \in Config
      /\ download.post.remaining \in SUBSET Op /\ download.config.post_handle_ops \in SUBSET Op
      /\ session # "down" /\ session' # "down" /\ OwedInv
  BY DEF IInv, Types, DownloadType, Config, PostType, PostHandle, WriteBackup, RequestDefaultTrackers,
         Task, Request
<1>2. ASSUME NEW at \in {"none", "waiting", "trackers", "writing"}, NEW r \in SUBSET Op, Goes(at, r),
             UNCHANGED <<torrent, alerts, disk, rest>>,
             owed' \subseteq owed, owed' \subseteq r, download.post.at # "none",
             at = "trackers" => "trackers" \in r, at = "writing" => "backup" \in r
      PROVE  IInv'
  <2>. DEFINE ops == IF r = download.post.remaining THEN download.config.post_handle_ops ELSE r
              post == [at |-> at, remaining |-> r]
  <2>1. download' = [download EXCEPT !.post = post, !.config.post_handle_ops = ops]
    BY <1>1, <1>2 DEF Goes, DownloadType, Config
  <2>2. post \in PostType /\ ops \in SUBSET Op
    BY <1>1 DEF PostType
  <2>3. owed' \subseteq ops
    BY <1>1, <1>2 DEF OwedInv, OwedIsListed
  <2>4. post.at = at /\ post.remaining = r
    OBVIOUS
  <2>. HIDE DEF ops, post
  <2>5. download'.post = post /\ download'.config.post_handle_ops = ops
    BY <1>1, <2>1 DEF DownloadType, Config
  <2>6. OwedInv'
    BY <1>2, <2>3, <2>4, <2>5 DEF OwedInv, OwedIsListed
  <2>. QED
    BY <1>1, <1>2, <2>1, <2>2, <2>6, PostStep
<1>3. CASE PostHandle
  <2>. DEFINE r == download.post.remaining
              at == IF "trackers" \in r THEN "trackers" ELSE AfterTrackers(r)
  <2>1. /\ Goes(at, r) /\ UNCHANGED <<torrent, alerts, disk, rest, owed>> /\ download.post.at = "waiting"
    BY <1>3 DEF PostHandle
  <2>2. at \in {"none", "waiting", "trackers", "writing"}
        /\ (at = "trackers" => "trackers" \in r) /\ (at = "writing" => "backup" \in r)
    BY DEF AfterTrackers
  <2>3. owed \subseteq r
    BY <1>1, <2>1 DEF OwedInv
  <2>. HIDE DEF at
  <2>. QED
    BY <1>1, <1>2, <2>1, <2>2, <2>3
<1>4. CASE WriteBackup
  <2>1. /\ download.post.at = "writing" /\ UNCHANGED <<torrent, alerts, disk, rest>>
        /\ \/ Goes("none", download.post.remaining \ {"backup"}) /\ owed' = owed \ {"backup"}
           \/ download' = [download EXCEPT !.post = NoTask] /\ UNCHANGED owed
    BY <1>4 DEF WriteBackup
  <2>2. owed \subseteq download.post.remaining
    BY <1>1, <2>1 DEF OwedInv
  <2>3. CASE Goes("none", download.post.remaining \ {"backup"}) /\ owed' = owed \ {"backup"}
    BY <1>1, <1>2, <2>1, <2>2, <2>3
  <2>4. CASE download' = [download EXCEPT !.post = NoTask] /\ UNCHANGED owed
    <3>. DEFINE ops == download.config.post_handle_ops
    <3>1. download' = [download EXCEPT !.post = NoTask, !.config.post_handle_ops = ops]
      BY <1>1, <2>4 DEF DownloadType, Config
    <3>2. NoTask \in PostType /\ NoTask.at = "none"
      BY DEF NoTask, PostType
    <3>3. download'.post = NoTask /\ download'.config = download.config
      BY <1>1, <2>4 DEF DownloadType
    <3>4. OwedInv'
      BY <1>1, <2>4, <3>2, <3>3 DEF OwedInv, OwedIsListed
    <3>. QED
      BY <1>1, <2>1, <3>1, <3>2, <3>4, PostStep
  <2>. QED
    BY <2>1, <2>3, <2>4
<1>5. CASE RequestDefaultTrackers
  <2>. DEFINE ops == download.config.post_handle_ops \cup {"trackers"}
              c == [download EXCEPT !.config.post_handle_ops = ops]
              x == [World EXCEPT !.d.config.post_handle_ops = @ \cup {"trackers"}]
              post == Scheduled(c)
  <2>1. World \in WorldType /\ World.d = download /\ World.t = torrent /\ World.q = alerts /\ World.f = disk
    BY WorldHasType
  <2>2. x.d = c /\ x.t = torrent /\ x.q = alerts /\ x.f = disk
    BY <2>1 DEF WorldType
  <2>3. /\ Become([x EXCEPT !.d.post = Scheduled(x.d)]) /\ rest' = rest
        /\ owed' = IF download.post.at = "none" THEN owed \cup {"trackers"} ELSE owed \ {"trackers"}
    BY <1>5 DEF RequestDefaultTrackers
  <2>4. /\ c.post = download.post /\ c.config.post_handle_ops = ops /\ ops \in SUBSET Op /\ "trackers" \in ops
    BY <1>1 DEF DownloadType, Config, Op
  <2>5. post = IF download.post.at # "none" THEN download.post ELSE [at |-> "waiting", remaining |-> ops]
    BY <2>4 DEF Scheduled
  <2>6. post \in PostType
    <3>. HIDE DEF post, ops
    <3>1. [at |-> "waiting", remaining |-> ops] \in PostType
      BY <2>4 DEF PostType
    <3>. QED
      BY <1>1, <2>5, <3>1
  <2>7. download' = [download EXCEPT !.post = post, !.config.post_handle_ops = ops]
        /\ torrent' = torrent /\ alerts' = alerts /\ disk' = disk
    <3>1. x \in [d : {c}, t : {torrent}, q : {alerts}, f : {disk}]
      BY <2>1, <2>2 DEF WorldType
    <3>2. download' = [c EXCEPT !.post = post] /\ torrent' = torrent /\ alerts' = alerts /\ disk' = disk
      <4>. HIDE DEF x, post, c
      <4>. QED
        BY <2>2, <2>3, <3>1 DEF Become, post
    <3>. HIDE DEF post
    <3>. QED
      BY <1>1, <3>2 DEF DownloadType, Config
  <2>. HIDE DEF x, post, c, ops
  <2>8. download'.post = post /\ download'.config.post_handle_ops = ops
    BY <1>1, <2>7 DEF DownloadType, Config
  <2>9. owed \subseteq ops
    BY <1>1 DEF OwedInv, OwedIsListed, ops
  <2>10. OwedInv'
    BY <1>1, <2>3, <2>4, <2>5, <2>8, <2>9 DEF OwedInv, OwedIsListed
  <2>. QED
    BY <1>1, <2>3, <2>4, <2>6, <2>7, <2>10, PostStep
<1>. QED
  BY <1>1, <1>3, <1>4, <1>5

-----------------------------------------------------------------------------
(***************************************************************************)
(* Lists of trackers.                                                      *)
(***************************************************************************)
Once(list) == \A i, j \in DOMAIN list : list[i] = list[j] => i = j

\* An order of a set has each of its members once.
LEMMA OrderOfSet ==
    ASSUME NEW S \in SUBSET Tracker, NEW order \in Orders(S)
    PROVE  order \in Seq(Tracker) /\ ToSet(order) = S /\ Once(order)
<1>1. IsFiniteSet(S) /\ Cardinality(S) \in Nat
  BY FS_Subset, FS_CardinalityType
<1>. DEFINE n == Cardinality(S)
<1>2. order \in [1 .. n -> S] /\ ToSet(order) = S
  BY DEF Orders
<1>. HIDE DEF n
<1>3. n \in Nat /\ IsFiniteSet(1 .. n) /\ Cardinality(1 .. n) = n
  BY <1>1, FS_Interval DEF n
<1>4. order \in Surjection(1 .. n, S)
  BY <1>2 DEF Surjection, ToSet
<1>5. order \in Injection(1 .. n, S)
  BY <1>1, <1>3, <1>4, FS_SurjSameCardinalityImpliesInj DEF n
<1>6. Once(order)
  <2>1. DOMAIN order = 1 .. n
    BY <1>2
  <2>. QED
    BY <1>5, <2>1 DEF Injection, IsInjective, Once
<1>7. order \in Seq(Tracker)
  BY <1>2, <1>3
<1>. QED
  BY <1>2, <1>6, <1>7

\* One list after another, with nothing in common.
LEMMA OneAfterAnother ==
    ASSUME NEW a \in Seq(Tracker), NEW b \in Seq(Tracker), Once(a), Once(b), ToSet(a) \cap ToSet(b) = {}
    PROVE  a \o b \in Seq(Tracker) /\ ToSet(a \o b) = ToSet(a) \cup ToSet(b) /\ Once(a \o b)
<1>. DEFINE c == a \o b
            m == Len(a)
            n == Len(b)
<1>1. /\ c \in Seq(Tracker) /\ m \in Nat /\ n \in Nat
      /\ DOMAIN a = 1 .. m /\ DOMAIN b = 1 .. n /\ DOMAIN c = 1 .. m + n
      /\ \A i \in 1 .. m + n : c[i] = IF i <= m THEN a[i] ELSE b[i - m]
  OBVIOUS
<1>. HIDE DEF c, m, n
<1>2. \A i \in 1 .. m + n : i <= m => c[i] = a[i] /\ i \in 1 .. m
  BY <1>1
<1>3. \A i \in 1 .. m + n : ~(i <= m) => c[i] = b[i - m] /\ i - m \in 1 .. n
  BY <1>1
<1>4. \A i \in 1 .. m : i \in 1 .. m + n /\ c[i] = a[i]
  BY <1>1
<1>5. \A i \in 1 .. n : i + m \in 1 .. m + n /\ c[i + m] = b[i]
  BY <1>1
<1>6. ToSet(c) = ToSet(a) \cup ToSet(b)
  <2>1. \A i \in DOMAIN c : c[i] \in ToSet(a) \cup ToSet(b)
    BY <1>1, <1>2, <1>3 DEF ToSet
  <2>2. \A i \in DOMAIN a : a[i] \in ToSet(c)
    BY <1>1, <1>4 DEF ToSet
  <2>3. \A i \in DOMAIN b : b[i] \in ToSet(c)
    BY <1>1, <1>5 DEF ToSet
  <2>. QED
    BY <2>1, <2>2, <2>3 DEF ToSet
<1>7. ASSUME NEW i \in 1 .. m + n, NEW j \in 1 .. m + n, c[i] = c[j] PROVE i = j
  <2>1. CASE i <= m /\ j <= m
    BY <1>1, <1>2, <1>7, <2>1 DEF Once
  <2>2. CASE ~(i <= m) /\ ~(j <= m)
    <3>0. i - m \in DOMAIN b /\ j - m \in DOMAIN b /\ b[i - m] = b[j - m]
      BY <1>1, <1>3, <1>7, <2>2
    <3>1. i - m = j - m
      BY <3>0 DEF Once
    <3>. QED
      BY <1>1, <3>1
  <2>3. CASE i <= m /\ ~(j <= m)
    BY <1>1, <1>2, <1>3, <1>7, <2>3 DEF ToSet
  <2>4. CASE ~(i <= m) /\ j <= m
    BY <1>1, <1>2, <1>3, <1>7, <2>4 DEF ToSet
  <2>. QED
    BY <2>1, <2>2, <2>3, <2>4
<1>8. Once(c)
  BY <1>1, <1>7 DEF Once
<1>. QED
  BY <1>1, <1>6, <1>8 DEF c

\* A tracker is taken out of a list that has it once.
LEMMA TakenOut ==
    ASSUME NEW list \in Seq(Tracker), Once(list), NEW t, NEW order \in Without(list, t)
    PROVE  order \in Seq(Tracker) /\ ToSet(order) = ToSet(list) \ {t} /\ Once(order)
<1>1. CASE ~Contains(list, t)
  BY <1>1 DEF Without, Contains, ToSet
<1>2. CASE Contains(list, t)
  <2>1. PICK i \in DOMAIN list : list[i] = t /\ order = RemoveAt(list, i)
    BY <1>2 DEF Without
  <2>. DEFINE N == Len(list)
              a == SubSeq(list, 1, i - 1)
              b == SubSeq(list, i + 1, N)
  <2>2. N \in Nat /\ DOMAIN list = 1 .. N /\ i \in 1 .. N /\ order = a \o b
    BY <2>1 DEF RemoveAt
  <2>3. a \in Seq(Tracker) /\ Len(a) = i - 1 /\ \A k \in 1 .. i - 1 : a[k] = list[k]
    BY <2>2
  <2>4. b \in Seq(Tracker) /\ Len(b) = N - i /\ \A k \in 1 .. N - i : b[k] = list[i + k]
    <3>. HIDE DEF N
    <3>1. b \in Seq(Tracker) /\ Len(b) = N - i
      BY <2>2
    <3>2. ASSUME NEW k \in 1 .. N - i PROVE b[k] = list[i + k]
      <4>1. b[k] = list[(i + 1) + k - 1]
        BY <2>2
      <4>2. (i + 1) + k - 1 = i + k
        BY <2>2
      <4>. QED
        BY <4>1, <4>2
    <3>. QED
      BY <3>1, <3>2
  <2>. HIDE DEF a, b, N
  <2>5. i \in Nat /\ i >= 1 /\ i <= N /\ DOMAIN a = 1 .. i - 1 /\ DOMAIN b = 1 .. N - i
    BY <2>2, <2>3, <2>4
  <2>6. \A k \in DOMAIN a : k \in DOMAIN list /\ k < i /\ a[k] = list[k]
    BY <2>2, <2>3, <2>5
  <2>7. \A k \in DOMAIN b : i + k \in DOMAIN list /\ i + k > i /\ b[k] = list[i + k]
    BY <2>2, <2>4, <2>5
  <2>8. \A k \in DOMAIN list : \/ k \in DOMAIN a \/ k = i \/ k - i \in DOMAIN b
    BY <2>2, <2>5
  <2>9. Once(a)
    BY <2>6 DEF Once
  <2>10. Once(b)
    <3>1. ASSUME NEW k \in DOMAIN b, NEW l \in DOMAIN b, b[k] = b[l] PROVE k = l
      <4>1. i + k = i + l
        BY <2>7, <3>1 DEF Once
      <4>. QED
        BY <2>5, <4>1
    <3>. QED
      BY <3>1 DEF Once
  <2>11. ToSet(a) \cap ToSet(b) = {}
    <3>1. ASSUME NEW k \in DOMAIN a, NEW l \in DOMAIN b, a[k] = b[l] PROVE FALSE
      <4>1. k = i + l
        BY <2>6, <2>7, <3>1 DEF Once
      <4>. QED
        BY <2>5, <4>1
    <3>. QED
      BY <3>1 DEF ToSet
  <2>12. ToSet(a) \cup ToSet(b) = ToSet(list) \ {t}
    <3>1. \A k \in DOMAIN list : list[k] = t => k = i
      BY <2>1 DEF Once
    <3>2. ASSUME NEW u \in ToSet(list) \ {t} PROVE u \in ToSet(a) \cup ToSet(b)
      <4>1. PICK k \in DOMAIN list : list[k] = u
        BY DEF ToSet
      <4>2. CASE k \in DOMAIN a
        BY <2>6, <4>1, <4>2 DEF ToSet
      <4>3. CASE k - i \in DOMAIN b
        <5>1. i + (k - i) = k
          BY <2>2, <2>5
        <5>2. b[k - i] = u
          BY <2>7, <4>1, <4>3, <5>1
        <5>. QED
          BY <4>3, <5>2 DEF ToSet
      <4>. QED
        BY <2>1, <2>8, <4>1, <4>2, <4>3
    <3>3. ASSUME NEW u \in ToSet(a) PROVE u \in ToSet(list) \ {t}
      <4>1. PICK k \in DOMAIN a : a[k] = u
        BY DEF ToSet
      <4>2. k # i
        BY <2>5
      <4>. QED
        BY <2>6, <3>1, <4>1, <4>2 DEF ToSet
    <3>4. ASSUME NEW u \in ToSet(b) PROVE u \in ToSet(list) \ {t}
      <4>1. PICK k \in DOMAIN b : b[k] = u
        BY DEF ToSet
      <4>2. i + k # i
        BY <2>5
      <4>. QED
        BY <2>7, <3>1, <4>1, <4>2 DEF ToSet
    <3>. QED
      BY <3>2, <3>3, <3>4
  <2>. QED
    BY <2>2, <2>3, <2>4, <2>9, <2>10, <2>11, <2>12, OneAfterAnother
<1>. QED
  BY <1>1, <1>2

\* What libtorrent makes of added trackers.
LEMMA AddedTrackers ==
    ASSUME NEW t \in TorrentType, Once(t.trackers), NEW S \in SUBSET Tracker, NEW u \in AddTrackers(t, S)
    PROVE  /\ u \in TorrentType /\ Once(u.trackers)
           /\ ToSet(u.trackers) = ToSet(t.trackers) \cup S /\ u.due = ToSet(u.trackers)
           /\ u.results = t.results /\ u.wanted = t.wanted
           /\ u.present = t.present /\ u.paused = t.paused /\ u.auto = t.auto
           /\ t.dirty \/ ~(S \subseteq ToSet(t.trackers)) => u.dirty
<1>1. PICK order \in Orders(S \ ToSet(t.trackers)) : u = Longer(t, order)
  BY DEF AddTrackers
<1>2. /\ order \in Seq(Tracker) /\ ToSet(order) = S \ ToSet(t.trackers) /\ Once(order)
  BY <1>1, OrderOfSet
<1>3. t.trackers \in Seq(Tracker)
  BY DEF TorrentType
<1>. DEFINE list == t.trackers \o order
            dirty == t.dirty \/ order # <<>>
<1>4. list \in Seq(Tracker) /\ ToSet(list) = ToSet(t.trackers) \cup S /\ Once(list)
  BY <1>2, <1>3, OneAfterAnother
<1>5. ToSet(list) \subseteq Tracker
  BY <1>4 DEF ToSet
<1>6. dirty \in BOOLEAN /\ (t.dirty \/ ~(S \subseteq ToSet(t.trackers)) => dirty)
  <2>1. order = <<>> => ToSet(order) = {}
    BY DEF ToSet
  <2>. QED
    BY <1>2, <2>1
<1>7. u = [t EXCEPT !.trackers = list, !.due = ToSet(list), !.dirty = dirty]
  BY <1>1 DEF Longer
<1>. HIDE DEF list, dirty
<1>8. /\ u \in TorrentType /\ u.trackers = list /\ u.due = ToSet(list) /\ u.dirty = dirty
      /\ u.results = t.results /\ u.wanted = t.wanted
      /\ u.present = t.present /\ u.paused = t.paused /\ u.auto = t.auto
  BY <1>4, <1>5, <1>6, <1>7 DEF TorrentType
<1>. QED
  BY <1>4, <1>6, <1>8

\* Steps of the lists leave the rest of the download alone.
LEMMA ListStep ==
    ASSUME IInv, session # "down", session' # "down", UNCHANGED <<disk, rest, defaults>>,
           download' \in DownloadType, download'.handle = download.handle, download'.flags = download.flags,
           download'.resumable = download.resumable, download'.touched = download.touched, download'.meta = download.meta,
           download'.pause_after = download.pause_after, download'.config.files = download.config.files,
           download'.config.user_stopped = download.config.user_stopped,
           download'.config.auto_managed = download.config.auto_managed,
           torrent' \in TorrentType, torrent'.present = torrent.present, torrent'.paused = torrent.paused,
           torrent'.auto = torrent.auto, torrent'.wanted = torrent.wanted,
           torrent.dirty => torrent'.dirty \/ (download.handle /\ Saving(alerts')),
           alerts' \in Seq(AlertType), Adds(alerts') = Adds(alerts),
           Saving(alerts') => Saving(alerts) \/ download.handle,
           Once(torrent'.trackers), RemovedStaysAway',
           CheckpointFollows', StatusInv', OwedInv'
    PROVE  IInv'
<1>1. Types /\ HandleInv /\ FollowInv /\ Fetches(World) /\ (rest => Rests(World))
  BY DEF IInv
<1>2. World.d = download /\ World.t = torrent
  BY WorldHasType
<1>3. Types' /\ ListedOnce'
  BY <1>1 DEF Types, ListedOnce, Once
<1>4. HandleInv'
  BY <1>1 DEF HandleInv
<1>5. Fetches(World)' /\ (rest => Rests(World))'
  BY <1>1, <1>2 DEF Fetches, Rests, Valid, World
<1>6. FollowInv'
  BY <1>1 DEF FollowInv
<1>. QED
  BY <1>3, <1>4, <1>5, <1>6 DEF IInv

\* The checkpoint still follows when only trackers are added that libtorrent had or saves.
LEMMA FollowsAdded ==
    ASSUME FollowInv, session # "down", disk' = disk,
           torrent'.present = torrent.present, download'.handle = download.handle,
           torrent.dirty => torrent'.dirty \/ Saving(alerts'), Saving(alerts) => Saving(alerts'),
           alerts \in Seq(AlertType), alerts' \in Seq(AlertType),
           NEW S, Listed \subseteq Listed', Listed' \subseteq Listed \cup S,
           download.trackers \subseteq download'.trackers, download'.trackers \subseteq download.trackers \cup S,
           Valid(World) /\ ~(S \subseteq Listed \cup download.trackers) => torrent'.dirty \/ Saving(alerts')
    PROVE  CheckpointFollows'
<1>1. /\ Valid(World) <=> download.handle /\ torrent.present
      /\ Valid(World)' <=> download'.handle /\ torrent'.present
  BY DEF Valid, World
<1>2. ASSUME Valid(World)', ~torrent'.dirty, ~Saving(alerts')
      PROVE  disk'.trackers = Listed' /\ download'.trackers = Listed'
  <2>1. disk.trackers = Listed /\ download.trackers = Listed
    BY <1>1, <1>2, SavingIs DEF FollowInv, CheckpointFollows
  <2>2. S \subseteq Listed
    BY <1>1, <1>2, <2>1
  <2>. QED
    BY <2>1, <2>2
<1>. QED
  BY <1>2, SavingIs DEF CheckpointFollows

\* The default trackers are added to libtorrent's list.
LEMMA DefaultsStep ==
    ASSUME IInv, AddDefaultTrackers, removed' = removed \ defaults, UNCHANGED <<defaults, again>>
    PROVE  IInv'
<1>. DEFINE r == download.post.remaining \ {"trackers"}
            at == AfterTrackers(r)
            post == [at |-> at, remaining |-> r]
            ops == IF r = download.post.remaining THEN download.config.post_handle_ops ELSE r
<1>1. /\ session # "down" /\ session' # "down" /\ download.post.at = "trackers"
      /\ Goes(at, r) /\ torrent' \in AddTrackers(torrent, defaults) /\ owed' = owed \ {"trackers"}
      /\ UNCHANGED <<alerts, disk, rest>>
  BY DEF AddDefaultTrackers, Task
<1>2. /\ download \in DownloadType /\ download.config \in Config /\ torrent \in TorrentType
      /\ download.post.remaining \in SUBSET Op /\ download.config.post_handle_ops \in SUBSET Op
      /\ alerts \in Seq(AlertType) /\ defaults \in SUBSET Tracker /\ Once(torrent.trackers)
  BY DEF IInv, Types, DownloadType, Config, PostType, ListedOnce, Once
<1>3. OwedInv /\ FollowInv /\ StatusInv /\ RemovedStaysAway
  BY <1>1 DEF IInv
<1>4. /\ post \in PostType /\ post.at = at /\ post.remaining = r /\ at \in {"none", "writing"}
      /\ at = "writing" => "backup" \in r
  BY <1>2 DEF PostType, AfterTrackers
<1>5. download' = [download EXCEPT !.post = post, !.config.post_handle_ops = ops]
  BY <1>1, <1>2 DEF Goes, DownloadType, Config
<1>6. ops \in SUBSET Op /\ owed' \subseteq ops /\ owed' \subseteq r
  BY <1>1, <1>2, <1>3 DEF OwedInv, OwedIsListed
<1>. HIDE DEF post, ops, at, r
<1>7. /\ download' \in DownloadType /\ download'.handle = download.handle
      /\ download'.flags = download.flags /\ download'.resumable = download.resumable
      /\ download'.touched = download.touched
      /\ download'.trackers = download.trackers /\ download'.tracker_status = download.tracker_status
      /\ download'.meta = download.meta /\ download'.pause_after = download.pause_after
      /\ download'.config.files = download.config.files
      /\ download'.config.user_stopped = download.config.user_stopped
      /\ download'.config.auto_managed = download.config.auto_managed
      /\ download'.post = post /\ download'.config.post_handle_ops = ops
  BY <1>2, <1>4, <1>5, <1>6 DEF DownloadType, Config
<1>8. OwedInv'
  BY <1>4, <1>6, <1>7 DEF OwedInv, OwedIsListed
<1>9. /\ torrent' \in TorrentType /\ Once(torrent'.trackers) /\ Listed' = Listed \cup defaults
      /\ torrent'.due = Listed' /\ torrent'.results = torrent.results /\ torrent'.wanted = torrent.wanted
      /\ torrent'.present = torrent.present /\ torrent'.paused = torrent.paused
      /\ torrent'.auto = torrent.auto /\ (torrent.dirty => torrent'.dirty)
      /\ ~(defaults \subseteq Listed) => torrent'.dirty
  BY <1>1, <1>2, AddedTrackers DEF Listed
<1>10. RemovedStaysAway'
  BY <1>3, <1>7, <1>9 DEF RemovedStaysAway
<1>11. CheckpointFollows'
  <2>. DEFINE S == IF defaults \subseteq Listed THEN {} ELSE defaults
  <2>1. /\ Listed \subseteq Listed' /\ Listed' \subseteq Listed \cup S
        /\ ~(S \subseteq Listed \cup download.trackers) => torrent'.dirty
    BY <1>9
  <2>. HIDE DEF S
  <2>. QED
    BY <1>1, <1>2, <1>3, <1>7, <1>9, <2>1, FollowsAdded
<1>12. StatusInv'
  BY <1>1, <1>3, <1>7, <1>9 DEF StatusInv
<1>. QED
  BY <1>1, <1>2, <1>7, <1>8, <1>9, <1>10, <1>11, <1>12, ListStep

\* A tracker is added: in the TorrentDef perhaps, also when libtorrent refuses.
LEMMA AddTrackerStep ==
    ASSUME IInv, NEW t \in Tracker, AddTracker(t)
    PROVE  IInv'
<1>1. /\ session # "down" /\ session' # "down" /\ UNCHANGED <<defaults, alerts, disk, rest, owed, again>>
      /\ removed' = removed \ {t}
      /\ download' \in {download, [download EXCEPT !.trackers = @ \cup {t}]}
      /\ Valid(World) => \E added \in AddTrackers(torrent, {t}) :
                            torrent' = [added EXCEPT !.due = torrent.due \cup {Last(added.trackers)}]
      /\ ~Valid(World) => torrent' = torrent
  BY DEF AddTracker, AboutTrackers, Request, Same
<1>2. /\ download \in DownloadType /\ torrent \in TorrentType /\ alerts \in Seq(AlertType)
      /\ Once(torrent.trackers) /\ download.trackers \in SUBSET Tracker
      /\ download.tracker_status \in [Tracker -> Texts]
  BY DEF IInv, Types, DownloadType, ListedOnce, Once
<1>3. OwedInv /\ FollowInv /\ StatusInv /\ RemovedStaysAway
  BY <1>1 DEF IInv
<1>4. /\ download' \in DownloadType /\ download'.handle = download.handle
      /\ download'.flags = download.flags /\ download'.resumable = download.resumable
      /\ download'.touched = download.touched
      /\ download.trackers \subseteq download'.trackers
      /\ download'.trackers \subseteq download.trackers \cup {t}
      /\ download'.tracker_status = download.tracker_status
      /\ download'.meta = download.meta /\ download'.pause_after = download.pause_after
      /\ download'.config = download.config /\ download'.post = download.post
  <2>1. CASE download' = download
    BY <1>2, <2>1
  <2>2. CASE download' = [download EXCEPT !.trackers = @ \cup {t}]
    BY <1>2, <2>2 DEF DownloadType
  <2>. QED
    BY <1>1, <2>1, <2>2
<1>5. /\ torrent' \in TorrentType /\ Once(torrent'.trackers) /\ Listed' \in {Listed, Listed \cup {t}}
      /\ torrent'.due \subseteq Listed' /\ torrent'.results = torrent.results
      /\ torrent'.wanted = torrent.wanted
      /\ torrent'.present = torrent.present /\ torrent'.paused = torrent.paused
      /\ torrent'.auto = torrent.auto /\ (torrent.dirty => torrent'.dirty)
      /\ Valid(World) /\ t \notin Listed => torrent'.dirty
  <2>1. CASE Valid(World)
    <3>1. PICK added \in AddTrackers(torrent, {t}) :
             torrent' = [added EXCEPT !.due = torrent.due \cup {Last(added.trackers)}]
      BY <1>1, <2>1
    <3>2. /\ added \in TorrentType /\ Once(added.trackers) /\ ToSet(added.trackers) = Listed \cup {t}
          /\ added.results = torrent.results /\ added.wanted = torrent.wanted
          /\ added.present = torrent.present /\ added.paused = torrent.paused /\ added.auto = torrent.auto
          /\ (torrent.dirty => added.dirty) /\ (t \notin Listed => added.dirty)
      <4>. DEFINE S == {t}
      <4>1. S \in SUBSET Tracker /\ added \in AddTrackers(torrent, S)
        BY <3>1
      <4>2. S \subseteq ToSet(torrent.trackers) <=> t \in Listed
        BY DEF Listed
      <4>. HIDE DEF S
      <4>3. /\ added \in TorrentType /\ Once(added.trackers)
            /\ ToSet(added.trackers) = ToSet(torrent.trackers) \cup S
            /\ added.results = torrent.results /\ added.wanted = torrent.wanted
            /\ added.present = torrent.present /\ added.paused = torrent.paused /\ added.auto = torrent.auto
            /\ torrent.dirty \/ ~(S \subseteq ToSet(torrent.trackers)) => added.dirty
        BY <1>2, <4>1, AddedTrackers
      <4>. QED
        BY <4>2, <4>3 DEF Listed, S
    <3>3. Last(added.trackers) \in ToSet(added.trackers)
      <4>1. added.trackers \in Seq(Tracker)
        BY <3>2 DEF TorrentType
      <4>2. PICK i \in DOMAIN added.trackers : TRUE
        BY <3>2 DEF ToSet
      <4>3. Len(added.trackers) \in DOMAIN added.trackers
        BY <4>1, <4>2
      <4>. QED
        BY <4>3 DEF Last, ToSet
    <3>. DEFINE due == torrent.due \cup {Last(added.trackers)}
    <3>4. due \subseteq Listed \cup {t} /\ due \in SUBSET Tracker
      <4>1. torrent.due \subseteq Listed /\ Last(added.trackers) \in Listed \cup {t}
        BY <1>3, <3>2, <3>3 DEF StatusInv
      <4>2. Listed \subseteq Tracker
        BY <1>2 DEF Listed, ToSet, TorrentType
      <4>. QED
        BY <4>1, <4>2
    <3>5. torrent' = [added EXCEPT !.due = due]
      BY <3>1
    <3>. HIDE DEF due
    <3>6. /\ torrent' \in TorrentType /\ torrent'.due = due /\ torrent'.trackers = added.trackers
          /\ torrent'.results = added.results /\ torrent'.wanted = added.wanted
          /\ torrent'.present = added.present /\ torrent'.paused = added.paused
          /\ torrent'.auto = added.auto /\ torrent'.dirty = added.dirty
      BY <3>2, <3>4, <3>5 DEF TorrentType
    <3>. QED
      BY <3>2, <3>4, <3>6 DEF Listed
  <2>2. CASE ~Valid(World)
    BY <1>1, <1>2, <1>3, <2>2 DEF Listed, StatusInv
  <2>. QED
    BY <2>1, <2>2
<1>6. RemovedStaysAway'
  BY <1>1, <1>3, <1>4, <1>5 DEF RemovedStaysAway
<1>7. CheckpointFollows'
  <2>. DEFINE S == {t}
  <2>1. /\ Listed \subseteq Listed' /\ Listed' \subseteq Listed \cup S
        /\ download'.trackers \subseteq download.trackers \cup S
    BY <1>4, <1>5
  <2>2. Valid(World) /\ ~(S \subseteq Listed \cup download.trackers) => torrent'.dirty
    BY <1>5
  <2>. HIDE DEF S
  <2>. QED
    BY <1>1, <1>2, <1>3, <1>4, <1>5, <2>1, <2>2, FollowsAdded
<1>8. StatusInv'
  BY <1>1, <1>3, <1>4, <1>5 DEF StatusInv
<1>9. OwedInv'
  BY <1>1, <1>3, <1>4 DEF OwedInv, OwedIsListed
<1>. QED
  BY <1>1, <1>2, <1>4, <1>5, <1>6, <1>7, <1>8, <1>9, ListStep

\* A tracker is removed from both lists, with what was told of it.
LEMMA RemoveTrackerStep ==
    ASSUME IInv, NEW t \in Tracker, RemoveTracker(t)
    PROVE  IInv'
<1>1. /\ session # "down" /\ session' # "down" /\ UNCHANGED <<defaults, alerts, disk, rest, owed>>
      /\ removed' = removed \cup {t} /\ again' = again \cup {t} /\ Valid(World)
      /\ download' = [download EXCEPT !.trackers = download.trackers \ {t}]
  BY DEF RemoveTracker, AboutTrackers, Request, Same, Remaining
<1>2. /\ download \in DownloadType /\ torrent \in TorrentType /\ alerts \in Seq(AlertType)
      /\ torrent.trackers \in Seq(Tracker) /\ Once(torrent.trackers)
  BY DEF IInv, Types, TorrentType, ListedOnce, Once
<1>3. OwedInv /\ FollowInv /\ StatusInv /\ RemovedStaysAway
  BY <1>1 DEF IInv
<1>4. PICK order \in Without(torrent.trackers, t) :
         torrent' = [torrent EXCEPT !.trackers = order, !.due = ToSet(order), !.dirty = TRUE, !.results[t] = "none"]
  BY DEF RemoveTracker
<1>5. order \in Seq(Tracker) /\ ToSet(order) = Listed \ {t} /\ Once(order) /\ ToSet(order) \in SUBSET Tracker
  <2>1. order \in Seq(Tracker) /\ ToSet(order) = ToSet(torrent.trackers) \ {t} /\ Once(order)
    BY <1>2, <1>4, TakenOut
  <2>2. ToSet(order) \in SUBSET Tracker
    BY <2>1 DEF ToSet
  <2>. QED
    BY <2>1, <2>2 DEF Listed
<1>6. /\ torrent' \in TorrentType /\ torrent'.trackers = order /\ torrent'.due = ToSet(order) /\ torrent'.dirty
      /\ torrent'.wanted = torrent.wanted /\ torrent'.present = torrent.present
      /\ torrent'.paused = torrent.paused /\ torrent'.auto = torrent.auto
      /\ \A u \in Tracker : torrent'.results[u] = IF u = t THEN "none" ELSE torrent.results[u]
  BY <1>2, <1>4, <1>5 DEF TorrentType, Texts
<1>7. /\ download' \in DownloadType /\ download'.handle = download.handle
      /\ download'.flags = download.flags /\ download'.resumable = download.resumable
      /\ download'.touched = download.touched
      /\ download'.trackers = download.trackers \ {t}
      /\ download'.tracker_status = download.tracker_status
      /\ download'.meta = download.meta /\ download'.pause_after = download.pause_after
      /\ download'.config = download.config /\ download'.post = download.post
  BY <1>1, <1>2 DEF DownloadType
<1>8. Listed' = Listed \ {t}
  BY <1>5, <1>6 DEF Listed
<1>9. RemovedStaysAway'
  BY <1>1, <1>3, <1>7, <1>8 DEF RemovedStaysAway
<1>10. CheckpointFollows'
  BY <1>6 DEF CheckpointFollows
<1>11. StatusInv'
  <2>1. ASSUME NEW u \in Tracker \ again'
        PROVE  Newest(alerts', u, download'.tracker_status[u], torrent'.results[u])
    BY <1>1, <1>3, <1>6, <1>7 DEF StatusInv
  <2>. QED
    BY <1>3, <1>5, <1>6, <1>8, <2>1 DEF StatusInv
<1>12. OwedInv'
  BY <1>1, <1>3, <1>7 DEF OwedInv, OwedIsListed
<1>. QED
  BY <1>1, <1>2, <1>5, <1>6, <1>7, <1>9, <1>10, <1>11, <1>12, ListStep

\* The same torrent is added again, with other trackers.
LEMMA UpdateTrackersStep ==
    ASSUME IInv, NEW S \in SUBSET Tracker, UpdateTrackers(S)
    PROVE  IInv'
<1>. DEFINE new == S \ download.trackers
<1>1. /\ session # "down" /\ session' # "down" /\ UNCHANGED <<defaults, rest, owed, again>>
      /\ removed' = removed \ new
  BY DEF UpdateTrackers, AboutTrackers, Request, Same
<1>2. /\ download \in DownloadType /\ torrent \in TorrentType /\ alerts \in Seq(AlertType)
      /\ torrent.trackers \in Seq(Tracker) /\ Once(torrent.trackers) /\ new \in SUBSET Tracker
      /\ download.trackers \in SUBSET Tracker
  BY DEF IInv, Types, DownloadType, TorrentType, ListedOnce, Once
<1>3. OwedInv /\ FollowInv /\ StatusInv /\ RemovedStaysAway
  BY <1>1 DEF IInv
<1>4. World \in WorldType /\ World.d = download /\ World.t = torrent /\ World.q = alerts /\ World.f = disk
  BY WorldHasType
<1>5. PICK added \in IF Valid(World) THEN AddTrackers(torrent, new) ELSE {torrent} :
         Become(Checkpoint([World EXCEPT !.d.trackers = @ \cup S, !.t = added]))
  BY DEF UpdateTrackers
<1>6. /\ added \in TorrentType /\ Once(added.trackers)
      /\ ToSet(added.trackers) \in {Listed, Listed \cup new}
      /\ added.due \subseteq ToSet(added.trackers) /\ added.results = torrent.results
      /\ added.wanted = torrent.wanted /\ added.present = torrent.present
      /\ added.paused = torrent.paused /\ added.auto = torrent.auto
      /\ torrent.dirty => added.dirty
      /\ Valid(World) /\ ~(new \subseteq Listed) => added.dirty
  <2>. HIDE DEF new
  <2>1. CASE Valid(World)
    <3>1. added \in AddTrackers(torrent, new)
      BY <1>5, <2>1
    <3>. QED
      BY <1>2, <3>1, AddedTrackers DEF Listed
  <2>2. CASE ~Valid(World)
    BY <1>2, <1>3, <1>5, <2>2 DEF Listed, StatusInv
  <2>. QED
    BY <2>1, <2>2
<1>. DEFINE d == [download EXCEPT !.trackers = download.trackers \cup S]
            x == [World EXCEPT !.d.trackers = @ \cup S, !.t = added]
            y == Checkpoint(x)
<1>7. /\ d \in DownloadType /\ d.handle = download.handle
      /\ d.flags = download.flags /\ d.resumable = download.resumable
      /\ d.touched = download.touched
      /\ d.trackers = download.trackers \cup S
      /\ d.tracker_status = download.tracker_status
      /\ d.meta = download.meta /\ d.pause_after = download.pause_after
      /\ d.config = download.config /\ d.post = download.post
  BY <1>2 DEF DownloadType
<1>8. x \in WorldType /\ x.d = d /\ x.t = added /\ x.q = alerts /\ x.f = disk
  <2>1. x.d = d /\ x.t = added /\ x.q = alerts /\ x.f = disk
    BY <1>4 DEF WorldType
  <2>2. x = [World EXCEPT !.d = d, !.t = added]
    BY <1>4 DEF WorldType
  <2>. HIDE DEF d
  <2>. QED
    BY <1>4, <1>6, <1>7, <2>1, <2>2 DEF WorldType
<1>. HIDE DEF d, x
<1>9. /\ Quiet(x, y) /\ y.d = d /\ y.t.paused = added.paused /\ y.t.auto = added.auto
      /\ Valid(x) => Saving(y.q) \/ (~added.dirty /\ y = x)
      /\ y.t.wanted = added.wanted
  <2>1. y.t.wanted = x.t.wanted
    BY <1>8 DEF Checkpoint, WorldType, TorrentType
  <2>. QED
    BY <1>8, <2>1, CheckpointQuiet
<1>. HIDE DEF y
<1>10. download' = d /\ torrent' = y.t /\ alerts' = y.q /\ disk' = y.f
  BY <1>5, <1>9 DEF Become, x, y
<1>11. /\ torrent' \in TorrentType /\ alerts' \in Seq(AlertType) /\ disk' = disk
       /\ Queued(alerts, alerts') /\ torrent'.present = torrent.present
       /\ torrent'.trackers = added.trackers /\ torrent'.due = added.due
       /\ torrent'.results = torrent.results
       /\ added.dirty => torrent'.dirty \/ (download.handle /\ Saving(alerts'))
       /\ Saving(alerts') => Saving(alerts) \/ download.handle
  BY <1>6, <1>7, <1>8, <1>9, <1>10 DEF Quiet, Keeps, WorldType
<1>12. Listed' \in {Listed, Listed \cup new}
  BY <1>6, <1>11 DEF Listed
<1>13. /\ Adds(alerts') = Adds(alerts) /\ (Saving(alerts) => Saving(alerts'))
       /\ \A t, shown, told : Newest(alerts, t, shown, told) => Newest(alerts', t, shown, told)
  BY <1>2, <1>11, LongerQueue
<1>14. RemovedStaysAway'
  BY <1>1, <1>3, <1>7, <1>10, <1>12 DEF RemovedStaysAway
<1>15. CheckpointFollows'
  <2>1. ~(S \subseteq Listed \cup download.trackers) /\ Valid(World) => added.dirty
    BY <1>6
  <2>2. Listed \subseteq Listed' /\ Listed' \subseteq Listed \cup S
    BY <1>12
  <2>. HIDE DEF new
  <2>. QED
    BY <1>1, <1>2, <1>3, <1>6, <1>7, <1>10, <1>11, <1>13, <2>1, <2>2, FollowsAdded
<1>16. StatusInv'
  BY <1>1, <1>3, <1>6, <1>7, <1>10, <1>11, <1>12, <1>13 DEF StatusInv, Listed
<1>17. OwedInv'
  BY <1>1, <1>3, <1>7, <1>10 DEF OwedInv, OwedIsListed
<1>. QED
  BY <1>1, <1>2, <1>6, <1>7, <1>9, <1>10, <1>11, <1>13, <1>14, <1>15, <1>16, <1>17, ListStep

\* What is known of trackers that are not listed is forgotten.
LEMMA GetDownloadsStep ==
    ASSUME IInv, GetDownloads
    PROVE  IInv'
<1>1. /\ session # "down" /\ session' # "down"
      /\ UNCHANGED <<defaults, torrent, alerts, disk, rest, owed, removed>>
      /\ download' = [download EXCEPT !.tracker_status = Pruned(download.tracker_status)]
      /\ again' = {t \in again : Alerted(t) \/ t \in Listed}
  BY DEF GetDownloads
<1>2. /\ download \in DownloadType /\ torrent \in TorrentType /\ alerts \in Seq(AlertType)
      /\ Once(torrent.trackers) /\ download.tracker_status \in [Tracker -> Texts]
  BY DEF IInv, Types, DownloadType, ListedOnce, Once
<1>3. OwedInv /\ FollowInv /\ StatusInv /\ RemovedStaysAway
  BY <1>1 DEF IInv
<1>. DEFINE st == Pruned(download.tracker_status)
<1>4. /\ st \in [Tracker -> Texts]
      /\ \A t \in Tracker : st[t] = IF t \in Listed THEN download.tracker_status[t] ELSE "none"
  BY <1>2 DEF Pruned, Texts
<1>. HIDE DEF st
<1>5. /\ download' \in DownloadType /\ download'.handle = download.handle
      /\ download'.flags = download.flags /\ download'.resumable = download.resumable
      /\ download'.touched = download.touched
      /\ download'.trackers = download.trackers /\ download'.tracker_status = st
      /\ download'.meta = download.meta /\ download'.pause_after = download.pause_after
      /\ download'.config = download.config /\ download'.post = download.post
  BY <1>1, <1>2, <1>4 DEF DownloadType, st
<1>6. Listed' = Listed
  BY <1>1 DEF Listed
<1>7. RemovedStaysAway'
  BY <1>1, <1>3, <1>5, <1>6 DEF RemovedStaysAway
<1>8. CheckpointFollows'
  BY <1>1, <1>3, <1>5, <1>6 DEF FollowInv, CheckpointFollows, Valid, World
<1>9. StatusInv'
  <2>1. ASSUME NEW t \in Tracker \ again' PROVE Newest(alerts, t, st[t], torrent.results[t])
    <3>1. CASE t \notin again
      <4>1. Newest(alerts, t, download.tracker_status[t], torrent.results[t])
        BY <1>3, <3>1 DEF StatusInv
      <4>2. t \notin Listed => torrent.results[t] = "none" /\ st[t] = "none"
        BY <1>3, <1>4 DEF StatusInv
      <4>3. t \in Listed => st[t] = download.tracker_status[t]
        BY <1>4
      <4>. QED
        BY <4>1, <4>2, <4>3 DEF Newest
    <3>2. CASE t \in again
      <4>1. ~Alerted(t) /\ t \notin Listed
        BY <1>1, <2>1, <3>2
      <4>2. About(alerts, t) = {}
        BY <4>1 DEF Alerted, About, ToSet
      <4>3. torrent.results[t] = "none" /\ st[t] = "none"
        BY <1>3, <1>4, <4>1 DEF StatusInv
      <4>. QED
        BY <4>2, <4>3 DEF Newest
    <3>. QED
      BY <3>1, <3>2
  <2>. QED
    BY <1>1, <1>3, <1>5, <1>6, <2>1 DEF StatusInv
<1>10. OwedInv'
  BY <1>1, <1>3, <1>5 DEF OwedInv, OwedIsListed
<1>. QED
  BY <1>1, <1>2, <1>5, <1>7, <1>8, <1>9, <1>10, ListStep

\* A tracker is announced to, and answers or does not.
LEMMA AnnounceStep ==
    ASSUME IInv, NEW t, Announce(t) \/ (t \in Tracker /\ TrackerForceAnnounce(t))
    PROVE  IInv'
<1>1. /\ session # "down" /\ session' # "down"
      /\ UNCHANGED <<defaults, download, disk, rest, owed, removed, again>>
  BY DEF Announce, TrackerForceAnnounce, AboutTrackers, Request, Room, Idle, Same, listVars
<1>2. /\ download \in DownloadType /\ torrent \in TorrentType /\ alerts \in Seq(AlertType)
      /\ Once(torrent.trackers)
  BY DEF IInv, Types, ListedOnce, Once
<1>3. OwedInv /\ FollowInv /\ StatusInv /\ RemovedStaysAway
  BY <1>1 DEF IInv
<1>. DEFINE Alike == /\ torrent' \in TorrentType /\ torrent'.trackers = torrent.trackers
                     /\ torrent'.wanted = torrent.wanted /\ torrent'.present = torrent.present
                     /\ torrent'.paused = torrent.paused /\ torrent'.auto = torrent.auto
                     /\ torrent'.dirty = torrent.dirty /\ torrent'.due \subseteq Listed
                     /\ \A u \in Tracker \ Listed : torrent'.results[u] = "none"
                     /\ alerts' \in Seq(AlertType) /\ Adds(alerts') = Adds(alerts)
                     /\ Saving(alerts') <=> Saving(alerts)
                     /\ \A u \in Tracker \ again :
                           Newest(alerts', u, download.tracker_status[u], torrent'.results[u])
<1>4. ASSUME t \in Tracker, TrackerForceAnnounce(t) PROVE Alike
  <2>. DEFINE due == torrent.due \cup {t}
  <2>1. torrent' = [torrent EXCEPT !.due = due] /\ alerts' = alerts /\ t \in Listed
    BY <1>4 DEF TrackerForceAnnounce
  <2>2. due \in SUBSET Tracker /\ due \subseteq Listed
    BY <1>2, <1>3, <1>4, <2>1 DEF TorrentType, StatusInv
  <2>. HIDE DEF due
  <2>3. /\ torrent' \in TorrentType /\ torrent'.trackers = torrent.trackers /\ torrent'.due = due
        /\ torrent'.wanted = torrent.wanted /\ torrent'.present = torrent.present
        /\ torrent'.paused = torrent.paused /\ torrent'.auto = torrent.auto
        /\ torrent'.dirty = torrent.dirty /\ torrent'.results = torrent.results
    BY <1>2, <2>1, <2>2 DEF TorrentType
  <2>. QED
    BY <1>2, <1>3, <2>1, <2>2, <2>3 DEF StatusInv
<1>5. ASSUME Announce(t) PROVE Alike
  <2>1. PICK text \in {"Working", "Error", "Warning"} :
           /\ torrent' = [torrent EXCEPT !.due = @ \ {t}, !.results[t] = text]
           /\ alerts' = Append(alerts, [kind |-> "tracker", url |-> t, text |-> text])
    BY <1>5 DEF Announce
  <2>. DEFINE a == [kind |-> "tracker", url |-> t, text |-> text]
  <2>2. t \in Listed /\ t \in Tracker /\ torrent.due \subseteq Listed
    BY <1>2, <1>3, <1>5 DEF Announce, TorrentType, StatusInv
  <2>3. a \in AlertType /\ a.kind = "tracker" /\ a.url = t /\ a.text = text
    BY <2>2 DEF AlertType, Report, Texts
  <2>4. alerts' = Append(alerts, a)
    BY <2>1
  <2>. HIDE DEF a
  <2>5. /\ alerts' \in Seq(AlertType) /\ Adds(alerts') = Adds(alerts)
        /\ Saving(alerts') <=> Saving(alerts)
        /\ \A shown : Newest(alerts', t, shown, text)
        /\ \A u, shown, told : u # t /\ Newest(alerts, u, shown, told) => Newest(alerts', u, shown, told)
    BY <1>2, <2>3, <2>4, ReportedStatus
  <2>6. /\ torrent' \in TorrentType /\ torrent'.trackers = torrent.trackers
        /\ torrent'.wanted = torrent.wanted /\ torrent'.present = torrent.present
        /\ torrent'.paused = torrent.paused /\ torrent'.auto = torrent.auto
        /\ torrent'.dirty = torrent.dirty /\ torrent'.due = torrent.due \ {t}
        /\ \A u \in Tracker : torrent'.results[u] = IF u = t THEN text ELSE torrent.results[u]
    BY <1>2, <2>1, <2>2 DEF TorrentType, Texts
  <2>7. ASSUME NEW u \in Tracker \ again
        PROVE  Newest(alerts', u, download.tracker_status[u], torrent'.results[u])
    BY <1>3, <2>5, <2>6 DEF StatusInv
  <2>. QED
    BY <1>3, <2>2, <2>5, <2>6, <2>7 DEF StatusInv
<1>6. Alike
  BY <1>4, <1>5
<1>7. Listed' = Listed
  BY <1>6 DEF Listed
<1>8. RemovedStaysAway'
  BY <1>1, <1>3, <1>7 DEF RemovedStaysAway
<1>9. CheckpointFollows'
  BY <1>1, <1>2, <1>3, <1>6, <1>7, SavingIs DEF FollowInv, CheckpointFollows, Valid, World
<1>10. StatusInv'
  BY <1>1, <1>6, <1>7 DEF StatusInv
<1>11. OwedInv'
  BY <1>1, <1>3 DEF OwedInv, OwedIsListed
<1>. QED
  BY <1>1, <1>2, <1>6, <1>8, <1>9, <1>10, <1>11, ListStep
-----------------------------------------------------------------------------
(***************************************************************************)
(* The session ends, and starts again.                                     *)
(***************************************************************************)

\* A torrent that is not there has its type.
LEMMA AbsentTorrent ==
    /\ Absent \in TorrentType /\ ~Absent.present /\ Absent.trackers = <<>> /\ Absent.due = {}
    /\ \A t \in Tracker : Absent.results[t] = "none"
<1>1. [t \in Tracker |-> "none"] \in [Tracker -> Texts]
  BY DEF Texts
<1>. QED
  BY <1>1 DEF Absent, TorrentType, States, Dirs

\* The parameters of the torrent that is to be added have the trackers in some order.
LEMMA AddingTorrent ==
    ASSUME NEW S \in SUBSET Tracker, NEW t \in Adding(S)
    PROVE  /\ t \in TorrentType /\ ~t.present /\ ToSet(t.trackers) = S /\ t.due = S /\ Once(t.trackers)
           /\ \A u \in Tracker : t.results[u] = "none"
<1>1. PICK order \in Orders(S) : t = [Absent EXCEPT !.trackers = order, !.due = S]
  BY DEF Adding
<1>2. order \in Seq(Tracker) /\ ToSet(order) = S /\ Once(order)
  BY OrderOfSet
<1>. QED
  BY <1>1, <1>2, AbsentTorrent DEF TorrentType

\* A download that was just made has no handle, and knows of no tracker.
LEMMA MadeDownload ==
    ASSUME NEW config \in Config, NEW flags \in Flags, NEW meta \in BOOLEAN,
           NEW trackers \in SUBSET Tracker, NEW resumable \in BOOLEAN,
           NEW d, d = NewDownload(config, flags, meta, trackers, resumable)
    PROVE  /\ d \in DownloadType /\ ~d.handle /\ d.trackers = trackers /\ d.config = config
           /\ d.flags = flags /\ d.resumable = resumable /\ d.post = NoTask
           /\ \A t \in Tracker : d.tracker_status[t] = "none"
<1>1. [t \in Tracker |-> "none"] \in [Tracker -> Texts]
  BY DEF Texts
<1>8. [f \in File |-> "none"] \in [File -> {"none", "waiting", "playing"}]
  OBVIOUS
<1>2. NoStatus \in StatusType /\ NoTask \in PostType
  BY DEF NoStatus, StatusType, States, NoTask, PostType
<1>. DEFINE after == IF config.stop_after_metainfo THEN "waiting" ELSE "none"
            st == [t \in Tracker |-> "none"]
            players == [f \in File |-> "none"]
<1>3. after \in {"none", "waiting", "stopping"}
  OBVIOUS
<1>4. d = [trackers |-> trackers, tracker_status |-> st, handle |-> FALSE, meta |-> meta, metainfo |-> FALSE,
           lt_status |-> NoStatus, pause_after |-> FALSE, checkpoint_after |-> FALSE, flags |-> flags,
           resumable |-> resumable, stream |-> {}, players |-> players, touched |-> {}, config |-> config, after |-> after, post |-> NoTask]
  BY DEF NewDownload
<1>5. \A t \in Tracker : st[t] = "none"
  OBVIOUS
<1>. HIDE DEF after, st, players
<1>6. st \in [Tracker -> Texts] /\ players \in [File -> {"none", "waiting", "playing"}]
  BY <1>1, <1>8 DEF st, players
<1>7. d \in DownloadType
  <2>1. NoStatus \in StatusType
    BY <1>2
  <2>2. NoTask \in PostType
    BY <1>2
  <2>. QED
    BY <1>3, <1>4, <1>6, <2>1, <2>2 DEF DownloadType
<1>. QED
  BY <1>4, <1>5, <1>7

\* Its task goes on with what the config lists.
Tasked(d) == IF d.config.post_handle_ops = {} THEN d ELSE [d EXCEPT !.post = Scheduled(d)]

\* That changes its task alone.
LEMMA ScheduledDownload ==
    ASSUME NEW d \in DownloadType, d.post = NoTask,
           NEW e, e = Tasked(d), NEW o, o \subseteq d.config.post_handle_ops
    PROVE  /\ e \in DownloadType /\ e.handle = d.handle /\ e.trackers = d.trackers /\ e.config = d.config
           /\ e.flags = d.flags /\ e.resumable = d.resumable /\ e.touched = d.touched
           /\ e.tracker_status = d.tracker_status
           /\ e.post.at \in {"none", "waiting"} /\ (e.post.at # "none" => o \subseteq e.post.remaining)
<1>. DEFINE ops == d.config.post_handle_ops
            post == [at |-> "waiting", remaining |-> ops]
<1>1. NoTask.at = "none" /\ ops \in SUBSET Op
  BY DEF NoTask, DownloadType, Config
<1>2. Scheduled(d) = post
  BY <1>1 DEF Scheduled
<1>3. post \in PostType /\ post.at = "waiting" /\ post.remaining = ops
  BY <1>1 DEF PostType
<1>. HIDE DEF post
<1>4. CASE ops = {}
  BY <1>1, <1>4 DEF Tasked
<1>5. CASE ops # {}
  <2>1. e = [d EXCEPT !.post = post]
    BY <1>2, <1>5 DEF Tasked
  <2>. QED
    BY <1>3, <2>1 DEF DownloadType
<1>. QED
  BY <1>4, <1>5

\* Nothing is told of any tracker, and nothing waits.
LEMMA EmptyQueue ==
    /\ <<>> \in Seq(AlertType) /\ Adds(<<>>) = {} /\ ~Saving(<<>>)
    /\ \A t, text : Newest(<<>>, t, text, text)
BY DEF Adds, Saving, Newest, About

\* A session with a download that was just made and a torrent that is to be added.
Made == /\ torrent \in Adding(download.trackers) /\ alerts = <<>> /\ session # "down"
        /\ download \in DownloadType /\ ~download.handle
        /\ \A t \in Tracker : download.tracker_status[t] = "none"
        /\ disk \in FileType /\ defaults \subseteq Tracker /\ removed \cap download.trackers = {}
        /\ rest => /\ download.config.user_stopped /\ ~download.config.auto_managed
                   /\ download.resumable => download.flags.paused /\ ~download.flags.auto
        /\ OwedInv

\* There the invariant holds.
LEMMA Fresh == Made => IInv
<1>. SUFFICES ASSUME Made PROVE IInv
  OBVIOUS
<1>. DEFINE S == download.trackers
<1>0. S \in SUBSET Tracker /\ torrent \in Adding(S)
  BY DEF Made, DownloadType
<1>. HIDE DEF S
<1>1. /\ torrent \in TorrentType /\ ~torrent.present /\ Listed = S /\ torrent.due = S
      /\ Once(torrent.trackers) /\ \A u \in Tracker : torrent.results[u] = "none"
  BY <1>0, AddingTorrent DEF Listed
<1>2. Types /\ ListedOnce /\ RemovedStaysAway
  BY <1>1, EmptyQueue DEF Made, Types, ListedOnce, Once, RemovedStaysAway, S
<1>3. HandleInv
  BY <1>1, EmptyQueue DEF Made, HandleInv
<1>4. World.d = download /\ World.t = torrent
  BY DEF World
<1>5. Fetches(World) /\ (rest => Rests(World))
  BY <1>1, <1>4 DEF Made, Fetches, Rests, Valid
<1>6. FollowInv
  BY <1>1, <1>4 DEF Made, FollowInv, CheckpointFollows, Valid, S
<1>7. StatusInv
  BY <1>1, EmptyQueue DEF Made, StatusInv
<1>. QED
  BY <1>2, <1>3, <1>5, <1>6, <1>7 DEF Made, IInv

\* Everything that libtorrent has is gone.
LEMMA DownStep ==
    ASSUME IInv, Down, UNCHANGED <<defaults, removed>>
    PROVE  IInv'
<1>1. session' = "down" /\ alerts' = <<>> /\ torrent' = Absent /\ UNCHANGED <<download, disk>>
  BY DEF Down
<1>2. Listed' = {} /\ ListedOnce'
  BY <1>1, AbsentTorrent DEF Listed, ToSet, ListedOnce
<1>3. Types'
  BY <1>1, AbsentTorrent, EmptyQueue DEF IInv, Types
<1>4. RemovedStaysAway'
  BY <1>1, <1>2 DEF IInv, RemovedStaysAway
<1>. QED
  BY <1>1, <1>2, <1>3, <1>4 DEF IInv

\* What the checkpoint says is what is known.
LEMMA StartStep ==
    ASSUME IInv, Start, removed' = removed \ disk.trackers, defaults' = defaults
    PROVE  IInv'
<1>1. disk \in FileType /\ defaults \subseteq Tracker
  BY DEF IInv, Types
<1>2. PICK f \in ResumeData(disk) :
          LET d == NewDownload(f.config, f.flags, f.meta, f.trackers, f.resumable)
          IN  /\ download' = IF f.config.post_handle_ops = {} THEN d
                             ELSE [d EXCEPT !.post = Scheduled(d)]
              /\ rest' = (rest /\ f.config.user_stopped /\ ~f.config.auto_managed
                               /\ f.flags.paused /\ (f.resumable => ~f.flags.auto))
  BY DEF Start
<1>3. /\ session = "down" /\ session' = "up" /\ torrent' \in Adding(disk.trackers)
      /\ owed' = owed \cap disk.config.post_handle_ops /\ alerts' = alerts /\ disk' = disk /\ alerts = <<>>
  BY DEF Start, IInv
<1>4. f \in FileType /\ f.config = disk.config /\ f.trackers = disk.trackers
  <2>1. DefaultFlags \in Flags
    BY DEF DefaultFlags, Flags
  <2>2. f = disk \/ f = [disk EXCEPT !.flags = DefaultFlags]
    BY DEF ResumeData, FromLegacy
  <2>. QED
    BY <1>1, <2>1, <2>2 DEF FileType
<1>5. /\ f.config \in Config /\ f.flags \in Flags /\ f.meta \in BOOLEAN /\ f.trackers \in SUBSET Tracker
      /\ f.resumable \in BOOLEAN /\ f.config.post_handle_ops \in SUBSET Op
  BY <1>4 DEF FileType, Config
<1>. DEFINE d == NewDownload(f.config, f.flags, f.meta, f.trackers, f.resumable)
<1>6. /\ d \in DownloadType /\ ~d.handle /\ d.trackers = f.trackers /\ d.config = f.config
      /\ d.flags = f.flags /\ d.resumable = f.resumable /\ d.post = NoTask
      /\ \A t \in Tracker : d.tracker_status[t] = "none"
  BY <1>5, MadeDownload
<1>7. download' = Tasked(d)
  BY <1>2, <1>6 DEF Tasked
<1>8. owed' \subseteq d.config.post_handle_ops
  BY <1>3, <1>4, <1>6
<1>. HIDE DEF d
<1>9. /\ download' \in DownloadType /\ download'.handle = d.handle /\ download'.trackers = d.trackers
      /\ download'.config = d.config /\ download'.flags = d.flags
      /\ download'.resumable = d.resumable /\ download'.touched = d.touched
      /\ download'.tracker_status = d.tracker_status
      /\ download'.post.at \in {"none", "waiting"}
      /\ download'.post.at # "none" => owed' \subseteq download'.post.remaining
  BY <1>6, <1>7, <1>8, ScheduledDownload
<1>10. OwedInv'
  BY <1>8, <1>9 DEF OwedInv, OwedIsListed
<1>11. download'.trackers = disk.trackers /\ ~download'.handle /\ download'.config = f.config
       /\ download'.flags = f.flags /\ download'.resumable = f.resumable
       /\ \A t \in Tracker : download'.tracker_status[t] = "none"
  BY <1>4, <1>6, <1>9
<1>13. removed' \cap download'.trackers = {}
  BY <1>11
<1>14. rest' => /\ download'.config.user_stopped /\ ~download'.config.auto_managed
                /\ download'.resumable => download'.flags.paused /\ ~download'.flags.auto
  BY <1>2, <1>11
<1>15. disk' \in FileType /\ defaults' \subseteq Tracker /\ alerts' = <<>> /\ session' # "down"
  BY <1>1, <1>3
<1>16. torrent' \in Adding(download'.trackers)
  BY <1>3, <1>11
<1>17. Made'
  BY <1>9, <1>10, <1>11, <1>13, <1>14, <1>15, <1>16 DEF Made
<1>18. (Made => IInv)'
  BY Fresh, PTL
<1>. QED
  BY <1>17, <1>18

\* A download that is added, or loaded from the checkpoint it had, has been promised nothing more.
LEMMA InitInv ==
    ASSUME TrackersInit
    PROVE  IInv
<1>1. PICK files \in Selections, only_metadata, meta, stopped, resumable \in BOOLEAN,
           ops \in PostHandleEvents, about \in Subjects :
        LET config == NewConfig(files, stopped)
            flags  == IF stopped /\ resumable THEN [paused |-> TRUE, auto |-> FALSE]
                      ELSE DefaultFlags
            trackers == IF about = "trackers" THEN Tracker \ Default ELSE {}
            d      == NewDownload([config EXCEPT !.stop_after_metainfo = only_metadata,
                                                 !.post_handle_ops = ops],
                                  flags, meta, trackers, resumable)
        IN  /\ stopped \/ ~resumable => ops = {} /\ ~only_metadata
            /\ only_metadata => ~meta
            /\ about # "files" => files = File
            /\ about = "trackers" => ~only_metadata /\ ~stopped /\ resumable /\ ~meta
                                   /\ ops # {"backup"}
            /\ subject = about /\ defaults = IF about = "trackers" THEN Default ELSE {}
            /\ download = [d EXCEPT !.post = IF ops = {} THEN NoTask ELSE Scheduled(d)]
            /\ disk = [config |-> config, flags |-> flags, meta |-> meta, trackers |-> trackers,
                       resumable |-> resumable]
            /\ rest = (stopped /\ ~AutoManaged) /\ owed = ops
            /\ torrent \in Adding(trackers) /\ alerts = <<>> /\ session = "up"
            /\ waiting = {} /\ events = 0
  BY Zenon DEF TrackersInit, Init
<1>. DEFINE config == NewConfig(files, stopped)
            wanted == [config EXCEPT !.stop_after_metainfo = only_metadata, !.post_handle_ops = ops]
            flags  == IF stopped /\ resumable THEN [paused |-> TRUE, auto |-> FALSE] ELSE DefaultFlags
            trackers == IF about = "trackers" THEN Tracker \ Default ELSE {}
            d == NewDownload(wanted, flags, meta, trackers, resumable)
<1>2. /\ defaults \subseteq Tracker
      /\ download = [d EXCEPT !.post = IF ops = {} THEN NoTask ELSE Scheduled(d)]
      /\ disk = [config |-> config, flags |-> flags, meta |-> meta, trackers |-> trackers,
                 resumable |-> resumable]
      /\ rest = (stopped /\ ~AutoManaged) /\ owed = ops
      /\ torrent \in Adding(trackers) /\ alerts = <<>> /\ session = "up" /\ removed = {}
  BY <1>1 DEF TrackersInit
<1>3. ops \in SUBSET Op
  BY DEF PostHandleEvents, Op
<1>4. config \in Config
  <2>1. files \in Selections /\ AutoManaged \in BOOLEAN
    OBVIOUS
  <2>. QED
    BY <2>1 DEF NewConfig, Config, Dirs
<1>5. wanted \in Config /\ wanted.post_handle_ops = ops /\ wanted.user_stopped = stopped
      /\ wanted.auto_managed = AutoManaged
  <2>1. config.user_stopped = stopped /\ config.auto_managed = AutoManaged
    BY DEF NewConfig
  <2>. HIDE DEF config
  <2>. QED
    BY <1>3, <1>4, <2>1 DEF Config
<1>6. flags \in Flags /\ (stopped /\ resumable => flags.paused /\ ~flags.auto)
  BY DEF Flags, DefaultFlags
<1>7. trackers \in SUBSET Tracker
  OBVIOUS
<1>. HIDE DEF config, wanted, flags, trackers
<1>8. disk \in FileType
  BY <1>2, <1>4, <1>6, <1>7 DEF FileType
<1>9. /\ d \in DownloadType /\ ~d.handle /\ d.trackers = trackers /\ d.config = wanted
      /\ d.flags = flags /\ d.resumable = resumable /\ d.post = NoTask
      /\ \A t \in Tracker : d.tracker_status[t] = "none"
  BY <1>5, <1>6, <1>7, MadeDownload
<1>. HIDE DEF d
<1>10. download = Tasked(d)
  <2>1. CASE ops = {}
    <3>1. download = [d EXCEPT !.post = NoTask]
      BY <1>2, <2>1
    <3>2. download = d
      BY <1>9, <3>1 DEF DownloadType
    <3>. QED
      BY <1>5, <1>9, <2>1, <3>2 DEF Tasked
  <2>2. CASE ops # {}
    BY <1>2, <1>5, <1>9, <2>2 DEF Tasked
  <2>. QED
    BY <2>1, <2>2
<1>11. owed \subseteq d.config.post_handle_ops
  BY <1>2, <1>5, <1>9
<1>12. /\ download \in DownloadType /\ download.handle = d.handle /\ download.trackers = d.trackers
       /\ download.config = d.config /\ download.flags = d.flags
       /\ download.resumable = d.resumable /\ download.touched = d.touched
       /\ download.tracker_status = d.tracker_status
       /\ download.post.at \in {"none", "waiting"}
       /\ download.post.at # "none" => owed \subseteq download.post.remaining
  BY <1>9, <1>10, <1>11, ScheduledDownload
<1>13. OwedInv
  BY <1>11, <1>12 DEF OwedInv, OwedIsListed
<1>14. rest => /\ download.config.user_stopped /\ ~download.config.auto_managed
               /\ download.resumable => download.flags.paused /\ ~download.flags.auto
  BY <1>2, <1>5, <1>6, <1>9, <1>12
<1>15. Made
  BY <1>2, <1>8, <1>9, <1>12, <1>13, <1>14 DEF Made
<1>. QED
  BY <1>15, Fresh
-----------------------------------------------------------------------------
(***************************************************************************)
(* All of it.                                                              *)
(***************************************************************************)

\* An alert that waits for the torrent's coming is of one kind with all others.
LEMMA AddingIs ==
    ASSUME NEW q \in Seq(AlertType)
    PROVE  Contains(q, Alert("add")) <=> Adds(q) # {}
<1>1. ASSUME NEW a \in AlertType, a.kind = "add" PROVE a = Alert("add")
  <2>1. a \in [kind : {"add", "metadata", "state", "checked", "finished", "save"}]
    BY <1>1 DEF AlertType, Report
  <2>. QED
    BY <1>1, <2>1 DEF Alert
<1>2. Alert("add").kind = "add"
  BY DEF Alert
<1>. QED
  BY <1>1, <1>2 DEF Contains, Adds

\* The invariant does not read what waits for a checkpoint, or counts.
LEMMA NothingStep ==
    ASSUME IInv, UNCHANGED <<defaults, download, torrent, alerts, disk, session, rest, owed, removed, again>>
    PROVE  IInv'
BY DEF IInv, Types, ListedOnce, RemovedStaysAway, Listed, HandleInv, Fetches, Rests, Valid, World,
       OwedInv, OwedIsListed, FollowInv, CheckpointFollows, StatusInv

\* Every step of the program, of libtorrent and of the user keeps the invariant.
LEMMA StepInv ==
    ASSUME IInv, [TrackersNext]_allVars
    PROVE  IInv'
<1>. USE DEF Same, listVars
<1>1. CASE (Works \/ Engine \/ Players \/ PostHandle \/ WriteBackup \/ Asked \/ Quit) /\ Same /\ UNCHANGED listVars
  <2>0. UNCHANGED <<defaults, removed, again>>
    BY <1>1
  <2>1. CASE ProcessAlert
    <3>1. Head(alerts).kind \in {"add", "metadata", "state", "checked", "finished", "save", "tracker"}
      <4>1. alerts \in Seq(AlertType) /\ alerts # <<>>
        BY <2>1 DEF IInv, Types, ProcessAlert
      <4>2. Head(alerts) \in AlertType
        BY <4>1
      <4>. QED
        BY <4>2 DEF AlertType, Report
    <3>. QED
      BY <2>0, <2>1, <3>1, AlertStep, AddAlertStep, SavedStep, TrackerAlertStep
  <2>2. CASE StateUpdate \/ StatesCallback \/ StopAfterMetainfo \/ StoppedAfterMetainfo
    BY <2>0, <2>2, TaskStep
  <2>3. CASE TorrentAdded
    BY <2>0, <2>3, AddedStep
  <2>4. CASE MetadataArrives \/ CheckEnds \/ DownloadFinishes \/ QueueManages
    BY <2>0, <2>4, EngineStep
  <2>5. CASE PostHandle \/ WriteBackup \/ RequestDefaultTrackers
    BY <2>0, <2>5, OperationsStep
  <2>6. CASE RequestStop \/ RequestResume \/ RequestRecheck \/ RequestAutoManaged \/ Quit
    BY <2>0, <2>6, RequestStep
  <2>7. CASE RequestFilePriority \/ RequestStream \/ \E files \in Selections : SelectFiles(files)
    BY <2>0, <2>7, FilesStep
  <2>8. CASE Players
    BY <2>0, <2>8, PlayersStep
  <2>. QED
    BY <1>1, <2>1, <2>2, <2>3, <2>4, <2>5, <2>6, <2>7, <2>8 DEF Works, Engine, Asked
<1>2. CASE (\E who \in waiting : SaveTimeout(who)) /\ Same /\ UNCHANGED listVars
  BY <1>2, NothingStep DEF SaveTimeout
<1>3. CASE AddDefaultTrackers /\ Same /\ removed' = removed \ defaults /\ UNCHANGED again
  BY <1>3, DefaultsStep
<1>4. CASE Down /\ Same /\ again' = {} /\ UNCHANGED removed
  BY <1>4, DownStep
<1>5. CASE Start /\ Same /\ removed' = removed \ disk.trackers /\ UNCHANGED again
  BY <1>5, StartStep
<1>6. CASE \E t \in Tracker : AddTracker(t) \/ RemoveTracker(t) \/ TrackerForceAnnounce(t)
  BY <1>6, AddTrackerStep, RemoveTrackerStep, AnnounceStep
<1>7. CASE \E S \in SUBSET Tracker : UpdateTrackers(S)
  BY <1>7, UpdateTrackersStep
<1>8. CASE GetDownloads
  BY <1>8, GetDownloadsStep
<1>9. CASE \E t \in Announcing : Announce(t)
  BY <1>9, AnnounceStep
<1>10. CASE UNCHANGED allVars
  BY <1>10, NothingStep DEF allVars, vars
<1>. QED
  BY <1>1, <1>2, <1>3, <1>4, <1>5, <1>6, <1>7, <1>8, <1>9, <1>10 DEF TrackersNext, Elsewhere, Requests

\* In every behaviour: the types, what follows the handle, and the three lists of trackers.
THEOREM Invariance == TrackersSpec => []IInv
<1>1. TrackersInit => IInv
  BY InitInv
<1>2. IInv /\ [TrackersNext]_allVars => IInv'
  BY StepInv
<1>. QED
  BY <1>1, <1>2, PTL DEF TrackersSpec

\* libtorrent fetches the files that are shown as included, but for those that were played or
\* given a priority since the selection was last applied (Download.set_selected_files,
\* on_metadata_received_alert, on_add_torrent_alert, Stream, DownloadsEndpoint.file_priority),
\* in whatever order the metadata, the handle, the requests and a restart came.
THEOREM SelectionReaches == TrackersSpec => []SelectionApplied
<1>1. IInv => SelectionApplied
  <2>. SUFFICES ASSUME IInv, session # "down", Valid(World), NEW info \in FilesInfo(World),
                       info.index \notin download.touched
                PROVE  info.included <=> info.priority > 0
    BY DEF SelectionApplied
  <2>1. Fetches(World) /\ World.d = download
    BY WorldHasType DEF IInv
  <2>2. World.d.meta
    BY DEF FilesInfo
  <2>3. PICK f \in File : info = [index |-> f, included |-> f \in World.d.config.files,
                                  priority |-> FilePriority(World, f)]
    BY <2>2 DEF FilesInfo
  <2>4. f \in World.t.wanted <=> f \in World.d.config.files
    BY <2>1, <2>2, <2>3 DEF Fetches
  <2>5. FilePriority(World, f) = IF f \in World.d.config.files THEN 4 ELSE 0
    BY <2>4 DEF FilePriority
  <2>6. (info.included <=> f \in World.d.config.files) /\ info.priority = FilePriority(World, f)
    BY <2>3
  <2>. QED
    BY <2>5, <2>6
<1>. QED
  BY <1>1, Invariance, PTL

\* A download that the user stopped rests, unless to be checked, also over restarts
\* (Download.stop, update_lt_status, on_add_torrent_alert, force_recheck).
THEOREM StoppedStays == TrackersSpec => []StoppedRests
<1>1. IInv => StoppedRests
  <2>. SUFFICES ASSUME IInv, rest, session # "down", torrent.present, ~torrent.paused
                PROVE  download.pause_after \/ Contains(alerts, Alert("add"))
    BY DEF StoppedRests
  <2>1. Rests(World) /\ HandleInv /\ alerts \in Seq(AlertType)
    BY DEF IInv, Types
  <2>2. World.d = download /\ World.t = torrent
    BY WorldHasType
  <2>3. CASE download.handle
    BY <2>1, <2>2, <2>3 DEF Rests
  <2>4. CASE ~download.handle
    BY <2>1, <2>4, AddingIs DEF HandleInv
  <2>. QED
    BY <2>3, <2>4
<1>. QED
  BY <1>1, Invariance, PTL

\* An operation that was asked for while no other ran is not forgotten before it is done
\* (Download.schedule_post_handle_ops, perform_post_handle_ops).
THEOREM OwedStays == TrackersSpec => []OwedIsListed
<1>1. IInv => OwedIsListed
  BY DEF IInv, OwedInv, OwedIsListed
<1>. QED
  BY <1>1, Invariance, PTL

\* A tracker that the user removed is in neither list until somebody adds it
\* (DownloadsEndpoint.remove_tracker).
THEOREM RemovedAway == TrackersSpec => []RemovedStaysAway
<1>1. IInv => RemovedStaysAway
  BY DEF IInv
<1>. QED
  BY <1>1, Invariance, PTL

\* When libtorrent has nothing to save, it has the trackers of the TorrentDef and of the
\* checkpoint (Download.checkpoint, on_save_resume_data_alert).
THEOREM FollowsTheUser == TrackersSpec => []CheckpointFollows
<1>1. IInv => CheckpointFollows
  BY DEF IInv, FollowInv, CheckpointFollows
<1>. QED
  BY <1>1, Invariance, PTL

\* What is shown of a tracker is the last that libtorrent told of it (on_tracker_reply_alert,
\* on_tracker_error_alert, on_tracker_warning_alert, get_tracker_status).
THEOREM ShownIsLatest == TrackersSpec => []StatusIsLatest
<1>1. IInv => StatusIsLatest
  <2>. SUFFICES ASSUME IInv, session = "up", NEW t \in Listed \ again, ~Alerted(t)
                PROVE  GetTrackerStatus[t] = torrent.results[t]
    BY DEF StatusIsLatest
  <2>1. StatusInv /\ torrent \in TorrentType
    BY DEF IInv, Types
  <2>2. t \in Tracker
    BY <2>1 DEF Listed, ToSet, TorrentType
  <2>3. Newest(alerts, t, download.tracker_status[t], torrent.results[t])
    BY <2>1, <2>2 DEF StatusInv
  <2>4. About(alerts, t) = {}
    BY DEF Alerted, About, ToSet
  <2>. QED
    BY <2>3, <2>4 DEF Newest, GetTrackerStatus
<1>. QED
  BY <1>1, Invariance, PTL
=============================================================================
