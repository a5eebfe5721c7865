----------------------------- MODULE TrackerLists -----------------------------
(***************************************************************************)
(* The trackers of a download, beside everything else that happens to it   *)
(* (DownloadControl): the list in libtorrent, the list in the Download's   *)
(* TorrentDef, the list in the checkpoint, and the status of each tracker  *)
(* that the user is shown.  The user, the default trackers and torrents    *)
(* that are added again change one list or the other; tracker alerts come  *)
(* late.                                                                   *)
(***************************************************************************)
EXTENDS DownloadControl

CONSTANT Announcing  \* bound: the trackers that answer announces

VARIABLES
    removed,  \* history: trackers that the user removed, and nobody added again
    again     \* history: those that were removed while something was known or told of them

listVars == <<removed, again>>
allVars  == <<vars, listVars>>

Listed      == ToSet(torrent.trackers)
Alerted(t)  == \E a \in ToSet(alerts) : a.kind = "tracker" /\ a.url = t
AboutTrackers == subject = "trackers" /\ Request /\ Same
-----------------------------------------------------------------------------
(***************************************************************************)
(* Requests: downloads_endpoint.py.  Without a handle they raise, and what *)
(* was done before stays.                                                  *)
(***************************************************************************)

\* add_tracker: the last of the list is announced to.  (External: the TorrentDef may hand
\* out a copy of its list, and then only the handle gets the tracker.)
AddTracker(t) ==
    /\ AboutTrackers
    /\ IF Valid(World)
       THEN \E added \in AddTrackers(torrent, {t}) :
               torrent' = [added EXCEPT !.due = torrent.due \cup {Last(added.trackers)}]
       ELSE UNCHANGED torrent
    /\ download' \in {download, [download EXCEPT !.trackers = @ \cup {t}]}
    /\ removed' = removed \ {t}
    /\ UNCHANGED <<alerts, disk, session, waiting, rest, owed, again>>

\* remove_tracker: libtorrent gets a new list; it has no tracker twice.
Without(order, t) == IF Contains(order, t) THEN {RemoveAt(order, i) : i \in {k \in DOMAIN order : order[k] = t}}
                     ELSE {order}
BugRemaining(t) == download.trackers
Remaining(t)    == download.trackers \ {t}
RemoveTracker(t) ==
    /\ AboutTrackers /\ Valid(World)
    /\ \E order \in Without(torrent.trackers, t) :
          torrent' = [torrent EXCEPT !.trackers = order, !.due = ToSet(order), !.dirty = TRUE,
                                     !.results[t] = "none"]
    /\ download' = [download EXCEPT !.trackers = Remaining(t)]
    /\ removed' = removed \cup {t} /\ again' = again \cup {t}
    /\ UNCHANGED <<alerts, disk, session, waiting, rest, owed>>

\* tracker_force_announce.
TrackerForceAnnounce(t) ==
    /\ AboutTrackers /\ Valid(World) /\ t \in Listed
    /\ torrent' = [torrent EXCEPT !.due = @ \cup {t}]
    /\ UNCHANGED <<download, alerts, disk, session, waiting, rest, owed, listVars>>

\* start_download of a torrent that is listed, with these trackers; update_trackers.
UpdateTrackers(trackers) ==
    LET new == trackers \ download.trackers IN
    /\ AboutTrackers /\ new # {}
    /\ \E added \in IF Valid(World) THEN AddTrackers(torrent, new) ELSE {torrent} :
          Become(Checkpoint([World EXCEPT !.d.trackers = @ \cup trackers, !.t = added]))
    /\ removed' = removed \ new
    /\ UNCHANGED <<session, waiting, rest, owed, again>>

\* get_downloads, which the user interface asks for again and again: get_tracker_status
\* forgets what is known of trackers that are not listed.
BugPruned(status) == [t \in Tracker |-> IF t \notin Listed THEN status[t] ELSE "none"]
Pruned(status)    == [t \in Tracker |-> IF t \in Listed THEN status[t] ELSE "none"]
GetTrackerStatus  == [t \in Listed |-> download.tracker_status[t]]
GetDownloads ==
    /\ subject = "trackers" /\ session = "up" /\ Valid(World)
    /\ download' = [download EXCEPT !.tracker_status = Pruned(@)]
    /\ again' = {t \in again : Alerted(t) \/ t \in Listed}
    /\ UNCHANGED <<defaults, subject, torrent, alerts, disk, session, waiting, rest, owed, events, removed>>

\* libtorrent announces to a tracker; bound: once, unless it is told to again.
Announce(t) ==
    /\ Room /\ torrent.present /\ ~torrent.paused /\ t \in torrent.due
    /\ \E text \in {"Working", "Error", "Warning"} :
          /\ torrent' = [torrent EXCEPT !.due = @ \ {t}, !.results[t] = text]
          /\ alerts' = Append(alerts, [kind |-> "tracker", url |-> t, text |-> text])
    /\ Idle /\ Same /\ UNCHANGED listVars
-----------------------------------------------------------------------------
TrackersInit == Init /\ removed = {} /\ again = {}

Requests == \/ \E t \in Tracker : AddTracker(t) \/ RemoveTracker(t) \/ TrackerForceAnnounce(t)
            \/ \E S \in SUBSET Tracker : UpdateTrackers(S)

\* The default trackers, or a checkpoint that was written before, bring a tracker back.
Elsewhere ==
    \/ (Works \/ Engine \/ Players \/ PostHandle \/ WriteBackup \/ Asked \/ Quit) /\ Same /\ UNCHANGED listVars
    \/ (\E who \in waiting : SaveTimeout(who)) /\ Same /\ UNCHANGED listVars
    \/ AddDefaultTrackers /\ Same /\ removed' = removed \ defaults /\ UNCHANGED again
    \/ Down /\ Same /\ again' = {} /\ UNCHANGED removed
    \/ Start /\ Same /\ removed' = removed \ disk.trackers /\ UNCHANGED again

TrackersNext == Elsewhere \/ Requests \/ GetDownloads \/ \E t \in Announcing : Announce(t)

TrackersSpec == TrackersInit /\ [][TrackersNext]_allVars
-----------------------------------------------------------------------------
\* A tracker that the user removed is not contacted again, until somebody adds it or the
\* program starts from a checkpoint that was written before (remove_tracker).
RemovedStaysAway == removed \cap (Listed \cup download.trackers) = {}

\* When libtorrent has nothing to save, libtorrent, the TorrentDef and the checkpoint have
\* the same trackers, whatever was added and removed while the checkpoint was made
\* (checkpoint, on_save_resume_data_alert).
CheckpointFollows ==
    session # "down" /\ Valid(World) /\ ~torrent.dirty /\ ~Contains(alerts, Alert("save"))
        => disk.trackers = Listed /\ download.trackers = Listed

\* What is shown of a tracker is the last that libtorrent told of it, whatever was added and
\* removed before the alert was taken (on_tracker_reply_alert, get_tracker_status); unless
\* it was removed, and has come back before the user interface asked.
StatusIsLatest ==
    session = "up" /\ Valid(World)
        => \A t \in Listed \ again : Alerted(t) \/ GetTrackerStatus[t] = torrent.results[t]

(***************************************************************************)
(* What the code does not keep.                                            *)
(***************************************************************************)

\* "Not contacted yet" (get_tracker_status) is what is shown of a tracker that was just added.
StatusOfAddedIsNew ==
    session = "up" /\ Valid(World)
        => \A t \in Listed : Alerted(t) \/ GetTrackerStatus[t] = torrent.results[t]

\* A request that was answered with an error has added nothing.
RefusedIsNotAdded == [][subject = "trackers" /\ ~Valid(World) /\ UNCHANGED torrent /\ session' = session
                            => download'.trackers \subseteq download.trackers \cup ToSet(torrent.trackers)]_allVars

\* An added tracker is announced to at once ("Don't use download.add_trackers here because
\* it force_reannounces ALL trackers").
AddedIsAnnounced == [][\A t \in Tracker : AddTracker(t) /\ Valid(World) => t \in torrent'.due]_allVars
=============================================================================
