------------------------ MODULE DownloadManagerProofs ------------------------
(***************************************************************************)
(* For every number of downloads, coroutines, sessions and crashes: the    *)
(* DownloadManager is type correct and a Download only ever holds a handle *)
(* of the session for its own hop count.                                   *)
(*                                                                         *)
(* HandleInOwnSession is not inductive by itself: a handle reaches a       *)
(* Download from the table of a session or from an alert of that session,  *)
(* so the invariant also says that these only hold handles of their own    *)
(* session, and what each suspended coroutine remembers.                   *)
(*                                                                         *)
(* Without lookups, one Download is in use and its checkpoint has its hop  *)
(* count.  With lookups, and sessions that exist, none of these shuts down *)
(* a download of the user.                                                 *)
(*                                                                         *)
(* The last section is about Playback: the Stream of a Download.           *)
(***************************************************************************)
EXTENDS DownloadManager, Playback, TLAPS

ObjType == [hidden : BOOLEAN, hops : Hops, handle : Handle \cup {NoHandle},
            closed : BOOLEAN, added : FutureState, metainfo : FutureState]

CoType == [call : AllCalls \cup {"none"}, at : Places,
           dl : Download \cup {NoDownload}, victim : Download \cup {NoDownload},
           hops : Hops \cup {NoHops}]

AlertType == [type : {"added", "removed", "metadata", "saved"}, handle : Handle]

OwnAlert(s) == {a \in AlertType : a.handle.hops = s}

TableInv == /\ downloads \in Download \cup {NoDownload}
            /\ requests \in [download : Download \cup {NoDownload}, pending : Int]
            /\ cached \in BOOLEAN
            /\ running \in Coro \cup {NoCoro}
            /\ conf \in Hops \cup {NoHops}
            /\ loading \in BOOLEAN

ObjInv == /\ obj \in [Download -> ObjType]
          /\ HandleInOwnSession

\* A suspended coroutine remembers the Download it works on, the one it removes
\* and, in update_hops, the new hop count.
CoInv == /\ co \in [Coro -> CoType]
         /\ \A c \in Coro :
              /\ co[c].at # "idle" => co[c].dl \in Download
              /\ co[c].at \in Removals => co[c].victim \in Download
              /\ co[c].at \in {"adding", "saving", "rehoming"} => co[c].hops \in Hops

\* Queues of alerts in which each session only reports its own handles.
OwnQueues(q) == /\ q \in [Hops -> Seq(AlertType)]
                /\ \A s \in Hops : q[s] \in Seq(OwnAlert(s))

\* A session and its alerts only know handles of that session.
SessionInv == /\ torrent \in [Hops -> Handle \cup {NoHandle}]
              /\ \A s \in Hops : torrent[s] # NoHandle => torrent[s].hops = s
              /\ OwnQueues(alerts)

OtherInv == /\ session \in [Hops -> {"absent", "creating", "ready"}]
            /\ known \in [Hops -> BOOLEAN]
            /\ adding \subseteq Hops
            /\ dropping \subseteq Handle
            /\ crashes \in Nat

IInv == TableInv /\ ObjInv /\ CoInv /\ SessionInv /\ OtherInv

USE CallsAssumption, ColdAssumption, NullAssumption, LoaderAssumption
-----------------------------------------------------------------------------
(***************************************************************************)
(* The pieces the actions are made of.                                     *)
(***************************************************************************)

\* Appending an alert about a session's own handle keeps its queue well formed.
LEMMA AppendOwn ==
    ASSUME NEW q, OwnQueues(q), NEW h \in Handle,
           NEW t \in {"added", "removed", "metadata", "saved"}
    PROVE  OwnQueues([q EXCEPT ![h.hops] = Append(@, Alert(t, h))])
<1>1. h.hops \in Hops
  BY DEF Handle
<1>2. Alert(t, h) \in AlertType /\ Alert(t, h) \in OwnAlert(h.hops)
  BY DEF Alert, AlertType, OwnAlert
<1>3. /\ Append(q[h.hops], Alert(t, h)) \in Seq(AlertType)
      /\ Append(q[h.hops], Alert(t, h)) \in Seq(OwnAlert(h.hops))
  BY <1>1, <1>2 DEF OwnQueues
<1>. QED
  BY <1>1, <1>3 DEF OwnQueues

\* Popping an alert keeps it well formed, and the alert is about an own handle.
LEMMA PopOwn ==
    ASSUME OwnQueues(alerts), NEW s \in Hops, alerts[s] # <<>>
    PROVE  /\ OwnQueues(Rest(s))
           /\ Head(alerts[s]).handle \in Handle
           /\ Head(alerts[s]).handle.hops = s
<1>1. alerts[s] \in Seq(AlertType) /\ alerts[s] \in Seq(OwnAlert(s))
  BY DEF OwnQueues
<1>2. Tail(alerts[s]) \in Seq(AlertType) /\ Tail(alerts[s]) \in Seq(OwnAlert(s))
  BY <1>1
<1>3. Head(alerts[s]) \in OwnAlert(s)
  BY <1>1
<1>. QED
  BY <1>2, <1>3 DEF OwnQueues, Rest, OwnAlert, AlertType

\* What a coroutine may remember: the invariant's clause about one coroutine.
CoOk(r) == /\ r \in CoType
           /\ r.at # "idle" => r.dl \in Download
           /\ r.at \in Removals => r.victim \in Download
           /\ r.at \in {"adding", "saving", "rehoming"} => r.hops \in Hops

\* A step of one coroutine that leaves it well formed.
LEMMA CoStep ==
    ASSUME CoInv, NEW c \in Coro, NEW r, CoOk(r), co' = [co EXCEPT ![c] = r]
    PROVE  CoInv'
BY DEF CoInv, CoOk

\* session.remove_torrent
LEMMA RemoveFromSessionInv ==
    ASSUME SessionInv, NEW h \in Handle, RemoveFromSession(h)
    PROVE  SessionInv'
<1>1. h.hops \in Hops
  BY DEF Handle
<1>2. OwnQueues(alerts')
  BY AppendOwn DEF RemoveFromSession, SessionInv
<1>3. /\ torrent' \in [Hops -> Handle \cup {NoHandle}]
      /\ \A s \in Hops : torrent'[s] # NoHandle => torrent'[s].hops = s
  BY <1>1 DEF RemoveFromSession, SessionInv
<1>. QED
  BY <1>2, <1>3 DEF SessionInv, OwnQueues

\* The synchronous part of remove_download.
LEMMA BeginRemovalInv ==
    ASSUME ObjInv, SessionInv, NEW v \in Download, BeginRemoval(v)
    PROVE  ObjInv' /\ SessionInv'
<1>1. obj[v] \in ObjType
  BY DEF ObjInv
<1>2. Closed(obj[v]) \in ObjType /\ Closed(obj[v]).handle = obj[v].handle
      /\ Closed(obj[v]).hops = obj[v].hops
  BY <1>1 DEF Closed, ObjType, FutureState
<1>3. ObjInv'
  BY <1>2 DEF BeginRemoval, ObjInv, HandleInOwnSession
<1>4. CASE Valid(obj[v].handle)
  <2>1. obj[v].handle \in Handle
    BY <1>1, <1>4 DEF Valid, ObjType
  <2>. QED
    BY <1>3, <1>4, <2>1, RemoveFromSessionInv DEF BeginRemoval
<1>5. CASE ~Valid(obj[v].handle)
  BY <1>3, <1>5 DEF BeginRemoval, SessionInv
<1>. QED
  BY <1>4, <1>5

\* on_add_torrent_alert with a handle of the Download's own session.
LEMMA AddedType ==
    ASSUME NEW o \in ObjType, NEW h \in Handle,
           o.handle # NoHandle => o.handle.hops = o.hops, h.hops = o.hops
    PROVE  /\ Added(o, h) \in ObjType
           /\ Added(o, h).handle # NoHandle => Added(o, h).handle.hops = Added(o, h).hops
BY DEF Added, ObjType, FutureState, Handle

\* Download.checkpoint
LEMMA CheckpointedOwn ==
    ASSUME NEW q, OwnQueues(q), NEW h \in Handle, NEW d \in Download,
           NEW r \in Checkpointed(q, d, h)
    PROVE  OwnQueues(r)
<1>1. OwnQueues([q EXCEPT ![h.hops] = Append(@, Alert("saved", h))])
  BY AppendOwn
<1>2. r = q \/ r = [q EXCEPT ![h.hops] = Append(@, Alert("saved", h))]
  BY DEF Checkpointed
<1>. QED
  BY <1>1, <1>2

\* start_download up to start_handle's await.
LEMMA CreateDownloadInv ==
    ASSUME IInv, NEW c \in Coro, NEW call \in AllCalls, NEW hidden \in BOOLEAN, NEW hops \in Hops,
           NEW dls \in Download \cup {NoDownload}, NEW file \in Hops \cup {NoHops},
           CreateDownload(c, call, hidden, hops, dls, file)
    PROVE  /\ ObjInv' /\ CoInv'
           /\ downloads' \in Download \cup {NoDownload}
           /\ conf' \in Hops \cup {NoHops}
           /\ running' \in Coro \cup {NoCoro}
           /\ session' \in [Hops -> {"absent", "creating", "ready"}]
<1>. PICK d \in Download :
        /\ obj' = [obj EXCEPT ![d] = NewObj(hidden, hops)]
        /\ conf' = IF ~hidden /\ file = NoHops THEN hops ELSE file
        /\ downloads' = IF Requested THEN dls ELSE d
        /\ co' = [co EXCEPT ![c] = [IdleCo EXCEPT !.call = call, !.at = "starting", !.dl = d]]
        /\ session' = [session EXCEPT ![hops] = IF @ = "absent" THEN "creating" ELSE @]
        /\ running' = IF session[hops] = "ready" THEN c ELSE NoCoro
  BY DEF CreateDownload
<1>1. NewObj(hidden, hops) \in ObjType /\ NewObj(hidden, hops).handle = NoHandle
  BY DEF NewObj, ObjType, FutureState
<1>2. ObjInv'
  BY <1>1 DEF IInv, ObjInv, HandleInOwnSession
<1>3. CoInv'
  <2>. DEFINE new == [IdleCo EXCEPT !.call = call, !.at = "starting", !.dl = d]
  <2>1. new \in CoType /\ new.at = "starting" /\ new.dl = d
    BY DEF IdleCo, CoType, Places
  <2>. QED
    BY <2>1 DEF IInv, CoInv, Removals
<1>. QED
  BY <1>2, <1>3 DEF IInv, TableInv, OtherInv

\* The end of start_handle, for a coroutine that has its Download.
LEMMA AddTorrentInv ==
    ASSUME IInv, NEW c \in Coro, co[c].at \in {"starting", "evicting"}, AddTorrent(c)
    PROVE  /\ ObjInv' /\ CoInv' /\ SessionInv'
           /\ adding' \subseteq Hops
           /\ requests' \in [download : Download \cup {NoDownload}, pending : Int]
           /\ running' \in Coro \cup {NoCoro}
<1>. DEFINE d == co[c].dl
            s == obj[d].hops
            h == torrent[s]
<1>1. d \in Download /\ co[c] \in CoType
  BY DEF IInv, CoInv
<1>2. obj[d] \in ObjType /\ s \in Hops
  BY <1>1 DEF IInv, ObjInv, ObjType
<1>3. ASSUME h # NoHandle
      PROVE  ObjInv' /\ SessionInv' /\ adding' \subseteq Hops
  <2>1. h \in Handle /\ h.hops = s
    BY <1>2, <1>3 DEF IInv, SessionInv
  <2>2. Added(obj[d], h) \in ObjType
        /\ (Added(obj[d], h).handle # NoHandle => Added(obj[d], h).handle.hops = Added(obj[d], h).hops)
    <3>1. obj[d].handle # NoHandle => obj[d].handle.hops = obj[d].hops
      BY <1>1 DEF IInv, ObjInv, HandleInOwnSession
    <3>. QED
      BY <1>2, <2>1, <3>1, AddedType
  <2>3. obj' = [obj EXCEPT ![d] = Added(@, h)] /\ adding' = adding /\ torrent' = torrent
    BY <1>3 DEF AddTorrent
  <2>4. ObjInv'
    BY <1>1, <2>2, <2>3 DEF IInv, ObjInv, HandleInOwnSession
  <2>5. OwnQueues(alerts')
    <3>1. alerts' = alerts \/ alerts' \in Checkpointed(alerts, d, h)
      BY <1>3 DEF AddTorrent
    <3>2. OwnQueues(alerts)
      BY DEF IInv, SessionInv
    <3>. QED
      BY <1>1, <2>1, <3>1, <3>2, CheckpointedOwn
  <2>. QED
    BY <2>3, <2>4, <2>5 DEF IInv, SessionInv, OtherInv, OwnQueues
<1>4. ASSUME h = NoHandle
      PROVE  ObjInv' /\ SessionInv' /\ adding' \subseteq Hops
  <2>1. obj' = obj /\ adding' = adding \cup {s} /\ torrent' = torrent /\ alerts' = alerts
    BY <1>4 DEF AddTorrent
  <2>. QED
    BY <1>2, <2>1 DEF IInv, ObjInv, HandleInOwnSession, SessionInv, OtherInv, OwnQueues
<1>5. /\ CoInv'
      /\ requests' \in [download : Download \cup {NoDownload}, pending : Int]
      /\ running' \in Coro \cup {NoCoro}
  <2>1. CASE co[c].call \in {"lookup", "health"}
    <3>1. /\ requests' = [download |-> d, pending |-> 1]
          /\ co' = [co EXCEPT ![c] = [@ EXCEPT !.at = "waiting", !.victim = NoDownload]]
          /\ running' = IF obj[d].metainfo = "pending" THEN NoCoro ELSE c
      BY <2>1 DEF AddTorrent
    <3>2. CoOk([co[c] EXCEPT !.at = "waiting", !.victim = NoDownload])
      BY <1>1 DEF CoOk, CoType, Places, Removals
    <3>3. co' = [co EXCEPT ![c] = [co[c] EXCEPT !.at = "waiting", !.victim = NoDownload]]
      BY <1>1, <3>1 DEF IInv, CoInv
    <3>4. CoInv'
      BY <3>2, <3>3, CoStep DEF IInv
    <3>. QED
      BY <1>1, <3>1, <3>4
  <2>2. CASE co[c].call \notin {"lookup", "health"}
    <3>1. co' = [co EXCEPT ![c] = IdleCo] /\ running' = NoCoro /\ requests' = requests
      BY <2>2 DEF AddTorrent
    <3>. QED
      BY <3>1 DEF IInv, CoInv, CoType, IdleCo, Places, Removals, TableInv
  <2>. QED
    BY <2>1, <2>2
<1>. QED
  BY <1>3, <1>4, <1>5

\* A coroutine that returns to its caller.
LEMMA ReturnInv ==
    ASSUME CoInv, NEW c \in Coro, co' = [co EXCEPT ![c] = IdleCo]
    PROVE  CoInv'
BY DEF CoInv, CoType, IdleCo, Places, Removals

\* get_metainfo's finally clause.
LEMMA FinallyInv ==
    ASSUME IInv, NEW c \in Coro, co[c].at \in {"waiting", "sampling"}, Finally(c)
    PROVE  /\ ObjInv' /\ CoInv' /\ SessionInv'
           /\ requests' \in [download : Download \cup {NoDownload}, pending : Int]
<1>1. requests' \in [download : Download \cup {NoDownload}, pending : Int]
  BY DEF Finally, IInv, TableInv
<1>2. co[c].dl \in Download /\ co[c] \in CoType
  BY DEF IInv, CoInv
<1>3. CASE LastToLeave
  <2>1. ObjInv' /\ SessionInv'
    BY <1>2, <1>3, BeginRemovalInv DEF Finally, IInv
  <2>2. CoOk([co[c] EXCEPT !.at = "finishing", !.victim = co[c].dl])
    BY <1>2 DEF CoOk, CoType, Places, Removals
  <2>3. co' = [co EXCEPT ![c] = [co[c] EXCEPT !.at = "finishing", !.victim = co[c].dl]]
    BY <1>2, <1>3 DEF Finally, IInv, CoInv
  <2>4. CoInv'
    BY <2>2, <2>3, CoStep DEF IInv
  <2>. QED
    BY <1>1, <2>1, <2>4
<1>4. CASE ~LastToLeave
  <2>1. co' = [co EXCEPT ![c] = IdleCo] /\ obj' = obj /\ torrent' = torrent /\ alerts' = alerts
    BY <1>4 DEF Finally
  <2>2. CoInv'
    BY <2>1, ReturnInv DEF IInv
  <2>. QED
    BY <1>1, <2>1, <2>2 DEF IInv, ObjInv, HandleInOwnSession, SessionInv, OwnQueues
<1>. QED
  BY <1>3, <1>4

\* update_hops asks libtorrent for the resume data, or gives up.
LEMMA SaveResumeDataInv ==
    ASSUME IInv, NEW c \in Coro, NEW d \in Download, NEW state, CoOk(state),
           state.dl \in Download, state.hops \in Hops, SaveResumeData(c, d, state),
           UNCHANGED torrent
    PROVE  CoInv' /\ SessionInv'
<1>1. CASE Valid(obj[d].handle)
  <2>1. CoOk([state EXCEPT !.at = "saving"])
    BY DEF CoOk, CoType, Places, Removals
  <2>2. CoInv'
    BY <1>1, <2>1, CoStep DEF SaveResumeData, IInv
  <2>3. obj[d].handle \in Handle /\ obj[d].handle.hops = obj[d].hops
    BY <1>1 DEF Valid, IInv, ObjInv, ObjType, HandleInOwnSession
  <2>4. alerts' = [alerts EXCEPT ![obj[d].handle.hops] = Append(@, Alert("saved", obj[d].handle))]
    BY <1>1, <2>3 DEF SaveResumeData
  <2>5. OwnQueues(alerts')
    BY <2>3, <2>4, AppendOwn DEF IInv, SessionInv
  <2>. QED
    BY <2>2, <2>5 DEF IInv, SessionInv, OwnQueues
<1>2. CASE ~Valid(obj[d].handle)
  <2>1. CoInv'
    BY <1>2, ReturnInv DEF SaveResumeData, IInv
  <2>. QED
    BY <1>2, <2>1 DEF SaveResumeData, IInv, SessionInv, OwnQueues
<1>. QED
  BY <1>1, <1>2
-----------------------------------------------------------------------------
\* The process starts in the invariant.
THEOREM InitInv == Init => IInv
<1>. SUFFICES ASSUME Init PROVE IInv
  OBVIOUS
<1>1. TableInv
  <2>1. requests \in [download : Download \cup {NoDownload}, pending : Int]
    BY DEF Init, NoRequest
  <2>2. conf \in Hops \cup {NoHops}
    BY DEF Init
  <2>3. loading \in BOOLEAN
    BY DEF Init
  <2>. QED
    BY <2>1, <2>2, <2>3 DEF Init, TableInv
<1>2. ObjInv
  BY DEF Init, ObjInv, ObjType, HandleInOwnSession, NewObj, FutureState
<1>3. CoInv
  BY DEF Init, CoInv, CoType, IdleCo, Places, Removals
<1>4. SessionInv
  BY DEF Init, SessionInv, OwnQueues
<1>5. OtherInv
  BY DEF Init, OtherInv
<1>. QED
  BY <1>1, <1>2, <1>3, <1>4, <1>5 DEF IInv

\* Every step of get_metainfo stays in the invariant.
LEMMA LookupInv ==
    ASSUME IInv, NEW c \in Coro, Lookup(c)
    PROVE  IInv'
<1>. USE DEF table, disk, external
<1>1. CASE LookupJoin(c)
  <2>. PICK call \in Calls \cap {"lookup", "health"} :
         LET d == IF Requested THEN requests.download ELSE downloads
         IN  /\ d # NoDownload
             /\ requests' = Joined
             /\ co' = [co EXCEPT ![c] = [IdleCo EXCEPT !.call = call, !.at = "waiting", !.dl = d]]
             /\ running' = IF obj[d].metainfo = "pending" THEN NoCoro ELSE c
             /\ UNCHANGED <<downloads, cached, obj, alerts, crashes, disk, external>>
    BY <1>1 DEF LookupJoin
  <2>. DEFINE d == IF Requested THEN requests.download ELSE downloads
  <2>1. d \in Download
    BY DEF IInv, TableInv
  <2>2. CoInv'
    <3>. DEFINE new == [IdleCo EXCEPT !.call = call, !.at = "waiting", !.dl = d]
    <3>1. new \in CoType /\ new.at = "waiting" /\ new.dl = d
      BY <2>1 DEF IdleCo, CoType, Places, AllCalls
    <3>. QED
      BY <2>1, <3>1 DEF IInv, CoInv, Removals
  <2>3. TableInv'
    BY DEF IInv, TableInv, Joined
  <2>. QED
    BY <2>2, <2>3 DEF IInv, ObjInv, HandleInOwnSession, SessionInv, OwnQueues, OtherInv
<1>2. CASE LookupStart(c)
  <2>. PICK call \in Calls \cap {"lookup", "health"}, hops \in Hops :
         /\ CreateDownload(c, call, TRUE, hops, downloads, conf)
         /\ UNCHANGED <<requests, cached, loading, torrent, known, adding, alerts, dropping, crashes>>
    BY <1>2 DEF LookupStart
  <2>1. call \in AllCalls /\ downloads \in Download \cup {NoDownload} /\ conf \in Hops \cup {NoHops}
    BY DEF IInv, TableInv
  <2>2. /\ ObjInv' /\ CoInv'
        /\ downloads' \in Download \cup {NoDownload}
        /\ conf' \in Hops \cup {NoHops}
        /\ running' \in Coro \cup {NoCoro}
        /\ session' \in [Hops -> {"absent", "creating", "ready"}]
    BY <2>1, CreateDownloadInv
  <2>. QED
    BY <2>2 DEF IInv, TableInv, SessionInv, OwnQueues, OtherInv
<1>3. CASE LookupAnswered(c)
  <2>1. CASE co[c].call = "health"
    <3>1. CoInv'
      BY <1>3, <2>1 DEF LookupAnswered, IInv, CoInv, CoType, Places, Removals
    <3>. QED
      BY <1>3, <2>1, <3>1 DEF LookupAnswered, IInv, TableInv, ObjInv, HandleInOwnSession,
                              SessionInv, OwnQueues, OtherInv
  <2>2. CASE co[c].call # "health"
    BY <1>3, <2>2, FinallyInv DEF LookupAnswered, IInv, TableInv, OtherInv
  <2>. QED
    BY <2>1, <2>2
<1>4. CASE LookupSampled(c)
  BY <1>4, FinallyInv DEF LookupSampled, IInv, TableInv, OtherInv
<1>5. CASE LookupFailed(c)
  BY <1>5, FinallyInv DEF LookupFailed, IInv, TableInv, OtherInv
<1>6. CASE LookupRemoved(c)
  <2>1. CoInv'
    BY <1>6, ReturnInv DEF LookupRemoved, IInv
  <2>2. TableInv'
    BY <1>6 DEF LookupRemoved, DownloadsWithout, ConfWithout, NoRequest, IInv, TableInv
  <2>. QED
    BY <1>6, <2>1, <2>2 DEF LookupRemoved, IInv, ObjInv, HandleInOwnSession, SessionInv,
                            OwnQueues, OtherInv
<1>. QED
  BY <1>1, <1>2, <1>3, <1>4, <1>5, <1>6 DEF Lookup

\* Every step of start_download, start_handle and load_checkpoint does.
LEMMA StartInv ==
    ASSUME IInv, NEW c \in Coro, Start(c)
    PROVE  IInv'
<1>. USE DEF table, disk, external
<1>1. CASE UserStart(c)
  <2>. PICK hops \in Hops :
         /\ CreateDownload(c, "start", FALSE, hops, downloads, conf)
         /\ UNCHANGED <<requests, cached, loading, torrent, known, adding, alerts, dropping, crashes>>
    BY <1>1 DEF UserStart
  <2>. QED
    BY CreateDownloadInv DEF IInv, TableInv, SessionInv, OwnQueues, OtherInv, AllCalls
<1>2. CASE LoadCheckpoint(c)
  <2>1. CASE LoadSkips
    BY <1>2, <2>1 DEF LoadCheckpoint, IInv, TableInv, ObjInv, HandleInOwnSession, CoInv,
                      SessionInv, OwnQueues, OtherInv
  <2>2. CASE ~LoadSkips
    <3>1. conf \in Hops
      BY <2>2 DEF LoadSkips, IInv, TableInv
    <3>. QED
      BY <1>2, <2>2, <3>1, CreateDownloadInv DEF LoadCheckpoint, IInv, TableInv, SessionInv,
                                                 OwnQueues, OtherInv, AllCalls
  <2>. QED
    BY <2>1, <2>2
<1>3. CASE StartHandle(c)
  <2>1. CASE Requested /\ requests.download # co[c].dl
    <3>1. requests.download \in Download /\ co[c].dl \in Download /\ co[c] \in CoType
      BY <1>3, <2>1 DEF StartHandle, Requested, IInv, TableInv, CoInv
    <3>2. ObjInv' /\ SessionInv'
      BY <1>3, <2>1, <3>1, BeginRemovalInv DEF StartHandle, IInv
    <3>3. CoOk([co[c] EXCEPT !.at = "evicting", !.victim = requests.download])
      BY <3>1 DEF CoOk, CoType, Places, Removals
    <3>4. co' = [co EXCEPT ![c] = [co[c] EXCEPT !.at = "evicting", !.victim = requests.download]]
      BY <1>3, <2>1 DEF StartHandle, IInv, CoInv
    <3>5. CoInv'
      BY <3>3, <3>4, CoStep DEF IInv
    <3>. QED
      BY <1>3, <2>1, <3>2, <3>5 DEF StartHandle, NoRequest, IInv, TableInv, OtherInv
  <2>2. CASE ~(Requested /\ requests.download # co[c].dl)
    <3>1. AddTorrent(c) /\ co[c].at = "starting"
      BY <1>3, <2>2 DEF StartHandle
    <3>. QED
      BY <1>3, <3>1, AddTorrentInv DEF StartHandle, IInv, TableInv, OtherInv
  <2>. QED
    BY <2>1, <2>2
<1>4. CASE Evicted(c)
  <2>1. co[c].dl \in Download
    BY <1>4 DEF Evicted, IInv, CoInv
  <2>. QED
    BY <1>4, <2>1, AddTorrentInv DEF Evicted, IInv, TableInv, OtherInv
<1>. QED
  BY <1>1, <1>2, <1>3, <1>4 DEF Start

\* Every step of remove_download and update_hops does.
LEMMA ChangeInv ==
    ASSUME IInv, NEW c \in Coro, Change(c)
    PROVE  IInv'
<1>. USE DEF table, disk, external
<1>1. CASE UserRemove(c)
  <2>1. downloads \in Download
    BY <1>1 DEF UserRemove, IInv, TableInv
  <2>2. ObjInv' /\ SessionInv'
    BY <1>1, <2>1, BeginRemovalInv DEF UserRemove, IInv
  <2>. DEFINE new == [IdleCo EXCEPT !.call = "remove", !.at = "removing",
                                    !.dl = downloads, !.victim = downloads]
  <2>3. CoOk(new)
    BY <2>1 DEF CoOk, CoType, IdleCo, Places, Removals, AllCalls
  <2>4. CoInv'
    BY <1>1, <2>3, CoStep DEF UserRemove, IInv
  <2>. QED
    BY <1>1, <2>2, <2>4 DEF UserRemove, IInv, TableInv, OtherInv
<1>2. CASE UserRemoved(c)
  <2>1. CoInv'
    BY <1>2, ReturnInv DEF UserRemoved, IInv
  <2>2. TableInv'
    BY <1>2 DEF UserRemoved, DownloadsWithout, ConfWithout, IInv, TableInv
  <2>. QED
    BY <1>2, <2>1, <2>2 DEF UserRemoved, IInv, ObjInv, HandleInOwnSession, SessionInv,
                            OwnQueues, OtherInv
<1>3. CASE UpdateHops(c)
  <2>. PICK hops \in Hops :
         LET state == [IdleCo EXCEPT !.call = "hops", !.at = "adding", !.dl = downloads, !.hops = hops]
         IN  /\ downloads # NoDownload
             /\ \/ co' = [co EXCEPT ![c] = state] /\ UNCHANGED alerts
                \/ SaveResumeData(c, downloads, state)
             /\ UNCHANGED <<table, obj, running, crashes, disk, external>>
    BY <1>3 DEF UpdateHops
  <2>. DEFINE state == [IdleCo EXCEPT !.call = "hops", !.at = "adding", !.dl = downloads, !.hops = hops]
  <2>1. downloads \in Download
    BY DEF IInv, TableInv
  <2>2. CoOk(state) /\ state.hops \in Hops /\ state.dl \in Download
    BY <2>1 DEF CoOk, CoType, IdleCo, Places, Removals, AllCalls
  <2>3. CoInv' /\ SessionInv'
    <3>1. CASE co' = [co EXCEPT ![c] = state] /\ UNCHANGED alerts
      <4>1. CoInv'
        BY <2>2, <3>1, CoStep DEF IInv
      <4>. QED
        BY <3>1, <4>1 DEF IInv, SessionInv, OwnQueues
    <3>2. CASE SaveResumeData(c, downloads, state)
      BY <2>1, <2>2, <3>2, SaveResumeDataInv
    <3>. QED
      BY <3>1, <3>2
  <2>. QED
    BY <2>3 DEF IInv, TableInv, ObjInv, HandleInOwnSession, OtherInv
<1>4. CASE HopsAdded(c)
  <2>1. co[c].dl \in Download /\ co[c].hops \in Hops /\ CoOk(co[c])
    BY <1>4 DEF HopsAdded, IInv, CoInv, CoOk
  <2>2. CoInv' /\ SessionInv'
    <3>1. CASE obj[co[c].dl].added = "done"
      BY <1>4, <2>1, <3>1, SaveResumeDataInv DEF HopsAdded
    <3>2. CASE obj[co[c].dl].added # "done"
      <4>1. CoInv'
        BY <1>4, <3>2, ReturnInv DEF HopsAdded, IInv
      <4>. QED
        BY <1>4, <3>2, <4>1 DEF HopsAdded, IInv, SessionInv, OwnQueues
    <3>. QED
      BY <3>1, <3>2
  <2>. QED
    BY <1>4, <2>2 DEF HopsAdded, IInv, TableInv, ObjInv, HandleInOwnSession, OtherInv
<1>5. CASE HopsSaved(c)
  <2>1. co[c].dl \in Download /\ CoOk(co[c]) /\ co[c].hops \in Hops
    BY <1>5 DEF HopsSaved, IInv, CoInv, CoOk
  <2>2. ObjInv' /\ SessionInv'
    BY <1>5, <2>1, BeginRemovalInv DEF HopsSaved, IInv
  <2>3. CoOk([co[c] EXCEPT !.at = "rehoming", !.victim = co[c].dl])
    BY <2>1 DEF CoOk, CoType, Places, Removals
  <2>4. co' = [co EXCEPT ![c] = [co[c] EXCEPT !.at = "rehoming", !.victim = co[c].dl]]
    BY <1>5 DEF HopsSaved, IInv, CoInv
  <2>5. CoInv'
    BY <2>3, <2>4, CoStep DEF IInv
  <2>. QED
    BY <1>5, <2>2, <2>5 DEF HopsSaved, IInv, TableInv, OtherInv
<1>6. CASE HopsRemoved(c)
  <2>. DEFINE dls  == DownloadsWithout(co[c].victim)
              file == ConfWithout(co[c].victim)
  <2>1. dls \in Download \cup {NoDownload} /\ file \in Hops \cup {NoHops} /\ co[c].hops \in Hops
    BY <1>6 DEF HopsRemoved, DownloadsWithout, ConfWithout, IInv, TableInv, CoInv
  <2>2. CASE dls # NoDownload /\ ~Requested
    <3>1. CoInv'
      BY <1>6, <2>2, ReturnInv DEF HopsRemoved, IInv
    <3>. QED
      BY <1>6, <2>1, <2>2, <3>1 DEF HopsRemoved, IInv, TableInv, ObjInv, HandleInOwnSession,
                                    SessionInv, OwnQueues, OtherInv
  <2>3. CASE ~(dls # NoDownload /\ ~Requested)
    <3>1. CreateDownload(c, "hops", FALSE, co[c].hops, dls, file)
      BY <1>6, <2>3 DEF HopsRemoved
    <3>2. /\ ObjInv' /\ CoInv'
          /\ downloads' \in Download \cup {NoDownload}
          /\ conf' \in Hops \cup {NoHops}
          /\ running' \in Coro \cup {NoCoro}
          /\ session' \in [Hops -> {"absent", "creating", "ready"}]
      BY <2>1, <3>1, CreateDownloadInv DEF AllCalls
    <3>. QED
      BY <1>6, <3>2 DEF HopsRemoved, IInv, TableInv, SessionInv, OwnQueues, OtherInv
  <2>. QED
    BY <2>2, <2>3
<1>. QED
  BY <1>1, <1>2, <1>3, <1>4, <1>5, <1>6 DEF Change

\* Delivering an alert to its Download does.
LEMMA AlertInv ==
    ASSUME IInv, NEW s \in Hops, OnAlert(s)
    PROVE  IInv'
<1>. USE DEF table, disk, external
<1>. DEFINE d == Receiver(s)
            h == Head(alerts[s]).handle
<1>1. alerts[s] # <<>>
  BY DEF OnAlert, OnAddTorrent, OnTorrentRemoved, OnMetadataReceived, OnSaveResumeData, Pending
<1>2. OwnQueues(Rest(s)) /\ h \in Handle /\ h.hops = s
  BY <1>1, PopOwn DEF IInv, SessionInv
<1>3. d # NoDownload => d \in Download /\ obj[d] \in ObjType /\ obj[d].hops = s
  BY DEF Receiver, IInv, TableInv, ObjInv
<1>4. CASE OnAddTorrent(s)
  <2>1. CASE d # NoDownload
    <3>1. Added(obj[d], h) \in ObjType
          /\ (Added(obj[d], h).handle # NoHandle => Added(obj[d], h).handle.hops = Added(obj[d], h).hops)
      <4>1. obj[d].handle # NoHandle => obj[d].handle.hops = obj[d].hops
        BY <1>3, <2>1 DEF IInv, ObjInv, HandleInOwnSession
      <4>. QED
        BY <1>2, <1>3, <2>1, <4>1, AddedType
    <3>2. ObjInv'
      BY <1>3, <1>4, <2>1, <3>1 DEF OnAddTorrent, IInv, ObjInv, HandleInOwnSession
    <3>3. alerts' = Rest(s) \/ alerts' \in Checkpointed(Rest(s), d, h)
      BY <1>4, <2>1 DEF OnAddTorrent
    <3>4. OwnQueues(alerts')
      BY <1>2, <1>3, <2>1, <3>3, CheckpointedOwn
    <3>. QED
      BY <1>4, <2>1, <3>2, <3>4 DEF OnAddTorrent, IInv, TableInv, CoInv, SessionInv, OwnQueues, OtherInv
  <2>2. CASE d = NoDownload
    BY <1>2, <1>4, <2>2 DEF OnAddTorrent, IInv, TableInv, ObjInv, HandleInOwnSession, CoInv,
                            SessionInv, OwnQueues, OtherInv
  <2>. QED
    BY <2>1, <2>2
<1>5. CASE OnTorrentRemoved(s)
  <2>1. ObjInv'
    BY <1>3, <1>5 DEF OnTorrentRemoved, IInv, ObjInv, ObjType, HandleInOwnSession
  <2>2. SessionInv'
    BY <1>2, <1>5 DEF OnTorrentRemoved, IInv, SessionInv, OwnQueues
  <2>. QED
    BY <1>5, <2>1, <2>2 DEF OnTorrentRemoved, IInv, TableInv, CoInv, OtherInv
<1>6. CASE OnMetadataReceived(s)
  <2>1. ObjInv'
    BY <1>3, <1>6 DEF OnMetadataReceived, IInv, ObjInv, ObjType, FutureState, HandleInOwnSession
  <2>2. OwnQueues(alerts')
    <3>1. CASE d # NoDownload /\ ~obj[d].closed /\ Valid(obj[d].handle)
      <4>1. obj[d].handle \in Handle
        BY <1>3, <3>1 DEF Valid, ObjType
      <4>2. alerts' \in Checkpointed(Rest(s), d, obj[d].handle)
        BY <1>6, <3>1 DEF OnMetadataReceived
      <4>. QED
        BY <1>2, <1>3, <3>1, <4>1, <4>2, CheckpointedOwn
    <3>2. CASE ~(d # NoDownload /\ ~obj[d].closed /\ Valid(obj[d].handle))
      <4>1. alerts' = Rest(s)
        BY <1>6, <3>2 DEF OnMetadataReceived
      <4>. QED
        BY <1>2, <4>1
    <3>. QED
      BY <3>1, <3>2
  <2>. QED
    BY <1>6, <2>1, <2>2 DEF OnMetadataReceived, IInv, TableInv, CoInv, SessionInv, OwnQueues, OtherInv
<1>7. CASE OnSaveResumeData(s)
  <2>1. conf' \in Hops \cup {NoHops}
    BY <1>3, <1>7 DEF OnSaveResumeData, ObjType, IInv, TableInv
  <2>. QED
    BY <1>2, <1>7, <2>1 DEF OnSaveResumeData, IInv, TableInv, ObjInv, HandleInOwnSession, CoInv,
                            SessionInv, OwnQueues, OtherInv
<1>. QED
  BY <1>4, <1>5, <1>6, <1>7 DEF OnAlert

\* What libtorrent does on its own threads does.
LEMMA LibtorrentInv ==
    ASSUME IInv, NEW s \in Hops, Libtorrent(s)
    PROVE  IInv'
<1>. USE DEF table, disk, external
<1>1. CASE SessionReady(s)
  BY <1>1 DEF SessionReady, IInv, TableInv, ObjInv, HandleInOwnSession, CoInv, SessionInv,
              OwnQueues, OtherInv
<1>2. CASE AsyncAddTorrent(s)
  <2>. PICK h \in Handle :
         /\ h.hops = s
         /\ torrent' = [torrent EXCEPT ![s] = h]
         /\ known' = [known EXCEPT ![s] = IF torrent[s] = NoHandle THEN FALSE ELSE @]
         /\ alerts' = [alerts EXCEPT ![s] = Append(@, Alert("added", h))]
    BY <1>2 DEF AsyncAddTorrent
  <2>1. OwnQueues(alerts')
    BY AppendOwn DEF IInv, SessionInv
  <2>2. SessionInv'
    BY <2>1 DEF IInv, SessionInv, OwnQueues
  <2>. QED
    BY <1>2, <2>2 DEF AsyncAddTorrent, IInv, TableInv, ObjInv, HandleInOwnSession, CoInv, OtherInv
<1>3. CASE MetadataArrives(s)
  <2>1. torrent[s] \in Handle /\ torrent[s].hops = s
    BY <1>3 DEF MetadataArrives, IInv, SessionInv
  <2>2. alerts' = [alerts EXCEPT ![torrent[s].hops] = Append(@, Alert("metadata", torrent[s]))]
    BY <1>3, <2>1 DEF MetadataArrives
  <2>3. OwnQueues(alerts')
    BY <2>1, <2>2, AppendOwn DEF IInv, SessionInv
  <2>. QED
    BY <1>3, <2>3 DEF MetadataArrives, IInv, TableInv, ObjInv, HandleInOwnSession, CoInv,
                      SessionInv, OwnQueues, OtherInv
<1>. QED
  BY <1>1, <1>2, <1>3 DEF Libtorrent

\* So does a crash.
LEMMA CrashInv ==
    ASSUME IInv, Crash
    PROVE  IInv'
<1>1. TableInv'
  <2>1. requests' \in [download : Download \cup {NoDownload}, pending : Int]
    BY DEF Crash, NoRequest
  <2>2. loading' \in BOOLEAN
    BY DEF Crash
  <2>. QED
    BY <2>1, <2>2 DEF Crash, IInv, TableInv
<1>2. ObjInv'
  BY DEF Crash, ObjInv, ObjType, HandleInOwnSession, NewObj, FutureState
<1>3. CoInv'
  BY DEF Crash, CoInv, CoType, IdleCo, Places, Removals
<1>4. SessionInv'
  BY DEF Crash, SessionInv, OwnQueues
<1>5. OtherInv'
  BY DEF Crash, IInv, OtherInv
<1>. QED
  BY <1>1, <1>2, <1>3, <1>4, <1>5 DEF IInv
-----------------------------------------------------------------------------
\* Every step of the process, of libtorrent and of the clients stays in the invariant.
THEOREM StepInv == IInv /\ [Next]_vars => IInv'
<1>. SUFFICES ASSUME IInv, [Next]_vars PROVE IInv'
  OBVIOUS
<1>1. ASSUME NEW c \in Coro, Lookup(c) \/ Start(c) \/ Change(c) PROVE IInv'
  BY <1>1, LookupInv, StartInv, ChangeInv
<1>2. ASSUME NEW s \in Hops, Libtorrent(s) \/ OnAlert(s) PROVE IInv'
  BY <1>2, LibtorrentInv, AlertInv
<1>3. ASSUME NEW h \in Handle, DropTorrent(h) PROVE IInv'
  <2>. USE DEF table, disk, external
  <2>1. SessionInv'
    BY <1>3, RemoveFromSessionInv DEF DropTorrent, IInv, SessionInv, OwnQueues
  <2>. QED
    BY <1>3, <2>1 DEF DropTorrent, IInv, TableInv, ObjInv, HandleInOwnSession, CoInv, OtherInv
<1>4. CASE CacheExpires
  BY <1>4 DEF CacheExpires, table, disk, external, IInv, TableInv, ObjInv, HandleInOwnSession,
              CoInv, SessionInv, OwnQueues, OtherInv
<1>5. CASE Crash
  BY <1>5, CrashInv
<1>6. CASE UNCHANGED vars
  BY <1>6 DEF vars, IInv, TableInv, ObjInv, HandleInOwnSession, CoInv, SessionInv, OwnQueues, OtherInv
<1>. QED
  BY <1>1, <1>2, <1>3, <1>4, <1>5, <1>6 DEF Next

\* IInv is an inductive invariant of the DownloadManager.
THEOREM Invariance == Spec => []IInv
BY InitInv, StepInv, PTL DEF Spec

\* Whatever calls, alerts, session starts and crashes interleave, every table,
\* Download and suspended coroutine keeps its shape.
THEOREM TypeCorrect == Spec => []TypeOK
<1>1. IInv => TypeOK
  BY DEF IInv, TableInv, ObjInv, CoInv, SessionInv, OwnQueues, OtherInv, TypeOK, ObjType, CoType, AlertType
<1>. QED
  BY <1>1, Invariance, PTL

\* A Download never holds a handle of a session with another hop count, however
\* removals, restarts with new hops and late alerts of its predecessors interleave.
THEOREM OwnSession == Spec => []HandleInOwnSession
<1>1. IInv => HandleInOwnSession
  BY DEF IInv, ObjInv
<1>. QED
  BY <1>1, Invariance, PTL
-----------------------------------------------------------------------------
(***************************************************************************)
(* Without lookups (with them TLC refutes both properties): one Download   *)
(* is in use, the listed one, and its checkpoint has its hop count.        *)
(***************************************************************************)
NoLookups == Calls \cap {"lookup", "health"} = {}

InUse(d) == ~Fresh(d) /\ ~obj[d].closed

OneInv ==
    /\ ~Requested
    /\ \A c \in Coro : /\ co[c].call \notin {"lookup", "health"}
                       /\ co[c].at \notin {"waiting", "sampling", "evicting", "finishing"}
                       /\ co[c].at \in Removals => obj[co[c].victim].closed
    /\ \A d \in Download : InUse(d) => downloads = d

\* A Download is only closed, and only by a removal; a coroutine refers to no other than before.
LEMMA OneKept ==
    ASSUME OneInv, UNCHANGED <<requests, downloads>>,
           \A d \in Download : obj[d].closed => obj'[d].closed,
           \A c \in Coro :
              \/ co'[c] = co[c]
              \/ co'[c] = IdleCo
              \/ /\ co'[c].call \notin {"lookup", "health"}
                 /\ co'[c].at \notin {"waiting", "sampling", "evicting", "finishing"}
                 /\ {co'[c].dl, co'[c].victim} \subseteq {NoDownload, co[c].dl, co[c].victim, downloads}
                 /\ co'[c].at \in Removals => obj'[co'[c].victim].closed
           , CoInv
    PROVE  OneInv'
<1>1. ASSUME NEW d \in Download, InUse(d)' PROVE downloads' = d
  <2>1. ~Fresh(d) /\ ~obj[d].closed
    BY <1>1 DEF InUse, Fresh, IdleCo
  <2>. QED
    BY <2>1 DEF OneInv, InUse
<1>2. ASSUME NEW c \in Coro
      PROVE  /\ co'[c].call \notin {"lookup", "health"}
             /\ co'[c].at \notin {"waiting", "sampling", "evicting", "finishing"}
             /\ co'[c].at \in Removals => obj'[co'[c].victim].closed
  BY <1>2 DEF OneInv, IdleCo, Removals, CoInv
<1>. QED
  BY <1>1, <1>2 DEF OneInv, Requested

\* A closed Download is unlisted.
LEMMA OneRemoved ==
    ASSUME OneInv, CoInv, UNCHANGED <<requests, obj>>, NEW c \in Coro, co[c].at \in Removals,
           downloads' = DownloadsWithout(co[c].victim), co' = [co EXCEPT ![c] = IdleCo]
    PROVE  OneInv'
<1>1. ASSUME NEW d \in Download, InUse(d)' PROVE downloads' = d
  <2>1. InUse(d)
    BY <1>1 DEF InUse, Fresh, IdleCo, DownloadsWithout, CoInv
  <2>2. d # co[c].victim
    BY <2>1 DEF OneInv, InUse
  <2>. QED
    BY <2>1, <2>2 DEF OneInv, DownloadsWithout
<1>2. ASSUME NEW b \in Coro
      PROVE  /\ co'[b].call \notin {"lookup", "health"}
             /\ co'[b].at \notin {"waiting", "sampling", "evicting", "finishing"}
             /\ co'[b].at \in Removals => obj'[co'[b].victim].closed
  BY <1>2 DEF OneInv, IdleCo, Removals, CoInv
<1>. QED
  BY <1>1, <1>2 DEF OneInv, Requested

\* A Download is created when none is in use, and is listed.
LEMMA OneCreated ==
    ASSUME OneInv, CoInv, ObjInv, \A d \in Download : ~InUse(d) , UNCHANGED requests, NEW c \in Coro,
           NEW call \in {"start", "load", "hops"}, NEW hops \in Hops, NEW dls, NEW file,
           CreateDownload(c, call, FALSE, hops, dls, file)
    PROVE  OneInv'
<1>. PICK d \in Download :
        /\ Fresh(d)
        /\ obj' = [obj EXCEPT ![d] = NewObj(FALSE, hops)]
        /\ downloads' = d
        /\ co' = [co EXCEPT ![c] = [IdleCo EXCEPT !.call = call, !.at = "starting", !.dl = d]]
  BY DEF CreateDownload, OneInv
<1>. DEFINE new == [IdleCo EXCEPT !.call = call, !.at = "starting", !.dl = d]
<1>1. co'[c] = new /\ new.call = call /\ new.at = "starting" /\ new.dl = d /\ new.victim = NoDownload
      /\ \A b \in Coro \ {c} : co'[b] = co[b]
  BY DEF CoInv, IdleCo
<1>2. \A e \in Download \ {d} : obj'[e] = obj[e]
  BY DEF ObjInv
<1>3. ASSUME NEW e \in Download, InUse(e)' PROVE downloads' = e
  <2>1. SUFFICES ASSUME e # d PROVE FALSE
    OBVIOUS
  <2>2. Fresh(e) \/ obj[e].closed
    BY DEF InUse
  <2>3. ~obj[e].closed
    BY <1>2, <1>3, <2>1 DEF InUse
  <2>4. Fresh(e)'
    <3>1. Fresh(e)
      BY <2>2, <2>3
    <3>. QED
      BY <1>1, <2>1, <3>1 DEF Fresh
  <2>. QED
    BY <1>3, <2>4 DEF InUse
<1>4. ASSUME NEW b \in Coro
      PROVE  /\ co'[b].call \notin {"lookup", "health"}
             /\ co'[b].at \notin {"waiting", "sampling", "evicting", "finishing"}
             /\ co'[b].at \in Removals => obj'[co'[b].victim].closed
  <2>1. CASE b = c
    BY <1>1, <2>1 DEF Removals
  <2>2. CASE b # c
    <3>1. co[b].at \in Removals => co[b].victim \in Download /\ co[b].victim # d
      BY DEF CoInv, Fresh
    <3>2. co[b].at \in Removals => obj'[co[b].victim].closed
      BY <1>2, <3>1 DEF OneInv
    <3>. QED
      BY <1>1, <2>2, <3>2 DEF OneInv
  <2>. QED
    BY <2>1, <2>2
<1>. QED
  BY <1>3, <1>4 DEF OneInv, Requested

\* What shutting down or adding a torrent does to the Downloads: none is opened again.
LEMMA StaysClosed ==
    ASSUME ObjInv, NEW d \in Download, NEW o, o \in {Closed(obj[d])} \cup {Added(obj[d], h) : h \in Handle},
           obj' = [obj EXCEPT ![d] = o]
    PROVE  /\ \A e \in Download : obj[e].closed => obj'[e].closed
           /\ o = Closed(obj[d]) => obj'[d].closed
<1>1. obj[d] \in ObjType
  BY DEF ObjInv
<1>2. Closed(obj[d]).closed
  BY <1>1 DEF Closed, ObjType
<1>3. \A h \in Handle : Added(obj[d], h).closed = obj[d].closed
  BY <1>1 DEF Added, ObjType
<1>. QED
  BY <1>2, <1>3 DEF ObjInv

\* Every step keeps the listed Download the only one in use.
THEOREM OneStep == NoLookups /\ IInv /\ OneInv /\ [Next]_vars => OneInv'
<1>. SUFFICES ASSUME NoLookups, IInv, OneInv, [Next]_vars PROVE OneInv'
  OBVIOUS
<1>. USE DEF table, disk, external
<1>1. ObjInv /\ CoInv
  BY DEF IInv
<1>2. ASSUME NEW c \in Coro, Lookup(c) PROVE OneInv'
  BY <1>2 DEF Lookup, LookupJoin, LookupStart, LookupAnswered, LookupSampled, LookupFailed, LookupRemoved,
              NoLookups, OneInv
<1>3. ASSUME NEW c \in Coro, Start(c) PROVE OneInv'
  <2>1. CASE UserStart(c)
    <3>1. \A d \in Download : ~InUse(d)
      BY <2>1 DEF UserStart, StartCreates, OneInv
    <3>. QED
      BY <1>1, <2>1, <3>1, OneCreated DEF UserStart
  <2>2. CASE LoadCheckpoint(c)
    <3>1. CASE LoadSkips
      BY <1>1, <2>2, <3>1, OneKept DEF LoadCheckpoint
    <3>2. CASE ~LoadSkips
      <4>1. conf \in Hops /\ downloads = NoDownload
        BY <3>2 DEF LoadSkips, IInv, TableInv
      <4>2. \A d \in Download : ~InUse(d)
        BY <4>1 DEF OneInv
      <4>. QED
        BY <1>1, <2>2, <3>2, <4>1, <4>2, OneCreated DEF LoadCheckpoint
    <3>. QED
      BY <3>1, <3>2
  <2>3. CASE StartHandle(c)
    <3>1. AddTorrent(c) /\ co[c].at = "starting" /\ downloads' = downloads
      BY <2>3 DEF StartHandle, OneInv
    <3>2. co[c].dl \in Download
      BY <1>1, <3>1 DEF CoInv
    <3>3. co' = [co EXCEPT ![c] = IdleCo] /\ requests' = requests
      BY <3>1 DEF AddTorrent, OneInv
    <3>4. \A e \in Download : obj[e].closed => obj'[e].closed
      <4>1. CASE torrent[obj[co[c].dl].hops] = NoHandle
        BY <3>1, <4>1 DEF AddTorrent
      <4>2. CASE torrent[obj[co[c].dl].hops] # NoHandle
        <5>1. torrent[obj[co[c].dl].hops] \in Handle
          BY <1>1, <3>2, <4>2 DEF IInv, SessionInv, ObjInv, ObjType
        <5>2. obj' = [obj EXCEPT ![co[c].dl] = Added(obj[co[c].dl], torrent[obj[co[c].dl].hops])]
          BY <1>1, <3>1, <4>2 DEF AddTorrent, ObjInv
        <5>. QED
          BY <1>1, <3>2, <5>1, <5>2, StaysClosed
      <4>. QED
        BY <4>1, <4>2
    <3>5. \A b \in Coro : co'[b] = co[b] \/ co'[b] = IdleCo
      BY <1>1, <3>3 DEF CoInv
    <3>. QED
      BY <1>1, <3>1, <3>3, <3>4, <3>5, OneKept
  <2>4. CASE Evicted(c)
    BY <2>4 DEF Evicted, OneInv
  <2>. QED
    BY <1>3, <2>1, <2>2, <2>3, <2>4 DEF Start
<1>4. ASSUME NEW c \in Coro, Change(c) PROVE OneInv'
  <2>1. CASE UserRemove(c)
    <3>. DEFINE new == [IdleCo EXCEPT !.call = "remove", !.at = "removing", !.dl = downloads, !.victim = downloads]
    <3>1. downloads \in Download /\ BeginRemoval(downloads) /\ co' = [co EXCEPT ![c] = new]
          /\ UNCHANGED <<requests, downloads>>
      BY <2>1 DEF UserRemove, IInv, TableInv
    <3>2. obj' = [obj EXCEPT ![downloads] = Closed(obj[downloads])]
      BY <1>1, <3>1 DEF BeginRemoval, ObjInv
    <3>3. /\ \A e \in Download : obj[e].closed => obj'[e].closed
          /\ obj'[downloads].closed
      BY <1>1, <3>1, <3>2, StaysClosed
    <3>4. new.call = "remove" /\ new.at = "removing" /\ new.dl = downloads /\ new.victim = downloads
      BY DEF IdleCo
    <3>5. \A b \in Coro : co'[b] = IF b = c THEN new ELSE co[b]
      BY <1>1, <3>1 DEF CoInv
    <3>. HIDE DEF new
    <3>. QED
      BY <1>1, <3>1, <3>3, <3>4, <3>5, OneKept
  <2>2. CASE UserRemoved(c)
    BY <1>1, <2>2, OneRemoved DEF UserRemoved, Removals
  <2>3. CASE UpdateHops(c)
    <3>. PICK hops \in Hops :
           LET state == [IdleCo EXCEPT !.call = "hops", !.at = "adding", !.dl = downloads, !.hops = hops]
           IN  /\ \/ co' = [co EXCEPT ![c] = state]
                  \/ SaveResumeData(c, downloads, state)
               /\ UNCHANGED <<table, obj>>
      BY <2>3 DEF UpdateHops
    <3>. DEFINE state == [IdleCo EXCEPT !.call = "hops", !.at = "adding", !.dl = downloads, !.hops = hops]
    <3>1. /\ state.call = "hops" /\ state.at = "adding" /\ state.dl = downloads /\ state.victim = NoDownload
          /\ LET saving == [state EXCEPT !.at = "saving"] IN
             saving.call = "hops" /\ saving.at = "saving" /\ saving.dl = downloads /\ saving.victim = NoDownload
      BY DEF IdleCo
    <3>2. PICK r \in {IdleCo, state, [state EXCEPT !.at = "saving"]} : co' = [co EXCEPT ![c] = r]
      BY DEF SaveResumeData
    <3>3. \A b \in Coro : co'[b] = IF b = c THEN r ELSE co[b]
      BY <1>1, <3>2 DEF CoInv
    <3>. HIDE DEF state
    <3>. QED
      BY <1>1, <3>1, <3>2, <3>3, OneKept DEF Removals
  <2>4. CASE HopsAdded(c)
    <3>1. PICK r \in {IdleCo, [co[c] EXCEPT !.at = "saving"]} : co' = [co EXCEPT ![c] = r]
      BY <2>4 DEF HopsAdded, SaveResumeData
    <3>2. LET saving == [co[c] EXCEPT !.at = "saving"] IN
          saving.call = co[c].call /\ saving.at = "saving" /\ saving.dl = co[c].dl /\ saving.victim = co[c].victim
      BY <1>1 DEF CoInv, CoType
    <3>3. \A b \in Coro : co'[b] = IF b = c THEN r ELSE co[b]
      BY <1>1, <3>1 DEF CoInv
    <3>4. UNCHANGED <<requests, downloads, obj>>
      BY <2>4 DEF HopsAdded
    <3>5. r = IdleCo \/ /\ r.call \notin {"lookup", "health"} /\ r.at = "saving"
                        /\ {r.dl, r.victim} \subseteq {NoDownload, co[c].dl, co[c].victim, downloads}
      BY <3>1, <3>2 DEF OneInv
    <3>. QED
      BY <1>1, <3>3, <3>4, <3>5, OneKept DEF Removals
  <2>5. CASE HopsSaved(c)
    <3>1. co[c].dl \in Download /\ BeginRemoval(co[c].dl) /\ UNCHANGED <<requests, downloads>>
          /\ co' = [co EXCEPT ![c] = [co[c] EXCEPT !.at = "rehoming", !.victim = co[c].dl]]
      BY <1>1, <2>5 DEF HopsSaved, CoInv
    <3>2. obj' = [obj EXCEPT ![co[c].dl] = Closed(obj[co[c].dl])]
      BY <1>1, <3>1 DEF BeginRemoval, ObjInv
    <3>3. /\ \A e \in Download : obj[e].closed => obj'[e].closed
          /\ obj'[co[c].dl].closed
      BY <1>1, <3>1, <3>2, StaysClosed
    <3>4. /\ co'[c].call = co[c].call /\ co'[c].at = "rehoming" /\ co'[c].dl = co[c].dl /\ co'[c].victim = co[c].dl
          /\ \A b \in Coro \ {c} : co'[b] = co[b]
      BY <1>1, <3>1 DEF CoInv, CoType
    <3>. QED
      BY <1>1, <3>1, <3>3, <3>4, OneKept DEF OneInv
  <2>6. CASE HopsRemoved(c)
    <3>1. co[c].at = "rehoming" /\ co[c].hops \in Hops /\ obj[co[c].victim].closed
      BY <1>1, <2>6 DEF HopsRemoved, OneInv, CoInv, Removals
    <3>2. CASE DownloadsWithout(co[c].victim) # NoDownload
      BY <1>1, <2>6, <3>1, <3>2, OneRemoved DEF HopsRemoved, OneInv, Removals
    <3>3. CASE DownloadsWithout(co[c].victim) = NoDownload
      <4>1. \A d \in Download : ~InUse(d)
        BY <3>1, <3>3 DEF DownloadsWithout, OneInv, InUse
      <4>. QED
        BY <1>1, <2>6, <3>1, <3>3, <4>1, OneCreated DEF HopsRemoved
    <3>. QED
      BY <3>2, <3>3
  <2>. QED
    BY <1>4, <2>1, <2>2, <2>3, <2>4, <2>5, <2>6 DEF Change
<1>5. ASSUME UNCHANGED <<requests, downloads, co, obj>> PROVE OneInv'
  BY <1>1, <1>5, OneKept
<1>6. ASSUME NEW s \in Hops, OnAlert(s) PROVE OneInv'
  <2>. DEFINE d == Receiver(s)
  <2>1. d # NoDownload => d \in Download /\ obj[d] \in ObjType
    BY <1>1 DEF Receiver, IInv, TableInv, ObjInv
  <2>2. UNCHANGED <<requests, downloads, co>>
    BY <1>6 DEF OnAlert, OnAddTorrent, OnTorrentRemoved, OnMetadataReceived, OnSaveResumeData
  <2>3. \A e \in Download : obj[e].closed => obj'[e].closed
    <3>1. CASE OnAddTorrent(s) /\ d # NoDownload
      <4>1. alerts[s] # <<>> /\ obj' = [obj EXCEPT ![d] = Added(obj[d], Head(alerts[s]).handle)]
        BY <1>1, <2>1, <3>1 DEF OnAddTorrent, Pending, ObjInv
      <4>2. Head(alerts[s]).handle \in Handle
        BY <4>1, PopOwn DEF IInv, SessionInv
      <4>. QED
        BY <1>1, <2>1, <3>1, <4>1, <4>2, StaysClosed
    <3>2. CASE OnAddTorrent(s) /\ d = NoDownload
      BY <3>2 DEF OnAddTorrent
    <3>3. CASE OnTorrentRemoved(s)
      BY <1>1, <2>1, <3>3 DEF OnTorrentRemoved, ObjInv, ObjType
    <3>4. CASE OnMetadataReceived(s)
      BY <1>1, <2>1, <3>4 DEF OnMetadataReceived, ObjInv, ObjType
    <3>5. CASE OnSaveResumeData(s)
      BY <3>5 DEF OnSaveResumeData
    <3>. QED
      BY <1>6, <3>1, <3>2, <3>3, <3>4, <3>5 DEF OnAlert
  <2>. QED
    BY <1>1, <2>2, <2>3, OneKept
<1>7. ASSUME NEW s \in Hops, Libtorrent(s) PROVE OneInv'
  BY <1>5, <1>7 DEF Libtorrent, SessionReady, AsyncAddTorrent, MetadataArrives
<1>8. ASSUME NEW h \in Handle, DropTorrent(h) PROVE OneInv'
  BY <1>5, <1>8 DEF DropTorrent
<1>9. CASE CacheExpires
  BY <1>5, <1>9 DEF CacheExpires
<1>10. CASE Crash
  BY <1>10 DEF Crash, NoRequest, IdleCo, Removals, OneInv, Requested, InUse, Fresh
<1>11. CASE UNCHANGED vars
  BY <1>5, <1>11 DEF vars
<1>. QED
  BY <1>2, <1>3, <1>4, <1>6, <1>7, <1>8, <1>9, <1>10, <1>11 DEF Next

\* A new process has no Download.
LEMMA OneInit == Init => OneInv
<1>. SUFFICES ASSUME Init PROVE OneInv
  OBVIOUS
<1>1. downloads = NoDownload /\ requests.download = NoDownload
      /\ \A c \in Coro : co[c].call = "none" /\ co[c].at = "idle" /\ co[c].dl = NoDownload /\ co[c].victim = NoDownload
  BY DEF Init, NoRequest, IdleCo
<1>. QED
  BY <1>1 DEF OneInv, Requested, InUse, Fresh, Removals

\* However starts, removals, changes of the hop count, restarts and late alerts interleave,
\* two Downloads in use never hold the same torrent.
THEOREM Exclusive == NoLookups => (Spec => []HandleExclusive)
<1>. SUFFICES ASSUME NoLookups PROVE Spec => []HandleExclusive
  OBVIOUS
<1>1. Init => IInv /\ OneInv
  BY InitInv, OneInit
<1>2. IInv /\ OneInv /\ [Next]_vars => (IInv /\ OneInv)'
  BY StepInv, OneStep
<1>3. IInv /\ OneInv => HandleExclusive
  BY DEF OneInv, InUse, HandleExclusive
<1>. QED
  BY <1>1, <1>2, <1>3, PTL DEF Spec
-----------------------------------------------------------------------------
\* A checkpoint that is not loaded yet is not that of a download somebody starts anew: TLC
\* refutes it with a start that comes before load_checkpoints, which keeps the file as it is.
StartsAreFirst == "start" \in Calls => "load" \notin Calls /\ MaxCrashes = 0

\* The file has the hop count of the listed download; without one there is no file, unless
\* it is still to be loaded.
ConfInv ==
    /\ downloads # NoDownload => conf = obj[downloads].hops
    /\ downloads = NoDownload /\ conf # NoHops => loading
    /\ loading => "start" \notin Calls /\ downloads = NoDownload /\ \A c \in Coro : co[c].at = "idle"

\* The hop count of a Download never changes.
LEMMA ConfKept ==
    ASSUME IInv, ConfInv, UNCHANGED <<downloads, conf, loading>>,
           \A d \in Download : obj'[d].hops = obj[d].hops,
           loading => \A c \in Coro : co'[c].at = "idle"
    PROVE  ConfInv'
  BY DEF IInv, TableInv, ConfInv

\* A listed Download that is removed takes its file with it.
LEMMA ConfRemoved ==
    ASSUME ConfInv, NEW v,
           downloads' = DownloadsWithout(v), conf' = ConfWithout(v), UNCHANGED <<obj, loading>>, ~loading
    PROVE  ConfInv'
  BY DEF ConfInv, DownloadsWithout, ConfWithout

\* A Download is created with the hop count in the file, or with a file.
LEMMA ConfCreated ==
    ASSUME OneInv, ObjInv, NEW c \in Coro, NEW call, NEW hops \in Hops, NEW dls, NEW file \in {NoHops, hops},
           CreateDownload(c, call, FALSE, hops, dls, file), ~loading'
    PROVE  ConfInv'
<1>. PICK d \in Download :
        /\ obj' = [obj EXCEPT ![d] = NewObj(FALSE, hops)]
        /\ conf' = hops
        /\ downloads' = d
  BY DEF CreateDownload, OneInv
<1>1. obj'[d].hops = hops
  BY DEF NewObj, ObjInv
<1>. QED
  BY <1>1 DEF ConfInv

\* Every step keeps the checkpoint's hop count that of the listed download.
THEOREM ConfStep ==
    NoLookups /\ StartsAreFirst /\ IInv /\ OneInv /\ ConfInv /\ [Next]_vars => ConfInv'
<1>. SUFFICES ASSUME NoLookups, StartsAreFirst, IInv, OneInv, ConfInv, [Next]_vars PROVE ConfInv'
  OBVIOUS
<1>. USE DEF table, disk, external
<1>1. ObjInv /\ CoInv
  BY DEF IInv
<1>2. \A d \in Download : \A o \in {Closed(obj[d])} \cup {Added(obj[d], h) : h \in Handle} :
         obj' = [obj EXCEPT ![d] = o] => \A e \in Download : obj'[e].hops = obj[e].hops
  <2>1. \A d \in Download : /\ Closed(obj[d]).hops = obj[d].hops
                            /\ \A h \in Handle : Added(obj[d], h).hops = obj[d].hops
    BY <1>1 DEF ObjInv, ObjType, Closed, Added
  <2>. QED
    BY <1>1, <2>1 DEF ObjInv
<1>3. ASSUME NEW c \in Coro, Lookup(c) PROVE ConfInv'
  BY <1>3 DEF Lookup, LookupJoin, LookupStart, LookupAnswered, LookupSampled, LookupFailed, LookupRemoved,
              NoLookups, OneInv
<1>4. ASSUME NEW c \in Coro, Start(c) PROVE ConfInv'
  <2>1. CASE UserStart(c)
    <3>1. downloads = NoDownload /\ ~loading /\ conf = NoHops /\ loading' = loading
      BY <2>1 DEF UserStart, StartCreates, OneInv, ConfInv
    <3>. QED
      BY <1>1, <2>1, <3>1, ConfCreated DEF UserStart
  <2>2. CASE LoadCheckpoint(c)
    <3>1. CASE LoadSkips
      <4>1. downloads = NoDownload /\ conf = NoHops /\ downloads' = downloads /\ conf' = conf /\ ~loading'
        BY <2>2, <3>1 DEF LoadCheckpoint, LoadSkips, ConfInv
      <4>. QED
        BY <4>1 DEF ConfInv
    <3>2. CASE ~LoadSkips
      BY <1>1, <2>2, <3>2, ConfCreated DEF LoadCheckpoint, LoadSkips, IInv, TableInv
    <3>. QED
      BY <3>1, <3>2
  <2>3. CASE StartHandle(c)
    <3>1. AddTorrent(c) /\ co[c].at = "starting" /\ UNCHANGED <<downloads, conf, loading>>
      BY <2>3 DEF StartHandle, OneInv
    <3>2. co[c].dl \in Download /\ ~loading
      BY <1>1, <3>1 DEF CoInv, ConfInv
    <3>3. CASE torrent[obj[co[c].dl].hops] = NoHandle
      BY <3>1, <3>2, <3>3, ConfKept DEF AddTorrent
    <3>4. CASE torrent[obj[co[c].dl].hops] # NoHandle
      <4>1. torrent[obj[co[c].dl].hops] \in Handle
        BY <1>1, <3>2, <3>4 DEF IInv, SessionInv, ObjInv, ObjType
      <4>2. obj' = [obj EXCEPT ![co[c].dl] = Added(obj[co[c].dl], torrent[obj[co[c].dl].hops])]
        BY <1>1, <3>1, <3>4 DEF AddTorrent, ObjInv
      <4>. QED
        BY <1>2, <3>1, <3>2, <4>1, <4>2, ConfKept
    <3>. QED
      BY <3>3, <3>4
  <2>4. CASE Evicted(c)
    BY <2>4 DEF Evicted, OneInv
  <2>. QED
    BY <1>4, <2>1, <2>2, <2>3, <2>4 DEF Start
<1>5. ASSUME NEW c \in Coro, Change(c) PROVE ConfInv'
  <2>1. ~loading
    BY <1>5 DEF Change, UserRemove, UserRemoved, UpdateHops, HopsAdded, HopsSaved, HopsRemoved, ConfInv
  <2>2. CASE UserRemove(c)
    <3>1. downloads \in Download /\ BeginRemoval(downloads) /\ UNCHANGED <<downloads, conf, loading>>
      BY <2>2 DEF UserRemove, IInv, TableInv
    <3>2. obj' = [obj EXCEPT ![downloads] = Closed(obj[downloads])]
      BY <1>1, <3>1 DEF BeginRemoval, ObjInv
    <3>. QED
      BY <1>2, <2>1, <3>1, <3>2, ConfKept
  <2>3. CASE UserRemoved(c)
    BY <2>1, <2>3, ConfRemoved DEF UserRemoved
  <2>4. CASE UpdateHops(c) \/ HopsAdded(c)
    BY <2>1, <2>4, ConfKept DEF UpdateHops, HopsAdded
  <2>5. CASE HopsSaved(c)
    <3>1. co[c].dl \in Download /\ BeginRemoval(co[c].dl) /\ UNCHANGED <<downloads, conf, loading>>
      BY <1>1, <2>5 DEF HopsSaved, CoInv
    <3>2. obj' = [obj EXCEPT ![co[c].dl] = Closed(obj[co[c].dl])]
      BY <1>1, <3>1 DEF BeginRemoval, ObjInv
    <3>. QED
      BY <1>2, <2>1, <3>1, <3>2, ConfKept
  <2>6. CASE HopsRemoved(c)
    <3>1. CASE DownloadsWithout(co[c].victim) # NoDownload
      BY <2>1, <2>6, <3>1, ConfRemoved DEF HopsRemoved, OneInv
    <3>2. CASE DownloadsWithout(co[c].victim) = NoDownload
      <4>1. ConfWithout(co[c].victim) = NoHops
        BY <2>1, <3>2 DEF DownloadsWithout, ConfWithout, ConfInv
      <4>2. co[c].hops \in Hops
        BY <1>1, <2>6 DEF HopsRemoved, CoInv
      <4>. QED
        BY <1>1, <2>1, <2>6, <3>2, <4>1, <4>2, ConfCreated DEF HopsRemoved
    <3>. QED
      BY <3>1, <3>2
  <2>. QED
    BY <1>5, <2>2, <2>3, <2>4, <2>5, <2>6 DEF Change
<1>6. ASSUME UNCHANGED <<downloads, conf, loading, co, obj>> PROVE ConfInv'
  BY <1>6 DEF ConfInv
<1>7. ASSUME NEW s \in Hops, OnAlert(s) PROVE ConfInv'
  <2>. DEFINE d == Receiver(s)
  <2>1. d # NoDownload => d = downloads /\ d \in Download /\ obj[d] \in ObjType
    BY <1>1 DEF Receiver, IInv, TableInv, ObjInv
  <2>2. UNCHANGED <<downloads, loading, co>>
    BY <1>7 DEF OnAlert, OnAddTorrent, OnTorrentRemoved, OnMetadataReceived, OnSaveResumeData
  <2>3. \A e \in Download : obj'[e].hops = obj[e].hops
    <3>1. CASE OnAddTorrent(s) /\ d # NoDownload
      <4>1. alerts[s] # <<>> /\ obj' = [obj EXCEPT ![d] = Added(obj[d], Head(alerts[s]).handle)]
        BY <1>1, <2>1, <3>1 DEF OnAddTorrent, Pending, ObjInv
      <4>2. Head(alerts[s]).handle \in Handle
        BY <4>1, PopOwn DEF IInv, SessionInv
      <4>. QED
        BY <1>2, <2>1, <3>1, <4>1, <4>2
    <3>2. CASE OnAddTorrent(s) /\ d = NoDownload
      BY <3>2 DEF OnAddTorrent
    <3>3. CASE OnTorrentRemoved(s)
      BY <1>1, <2>1, <3>3 DEF OnTorrentRemoved, ObjInv, ObjType
    <3>4. CASE OnMetadataReceived(s)
      BY <1>1, <2>1, <3>4 DEF OnMetadataReceived, ObjInv, ObjType
    <3>5. CASE OnSaveResumeData(s)
      BY <3>5 DEF OnSaveResumeData
    <3>. QED
      BY <1>7, <3>1, <3>2, <3>3, <3>4, <3>5 DEF OnAlert
  <2>4. conf' = conf
    BY <1>7, <2>1 DEF OnAlert, OnAddTorrent, OnTorrentRemoved, OnMetadataReceived, OnSaveResumeData, ConfInv
  <2>5. loading => \A c \in Coro : co'[c].at = "idle"
    BY <2>2 DEF ConfInv
  <2>. QED
    BY <2>2, <2>3, <2>4, <2>5, ConfKept
<1>8. ASSUME NEW s \in Hops, Libtorrent(s) PROVE ConfInv'
  BY <1>6, <1>8 DEF Libtorrent, SessionReady, AsyncAddTorrent, MetadataArrives
<1>9. ASSUME NEW h \in Handle, DropTorrent(h) PROVE ConfInv'
  BY <1>6, <1>9 DEF DropTorrent
<1>10. CASE CacheExpires
  BY <1>6, <1>10 DEF CacheExpires
<1>11. CASE Crash
  <2>1. "start" \notin Calls
    BY <1>11 DEF Crash, StartsAreFirst, IInv, OtherInv
  <2>2. downloads' = NoDownload /\ conf' = conf /\ loading' = (conf # NoHops)
        /\ \A c \in Coro : co'[c].at = "idle"
    BY <1>11 DEF Crash, IdleCo
  <2>. QED
    BY <2>1, <2>2 DEF ConfInv
<1>12. CASE UNCHANGED vars
  BY <1>6, <1>12 DEF vars
<1>. QED
  BY <1>3, <1>4, <1>5, <1>7, <1>8, <1>9, <1>10, <1>11, <1>12 DEF Next

\* The checkpoint of a listed download has the hop count it runs with, through any changes
\* of it, removals and crashes; starts that come before the checkpoint is loaded excepted.
THEOREM KeepsHops == NoLookups /\ StartsAreFirst => (Spec => []CheckpointKeepsHops)
<1>. SUFFICES ASSUME NoLookups, StartsAreFirst PROVE Spec => []CheckpointKeepsHops
  OBVIOUS
<1>1. Init => IInv /\ OneInv
  BY InitInv, OneInit
<1>2. Init => ConfInv
  <2>. SUFFICES ASSUME Init PROVE ConfInv
    OBVIOUS
  <2>1. downloads = NoDownload /\ loading = (conf # NoHops) /\ (\A c \in Coro : co[c].at = "idle")
        /\ (conf # NoHops => "load" \in Calls)
    BY DEF Init, IdleCo
  <2>. QED
    BY <2>1 DEF ConfInv, StartsAreFirst
<1>3. IInv /\ OneInv /\ ConfInv /\ [Next]_vars => (IInv /\ OneInv /\ ConfInv)'
  BY StepInv, OneStep, ConfStep
<1>4. IInv /\ OneInv /\ ConfInv => CheckpointKeepsHops
  BY DEF ConfInv, CheckpointKeepsHops
<1>. QED
  BY <1>1, <1>2, <1>3, <1>4, PTL DEF Spec
-----------------------------------------------------------------------------
(***************************************************************************)
(* Lookups beside downloads of the user, once the sessions exist.  TLC     *)
(* refutes LookupSparesUser with a session that is still to be created: a  *)
(* lookup that waits for it lists its request when a download of the user  *)
(* has been listed meanwhile, and another lookup, which had joined that    *)
(* download, then counts itself as the last one of the request.            *)
(*                                                                         *)
(* A Download whose start_handle is not over, while a lookup is requested, *)
(* is Unseen: nobody else refers to it.  So nobody waits on it when it     *)
(* comes into the table.                                                   *)
(***************************************************************************)
Looks(c) == co[c].call \in {"lookup", "health"}
Waits(c) == co[c].at \in {"waiting", "sampling"}

Unseen(c) == /\ co[c].dl \notin {downloads, requests.download, co[c].victim}
             /\ \A b \in Coro \ {c} : co[c].dl \notin {co[b].dl, co[b].victim}

\* start_handle has not awaited anything yet.
StartingInv ==
    \A c \in Coro : co[c].at = "starting" =>
        /\ running = c
        /\ Looks(c) => ~Requested /\ co[c].dl = downloads /\ obj[co[c].dl].hidden
        /\ Requested => Unseen(c)

EvictingInv == \A c \in Coro : co[c].at = "evicting" => ~Looks(c) /\ Unseen(c)

\* Nobody waits on a download of the user while a lookup is requested.
WaitingInv ==
    Requested => /\ obj[requests.download].hidden
                 /\ \A c \in Coro : Waits(c) /\ co[c].dl = downloads =>
                        obj[downloads].hidden \/ obj[downloads].closed

SpareInv == session = [s \in Hops |-> "ready"] /\ StartingInv /\ EvictingInv /\ WaitingInv

\* Downloads stay hidden or not, and closed.
Lasts == \A d \in Download : /\ obj'[d].hidden = obj[d].hidden
                             /\ obj[d].closed => obj'[d].closed

\* Most steps: one coroutine at most goes on, to a Download that was already seen.
LEMMA SpareKept ==
    ASSUME IInv, SpareInv, session' = session, downloads' \in {downloads, NoDownload},
           requests'.download \in {requests.download, NoDownload}, Lasts,
           NEW c \in Coro, \A b \in Coro \ {c} : co'[b] = co[b] /\ co[b].at # "starting",
           \/ co'[c] = co[c] /\ co[c].at # "starting"
           \/ /\ co'[c].at \notin {"starting", "evicting"}
              /\ {co'[c].dl, co'[c].victim}
                    \subseteq {NoDownload, co[c].dl, co[c].victim, downloads, requests.download}
              /\ Waits(c)' /\ Requested' =>
                    \/ Waits(c) /\ co'[c].dl = co[c].dl
                    \/ co'[c].dl = requests.download
    PROVE  SpareInv'
<1>1. /\ CoInv /\ downloads \in Download \cup {NoDownload} /\ NoDownload \notin Download
      /\ requests.download \in Download \cup {NoDownload}
  BY DEF IInv, TableInv
<1>2. Requested' => Requested /\ requests'.download = requests.download
  BY DEF Requested
<1>3. ASSUME NEW b \in Coro, co'[b] = co[b], co[b].at = "evicting", Unseen(b)
      PROVE  Unseen(b)'
  <2>1. co[b].dl \in Download
    BY <1>1, <1>3 DEF CoInv
  <2>. QED
    BY <1>1, <1>3, <2>1 DEF Unseen
<1>4. StartingInv'
  BY DEF StartingInv
<1>5. EvictingInv'
  BY <1>3 DEF SpareInv, EvictingInv, Looks
<1>6. WaitingInv'
  BY <1>1, <1>2 DEF SpareInv, WaitingInv, Waits, Requested, Lasts, CoInv
<1>. QED
  BY <1>4, <1>5, <1>6 DEF SpareInv

\* The event loop is free, or c has it and has left start_handle: nobody is starting.
LEMMA NobodyStarts ==
    ASSUME SpareInv, NEW c \in Coro, co[c].at # "starting", running \in {c, NoCoro}
    PROVE  \A b \in Coro : co[b].at # "starting"
BY DEF SpareInv, StartingInv

\* A new Download, for a lookup only when none is requested.
LEMMA SpareCreated ==
    ASSUME IInv, SpareInv, Idle, NEW c \in Coro, UNCHANGED requests,
           NEW call \in AllCalls, NEW hidden \in BOOLEAN, NEW hops \in Hops,
           NEW dls \in {downloads, NoDownload}, NEW file,
           call \in {"lookup", "health"} => hidden /\ ~Requested,
           CreateDownload(c, call, hidden, hops, dls, file)
    PROVE  SpareInv'
<1>1. /\ CoInv /\ ObjInv /\ downloads \in Download \cup {NoDownload} /\ NoDownload \notin Download
      /\ requests.download \in Download \cup {NoDownload}
  BY DEF IInv, TableInv
<1>. PICK d \in Download :
        /\ Fresh(d)
        /\ obj' = [obj EXCEPT ![d] = NewObj(hidden, hops)]
        /\ downloads' = IF Requested THEN dls ELSE d
        /\ co' = [co EXCEPT ![c] = [IdleCo EXCEPT !.call = call, !.at = "starting", !.dl = d]]
        /\ session' = [session EXCEPT ![hops] = IF @ = "absent" THEN "creating" ELSE @]
        /\ running' = IF session[hops] = "ready" THEN c ELSE NoCoro
  BY DEF CreateDownload
<1>2. session' = session /\ running' = c
  BY DEF SpareInv
<1>3. /\ co'[c].call = call /\ co'[c].at = "starting" /\ co'[c].dl = d /\ co'[c].victim = NoDownload
      /\ \A b \in Coro \ {c} : co'[b] = co[b]
      /\ \A b \in Coro : co[b].at # "starting"
  BY <1>1 DEF CoInv, IdleCo, Idle, SpareInv, StartingInv
<1>4. obj'[d].hidden = hidden /\ \A e \in Download \ {d} : obj'[e] = obj[e]
  BY <1>1 DEF ObjInv, NewObj
<1>5. StartingInv'
  <2>1. ASSUME NEW b \in Coro, co'[b].at = "starting" PROVE b = c
    BY <1>3, <2>1
  <2>2. Looks(c)' => ~Requested' /\ co'[c].dl = downloads' /\ obj'[co'[c].dl].hidden
    BY <1>3, <1>4 DEF Looks, Requested
  <2>3. Requested' => Unseen(c)'
    BY <1>1, <1>3 DEF Requested, Unseen, Fresh
  <2>. QED
    BY <1>2, <2>1, <2>2, <2>3 DEF StartingInv
<1>6. EvictingInv'
  <2>1. ASSUME NEW b \in Coro, co'[b].at = "evicting" PROVE ~Looks(b)' /\ Unseen(b)'
    <3>1. b # c /\ co'[b] = co[b] /\ co[b].dl \in Download /\ ~Looks(b) /\ Unseen(b) /\ co[b].dl # d
      BY <1>1, <1>3, <2>1 DEF SpareInv, EvictingInv, CoInv, Fresh
    <3>. QED
      BY <1>1, <1>3, <3>1 DEF Looks, Unseen
  <2>. QED
    BY <2>1 DEF EvictingInv
<1>7. WaitingInv'
  <2>. SUFFICES ASSUME Requested PROVE WaitingInv'
    BY DEF WaitingInv, Requested
  <2>1. requests.download \in Download /\ requests.download # d /\ downloads # d
    BY <1>1 DEF Requested, Fresh
  <2>2. ASSUME NEW b \in Coro, Waits(b)', co'[b].dl = downloads'
        PROVE  obj'[downloads'].hidden \/ obj'[downloads'].closed
    <3>1. b # c /\ Waits(b) /\ co[b].dl \in Download /\ co[b].dl = downloads /\ downloads' = downloads
      BY <1>1, <1>3, <2>2 DEF Waits, CoInv
    <3>. QED
      BY <1>4, <2>1, <3>1 DEF SpareInv, WaitingInv
  <2>. QED
    BY <1>4, <2>1, <2>2 DEF SpareInv, WaitingInv
<1>. QED
  BY <1>2, <1>5, <1>6, <1>7 DEF SpareInv

\* The first await of remove_download leaves the Downloads as they are, but for the closed one.
LEMMA RemovalLasts ==
    ASSUME ObjInv, NEW v \in Download, BeginRemoval(v)
    PROVE  Lasts /\ \A d \in Download \ {v} : obj'[d] = obj[d]
<1>1. obj[v] \in ObjType
  BY DEF ObjInv
<1>2. Closed(obj[v]).hidden = obj[v].hidden /\ Closed(obj[v]).closed
  BY <1>1 DEF Closed, ObjType
<1>. QED
  BY <1>2 DEF BeginRemoval, ObjInv, Lasts

\* Adding a torrent changes neither which Downloads are hidden nor which are closed.
LEMMA AddedLasts ==
    ASSUME ObjInv, NEW d \in Download, NEW h \in Handle, obj' = [obj EXCEPT ![d] = Added(obj[d], h)]
    PROVE  Lasts /\ \A e \in Download : obj'[e].closed = obj[e].closed
<1>1. obj[d] \in ObjType
  BY DEF ObjInv
<1>2. Added(obj[d], h).hidden = obj[d].hidden /\ Added(obj[d], h).closed = obj[d].closed
  BY <1>1 DEF Added, ObjType
<1>. QED
  BY <1>2 DEF ObjInv, Lasts

\* get_metainfo's finally clause.
LEMMA SpareFinally ==
    ASSUME IInv, SpareInv, NEW c \in Coro, Waits(c), running \in {c, NoCoro}, Finally(c),
           UNCHANGED <<downloads, session>>
    PROVE  SpareInv'
<1>1. CoInv /\ ObjInv /\ co[c].dl \in Download /\ co[c] \in CoType
  BY DEF IInv, CoInv, Waits
<1>2. \A b \in Coro : co[b].at # "starting"
  BY NobodyStarts DEF Waits
<1>3. requests'.download = requests.download
  BY DEF Finally, IInv, TableInv
<1>4. CASE LastToLeave
  <2>1. BeginRemoval(co[c].dl)
    BY <1>4 DEF Finally
  <2>2. Lasts
    BY <1>1, <2>1, RemovalLasts
  <2>3. co' = [co EXCEPT ![c] = [co[c] EXCEPT !.at = "finishing", !.victim = co[c].dl]]
    BY <1>1, <1>4 DEF Finally, CoInv
  <2>4. /\ co'[c].at = "finishing" /\ co'[c].dl = co[c].dl /\ co'[c].victim = co[c].dl
        /\ \A b \in Coro \ {c} : co'[b] = co[b]
    BY <1>1, <2>3 DEF CoInv, CoType
  <2>. QED
    BY <1>2, <1>3, <2>2, <2>4, SpareKept DEF Waits
<1>5. CASE ~LastToLeave
  <2>1. Lasts
    BY <1>5 DEF Finally, Lasts
  <2>2. co'[c] = IdleCo /\ \A b \in Coro \ {c} : co'[b] = co[b]
    BY <1>1, <1>5 DEF Finally, CoInv
  <2>. QED
    BY <1>2, <1>3, <2>1, <2>2, SpareKept DEF IdleCo, Waits
<1>. QED
  BY <1>4, <1>5

\* What the end of start_handle does to the Downloads.
LEMMA AddTorrentLasts ==
    ASSUME IInv, NEW c \in Coro, co[c].dl \in Download, AddTorrent(c)
    PROVE  Lasts /\ \A d \in Download : obj'[d].closed = obj[d].closed
<1>. DEFINE h == torrent[obj[co[c].dl].hops]
<1>1. CASE h = NoHandle
  BY <1>1 DEF AddTorrent, Lasts
<1>2. CASE h # NoHandle
  <2>1. h \in Handle /\ ObjInv
    BY <1>2 DEF IInv, SessionInv, ObjInv, ObjType
  <2>2. obj' = [obj EXCEPT ![co[c].dl] = Added(obj[co[c].dl], h)]
    BY <1>2, <2>1 DEF AddTorrent, ObjInv
  <2>. QED
    BY <2>1, <2>2, AddedLasts
<1>. QED
  BY <1>1, <1>2

\* start_handle once its session exists.
LEMMA SpareStarted ==
    ASSUME IInv, SpareInv, NEW c \in Coro, StartHandle(c)
    PROVE  SpareInv'
<1>1. /\ CoInv /\ ObjInv /\ co[c].at = "starting" /\ running = c /\ co[c].dl \in Download /\ co[c] \in CoType
      /\ UNCHANGED <<downloads, session>>
      /\ \A b \in Coro \ {c} : co[b].at # "starting"
  BY DEF StartHandle, SpareInv, StartingInv, IInv, CoInv, disk
<1>2. CASE Requested /\ requests.download # co[c].dl
  <2>1. /\ requests' = NoRequest /\ BeginRemoval(requests.download) /\ requests.download \in Download
        /\ co' = [co EXCEPT ![c] = [co[c] EXCEPT !.at = "evicting", !.victim = requests.download]]
    BY <1>1, <1>2 DEF StartHandle, Requested, IInv, TableInv, CoInv
  <2>2. /\ co'[c].at = "evicting" /\ co'[c].call = co[c].call /\ co'[c].dl = co[c].dl
        /\ co'[c].victim = requests.download
        /\ \A b \in Coro \ {c} : co'[b] = co[b]
    BY <1>1, <2>1 DEF CoInv, CoType
  <2>3. ~Looks(c) /\ Unseen(c)
    BY <1>1, <1>2 DEF SpareInv, StartingInv
  <2>4. ~Requested' /\ requests'.download = NoDownload
    BY <2>1 DEF Requested, NoRequest
  <2>5. StartingInv'
    BY <1>1, <2>2 DEF StartingInv
  <2>6. EvictingInv'
    <3>1. ~Looks(c)' /\ Unseen(c)'
      BY <1>1, <2>1, <2>2, <2>3, <2>4 DEF Looks, Unseen
    <3>2. ASSUME NEW b \in Coro \ {c}, co'[b].at = "evicting" PROVE ~Looks(b)' /\ Unseen(b)'
      <4>1. co'[b] = co[b] /\ ~Looks(b) /\ Unseen(b) /\ co[b].dl \in Download
        BY <1>1, <2>2, <3>2 DEF SpareInv, EvictingInv, CoInv
      <4>. QED
        BY <1>1, <2>2, <2>4, <4>1 DEF Looks, Unseen
    <3>. QED
      BY <3>1, <3>2 DEF EvictingInv
  <2>. QED
    BY <1>1, <2>4, <2>5, <2>6 DEF SpareInv, WaitingInv
<1>3. CASE ~(Requested /\ requests.download # co[c].dl)
  <2>1. AddTorrent(c)
    BY <1>3 DEF StartHandle
  <2>2. Lasts
    BY <1>1, <2>1, AddTorrentLasts
  <2>3. CASE Looks(c)
    <3>1. ~Requested /\ co[c].dl = downloads /\ obj[downloads].hidden
      BY <1>1, <2>3 DEF SpareInv, StartingInv
    <3>2. /\ requests'.download = downloads
          /\ co' = [co EXCEPT ![c] = [co[c] EXCEPT !.at = "waiting", !.victim = NoDownload]]
      BY <1>1, <2>1, <2>3, <3>1 DEF AddTorrent, Looks, CoInv
    <3>3. /\ co'[c].at = "waiting" /\ co'[c].dl = downloads /\ co'[c].victim = NoDownload
          /\ \A b \in Coro \ {c} : co'[b] = co[b]
      BY <1>1, <3>1, <3>2 DEF CoInv, CoType
    <3>4. StartingInv'
      BY <1>1, <3>3 DEF StartingInv
    <3>5. EvictingInv'
      <4>1. ASSUME NEW b \in Coro, co'[b].at = "evicting" PROVE ~Looks(b)' /\ Unseen(b)'
        <5>1. b # c /\ co'[b] = co[b] /\ ~Looks(b) /\ Unseen(b) /\ co[b].dl \in Download
          BY <1>1, <3>3, <4>1 DEF SpareInv, EvictingInv, CoInv
        <5>. QED
          BY <1>1, <3>1, <3>2, <3>3, <5>1 DEF Looks, Unseen
      <4>. QED
        BY <4>1 DEF EvictingInv
    <3>6. WaitingInv'
      BY <1>1, <2>2, <3>1, <3>2, <3>3 DEF WaitingInv, Lasts
    <3>. QED
      BY <1>1, <3>4, <3>5, <3>6 DEF SpareInv
  <2>4. CASE ~Looks(c)
    <3>1. /\ requests' = requests /\ co'[c] = IdleCo /\ \A b \in Coro \ {c} : co'[b] = co[b]
      BY <1>1, <2>1, <2>4 DEF AddTorrent, Looks, CoInv
    <3>. QED
      BY <1>1, <2>2, <3>1, SpareKept DEF IdleCo, Waits
  <2>. QED
    BY <2>3, <2>4
<1>. QED
  BY <1>2, <1>3

\* start_handle after it has removed the lookup's download.
LEMMA SpareEvicted ==
    ASSUME IInv, SpareInv, NEW c \in Coro, Evicted(c)
    PROVE  SpareInv'
<1>1. /\ CoInv /\ ObjInv /\ co[c].at = "evicting" /\ Idle /\ co[c].dl \in Download /\ co[c] \in CoType
      /\ session' = session /\ downloads' = co[c].dl /\ ~Looks(c) /\ Unseen(c) /\ AddTorrent(c)
      /\ \A b \in Coro : co[b].at # "starting"
  BY DEF Evicted, SpareInv, EvictingInv, StartingInv, IInv, CoInv, Idle
<1>2. Lasts
  BY <1>1, AddTorrentLasts
<1>3. /\ requests' = requests /\ co'[c] = IdleCo /\ \A b \in Coro \ {c} : co'[b] = co[b]
  BY <1>1 DEF AddTorrent, Looks, CoInv
<1>4. StartingInv'
  BY <1>1, <1>3 DEF StartingInv, IdleCo
<1>5. EvictingInv'
  <2>1. ASSUME NEW b \in Coro, co'[b].at = "evicting" PROVE ~Looks(b)' /\ Unseen(b)'
    <3>1. b # c /\ co'[b] = co[b] /\ ~Looks(b) /\ Unseen(b) /\ co[b].dl \in Download
      BY <1>1, <1>3, <2>1 DEF SpareInv, EvictingInv, CoInv, IdleCo
    <3>. QED
      BY <1>1, <1>3, <3>1 DEF Looks, Unseen, IdleCo
  <2>. QED
    BY <2>1 DEF EvictingInv
<1>6. WaitingInv'
  <2>1. Requested' => Requested /\ requests.download \in Download
    BY <1>3 DEF Requested, IInv, TableInv
  <2>2. \A b \in Coro : ~(Waits(b)' /\ co'[b].dl = downloads')
    BY <1>1, <1>3 DEF Waits, Unseen, IdleCo
  <2>. QED
    BY <1>2, <1>3, <2>1, <2>2 DEF SpareInv, WaitingInv, Lasts
<1>. QED
  BY <1>1, <1>4, <1>5, <1>6 DEF SpareInv

\* Alerts leave the Downloads hidden or not, and closed or not.
LEMMA AlertLasts ==
    ASSUME IInv, NEW s \in Hops, OnAlert(s)
    PROVE  Lasts /\ \A e \in Download : obj'[e].closed = obj[e].closed
<1>. DEFINE d == Receiver(s)
<1>1. ObjInv /\ (d # NoDownload => d \in Download /\ obj[d] \in ObjType)
  BY DEF Receiver, IInv, TableInv, ObjInv
<1>2. CASE OnAddTorrent(s) /\ d # NoDownload
  <2>1. alerts[s] # <<>> /\ obj' = [obj EXCEPT ![d] = Added(obj[d], Head(alerts[s]).handle)]
    BY <1>1, <1>2 DEF OnAddTorrent, Pending, ObjInv
  <2>2. Head(alerts[s]).handle \in Handle
    BY <2>1, PopOwn DEF IInv, SessionInv
  <2>. QED
    BY <1>1, <1>2, <2>1, <2>2, AddedLasts
<1>3. CASE OnAddTorrent(s) /\ d = NoDownload
  BY <1>3 DEF OnAddTorrent, Lasts
<1>4. CASE OnTorrentRemoved(s)
  BY <1>1, <1>4 DEF OnTorrentRemoved, ObjInv, ObjType, Lasts
<1>5. CASE OnMetadataReceived(s)
  BY <1>1, <1>5 DEF OnMetadataReceived, ObjInv, ObjType, Lasts
<1>6. CASE OnSaveResumeData(s)
  BY <1>6 DEF OnSaveResumeData, Lasts
<1>. QED
  BY <1>2, <1>3, <1>4, <1>5, <1>6 DEF OnAlert

\* Every step keeps what the removal of a lookup's download relies on.
LEMMA SpareStep ==
    ASSUME ColdSessions = {}, IInv, SpareInv, [Next]_vars
    PROVE  SpareInv'
<1>. USE DEF table, disk, external
<1>1. CoInv /\ ObjInv /\ downloads \in Download \cup {NoDownload} /\ conf \in Hops \cup {NoHops}
  BY DEF IInv, TableInv
<1>2. ASSUME NEW c \in Coro, Lookup(c) PROVE SpareInv'
  <2>1. CASE LookupJoin(c)
    <3>1. PICK call \in {"lookup", "health"} :
            LET d == IF Requested THEN requests.download ELSE downloads
            IN  co' = [co EXCEPT ![c] = [IdleCo EXCEPT !.call = call, !.at = "waiting", !.dl = d]]
      BY <2>1 DEF LookupJoin
    <3>2. /\ co'[c].dl = IF Requested THEN requests.download ELSE downloads
          /\ co'[c].at = "waiting" /\ co'[c].victim = NoDownload
          /\ \A b \in Coro \ {c} : co'[b] = co[b]
      BY <1>1, <3>1 DEF CoInv, IdleCo
    <3>3. requests'.download = requests.download /\ UNCHANGED <<session, downloads, obj>>
      BY <2>1 DEF LookupJoin, Joined, IInv, TableInv
    <3>4. \A b \in Coro : co[b].at # "starting"
      BY <2>1, NobodyStarts DEF LookupJoin, Free, Idle
    <3>. QED
      BY <1>1, <3>2, <3>3, <3>4, SpareKept DEF Lasts, Requested
  <2>2. CASE LookupStart(c)
    <3>. QED
      BY <2>2, SpareCreated DEF LookupStart, Free, AllCalls
  <2>3. CASE LookupAnswered(c)
    <3>1. CASE co[c].call = "health"
      <4>1. co' = [co EXCEPT ![c] = [co[c] EXCEPT !.at = "sampling"]]
            /\ UNCHANGED <<requests, obj, downloads, session>> /\ Waits(c) /\ running \in {c, NoCoro}
        BY <1>1, <2>3, <3>1 DEF LookupAnswered, CoInv, Waits
      <4>2. /\ co'[c].at = "sampling" /\ co'[c].dl = co[c].dl /\ co'[c].victim = co[c].victim
            /\ \A b \in Coro \ {c} : co'[b] = co[b]
        BY <1>1, <4>1 DEF CoInv, CoType
      <4>3. \A b \in Coro : co[b].at # "starting"
        BY <4>1, NobodyStarts DEF Waits
      <4>. QED
        BY <4>1, <4>2, <4>3, SpareKept DEF Lasts
    <3>. QED
      BY <2>3, <3>1, SpareFinally DEF LookupAnswered, Waits
  <2>4. CASE LookupSampled(c) \/ LookupFailed(c)
    BY <2>4, SpareFinally DEF LookupSampled, LookupFailed, Waits, Idle
  <2>5. CASE LookupRemoved(c)
    <3>1. /\ co'[c] = IdleCo /\ (\A b \in Coro \ {c} : co'[b] = co[b]) /\ UNCHANGED <<session, obj>>
          /\ downloads' \in {downloads, NoDownload} /\ requests' = NoRequest
          /\ co[c].at = "finishing" /\ Idle
      BY <1>1, <2>5 DEF LookupRemoved, CoInv, DownloadsWithout
    <3>2. \A b \in Coro : co[b].at # "starting"
      BY <3>1, NobodyStarts DEF Idle
    <3>. QED
      BY <3>1, <3>2, SpareKept DEF Lasts, NoRequest, IdleCo, Waits
  <2>. QED
    BY <1>2, <2>1, <2>2, <2>3, <2>4, <2>5 DEF Lookup
<1>3. ASSUME NEW c \in Coro, UNCHANGED <<downloads, requests, session, running, obj, co>>, Idle
      PROVE  SpareInv'
  <2>1. \A b \in Coro : co[b].at # "starting"
    BY <1>3 DEF Idle, SpareInv, StartingInv
  <2>. QED
    BY <1>3, <2>1, SpareKept DEF Lasts
<1>4. ASSUME NEW c \in Coro, Start(c) PROVE SpareInv'
  <2>1. CASE UserStart(c)
    BY <1>1, <2>1, SpareCreated DEF UserStart, Free, AllCalls
  <2>2. CASE LoadCheckpoint(c)
    <3>1. CASE LoadSkips
      BY <1>3, <2>2, <3>1 DEF LoadCheckpoint
    <3>2. CASE ~LoadSkips
      <4>1. conf \in Hops
        BY <1>1, <3>2 DEF LoadSkips
      <4>. QED
        BY <2>2, <3>2, <4>1, SpareCreated DEF LoadCheckpoint, AllCalls
    <3>. QED
      BY <3>1, <3>2
  <2>3. CASE StartHandle(c) \/ Evicted(c)
    BY <2>3, SpareStarted, SpareEvicted
  <2>. QED
    BY <1>4, <2>1, <2>2, <2>3 DEF Start
<1>5. ASSUME NEW c \in Coro, Idle, Lasts, UNCHANGED <<requests, session>>,
             downloads' \in {downloads, NoDownload}, \A b \in Coro \ {c} : co'[b] = co[b],
             co'[c].at \notin {"starting", "evicting", "waiting", "sampling"},
             {co'[c].dl, co'[c].victim} \subseteq {NoDownload, co[c].dl, co[c].victim, downloads}
      PROVE  SpareInv'
  <2>1. \A b \in Coro : co[b].at # "starting"
    BY <1>5 DEF Idle, SpareInv, StartingInv
  <2>. QED
    BY <1>5, <2>1, SpareKept DEF Waits
<1>6. ASSUME NEW c \in Coro, Change(c) PROVE SpareInv'
  <2>1. CASE UserRemove(c)
    <3>. DEFINE new == [IdleCo EXCEPT !.call = "remove", !.at = "removing", !.dl = downloads, !.victim = downloads]
    <3>1. /\ co' = [co EXCEPT ![c] = new] /\ BeginRemoval(downloads) /\ downloads \in Download /\ Idle
          /\ UNCHANGED <<downloads, requests, session>>
      BY <1>1, <2>1 DEF UserRemove, Free
    <3>2. /\ co'[c].at = "removing" /\ co'[c].dl = downloads /\ co'[c].victim = downloads
          /\ \A b \in Coro \ {c} : co'[b] = co[b]
      BY <1>1, <3>1 DEF CoInv, IdleCo
    <3>3. Lasts
      BY <1>1, <3>1, RemovalLasts
    <3>. QED
      BY <1>5, <3>1, <3>2, <3>3
  <2>2. CASE UserRemoved(c)
    <3>1. /\ co'[c] = IdleCo /\ (\A b \in Coro \ {c} : co'[b] = co[b])
          /\ downloads' \in {downloads, NoDownload} /\ UNCHANGED <<requests, session, obj>> /\ Idle
      BY <1>1, <2>2 DEF UserRemoved, CoInv, DownloadsWithout
    <3>. QED
      BY <1>5, <3>1 DEF Lasts, IdleCo
  <2>3. CASE UpdateHops(c)
    <3>. PICK hops \in Hops :
           LET state == [IdleCo EXCEPT !.call = "hops", !.at = "adding", !.dl = downloads, !.hops = hops]
           IN  /\ \/ co' = [co EXCEPT ![c] = state]
                  \/ SaveResumeData(c, downloads, state)
               /\ UNCHANGED <<table, obj, session>> /\ Idle
      BY <2>3 DEF UpdateHops, Free
    <3>. DEFINE state == [IdleCo EXCEPT !.call = "hops", !.at = "adding", !.dl = downloads, !.hops = hops]
    <3>1. /\ state.at = "adding" /\ state.dl = downloads /\ state.victim = NoDownload
          /\ LET saving == [state EXCEPT !.at = "saving"] IN
             saving.at = "saving" /\ saving.dl = downloads /\ saving.victim = NoDownload
      BY DEF IdleCo
    <3>2. PICK r \in {IdleCo, state, [state EXCEPT !.at = "saving"]} : co' = [co EXCEPT ![c] = r]
      BY DEF SaveResumeData
    <3>3. \A b \in Coro : co'[b] = IF b = c THEN r ELSE co[b]
      BY <1>1, <3>2 DEF CoInv
    <3>4. IdleCo.at = "idle" /\ IdleCo.dl = NoDownload /\ IdleCo.victim = NoDownload
      BY DEF IdleCo
    <3>. HIDE DEF state
    <3>5. r.at \in {"idle", "adding", "saving"} /\ {r.dl, r.victim} \subseteq {NoDownload, downloads}
      <4>. DEFINE saving == [state EXCEPT !.at = "saving"]
      <4>1. saving.at = "saving" /\ saving.dl = downloads /\ saving.victim = NoDownload
        BY <3>1
      <4>2. r \in {IdleCo, state, saving}
        BY <3>2
      <4>. HIDE DEF saving
      <4>. QED
        BY <3>1, <3>4, <4>1, <4>2
    <3>. QED
      BY <1>5, <3>3, <3>5 DEF Lasts
  <2>4. CASE HopsAdded(c)
    <3>1. PICK r \in {IdleCo, [co[c] EXCEPT !.at = "saving"]} : co' = [co EXCEPT ![c] = r]
      BY <2>4 DEF HopsAdded, SaveResumeData
    <3>2. r.at \in {"idle", "saving"} /\ {r.dl, r.victim} \subseteq {NoDownload, co[c].dl, co[c].victim}
      BY <1>1 DEF CoInv, CoType, IdleCo
    <3>3. \A b \in Coro : co'[b] = IF b = c THEN r ELSE co[b]
      BY <1>1, <3>1 DEF CoInv
    <3>4. UNCHANGED <<requests, downloads, obj, session>> /\ Idle
      BY <2>4 DEF HopsAdded
    <3>. QED
      BY <1>5, <3>2, <3>3, <3>4 DEF Lasts
  <2>5. CASE HopsSaved(c)
    <3>1. /\ co[c].dl \in Download /\ BeginRemoval(co[c].dl) /\ Idle
          /\ UNCHANGED <<requests, downloads, session>>
          /\ co' = [co EXCEPT ![c] = [co[c] EXCEPT !.at = "rehoming", !.victim = co[c].dl]]
      BY <1>1, <2>5 DEF HopsSaved, CoInv
    <3>2. /\ co'[c].at = "rehoming" /\ co'[c].dl = co[c].dl /\ co'[c].victim = co[c].dl
          /\ \A b \in Coro \ {c} : co'[b] = co[b]
      BY <1>1, <3>1 DEF CoInv, CoType
    <3>3. Lasts
      BY <1>1, <3>1, RemovalLasts
    <3>. QED
      BY <1>5, <3>1, <3>2, <3>3
  <2>6. CASE HopsRemoved(c)
    <3>. DEFINE dls == DownloadsWithout(co[c].victim)
    <3>1. co[c].hops \in Hops /\ Idle /\ requests' = requests /\ dls \in {downloads, NoDownload}
      BY <1>1, <2>6 DEF HopsRemoved, CoInv, DownloadsWithout
    <3>2. CASE dls # NoDownload /\ ~Requested
      <4>1. /\ co'[c] = IdleCo /\ (\A b \in Coro \ {c} : co'[b] = co[b])
            /\ downloads' = dls /\ UNCHANGED <<obj, session>>
        BY <1>1, <2>6, <3>2 DEF HopsRemoved, CoInv
      <4>. QED
        BY <1>5, <3>1, <4>1 DEF Lasts, IdleCo
    <3>3. CASE ~(dls # NoDownload /\ ~Requested)
      BY <2>6, <3>1, <3>3, SpareCreated DEF HopsRemoved, AllCalls
    <3>. QED
      BY <3>2, <3>3
  <2>. QED
    BY <1>6, <2>1, <2>2, <2>3, <2>4, <2>5, <2>6 DEF Change
<1>7. ASSUME NEW s \in Hops, OnAlert(s) PROVE SpareInv'
  <2>1. UNCHANGED <<requests, downloads, co, session>> /\ Idle
    BY <1>7 DEF OnAlert, OnAddTorrent, OnTorrentRemoved, OnMetadataReceived, OnSaveResumeData, Pending
  <2>2. \A b \in Coro : co[b].at # "starting"
    BY <2>1 DEF Idle, SpareInv, StartingInv
  <2>3. Lasts
    BY <1>7, AlertLasts
  <2>. QED
    BY <2>1, <2>2, <2>3, SpareKept
<1>8. ASSUME NEW s \in Hops, Libtorrent(s) PROVE SpareInv'
  BY <1>3, <1>8 DEF Libtorrent, SessionReady, AsyncAddTorrent, MetadataArrives, SpareInv
<1>9. ASSUME NEW h \in Handle, DropTorrent(h) PROVE SpareInv'
  BY <1>3, <1>9 DEF DropTorrent
<1>10. CASE CacheExpires
  BY <1>3, <1>10 DEF CacheExpires
<1>11. CASE Crash
  BY <1>11 DEF Crash, SpareInv, StartingInv, EvictingInv, WaitingInv, Requested, NoRequest, IdleCo
<1>12. CASE UNCHANGED vars
  BY <1>12 DEF vars, SpareInv, StartingInv, EvictingInv, WaitingInv, Requested, Looks, Waits, Unseen
<1>. QED
  BY <1>2, <1>4, <1>6, <1>7, <1>8, <1>9, <1>10, <1>11, <1>12 DEF Next

\* No step but a removal by the user, or the change of the hop count, closes the listed download.
LEMMA SparedStep ==
    ASSUME IInv, SpareInv, [Next]_vars, NEW d \in Download,
           downloads = d, ~obj[d].hidden, ~obj[d].closed, obj'[d].closed
    PROVE  \E c \in Coro : co'[c].at \in {"removing", "rehoming"} /\ co'[c].victim = d
<1>. USE DEF table, disk, external
<1>1. CoInv /\ ObjInv /\ downloads \in Download
  BY DEF IInv
<1>2. ASSUME NEW c \in Coro, Waits(c), Finally(c) PROVE FALSE
  <2>1. co[c].dl \in Download
    BY <1>1, <1>2 DEF CoInv, Waits
  <2>2. LastToLeave /\ BeginRemoval(co[c].dl)
    BY <1>2 DEF Finally
  <2>3. co[c].dl # d
    BY <1>2, <2>2 DEF LastToLeave, SpareInv, WaitingInv
  <2>. QED
    BY <1>1, <2>1, <2>2, <2>3, RemovalLasts
<1>3. ASSUME NEW c \in Coro, NEW call, NEW hidden, NEW hops, NEW dls, NEW file,
             CreateDownload(c, call, hidden, hops, dls, file)
      PROVE  FALSE
  BY <1>1, <1>3 DEF CreateDownload, ObjInv, NewObj
<1>4. ASSUME NEW c \in Coro, Lookup(c) PROVE FALSE
  BY <1>2, <1>3, <1>4 DEF Lookup, LookupJoin, LookupStart, LookupAnswered, LookupSampled, LookupFailed,
                          LookupRemoved, Waits
<1>5. ASSUME NEW c \in Coro, Start(c) PROVE FALSE
  <2>1. CASE UserStart(c) \/ LoadCheckpoint(c)
    BY <1>3, <2>1 DEF UserStart, LoadCheckpoint
  <2>2. CASE StartHandle(c) /\ Requested /\ requests.download # co[c].dl
    <3>1. BeginRemoval(requests.download) /\ requests.download \in Download
      BY <2>2 DEF StartHandle, Requested, IInv, TableInv
    <3>2. requests.download # d
      BY <2>2 DEF SpareInv, WaitingInv
    <3>. QED
      BY <1>1, <3>1, <3>2, RemovalLasts
  <2>3. CASE AddTorrent(c) /\ co[c].at \in {"starting", "evicting"}
    <3>1. co[c].dl \in Download
      BY <1>1, <2>3 DEF CoInv
    <3>. QED
      BY <2>3, <3>1, AddTorrentLasts
  <2>. QED
    BY <1>5, <2>1, <2>2, <2>3 DEF Start, StartHandle, Evicted
<1>6. ASSUME NEW c \in Coro, Change(c)
      PROVE  co'[c].at \in {"removing", "rehoming"} /\ co'[c].victim = d
  <2>1. CASE UserRemove(c)
    <3>. DEFINE new == [IdleCo EXCEPT !.call = "remove", !.at = "removing", !.dl = downloads, !.victim = downloads]
    <3>1. co' = [co EXCEPT ![c] = new]
      BY <2>1 DEF UserRemove
    <3>. QED
      BY <1>1, <3>1 DEF CoInv, IdleCo
  <2>2. CASE HopsSaved(c)
    <3>1. /\ co[c].dl \in Download /\ BeginRemoval(co[c].dl)
          /\ co' = [co EXCEPT ![c] = [co[c] EXCEPT !.at = "rehoming", !.victim = co[c].dl]]
      BY <1>1, <2>2 DEF HopsSaved, CoInv
    <3>2. co'[c].at = "rehoming" /\ co'[c].victim = co[c].dl
      BY <1>1, <3>1 DEF CoInv, CoType
    <3>3. co[c].dl = d
      BY <1>1, <3>1, RemovalLasts
    <3>. QED
      BY <3>2, <3>3
  <2>. QED
    BY <1>3, <1>6, <2>1, <2>2 DEF Change, UserRemoved, UpdateHops, HopsAdded, HopsRemoved
<1>7. ASSUME NEW s \in Hops, OnAlert(s) PROVE FALSE
  BY <1>7, AlertLasts
<1>8. ASSUME obj' = obj PROVE FALSE
  BY <1>8
<1>9. CASE Crash
  BY <1>9 DEF Crash, NewObj
<1>. QED
  BY <1>4, <1>5, <1>6, <1>7, <1>8, <1>9
     DEF Next, Libtorrent, SessionReady, AsyncAddTorrent, MetadataArrives, DropTorrent, CacheExpires, vars

\* However lookups join, start, time out and leave beside starts, removals and changes of the
\* hop count, none of them shuts down a download of the user, given sessions that exist.
THEOREM SparesUser == ColdSessions = {} => (Spec => LookupSparesUser)
<1>. SUFFICES ASSUME ColdSessions = {} PROVE Spec => LookupSparesUser
  OBVIOUS
<1>. DEFINE Spared ==
       \A d \in Download :
          downloads = d /\ ~obj[d].hidden /\ ~obj[d].closed /\ obj'[d].closed =>
             \E c \in Coro : co'[c].at \in {"removing", "rehoming"} /\ co'[c].victim = d
<1>1. Init => IInv /\ SpareInv
  <2>1. ASSUME Init PROVE SpareInv
    <3>1. session = [s \in Hops |-> "ready"] /\ ~Requested /\ \A c \in Coro : co[c].at = "idle"
      BY <2>1 DEF Init, Requested, NoRequest, IdleCo
    <3>. QED
      BY <3>1 DEF SpareInv, StartingInv, EvictingInv, WaitingInv
  <2>. QED
    BY <2>1, InitInv
<1>2. IInv /\ SpareInv /\ [Next]_vars => (IInv /\ SpareInv)'
  BY StepInv, SpareStep
<1>3. IInv /\ SpareInv /\ [Next]_vars => [Spared]_vars
  BY SparedStep
<1>. QED
  BY <1>1, <1>2, <1>3, PTL DEF Spec, LookupSparesUser
-----------------------------------------------------------------------------
(***************************************************************************)
(* Playing files.  A cursor always has a connection that will drop it, and *)
(* a read of a file that its connection waited for is complete: for every  *)
(* number and size of files, buffer and set of offsets.  The invariant     *)
(* adds what a read in progress waits for, and that an offset is within    *)
(* the file until its last piece was read.                                 *)
(***************************************************************************)
ReaderType == [at : {"idle", "starting", "buffering", "opening", "preparing",
                     "reading", "writing", "closing"},
               want : File, start : Starts \cup {1}, pos : 1..(FileLen + 1),
               file : File \cup {None}, need : SUBSET Piece]

\* A read in progress has settled the file it reads; the offset of a read is within it.
ReaderInv(r) ==
    /\ r.at = "idle" => r = IdleReader
    /\ r.at # "idle" => r.start \in Starts
    /\ r.at \notin {"writing", "closing"} => r.pos <= FileLen
    /\ r.at = "reading" => \E f \in File : r.need = BytesToPieces(f, r.pos, r.pos + 1)

PlaybackInv == PlaybackTypeOK /\ (\A c \in Reader : ReaderInv(reader[c])) /\ NoOrphanCursor

-----------------------------------------------------------------------------
\* Multiplication by the length of a file keeps the order.
LEMMA FilesInOrder ==
    ASSUME NEW f \in Int, NEW g \in Int, f < g
    PROVE  f * FileLen <= (g - 1) * FileLen
<1>1. FileLen \in Nat /\ g - 1 - f \in Nat
  BY SizeAssumption
<1>2. (g - 1 - f) * FileLen >= 0
  BY <1>1
<1>3. (g - 1 - f) * FileLen = (g - 1) * FileLen - f * FileLen
  BY <1>1
<1>. QED
  BY <1>1, <1>2, <1>3

\* A piece is of one file.
LEMMA FilesApart ==
    ASSUME NEW f \in Int, NEW g \in Int, NEW o \in 1..FileLen, ByteToPiece(f, o) \in PiecesOf(g)
    PROVE  f = g
<1>1. FileLen \in Nat \ {0}
  BY SizeAssumption
<1>. DEFINE a == (f - 1) * FileLen
           b == (g - 1) * FileLen
<1>2. a \in Int /\ b \in Int
  BY <1>1
<1>3. b + 1 <= a + o /\ a + o <= b + FileLen
  BY <1>1, <1>2 DEF ByteToPiece, PiecesOf
<1>4. f * FileLen = a + FileLen /\ g * FileLen = b + FileLen
  BY <1>1
<1>5. f < g => f * FileLen <= b
  BY FilesInOrder
<1>6. g < f => g * FileLen <= a
  BY FilesInOrder
<1>7. ~(f < g)
  <2>. HIDE DEF a, b
  <2>. QED
    BY <1>1, <1>2, <1>3, <1>4, <1>5
<1>8. ~(g < f)
  <2>. HIDE DEF a, b
  <2>. QED
    BY <1>1, <1>2, <1>3, <1>4, <1>6
<1>. QED
  BY <1>7, <1>8

\* The pieces of a file are pieces of the torrent.
LEMMA PiecesAre ==
    ASSUME NEW f \in File
    PROVE  /\ PiecesOf(f) \subseteq Piece
           /\ ByteToPiece(f, 1) \in PiecesOf(f) /\ ByteToPiece(f, FileLen) \in PiecesOf(f)
           /\ \A o \in 1..FileLen : ByteToPiece(f, o) \in PiecesOf(f)
<1>1. FileLen \in Nat \ {0} /\ NumFiles \in Nat \ {0} /\ f \in 1..NumFiles
  BY SizeAssumption DEF File
<1>. DEFINE a == (f - 1) * FileLen
           n == NumFiles * FileLen
<1>2. a \in Int /\ n \in Int
  BY <1>1
<1>3. a >= 0
  <2>1. f - 1 \in Nat
    BY <1>1
  <2>. QED
    BY <1>1, <2>1
<1>4. a + FileLen <= n
  <2>1. f * FileLen = a + FileLen
    BY <1>1
  <2>2. f < NumFiles + 1
    BY <1>1
  <2>3. f * FileLen <= (NumFiles + 1 - 1) * FileLen
    BY <1>1, <2>2, FilesInOrder
  <2>. QED
    BY <1>1, <2>1, <2>3
<1>5. /\ PiecesOf(f) = (a + 1)..(a + FileLen) /\ Piece = 1..n
      /\ \A o \in Int : ByteToPiece(f, o) = a + o
  BY DEF PiecesOf, Piece, ByteToPiece
<1>. HIDE DEF a, n
<1>6. PiecesOf(f) \subseteq Piece
  BY <1>1, <1>2, <1>3, <1>4, <1>5
<1>7. ASSUME NEW o \in 1..FileLen PROVE ByteToPiece(f, o) \in PiecesOf(f)
  <2>1. ByteToPiece(f, o) = a + o /\ o \in Int /\ 1 <= o /\ o <= FileLen
    BY <1>1, <1>5
  <2>. QED
    BY <1>1, <1>2, <1>5, <2>1
<1>. QED
  <2>1. 1 \in 1..FileLen /\ FileLen \in 1..FileLen
    BY <1>1
  <2>. QED
    BY <1>6, <1>7, <2>1

\* What a cursor and a read ask for are pieces of the torrent.
LEMMA AskedPieces ==
    ASSUME NEW f \in File, NEW o \in Int
    PROVE  /\ Ahead(f, o) \in SUBSET Piece /\ BytesToPieces(f, o, o + 1) \in SUBSET Piece
BY PiecesAre DEF Ahead, Missing, BytesToPieces

\* Without cursors there is nothing to own; one fewer is a type-correct table too.
LEMMA FewerCursors ==
    /\ Forgotten \in [Starts -> (SUBSET Piece) \cup {NoEntry}] /\ Entries(Forgotten) = {}
    /\ \A cursors \in [Starts -> (SUBSET Piece) \cup {NoEntry}], o \in Starts :
          LET fewer == [cursors EXCEPT ![o] = NoEntry]
          IN  /\ fewer \in [Starts -> (SUBSET Piece) \cup {NoEntry}]
              /\ Entries(fewer) = Entries(cursors) \ {o}
<1>. DEFINE Pieces == (SUBSET Piece) \cup {NoEntry}
<1>1. NoEntry \in Pieces
  OBVIOUS
<1>. HIDE DEF Pieces
<1>2. Forgotten \in [Starts -> Pieces] /\ Entries(Forgotten) = {}
  BY <1>1 DEF Forgotten, Entries
<1>3. ASSUME NEW cursors \in [Starts -> Pieces], NEW o \in Starts
      PROVE  /\ [cursors EXCEPT ![o] = NoEntry] \in [Starts -> Pieces]
             /\ Entries([cursors EXCEPT ![o] = NoEntry]) = Entries(cursors) \ {o}
  BY <1>1 DEF Entries
<1>. QED
  BY <1>2, <1>3 DEF Pieces

\* A connection that is not open.
LEMMA IdleReaderInv == IdleReader \in ReaderType /\ ReaderInv(IdleReader)
<1>1. /\ 1 \in File /\ None \in File \cup {None} /\ {} \in SUBSET Piece
      /\ 1 \in 1..(FileLen + 1) /\ 1 <= FileLen /\ 1 \in Starts \cup {1}
  BY SizeAssumption DEF File
<1>2. IdleReader \in ReaderType
  BY <1>1 DEF IdleReader, ReaderType
<1>3. ReaderInv(IdleReader)
  BY <1>1 DEF IdleReader, ReaderInv
<1>. QED
  BY <1>2, <1>3

\* A read asks for the piece at its offset.
LEMMA ReadsOwnOffset ==
    ASSUME NEW f \in File, NEW o \in 1..FileLen
    PROVE  ByteToPiece(f, o) \in BytesToPieces(f, o, o + 1)
<1>1. ByteToPiece(f, o) \in PiecesOf(f)
  BY PiecesAre
<1>2. FileLen \in Nat /\ (f - 1) * FileLen \in Int
  BY SizeAssumption DEF File
<1>. QED
  BY <1>1, <1>2 DEF BytesToPieces, ByteToPiece

LEMMA PrioritiesType ==
    ASSUME PlaybackTypeOK, NEW cursors, NEW f, NEW need, NEW n
    PROVE  /\ UpdatePriorities(cursors) \in [Piece -> {1, 4, 7}]
           /\ BufferPriorities(f, need) \in [Piece -> {1, 4, 7}]
           /\ ResetAll \in [Piece -> {1, 4, 7}] /\ ResetFirst(n) \in [Piece -> {1, 4, 7}]
BY DEF PlaybackTypeOK, UpdatePriorities, BufferPriorities, ResetAll, ResetFirst
-----------------------------------------------------------------------------
\* A connection that may have a cursor, for its start offset.
Holds(r, o) == r.start = o /\ r.at \in {"reading", "writing", "closing"}

\* What a step of connection c leaves: its record keeps its type and invariant, and every
\* cursor still has a connection.
Leaves(c) ==
    /\ \E r \in ReaderType : ReaderInv(r) /\ Put(c, r)
    /\ cursor_pieces' \in [Starts -> (SUBSET Piece) \cup {NoEntry}]
    /\ \A o \in Entries(cursor_pieces') :
          \/ Holds(reader'[c], o)
          \/ o \in Entries(cursor_pieces) /\ ~Holds(reader[c], o)

\* That is enough for the invariant.
LEMMA LeavesInv ==
    ASSUME PlaybackInv, NEW c \in Reader, Leaves(c), UNCHANGED <<have, runs, gone, listed>>,
           streamed' \in {streamed, TRUE}, file_index' \in File, priority' \in [Piece -> {1, 4, 7}]
    PROVE  PlaybackInv'
<1>1. PICK r \in ReaderType : ReaderInv(r) /\ reader' = [reader EXCEPT ![c] = r]
  BY DEF Leaves, Put
<1>2. reader \in [Reader -> ReaderType]
  BY DEF PlaybackInv, PlaybackTypeOK, ReaderType
<1>3. reader' \in [Reader -> ReaderType] /\ reader'[c] = r
      /\ \A b \in Reader \ {c} : reader'[b] = reader[b]
  BY <1>1, <1>2
<1>4. PlaybackTypeOK'
  BY <1>3 DEF PlaybackInv, PlaybackTypeOK, ReaderType, Leaves
<1>5. \A b \in Reader : ReaderInv(reader'[b])
  BY <1>1, <1>3 DEF PlaybackInv
<1>6. NoOrphanCursor'
  <2>. SUFFICES ASSUME NEW o \in Entries(cursor_pieces')
                PROVE  \E b \in Reader : Holds(reader'[b], o)
    BY DEF NoOrphanCursor, Holds
  <2>1. CASE Holds(reader'[c], o)
    BY <2>1
  <2>2. CASE o \in Entries(cursor_pieces) /\ ~Holds(reader[c], o)
    <3>1. PICK b \in Reader : Holds(reader[b], o)
      BY <2>2 DEF PlaybackInv, NoOrphanCursor, Holds
    <3>. QED
      BY <2>2, <3>1, <1>3
  <2>. QED
    BY <2>1, <2>2 DEF Leaves
<1>. QED
  BY <1>4, <1>5, <1>6 DEF PlaybackInv

\* A read: without an entry it ends the connection, otherwise the connection has the cursor.
LEMMA ReadLeaves ==
    ASSUME PlaybackInv, NEW c \in Reader, reader[c].at \in {"preparing", "writing"},
           reader[c].pos <= FileLen, NEW registered \in BOOLEAN,
           registered \/ cursor_pieces[reader[c].start] = NoEntry,
           Read(c, reader[c], registered)
    PROVE  /\ Leaves(c) /\ priority' \in [Piece -> {1, 4, 7}]
           /\ reader'[c].pos = reader[c].pos + 1 =>
                  ByteToPiece(file_index, reader[c].pos) \in have
<1>. DEFINE r == reader[c]
<1>1. /\ r \in ReaderType /\ ReaderInv(r) /\ reader \in [Reader -> ReaderType]
      /\ file_index \in File /\ r.pos \in 1..FileLen /\ r.start \in Starts
      /\ cursor_pieces \in [Starts -> (SUBSET Piece) \cup {NoEntry}]
      /\ priority \in [Piece -> {1, 4, 7}] /\ FileLen \in Nat
  BY SizeAssumption DEF PlaybackInv, PlaybackTypeOK, ReaderType, ReaderInv
<1>2. CASE ~registered
  <2>. DEFINE q == [r EXCEPT !.at = "closing"]
  <2>1. Put(c, q) /\ UNCHANGED <<cursor_pieces, priority>>
    BY <1>2 DEF Read
  <2>2. q \in ReaderType /\ ReaderInv(q) /\ q.pos = r.pos /\ q.start = r.start /\ q.at = "closing"
    BY <1>1 DEF ReaderType, ReaderInv
  <2>3. reader'[c] = q
    BY <1>1, <2>1 DEF Put
  <2>. HIDE DEF q
  <2>. QED
    BY <1>1, <2>1, <2>2, <2>3 DEF Leaves, Holds, ReaderType
<1>3. CASE registered
  <2>. DEFINE cursors == [cursor_pieces EXCEPT ![r.start] = Ahead(file_index, r.pos)]
              q == IF Need(r) \subseteq have
                   THEN [r EXCEPT !.at = "writing", !.pos = @ + 1]
                   ELSE [r EXCEPT !.at = "reading", !.need = Need(r)]
  <2>1. cursor_pieces' = cursors /\ priority' = UpdatePriorities(cursors) /\ Put(c, q)
    BY <1>3 DEF Read
  <2>2. Need(r) = BytesToPieces(file_index, r.pos, r.pos + 1) /\ Need(r) \in SUBSET Piece
    BY <1>1, AskedPieces DEF Need
  <2>3. q \in ReaderType
    <3>1. r.pos + 1 \in 1..(FileLen + 1)
      BY <1>1
    <3>2. [r EXCEPT !.at = "writing", !.pos = @ + 1] \in ReaderType
      BY <1>1, <3>1 DEF ReaderType
    <3>3. [r EXCEPT !.at = "reading", !.need = Need(r)] \in ReaderType
      BY <1>1, <2>2 DEF ReaderType
    <3>. QED
      BY <3>2, <3>3
  <2>4. ReaderInv(q) /\ q.start = r.start /\ q.at \in {"reading", "writing"}
    BY <1>1, <2>2 DEF ReaderType, ReaderInv
  <2>5. reader'[c] = q
    BY <1>1, <2>1 DEF Put
  <2>6. cursors \in [Starts -> (SUBSET Piece) \cup {NoEntry}]
    BY <1>1, AskedPieces
  <2>7. priority' \in [Piece -> {1, 4, 7}]
    BY <2>1, PrioritiesType DEF PlaybackInv
  <2>8. \A o \in Entries(cursors) : o = r.start \/ o \in Entries(cursor_pieces)
    BY <1>1 DEF Entries
  <2>9. reader'[c].pos = r.pos + 1 => Need(r) \subseteq have
    BY <1>1, <2>5 DEF ReaderType
  <2>10. ByteToPiece(file_index, r.pos) \in Need(r)
    BY <1>1, <2>2, ReadsOwnOffset
  <2>. HIDE DEF q, cursors
  <2>. QED
    BY <1>1, <2>1, <2>3, <2>4, <2>5, <2>6, <2>7, <2>8, <2>9, <2>10 DEF Leaves, Holds
<1>. QED
  BY <1>2, <1>3

\* Before its first read a connection has no cursor.
Unread(r) == /\ r \in ReaderType
            /\ r.start \in Starts /\ r.pos <= FileLen

\* Opening the file forgets all cursors, or leaves them alone until the file exists.
LEMMA OpenLeaves ==
    ASSUME PlaybackInv, NEW c \in Reader, \A o \in Starts : ~Holds(reader[c], o),
           NEW r, Unread(r), NEW f \in File, Open(c, r, f)
    PROVE  Leaves(c) /\ reader'[c].pos = r.pos
<1>1. /\ reader \in [Reader -> ReaderType] /\ r \in ReaderType
      /\ cursor_pieces \in [Starts -> (SUBSET Piece) \cup {NoEntry}]
  BY DEF PlaybackInv, PlaybackTypeOK, ReaderType, Unread
<1>2. CASE Exists(f)
  <2>. DEFINE q == [r EXCEPT !.at = "preparing", !.file = f, !.need = {}]
  <2>1. Put(c, q) /\ cursor_pieces' = Forgotten
    BY <1>2 DEF Open
  <2>2. q \in ReaderType /\ ReaderInv(q) /\ q.pos = r.pos
    BY <1>1 DEF ReaderType, ReaderInv, Unread
  <2>3. reader'[c] = q
    BY <1>1, <2>1 DEF Put
  <2>4. /\ cursor_pieces' \in [Starts -> (SUBSET Piece) \cup {NoEntry}]
        /\ Entries(cursor_pieces') = {}
    BY <2>1, FewerCursors
  <2>. HIDE DEF q
  <2>. QED
    BY <2>1, <2>2, <2>3, <2>4 DEF Leaves
<1>3. CASE ~Exists(f)
  <2>. DEFINE q == [r EXCEPT !.at = "opening", !.need = {}]
  <2>1. Put(c, q) /\ cursor_pieces' = cursor_pieces
    BY <1>3 DEF Open
  <2>2. q \in ReaderType /\ ReaderInv(q) /\ q.pos = r.pos
    BY <1>1 DEF ReaderType, ReaderInv, Unread
  <2>3. reader'[c] = q
    BY <1>1, <2>1 DEF Put
  <2>4. Entries(cursor_pieces) \subseteq Starts
    BY <1>1 DEF Entries
  <2>. HIDE DEF q
  <2>. QED
    BY <1>1, <2>1, <2>2, <2>3, <2>4 DEF Leaves
<1>. QED
  BY <1>2, <1>3

\* Enabling the Stream fails, opens the file, or waits for its header and footer.
LEMMA EnableLeaves ==
    ASSUME PlaybackInv, NEW c \in Reader, \A o \in Starts : ~Holds(reader[c], o),
           NEW r, Unread(r), NEW f \in File, Enable(c, r, f)
    PROVE  /\ Leaves(c) /\ priority' \in [Piece -> {1, 4, 7}]
           /\ reader'[c].pos \in {1, r.pos}
<1>1. /\ reader \in [Reader -> ReaderType] /\ r \in ReaderType
      /\ cursor_pieces \in [Starts -> (SUBSET Piece) \cup {NoEntry}]
      /\ priority \in [Piece -> {1, 4, 7}] /\ Entries(cursor_pieces) \subseteq Starts
  BY DEF PlaybackInv, PlaybackTypeOK, ReaderType, Unread, Entries
<1>2. CASE gone
  <2>1. Put(c, IdleReader) /\ UNCHANGED <<cursor_pieces, priority>>
    BY <1>2 DEF Enable
  <2>2. IdleReader \in ReaderType /\ ReaderInv(IdleReader) /\ IdleReader.pos = 1
    BY IdleReaderInv DEF IdleReader
  <2>3. reader'[c] = IdleReader
    BY <1>1, <2>1 DEF Put
  <2>. QED
    BY <1>1, <2>1, <2>2, <2>3 DEF Leaves
<1>3. CASE ~gone /\ HeaderFooter(f) \subseteq have
  BY <1>1, <1>3, OpenLeaves DEF Enable
<1>4. CASE ~gone /\ ~(HeaderFooter(f) \subseteq have)
  <2>. DEFINE q == [r EXCEPT !.at = "buffering", !.need = HeaderFooter(f)]
  <2>1. /\ Put(c, q) /\ UNCHANGED cursor_pieces
        /\ priority' = BufferPriorities(f, HeaderFooter(f))
    BY <1>4 DEF Enable
  <2>2. q \in ReaderType /\ ReaderInv(q) /\ q.pos = r.pos
    <3>1. HeaderFooter(f) \in SUBSET Piece
      BY PiecesAre DEF HeaderFooter
    <3>. QED
      BY <1>1, <3>1 DEF ReaderType, ReaderInv, Unread
  <2>3. reader'[c] = q
    BY <1>1, <2>1 DEF Put
  <2>4. priority' \in [Piece -> {1, 4, 7}]
    BY <2>1, PrioritiesType DEF PlaybackInv
  <2>. HIDE DEF q
  <2>. QED
    BY <1>1, <2>1, <2>2, <2>3, <2>4 DEF Leaves
<1>. QED
  BY <1>2, <1>3, <1>4
-----------------------------------------------------------------------------
\* One step of a connection.
LEMMA ConnectionStep ==
    ASSUME PlaybackInv, NEW c \in Reader,
           (\E f \in File, o \in Starts : Request(c, f, o)) \/ Steps(c) \/ Disconnected(c)
    PROVE  PlaybackInv'
           /\ \A b \in Reader : reader'[b].pos = reader[b].pos + 1 /\ OnFile(b)
                 => ByteToPiece(reader[b].file, reader[b].pos) \in have
<1>. DEFINE r == reader[c]
            Sent == r.pos + 1 = reader'[c].pos /\ OnFile(c) => ByteToPiece(r.file, r.pos) \in have
            Done == /\ Leaves(c) /\ priority' \in [Piece -> {1, 4, 7}] /\ Sent
<1>1. /\ r \in ReaderType /\ ReaderInv(r) /\ reader \in [Reader -> ReaderType]
      /\ file_index \in File /\ r.pos \in 1..(FileLen + 1) /\ FileLen \in Nat \ {0}
      /\ cursor_pieces \in [Starts -> (SUBSET Piece) \cup {NoEntry}]
      /\ priority \in [Piece -> {1, 4, 7}] /\ Starts \subseteq 1..FileLen
      /\ Entries(cursor_pieces) \subseteq Starts
  BY SizeAssumption DEF PlaybackInv, PlaybackTypeOK, ReaderType, Entries
<1>2. ASSUME NEW f \in File, NEW o \in Starts, Request(c, f, o)
      PROVE  Done /\ file_index' \in File /\ streamed' = TRUE
             /\ UNCHANGED <<have, runs, gone, listed>>
  <2>. DEFINE q == [IdleReader EXCEPT !.want = f, !.start = o, !.pos = o]
              s == [q EXCEPT !.at = "starting"]
  <2>1. q.pos = o /\ Unread(q) /\ s \in ReaderType /\ ReaderInv(s)
    <3>1. o \in 1..(FileLen + 1) /\ o \in Starts \cup {1} /\ o <= FileLen
      BY <1>1
    <3>2. q \in ReaderType /\ q.pos = o /\ q.start = o
      BY <3>1, IdleReaderInv DEF ReaderType, IdleReader
    <3>3. s \in ReaderType /\ s.pos = o /\ s.start = o /\ s.at = "starting"
      BY <3>2 DEF ReaderType
    <3>. QED
      BY <3>1, <3>2, <3>3 DEF Unread, ReaderInv
  <2>2. r = IdleReader /\ file_index' = f
    BY <1>1, <1>2 DEF Request, ReaderInv
  <2>3. \A i \in Starts : ~Holds(r, i)
    BY <2>2 DEF Holds, IdleReader
  <2>4. ~OnFile(c)
    BY <1>1, <2>2 DEF OnFile, IdleReader, None, File
  <2>5. CASE runs
    <3>. HIDE DEF q
    <3>1. Enable(c, q, f)
      BY <1>2, <2>5 DEF Request, q
    <3>. QED
      BY <1>2, <2>1, <2>2, <2>3, <2>4, <3>1, EnableLeaves DEF Request
  <2>6. CASE ~runs
    <3>1. Put(c, s) /\ UNCHANGED <<cursor_pieces, priority>>
      BY <1>2, <2>6 DEF Request
    <3>. HIDE DEF s
    <3>. QED
      BY <1>1, <1>2, <2>1, <2>2, <2>3, <2>4, <3>1 DEF Leaves, Request
  <2>. QED
    BY <2>5, <2>6
<1>3. ASSUME Started(c)
      PROVE  Done /\ UNCHANGED <<torrent_vars, file_index>>
  <2>1. Unread(r) /\ (\A i \in Starts : ~Holds(r, i)) /\ Enable(c, r, file_index)
    BY <1>1, <1>3 DEF Started, Unread, ReaderInv, Holds
  <2>2. Leaves(c) /\ priority' \in [Piece -> {1, 4, 7}] /\ reader'[c].pos \in {1, r.pos}
    BY <1>1, <2>1, EnableLeaves
  <2>. QED
    BY <1>1, <1>3, <2>2 DEF Started
<1>4. ASSUME Buffered(c) \/ Opened(c)
      PROVE  Done /\ UNCHANGED <<torrent_vars, file_index>>
  <2>1. Unread(r) /\ (\A i \in Starts : ~Holds(r, i)) /\ Open(c, r, file_index)
    BY <1>1, <1>4 DEF Buffered, Opened, Unread, ReaderInv, Holds
  <2>2. Leaves(c) /\ reader'[c].pos = r.pos
    BY <1>1, <2>1, OpenLeaves
  <2>. QED
    BY <1>1, <1>4, <2>2 DEF Buffered, Opened
<1>5. ASSUME Prepared(c)
      PROVE  Done /\ UNCHANGED <<torrent_vars, file_index>>
  <2>1. r.at = "preparing" /\ r.pos <= FileLen /\ Read(c, r, TRUE)
    BY <1>1, <1>5 DEF Prepared, ReaderInv
  <2>. QED
    BY <1>1, <1>5, <2>1, ReadLeaves DEF Prepared, OnFile
<1>6. ASSUME ReadDone(c)
      PROVE  Done /\ UNCHANGED <<torrent_vars, file_index>>
  <2>. DEFINE q == [r EXCEPT !.at = "writing", !.pos = @ + 1, !.need = {}]
  <2>1. r.at = "reading" /\ r.need \subseteq have /\ r.pos \in 1..FileLen /\ r.start \in Starts
    BY <1>1, <1>6 DEF ReadDone, ReaderInv
  <2>2. PICK f \in File : r.need = BytesToPieces(f, r.pos, r.pos + 1)
    BY <1>1, <2>1 DEF ReaderInv
  <2>3. ByteToPiece(f, r.pos) \in r.need
    BY <2>1, <2>2, ReadsOwnOffset
  <2>4. OnFile(c) => f = r.file
    <3>1. f \in Int /\ r.file \in Int
      BY <1>1 DEF ReaderType, File, None
    <3>2. OnFile(c) => ByteToPiece(f, r.pos) \in PiecesOf(r.file)
      BY <2>1, <2>3 DEF OnFile
    <3>. QED
      BY <2>1, <3>1, <3>2, FilesApart
  <2>5. q \in ReaderType /\ ReaderInv(q) /\ q.start = r.start /\ q.at = "writing"
    <3>1. r.pos + 1 \in 1..(FileLen + 1) /\ q.start = r.start /\ q.at = "writing"
      BY <1>1, <2>1 DEF ReaderType
    <3>2. q \in ReaderType
      BY <1>1, <3>1 DEF ReaderType
    <3>. QED
      BY <2>1, <3>1, <3>2 DEF ReaderInv
  <2>6. Put(c, q) /\ UNCHANGED <<cursor_pieces, priority, torrent_vars, file_index>>
    BY <1>6 DEF ReadDone
  <2>7. reader'[c] = q
    BY <1>1, <2>6 DEF Put
  <2>8. Leaves(c)
    <3>. HIDE DEF q
    <3>. QED
      BY <1>1, <2>1, <2>5, <2>6, <2>7 DEF Leaves, Holds
  <2>. QED
    BY <1>1, <2>1, <2>3, <2>4, <2>6, <2>8
<1>7. ASSUME Written(c)
      PROVE  Done /\ UNCHANGED <<torrent_vars, file_index>>
  <2>1. CASE r.pos > FileLen
    <3>. DEFINE q == [r EXCEPT !.at = "closing"]
    <3>1. /\ Put(c, q) /\ UNCHANGED <<cursor_pieces, priority, torrent_vars, file_index>>
          /\ r.at = "writing" /\ r.start \in Starts
      BY <1>1, <1>7, <2>1 DEF Written, ReaderInv
    <3>2. q \in ReaderType /\ ReaderInv(q) /\ q.start = r.start /\ q.at = "closing" /\ q.pos = r.pos
      BY <1>1, <3>1 DEF ReaderType, ReaderInv
    <3>3. reader'[c] = q
      BY <1>1, <3>1 DEF Put
    <3>. HIDE DEF q
    <3>. QED
      BY <1>1, <3>1, <3>2, <3>3 DEF Leaves, Holds
  <2>2. CASE r.pos <= FileLen
    <3>1. r.at = "writing" /\ Read(c, r, Registered(r))
      BY <1>1, <1>7, <2>2 DEF Written
    <3>2. Registered(r) \in BOOLEAN /\ (Registered(r) \/ cursor_pieces[r.start] = NoEntry)
      BY DEF Registered
    <3>3. /\ Leaves(c) /\ priority' \in [Piece -> {1, 4, 7}]
          /\ reader'[c].pos = r.pos + 1 => ByteToPiece(file_index, r.pos) \in have
      BY <1>1, <2>2, <3>1, <3>2, ReadLeaves
    <3>. QED
      BY <1>1, <1>7, <3>1, <3>3 DEF Written, OnFile
  <2>. QED
    BY <1>1, <2>1, <2>2
<1>8. ASSUME Disconnected(c)
      PROVE  Done /\ UNCHANGED <<torrent_vars, file_index>>
  <2>. DEFINE q == [r EXCEPT !.at = "closing"]
  <2>1. /\ Put(c, q) /\ UNCHANGED <<cursor_pieces, priority, torrent_vars, file_index>>
        /\ r.at \in {"preparing", "writing"} /\ r.start \in Starts
    BY <1>1, <1>8 DEF Disconnected, ReaderInv
  <2>2. q \in ReaderType /\ ReaderInv(q) /\ q.start = r.start /\ q.at = "closing" /\ q.pos = r.pos
    BY <1>1, <2>1 DEF ReaderType, ReaderInv
  <2>3. reader'[c] = q
    BY <1>1, <2>1 DEF Put
  <2>. HIDE DEF q
  <2>. QED
    BY <1>1, <2>1, <2>2, <2>3 DEF Leaves, Holds
<1>9. ASSUME Close(c)
      PROVE  Done /\ UNCHANGED <<torrent_vars, file_index>>
  <2>1. /\ r.at = "closing" /\ r.start \in Starts
        /\ Put(c, IdleReader) /\ UNCHANGED <<torrent_vars, file_index>>
        /\ cursor_pieces' = [cursor_pieces EXCEPT ![r.start] = NoEntry]
    BY <1>1, <1>9 DEF Close, Unregistered, ReaderInv
  <2>2. priority' \in [Piece -> {1, 4, 7}]
    BY <1>1, <1>9, PrioritiesType DEF Close, PlaybackInv
  <2>3. IdleReader \in ReaderType /\ ReaderInv(IdleReader) /\ IdleReader.pos = 1
    BY IdleReaderInv DEF IdleReader
  <2>4. reader'[c] = IdleReader
    BY <1>1, <2>1 DEF Put
  <2>5. cursor_pieces' \in [Starts -> (SUBSET Piece) \cup {NoEntry}]
    BY <1>1, <2>1, FewerCursors
  <2>6. \A o \in Entries(cursor_pieces') : o # r.start /\ o \in Entries(cursor_pieces)
    <3>1. Entries(cursor_pieces') = Entries(cursor_pieces) \ {r.start}
      BY <1>1, <2>1, FewerCursors
    <3>. QED
      BY <3>1
  <2>. QED
    <3>1. Leaves(c)
      BY <2>1, <2>3, <2>4, <2>5, <2>6 DEF Leaves, Holds
    <3>. QED
      BY <1>1, <2>1, <2>2, <2>3, <2>4, <3>1
<1>10. /\ Done /\ file_index' \in File
       /\ UNCHANGED <<have, runs, gone, listed>> /\ streamed' \in {streamed, TRUE}
  <2>1. CASE \E f \in File, o \in Starts : Request(c, f, o)
    <3>. HIDE DEF Done
    <3>. QED
      BY <1>2, <2>1
  <2>2. CASE Steps(c) \/ Disconnected(c)
    <3>1. Done /\ UNCHANGED <<torrent_vars, file_index>>
      <4>. HIDE DEF Done
      <4>. QED
        BY <1>3, <1>4, <1>5, <1>6, <1>7, <1>8, <1>9, <2>2 DEF Steps
    <3>2. file_index' \in File /\ UNCHANGED <<have, runs, gone, listed, streamed>>
      BY <1>1, <3>1 DEF torrent_vars
    <3>. HIDE DEF Done
    <3>. QED
      BY <3>1, <3>2
  <2>. QED
    BY <2>1, <2>2
<1>11. PlaybackInv'
  BY <1>10, LeavesInv
<1>12. \A b \in Reader \ {c} : reader'[b] = reader[b] /\ reader[b].pos \in Int
  BY <1>1, <1>10 DEF Leaves, Put, ReaderType
<1>. QED
  BY <1>10, <1>11, <1>12

\* What libtorrent does to the download and what is done to it from outside.
LEMMA DownloadStep ==
    ASSUME PlaybackInv, PieceFinished \/ PieceLost \/ Stop \/ Resumed \/ Remove
    PROVE  PlaybackInv' /\ reader' = reader
<1>1. reader' = reader /\ file_index' = file_index
  BY DEF PieceFinished, PieceLost, Stop, Resumed, Remove
<1>2. (cursor_pieces' = cursor_pieces /\ priority' = priority) \/ StreamClosed
  BY DEF PieceFinished, PieceLost, Stop, Resumed, Remove
<1>3. /\ have' \subseteq Piece /\ runs' \in BOOLEAN /\ gone' \in BOOLEAN /\ listed' \in BOOLEAN
      /\ streamed' \in BOOLEAN
  BY DEF PlaybackInv, PlaybackTypeOK, PieceFinished, PieceLost, Stop, Resumed, Remove
<1>4. /\ cursor_pieces' \in [Starts -> (SUBSET Piece) \cup {NoEntry}]
      /\ Entries(cursor_pieces') \subseteq Entries(cursor_pieces)
  BY <1>2, FewerCursors DEF PlaybackInv, PlaybackTypeOK, StreamClosed
<1>5. priority' \in [Piece -> {1, 4, 7}]
  BY <1>2, PrioritiesType DEF PlaybackInv, PlaybackTypeOK, StreamClosed
<1>. QED
  BY <1>1, <1>3, <1>4, <1>5 DEF PlaybackInv, PlaybackTypeOK, NoOrphanCursor

\* At first no connection is open.
LEMMA PlaybackInit_Inv == PlaybackInit => PlaybackInv
<1>. SUFFICES ASSUME PlaybackInit PROVE PlaybackInv
  OBVIOUS
<1>1. IdleReader \in ReaderType /\ ReaderInv(IdleReader)
  BY IdleReaderInv
<1>2. \A c \in Reader : reader[c] = IdleReader
  BY DEF PlaybackInit
<1>3. Entries(cursor_pieces) = {}
  BY DEF PlaybackInit, Forgotten, Entries
<1>4. PlaybackTypeOK
  <2>1. reader \in [Reader -> ReaderType]
    BY <1>1 DEF PlaybackInit
  <2>2. file_index \in File
    BY SizeAssumption DEF PlaybackInit, File
  <2>. QED
    BY <2>1, <2>2, FewerCursors DEF PlaybackInit, PlaybackTypeOK, ReaderType
<1>. QED
  BY <1>1, <1>2, <1>3, <1>4 DEF PlaybackInv, NoOrphanCursor

\* A step only reads pieces that are complete.
Complete == \A c \in Reader : reader'[c].pos = reader[c].pos + 1 /\ OnFile(c)
                => ByteToPiece(reader[c].file, reader[c].pos) \in have

\* No step breaks the invariant or reads what is not there.
LEMMA PlaybackStep == PlaybackInv /\ [PlaybackNext]_playback_vars => PlaybackInv' /\ Complete
<1>. SUFFICES ASSUME PlaybackInv, [PlaybackNext]_playback_vars
              PROVE  PlaybackInv' /\ Complete
  OBVIOUS
<1>0. \A c \in Reader : reader[c].pos \in Int
  BY DEF PlaybackInv, PlaybackTypeOK
<1>1. ASSUME NEW c \in Reader,
             (\E f \in File, o \in Starts : Request(c, f, o)) \/ Steps(c) \/ Disconnected(c)
      PROVE  PlaybackInv' /\ Complete
  BY <1>1, ConnectionStep DEF Complete
<1>2. CASE PieceFinished \/ PieceLost \/ Stop \/ Resumed \/ Remove
  BY <1>0, <1>2, DownloadStep DEF Complete
<1>3. CASE UNCHANGED playback_vars
  BY <1>0, <1>3 DEF playback_vars, PlaybackInv, PlaybackTypeOK, NoOrphanCursor, Complete
<1>. QED
  BY <1>1, <1>2, <1>3 DEF PlaybackNext

\* Every variable of Playback keeps its shape.
THEOREM PlaybackTyped == PlaybackSpec => []PlaybackTypeOK
<1>1. PlaybackInv => PlaybackTypeOK
  BY DEF PlaybackInv
<1>. QED
  BY <1>1, PlaybackInit_Inv, PlaybackStep, PTL DEF PlaybackSpec

\* Stream.cursor_pieces only has entries of connections that are still open, and
\* StreamReader.close of these drops them.
THEOREM CursorsOwned == PlaybackSpec => []NoOrphanCursor
<1>1. PlaybackInv => NoOrphanCursor
  BY DEF PlaybackInv
<1>. QED
  BY <1>1, PlaybackInit_Inv, PlaybackStep, PTL DEF PlaybackSpec

\* StreamReader.read returns complete pieces when it waited for the pieces of its file,
\* whatever other connections, rechecks, stops and removals do meanwhile.
THEOREM ReadsComplete == PlaybackSpec => ReadsAreComplete
<1>1. PlaybackInv /\ [PlaybackNext]_playback_vars => [Complete]_playback_vars
  BY PlaybackStep
<1>. QED
  BY <1>1, PlaybackInit_Inv, PlaybackStep, PTL DEF PlaybackSpec, ReadsAreComplete, Complete
=============================================================================
