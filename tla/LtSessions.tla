------------------------------- MODULE LtSessions -------------------------------
(***************************************************************************)
(* download_manager.py: the libtorrent sessions, one per hop count, which  *)
(* threads create while the event loop runs; the limits that the user sets *)
(* for them; and the alerts that one task takes from all of them in turn.  *)
(*                                                                         *)
(* A DHTHealthManager that is attached to the DownloadManager hears of the *)
(* DHT packets of the session without hops through these alerts.  (No code *)
(* in src/ attaches one at this commit; the tests do.)                     *)
(***************************************************************************)
EXTENDS DHTHealth, Sequences, SequencesExt

CONSTANTS
    Hops,         \* keys of ltsessions
    Plain,        \* 0: the session without hops, with the DHT
    Background,   \* -1: the session of lookups, whose real hop count is DefaultHops
    DefaultHops,
    NoServer,     \* hop counts for which the tunnels have no SOCKS5 server
    Schedule,     \* advanced_rate_limits: the limits of this half hour and the next, None: no limit
    Minutes,      \* minutes of a half hour at which limits are set
    None,
    Topics,       \* bound: what a behaviour is about besides sessions, "limits" or "alerts"
    MaxSettings,  \* bound on changes of the settings
    MaxAlerts     \* bound on the alerts that wait in a session

ASSUME LtSessionsAssumption == {Plain, Background, DefaultHops} \subseteq Hops
ASSUME LimitsAssumption == /\ None \notin Int /\ Minutes \subseteq Int
                           /\ {Schedule[1], Schedule[2]} \subseteq Int \cup {None}

VARIABLES
    topic,        \* the one of this behaviour
    stage,        \* of the DownloadManager: "new", "up", "saved", or "raised" by its shutdown
    ltsessions,   \* hops -> the future: "absent", "creating", "done", "failed" or "cancelled"
    order,        \* the keys of ltsessions in their order
    thread,       \* hops -> where create_session is, with the limits it has read
    callbacks,    \* hops -> what waits for the future to be done
    config,       \* the user's limits, and whether use_advanced_rate_limits is on
    applied,      \* hops -> the limits in the libtorrent session
    overwritten,  \* history: sessions whose callbacks a thread has added in the wrong order
    poll,         \* the sessions that _task_process_alerts has not come to
    alerts,       \* external: hops -> the alerts in the libtorrent session
    popped        \* those of the plain session that process_alert has yet to see

sessionVars == <<topic, stage, ltsessions, order, thread, callbacks, config, applied, overwritten>>
alertVars   == <<poll, alerts, popped>>
healthVars  == <<lookup_futures, bf_seeders, bf_peers, outstanding, tasks>>
allVars     == <<sessionVars, alertVars, healthVars, asked>>

Actual(h) == IF h = Background THEN DefaultHops ELSE h
NoThread  == [at |-> "none", read |-> [limits |-> 0, advanced |-> FALSE], keys |-> 0]

Over == {"done", "failed", "cancelled"}

\* Every variable keeps its shape.
SessionsTypeOK ==
    /\ topic \in Topics /\ stage \in {"new", "up", "saved", "raised"}
    /\ ltsessions \in [Hops -> Over \cup {"absent", "creating"}]
    /\ order \in Seq(Hops) /\ poll \in Seq(Hops)
    /\ \A h \in Hops : /\ thread[h].at \in {"none", "building", "limits", "returning"}
                       /\ DOMAIN applied[h] = {"limits", "rate"}
                       /\ Len(alerts[h]) <= MaxAlerts
    /\ config.advanced \in BOOLEAN /\ overwritten \subseteq Hops /\ Len(popped) <= MaxAlerts

\* Nothing else of the event loop runs between the alerts of one pop_alerts, nor before the
\* callbacks of a future that is over.
Idle == popped = <<>> /\ \A h \in Hops : ltsessions[h] \in Over => callbacks[h] = <<>>

SessionsInit ==
    /\ Init
    /\ topic \in Topics
    /\ stage = "new" /\ order = <<>>
    /\ config = [limits |-> 0, advanced |-> FALSE]
    /\ ltsessions = [h \in Hops |-> "absent"] /\ callbacks = [h \in Hops |-> <<>>]
    /\ thread = [h \in Hops |-> NoThread]
    /\ applied = [h \in Hops |-> [limits |-> None, rate |-> None]]
    /\ overwritten = {}
    /\ poll = <<>> /\ alerts = [h \in Hops |-> <<>>] /\ popped = <<>>
-----------------------------------------------------------------------------
(***************************************************************************)
(* Limits.                                                                 *)
(***************************************************************************)
\* The plain rate that belongs to the user's limits; it is none of the scheduled ones.
PlainRate(limits) == 100 + limits

\* _user_rate_limit_to_value: between the limit of this half hour and the next.
UserRate(ua, ub, minute) ==
    IF ua = None /\ ub = None THEN 0
    ELSE LET a == IF ua = None THEN 1 ELSE ua
             b == IF ub = None THEN 1 ELSE ub
         IN  (30 * a + minute * (b - a)) \div 30

Rates == {UserRate(Schedule[1], Schedule[2], minute) : minute \in Minutes}

Now == [limits |-> None, rate |-> None]

\* What set_session_limits asks of a session; without a rate when the schedule sets it.
Limits(c)   == [limits |-> c.limits, rate |-> IF c.advanced THEN None ELSE PlainRate(c.limits)]
Scheduled   == {[limits |-> None, rate |-> r] : r \in Rates}

\* process_advanced_rate_limits: every session that exists gets the scheduled rate.
Advanced(c, cb, keys) ==
    IF ~c.advanced THEN {cb}
    ELSE {[h \in Hops |-> IF h \in keys THEN Append(cb[h], s) ELSE cb[h]] : s \in Scheduled}

\* The settings endpoint, which passes the limits on to every session that exists.
BugTargets(keys) == {h \in keys : ltsessions[h] = "done"}
Targets(keys)    == keys
UpdateSettings(c) ==
    /\ Idle /\ stage = "up" /\ topic = "limits" /\ c.limits = config.limits + 1 /\ c.limits <= MaxSettings
    /\ config' = c
    /\ LET keys == ToSet(order)
           cb == [h \in Hops |-> IF h \in Targets(keys) THEN Append(callbacks[h], Limits(c)) ELSE callbacks[h]]
       IN  callbacks' \in Advanced(c, cb, keys)
    /\ overwritten' = {}
    /\ UNCHANGED <<topic, stage, ltsessions, order, thread, applied, alertVars, healthVars, asked>>

\* Every five minutes; bound: not twice while a session is being created.
ProcessAdvancedRateLimits ==
    /\ Idle /\ stage = "up" /\ config.advanced
    /\ \A h \in Hops, s \in Scheduled : ~Contains(callbacks[h], s)
    /\ callbacks' \in Advanced(config, callbacks, ToSet(order))
    /\ UNCHANGED <<topic, stage, ltsessions, order, thread, config, applied, overwritten, alertVars,
                   healthVars, asked>>

\* The callbacks of a future that is over, in the order in which they were added; Now calls
\* set_session_limits for this session.  They raise if there is no session.
Update(settings, c) == [limits |-> IF c.limits = None THEN settings.limits ELSE c.limits,
                        rate   |-> IF c.rate = None THEN settings.rate ELSE c.rate]
Sequel(h) == IF ltsessions[h] = "done" /\ Head(callbacks[h]) = Now
             THEN Advanced(config, [callbacks EXCEPT ![h] = Append(Tail(@), Limits(config))], ToSet(order))
             ELSE {[callbacks EXCEPT ![h] = Tail(@)]}
SetSessionSettings(h) ==
    /\ ltsessions[h] \in Over /\ callbacks[h] # <<>>
    /\ applied' = IF ltsessions[h] # "done" THEN applied
                  ELSE [applied EXCEPT ![h] = Update(@, Head(callbacks[h]))]
    /\ callbacks' \in Sequel(h)
    /\ UNCHANGED <<topic, stage, ltsessions, order, thread, config, overwritten, alertVars, healthVars, asked>>
-----------------------------------------------------------------------------
(***************************************************************************)
(* Sessions.                                                               *)
(***************************************************************************)
Create(h) == /\ ltsessions[h] = "absent"
             /\ ltsessions' = [ltsessions EXCEPT ![h] = "creating"]
             /\ order' = Append(order, h)
             /\ thread' = [thread EXCEPT ![h].at = "building"]

\* initialize.
Initialize ==
    /\ stage = "new" /\ stage' = "up"
    /\ Create(Background)
    /\ callbacks' = [callbacks EXCEPT ![Background] = <<Now>>]
    /\ UNCHANGED <<topic, config, applied, overwritten, alertVars, healthVars, asked>>

\* get_session, of a session that nobody has asked for yet.
GetSession(h) ==
    /\ Idle /\ stage = "up" /\ (topic = "alerts" => h = Plain)
    /\ Create(h)
    /\ UNCHANGED <<topic, stage, callbacks, config, applied, overwritten, alertVars, healthVars, asked>>

\* create_session, in its thread.  There may be no SOCKS5 server for so many hops.
Fail(h) == /\ ltsessions' = [ltsessions EXCEPT ![h] = IF @ = "creating" THEN "failed" ELSE @]
           /\ thread' = [thread EXCEPT ![h] = NoThread]

Proxied(h) ==
    /\ thread[h].at = "building"
    /\ IF Actual(h) \in NoServer THEN Fail(h)
       ELSE /\ thread' = [thread EXCEPT ![h] = [at |-> "limits", read |-> config, keys |-> Len(order)]]
            /\ UNCHANGED ltsessions
    /\ UNCHANGED <<topic, stage, order, callbacks, config, applied, overwritten, alertVars, healthVars, asked>>

\* set_session_limits(hops) there: the callback of the session with the actual hop count,
\* if there is one, gets what was read.  A session that is added to the dictionary while the
\* thread runs over it makes create_session raise.
SetLimitsInThread(h) ==
    LET keys == {Actual(h)} \cap ToSet(order)
        read == thread[h].read
        cb   == [g \in Hops |-> IF g \in keys THEN Append(callbacks[g], Limits(read)) ELSE callbacks[g]]
    IN
    /\ thread[h].at = "limits"
    /\ thread' = [thread EXCEPT ![h].at = "returning"]
    /\ callbacks' \in Advanced(config, cb, ToSet(order))
    /\ overwritten' = IF read = config THEN overwritten ELSE overwritten \cup keys
    /\ UNCHANGED <<topic, stage, ltsessions, order, config, applied, alertVars, healthVars, asked>>

DictionaryChanged(h) ==
    /\ thread[h].at = "limits" /\ Len(order) # thread[h].keys
    /\ Fail(h)
    /\ UNCHANGED <<topic, stage, order, callbacks, config, applied, overwritten, alertVars, healthVars, asked>>

Created(h) ==
    /\ Idle /\ thread[h].at = "returning"
    /\ thread' = [thread EXCEPT ![h] = NoThread]
    /\ ltsessions' = [ltsessions EXCEPT ![h] = IF @ = "creating" THEN "done" ELSE @]
    /\ UNCHANGED <<topic, stage, order, callbacks, config, applied, overwritten, alertVars, healthVars, asked>>

\* shutdown_task_manager cancels the futures; then the state of the plain session is saved,
\* or awaiting its cancelled future raises.
ShutDown ==
    /\ Idle /\ stage = "up"
    /\ ltsessions' = [h \in Hops |-> IF ltsessions[h] = "creating" THEN "cancelled" ELSE ltsessions[h]]
    /\ stage' = IF ltsessions'[Plain] \in {"failed", "cancelled"} THEN "raised" ELSE "saved"
    /\ poll' = <<>>
    /\ UNCHANGED <<topic, order, thread, callbacks, config, applied, overwritten, alerts, popped, healthVars, asked>>
-----------------------------------------------------------------------------
(***************************************************************************)
(* Alerts.                                                                 *)
(***************************************************************************)
Post(h, alert) == Len(alerts[h]) < MaxAlerts /\ alerts' = [alerts EXCEPT ![h] = Append(@, alert)]
Running(h) == ltsessions[h] = "done" /\ stage = "up" /\ topic = "alerts"

\* libtorrent: statistics, of any session but the plain one.
PostStats(h) ==
    /\ Running(h) /\ h # Plain
    /\ Post(h, [kind |-> "stats"])
    /\ UNCHANGED <<sessionVars, poll, popped, healthVars, asked>>

\* libtorrent: the packets of the DHT.  That a query is given up is no alert: the manager
\* hears nothing of it.
SendQuery(t, i) ==
    /\ Running(Plain)
    /\ ReuseEarly \/ \A q \in asked : q.tid # t
    /\ asked' = asked \cup {[tid |-> t, infohash |-> i]}
    /\ Post(Plain, [kind |-> "query", of |-> [tid |-> t, infohash |-> i]])
    /\ UNCHANGED <<sessionVars, poll, popped, healthVars>>

Answer(q, seeds, peers) ==
    /\ Running(Plain) /\ q \in asked /\ asked' = asked \ {q}
    /\ Post(Plain, [kind |-> "answer", of |-> q, seeds |-> seeds, peers |-> peers])
    /\ UNCHANGED <<sessionVars, poll, popped, healthVars>>

GiveUp(q) ==
    /\ Running(Plain) /\ q \in asked /\ asked' = asked \ {q}
    /\ Post(Plain, [kind |-> "nothing", of |-> q])
    /\ UNCHANGED <<sessionVars, poll, popped, healthVars>>

\* _task_process_alerts, every second: one session after the other, and each is awaited.
\* An exception ends the round.
StartRound ==
    /\ Idle /\ stage = "up" /\ topic = "alerts" /\ poll = <<>> /\ order # <<>>
    /\ poll' = order
    /\ UNCHANGED <<sessionVars, alerts, popped, healthVars, asked>>

PopAlerts ==
    LET h == Head(poll) IN
    /\ Idle /\ stage = "up" /\ poll # <<>> /\ ltsessions[h] # "creating"
    /\ IF ltsessions[h] = "failed" THEN poll' = <<>> /\ UNCHANGED <<alerts, popped>>
       ELSE /\ poll' = Tail(poll)
            /\ alerts' = [alerts EXCEPT ![h] = <<>>]
            /\ popped' = IF h = Plain THEN alerts[h] ELSE <<>>
    /\ UNCHANGED <<sessionVars, healthVars, asked>>

\* process_alert of a packet.
NextAlert == Head(popped)
BugRest == <<>>
Rest    == Tail(popped)

HearQuery ==
    /\ popped # <<>> /\ NextAlert.kind = "query"
    /\ popped' = Rest
    /\ outstanding' = Overheard(NextAlert.of.tid, NextAlert.of.infohash)
    /\ UNCHANGED <<sessionVars, poll, alerts, lookup_futures, bf_seeders, bf_peers, tasks, asked>>

HearAnswer ==
    LET a == NextAlert
        i == outstanding[a.of.tid]
    IN
    /\ popped # <<>> /\ a.kind = "answer"
    /\ popped' = Rest
    /\ IF i = NoInfohash THEN UNCHANGED <<bf_seeders, bf_peers>>
       ELSE /\ bf_seeders' = [bf_seeders EXCEPT ![i] = Combine(@, {a.of.infohash} \X a.seeds)]
            /\ bf_peers' = [bf_peers EXCEPT ![i] = Combine(@, {a.of.infohash} \X a.peers)]
    /\ UNCHANGED <<sessionVars, poll, alerts, lookup_futures, outstanding, tasks, asked>>

HearNothing ==
    /\ popped # <<>> /\ NextAlert.kind = "nothing"
    /\ popped' = Rest
    /\ UNCHANGED <<sessionVars, poll, alerts, healthVars, asked>>

\* The torrent checker's calls and the timers.
Lookup(A) == Idle /\ Running(Plain) /\ A /\ UNCHANGED <<sessionVars, alertVars>>
-----------------------------------------------------------------------------
SessionsNext ==
    \/ Initialize \/ ShutDown
    \/ \E c \in [limits : 1 .. MaxSettings, advanced : BOOLEAN] : UpdateSettings(c)
    \/ ProcessAdvancedRateLimits
    \/ \E h \in Hops :
          \/ GetSession(h) \/ SetSessionSettings(h)
          \/ Proxied(h) \/ SetLimitsInThread(h) \/ DictionaryChanged(h) \/ Created(h)
          \/ PostStats(h)
    \/ \E t \in Transaction, i \in Infohash : SendQuery(t, i)
    \/ \E q \in asked : GiveUp(q) \/ \E bits \in SUBSET Peer : Answer(q, bits, bits)
    \/ StartRound \/ PopAlerts \/ HearQuery \/ HearAnswer \/ HearNothing
    \/ \E i \in Infohash : Lookup(GetHealth(i)) \/ Lookup(CancelLookup(i))
    \/ \E n \in TaskName : Lookup(FinalizeLookup(n))

SessionsSpec == SessionsInit /\ [][SessionsNext]_allVars

\* Threads run, and so do the callbacks and the periodic task of the event loop.
SessionsFairness ==
    /\ \A h \in Hops : /\ WF_allVars(Proxied(h) \/ SetLimitsInThread(h) \/ Created(h))
                       /\ WF_allVars(SetSessionSettings(h))
    /\ WF_allVars(StartRound) /\ WF_allVars(PopAlerts)
    /\ WF_allVars(HearQuery \/ HearAnswer \/ HearNothing)

FairSessionsSpec == SessionsSpec /\ SessionsFairness
-----------------------------------------------------------------------------
\* The refinement mapping: a query that the manager has heard of, and whose end it has not.
\* That is what the first alert about its id says, or libtorrent, if none is on its way.
First(line, k, t) == line[k].of.tid = t /\ \A j \in 1 .. k - 1 : line[j].of.tid # t
HeardIn(line, out) ==
    {q \in Query :
        /\ \A k \in DOMAIN line : First(line, k, q.tid) => line[k].kind # "query" /\ line[k].of = q
        /\ (\A k \in DOMAIN line : line[k].of.tid # q.tid) => q \in out}
Line  == popped \o alerts[Plain]
Heard == HeardIn(Line, asked)

\* Behind the queue of alerts, which are heard up to a second late while lookups start and
\* end, the manager does what it does when it hears the packets at once (process_alert,
\* _task_process_alerts).
Health == INSTANCE DHTHealth WITH asked <- Heard
HealthBehindAlerts == Health!Spec

\* Once its callbacks have run, a session has the limits that the user has set last, whether
\* it existed then, was being created, or did not exist (set_session_limits, create_session);
\* unless its thread read the limits before, and passed them on after the change.
LimitsAreCurrent ==
    \A h \in Hops : ltsessions[h] = "done" /\ callbacks[h] = <<>> /\ h \notin overwritten =>
        /\ applied[h].limits = config.limits
        /\ applied[h].rate \in IF config.advanced THEN Rates ELSE {PlainRate(config.limits)}

\* Refuted: a session that cannot be created, because there is no SOCKS5 server for it or
\* because the dictionary changed under its thread, keeps the alerts of all that come after it.
AlertsAreTaken ==
    \A h \in Hops : (alerts[h] # <<>>) ~> (alerts[h] = <<>> \/ stage # "up")

\* Refuted: the thread that creates a session overwrites newer limits with older ones.
NoLimitIsOverwritten == overwritten = {}

\* Refuted: shutdown raises when it comes while the plain session is being created.
ShutdownIsWhole == stage # "raised"

\* Refuted: "For interpolation between non-infinites or with one infinite, we use the max
\* download limit": an hour without a limit beside one with a limit counts as 1 byte a second.
InfiniteIsMax ==
    \A ub \in 2 .. 3 : UserRate(None, ub, 0) >= ub
=============================================================================
