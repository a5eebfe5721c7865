----------------------------- MODULE SessionProofs -----------------------------
(***************************************************************************)
(* For any processes, clients, messages, crashes and restarts: what a      *)
(* process sends to the core that it found has the key that its server asks*)
(* for, unless the configuration was changed since; clients that stay are  *)
(* listed, and get every message from their first on.                      *)
(*                                                                         *)
(* The first rests on whose configuration is in the file and in memory     *)
(* (KeysInv), the others on where the writer of the event streams stands   *)
(* (StreamsInv, WriterInv).                                                *)
(***************************************************************************)
EXTENDS Session, TLAPS

USE SessionAssumption
-----------------------------------------------------------------------------
(***************************************************************************)
(* Keys.                                                                   *)
(***************************************************************************)
ConfigType == [key : Proc \cup Key \cup {None}, port : Proc \cup {None}]

KeysType == /\ memory \in [Proc -> ConfigType] /\ file \in ConfigType
            /\ api_key \in [Proc -> Proc \cup Key \cup {None}]
            /\ environ \in [Proc -> Key \cup {None}]
            /\ target \in [Proc -> Proc \cup {None}]
            /\ changed \subseteq Proc /\ outdated \subseteq Proc
            /\ at \in [Proc -> {"off", "keyless", "finding", "delivering", "rest", "components",
                                "downloads", "running", "checker", "overlays", "saving",
                                "metadata", "dark"}]

\* A port comes with a key, in the file and wherever the file is read.
PortHasKey(conf) == conf.port # None => conf.key # None

\* It is the one that the core at this port asks for, in a file that nobody changed, and for
\* every process that read it.
KeysMatch ==
    /\ PortHasKey(file)
    /\ file.port \notin {None} \cup changed => api_key[file.port] = file.key
    /\ \A p \in Proc : /\ PortHasKey(memory[p])
                       /\ p \notin outdated /\ memory[p].port \notin {None, p} =>
                              api_key[memory[p].port] = memory[p].key

\* Where a process stands says what it knows, and what its own server asks for.
Steps ==
    \A p \in Proc : /\ at[p] = "keyless" => memory[p].key = None
                    /\ at[p] \in {"keyless", "finding", "delivering", "rest"} => memory[p].key = api_key[p]
                    /\ at[p] \in {"finding", "delivering", "rest"} => memory[p].key # None
                    /\ at[p] = "delivering" => target[p] = memory[p].port /\ target[p] # None
                    /\ Serving(p) => /\ memory[p].port = p
                                     /\ p \notin changed => memory[p].key = api_key[p]

KeysInv == KeysType /\ KeysMatch /\ Steps

\* A process reads the configuration, when it is run or restarts itself.
LEMMA ReadKeys ==
    ASSUME KeysInv, NEW p \in Proc, NEW env \in Key \cup {None}, ReadConfig(p, env),
           environ' \in [Proc -> Key \cup {None}],
           target' \in [Proc -> Proc \cup {None}], \A q \in Proc \ {p} : target'[q] = target[q]
    PROVE  KeysInv'
<1>. DEFINE conf    == Configured(p, env)
            mixed   == IF conf.key = file.key THEN changed ELSE changed \cup ({conf.port} \ {p, None})
            holders == {q \in Proc : memory[q].port = p}
<1>1. /\ memory' = [memory EXCEPT ![p] = conf] /\ file' = conf
      /\ api_key' = [api_key EXCEPT ![p] = conf.key]
      /\ changed' = mixed
      /\ outdated' = IF conf.port \in mixed \ {p} THEN outdated \cup {p} \cup holders
                     ELSE (outdated \cup holders) \ {p}
      /\ at' = [at EXCEPT ![p] = IF conf.key = None THEN "keyless" ELSE "finding"]
  BY DEF ReadConfig, Go, NeedsKey, Build
<1>2. /\ conf \in ConfigType /\ conf.port = file.port
      /\ conf.key # file.key => conf.key \in Key
      /\ PortHasKey(conf)
  <2>1. file \in ConfigType /\ PortHasKey(file)
    BY DEF KeysInv, KeysType, KeysMatch
  <2>2. CASE env = None
    BY <2>1, <2>2 DEF Configured
  <2>3. CASE env # None
    <3>1. conf = [file EXCEPT !.key = env] /\ env \in Key
      BY <2>3 DEF Configured
    <3>2. conf \in ConfigType /\ conf.key = env /\ conf.port = file.port
      BY <2>1, <3>1 DEF ConfigType
    <3>. QED
      BY <2>3, <3>1, <3>2 DEF PortHasKey
  <2>. QED
    BY <2>2, <2>3
<1>. HIDE DEF conf
<1>3. KeysType'
  <2>1. mixed \subseteq Proc /\ holders \subseteq Proc
    BY <1>2 DEF KeysInv, KeysType, ConfigType
  <2>2. changed' \subseteq Proc /\ outdated' \subseteq Proc
    BY <1>1, <2>1 DEF KeysInv, KeysType
  <2>3. conf.key \in Proc \cup Key \cup {None}
    BY <1>2 DEF ConfigType
  <2>4. /\ memory' \in [Proc -> ConfigType] /\ file' \in ConfigType
        /\ api_key' \in [Proc -> Proc \cup Key \cup {None}]
    BY <1>1, <1>2, <2>3 DEF KeysInv, KeysType
  <2>5. at' \in [Proc -> {"off", "keyless", "finding", "delivering", "rest", "components",
                          "downloads", "running", "checker", "overlays", "saving",
                          "metadata", "dark"}]
    BY <1>1 DEF KeysInv, KeysType
  <2>. QED
    BY <2>2, <2>4, <2>5 DEF KeysType
<1>4. /\ memory'[p] = conf /\ api_key'[p] = conf.key
      /\ at'[p] = (IF conf.key = None THEN "keyless" ELSE "finding")
      /\ \A q \in Proc \ {p} : memory'[q] = memory[q] /\ api_key'[q] = api_key[q] /\ at'[q] = at[q]
      /\ conf.port \in Proc \cup {None} /\ \A q \in Proc : memory[q].port \in Proc \cup {None}
  BY <1>1, <1>2 DEF KeysInv, KeysType, ConfigType
<1>5. changed \subseteq changed'
  BY <1>1
\* The key of another core is the file's only if nobody changed it, this process included.
<1>6. conf.port \notin {None, p} \cup changed' => api_key'[conf.port] = conf.key
  <2>. SUFFICES ASSUME conf.port \notin {None, p} \cup changed' PROVE api_key'[conf.port] = conf.key
    OBVIOUS
  <2>1. conf.key = file.key /\ file.port \notin {None} \cup changed
    BY <1>1, <1>2
  <2>2. api_key[file.port] = file.key
    BY <2>1 DEF KeysInv, KeysMatch
  <2>. QED
    BY <1>2, <1>4, <2>1, <2>2
<1>7. conf.port \notin {None} \cup changed' => api_key'[conf.port] = conf.key
  BY <1>4, <1>6
<1>8. ASSUME NEW q \in Proc
      PROVE  /\ PortHasKey(memory'[q])
             /\ q \notin outdated' /\ memory'[q].port \notin {None, q} =>
                    api_key'[memory'[q].port] = memory'[q].key
  <2>1. CASE q = p
    <3>1. p \notin outdated' => conf.port \notin changed' \ {p}
      BY <1>1
    <3>. QED
      BY <1>2, <1>4, <1>6, <2>1, <3>1
  <2>2. CASE q # p
    <3>1. PortHasKey(memory'[q])
      BY <1>4, <2>2 DEF KeysInv, KeysMatch
    <3>2. ASSUME q \notin outdated', memory[q].port \notin {None, q}
          PROVE  api_key'[memory[q].port] = memory[q].key
      <4>1. q \notin outdated /\ memory[q].port # p
        BY <1>1, <2>2, <3>2
      <4>2. api_key[memory[q].port] = memory[q].key
        BY <3>2, <4>1 DEF KeysInv, KeysMatch
      <4>. QED
        BY <1>4, <3>2, <4>1, <4>2
    <3>. QED
      BY <1>4, <2>2, <3>1, <3>2
  <2>. QED
    BY <2>1, <2>2
<1>9. KeysMatch'
  BY <1>1, <1>2, <1>7, <1>8 DEF KeysMatch
<1>10. Steps'
  <2>1. ASSUME NEW q \in Proc, q # p
        PROVE  /\ at'[q] = "keyless" => memory'[q].key = None
               /\ at'[q] \in {"keyless", "finding", "delivering", "rest"} => memory'[q].key = api_key'[q]
               /\ at'[q] \in {"finding", "delivering", "rest"} => memory'[q].key # None
               /\ at'[q] = "delivering" => target'[q] = memory'[q].port /\ target'[q] # None
               /\ Serving(q)' => /\ memory'[q].port = q
                                 /\ q \notin changed' => memory'[q].key = api_key'[q]
    BY <1>4, <1>5, <2>1 DEF KeysInv, Steps, Serving
  <2>. QED
    BY <1>4, <2>1 DEF Steps, Serving
<1>. QED
  BY <1>3, <1>9, <1>10 DEF KeysInv

\* A key is made and written.
LEMMA MakeKeys ==
    ASSUME KeysInv, NEW p \in Proc, MakeKey(p)
    PROVE  KeysInv'
<1>1. /\ at[p] = "keyless" /\ at' = [at EXCEPT ![p] = "finding"]
      /\ memory' = [memory EXCEPT ![p].key = p] /\ file' = memory'[p]
      /\ api_key' = [api_key EXCEPT ![p] = p]
      /\ UNCHANGED <<changed, outdated, target, environ>>
  BY DEF MakeKey, Go, Build, inputs
<1>2. memory[p].key = None /\ memory[p].port = None /\ api_key[p] = None
  BY <1>1 DEF KeysInv, KeysMatch, Steps, PortHasKey
<1>3. /\ memory'[p].key = p /\ memory'[p].port = None /\ memory'[p] \in ConfigType
      /\ api_key'[p] = p
      /\ \A q \in Proc \ {p} : memory'[q] = memory[q] /\ api_key'[q] = api_key[q]
  BY <1>1, <1>2 DEF KeysInv, KeysType, ConfigType
<1>4. KeysType'
  <2>1. memory' \in [Proc -> ConfigType] /\ api_key' \in [Proc -> Proc \cup Key \cup {None}]
    BY <1>1, <1>3 DEF KeysInv, KeysType
  <2>. QED
    BY <1>1, <1>3, <2>1 DEF KeysInv, KeysType
<1>5. \A q \in Proc : /\ memory[q].port \in Proc \cup {None} /\ PortHasKey(memory[q])
                      /\ q \notin outdated /\ memory[q].port \notin {None, q} =>
                             api_key[memory[q].port] = memory[q].key /\ memory[q].port # p
  BY <1>2 DEF KeysInv, KeysType, ConfigType, KeysMatch, PortHasKey
<1>6. KeysMatch'
  <2>1. PortHasKey(file') /\ file'.port = None
    BY <1>1, <1>3 DEF PortHasKey
  <2>2. \A q \in Proc : PortHasKey(memory'[q])
    BY <1>3, <1>5 DEF PortHasKey
  <2>3. ASSUME NEW q \in Proc, q \notin outdated', memory'[q].port \notin {None, q}
        PROVE  api_key'[memory'[q].port] = memory'[q].key
    <3>1. q # p /\ memory'[q] = memory[q]
      BY <1>3, <2>3
    <3>. QED
      BY <1>1, <1>3, <1>5, <2>3, <3>1
  <2>. QED
    BY <2>1, <2>2, <2>3 DEF KeysMatch
<1>7. Steps'
  BY <1>1, <1>3 DEF KeysInv, KeysType, Steps, Serving
<1>. QED
  BY <1>4, <1>6, <1>7 DEF KeysInv

\* A process becomes the core, and writes its port and its key.
LEMMA StartKeys ==
    ASSUME KeysInv, NEW p \in Proc, StartRest(p)
    PROVE  KeysInv'
<1>1. /\ at[p] = "rest" /\ at' = [at EXCEPT ![p] = "components"]
      /\ memory' = [memory EXCEPT ![p].port = p] /\ file' = memory'[p]
      /\ changed' = changed \ {p}
      /\ UNCHANGED <<api_key, outdated, target, environ>>
  BY DEF StartRest, Go, inputs
<1>2. memory[p].key # None /\ memory[p].key = api_key[p]
  BY <1>1 DEF KeysInv, Steps
<1>3. /\ memory'[p].port = p /\ memory'[p].key = memory[p].key /\ memory'[p] \in ConfigType
      /\ \A q \in Proc \ {p} : memory'[q] = memory[q]
  BY <1>1 DEF KeysInv, KeysType, ConfigType
<1>4. KeysType'
  <2>1. memory' \in [Proc -> ConfigType]
    BY <1>1, <1>3 DEF KeysInv, KeysType
  <2>. QED
    BY <1>1, <1>3, <2>1 DEF KeysInv, KeysType
<1>5. KeysMatch'
  BY <1>1, <1>2, <1>3 DEF KeysInv, KeysMatch, PortHasKey
<1>6. Steps'
  BY <1>1, <1>2, <1>3 DEF KeysInv, KeysType, Steps, Serving
<1>. QED
  BY <1>4, <1>5, <1>6 DEF KeysInv

\* A core writes its settings, maybe with another key.
LEMMA SettingsKeys ==
    ASSUME KeysInv, NEW p \in Proc, NEW key \in Key \cup {memory[p].key}, SettingsWritten(p, key)
    PROVE  KeysInv'
<1>1. /\ Serving(p) /\ memory' = [memory EXCEPT ![p].key = key] /\ file' = memory'[p]
      /\ changed' = IF key = memory[p].key THEN changed ELSE changed \cup {p}
      /\ UNCHANGED <<at, environ, api_key, outdated, target>>
  BY DEF SettingsWritten, mainVars, inputs
<1>2. memory[p].port = p /\ (p \notin changed => memory[p].key = api_key[p])
  BY <1>1 DEF KeysInv, Steps
<1>3. memory[p].key # None
  BY <1>2 DEF KeysInv, KeysMatch, PortHasKey
<1>4. /\ memory'[p].port = p /\ memory'[p].key = key /\ memory'[p] \in ConfigType /\ key # None
      /\ \A q \in Proc \ {p} : memory'[q] = memory[q]
  BY <1>1, <1>2, <1>3 DEF KeysInv, KeysType, ConfigType
<1>5. p \notin changed' => key = api_key[p]
  BY <1>1, <1>2
<1>6. KeysType'
  <2>1. memory' \in [Proc -> ConfigType]
    BY <1>1, <1>4 DEF KeysInv, KeysType
  <2>. QED
    BY <1>1, <1>4, <2>1 DEF KeysInv, KeysType
<1>7. KeysMatch'
  BY <1>1, <1>4, <1>5 DEF KeysInv, KeysMatch, PortHasKey
<1>8. Steps'
  BY <1>1, <1>4, <1>5 DEF KeysInv, KeysType, Steps, Serving
<1>. QED
  BY <1>6, <1>7, <1>8 DEF KeysInv

\* Anything else changes no configuration, and finds a core by the port that was read.
LEMMA MoveKeys ==
    ASSUME KeysInv, NEW p \in Proc, NEW step, UNCHANGED <<memory, file, api_key, environ, changed, outdated>>,
           \/ at' = at
           \/ at' = [at EXCEPT ![p] = "off"]
           \/ at[p] = "finding" /\ at' = [at EXCEPT ![p] = "rest"]
           \/ at[p] = "finding" /\ at' = [at EXCEPT ![p] = "delivering"] /\ memory[p].port # None
              /\ target' = [target EXCEPT ![p] = memory[p].port]
           \/ Serving(p) /\ step \in {"downloads", "running", "checker", "overlays", "saving", "metadata", "dark"}
              /\ at' = [at EXCEPT ![p] = step],
           \/ target' = target
           \/ \E q \in Proc, new \in Proc \cup {None} :
                  at'[q] # "delivering" /\ target' = [target EXCEPT ![q] = new]
           \/ target' = [target EXCEPT ![p] = memory[p].port] /\ at'[p] = "delivering"
    PROVE  KeysInv'
<1>1. KeysType'
  BY DEF KeysInv, KeysType, ConfigType, Serving
<1>2. KeysMatch'
  BY DEF KeysInv, KeysMatch
<1>3. Steps'
  BY DEF KeysInv, KeysType, Steps, Serving
<1>. QED
  BY <1>1, <1>2, <1>3 DEF KeysInv

\* Every step keeps each core's key with its port.
THEOREM StepKeys == KeysInv /\ [Next]_vars => KeysInv'
<1>. SUFFICES ASSUME KeysInv, [Next]_vars PROVE KeysInv'
  OBVIOUS
<1>. USE DEF mainVars, inputs, configVars, Go, Fresh
<1>1. ASSUME NEW p \in Proc, NEW t \in Torrent \cup {None}, NEW env \in Key \cup {None}, Run(p, t, env)
      PROVE  KeysInv'
  <2>1. ReadConfig(p, env) /\ target' = target /\ environ' = [environ EXCEPT ![p] = env]
    BY <1>1 DEF Run
  <2>2. environ' \in [Proc -> Key \cup {None}]
    BY <2>1 DEF KeysInv, KeysType
  <2>. QED
    BY <2>1, <2>2, ReadKeys DEF KeysInv, KeysType
<1>2. ASSUME NEW p \in Proc, Start(p) PROVE KeysInv'
  <2>1. CASE MakeKey(p)
    BY <2>1, MakeKeys
  <2>2. CASE FindCore(p)
    <3>1. memory[p].port # None
      BY <2>2 DEF FindCore, Answers
    <3>. QED
      BY <2>2, <3>1, MoveKeys DEF FindCore, KeysInv, KeysType
  <2>3. CASE FindNobody(p)
    BY <2>3, MoveKeys DEF FindNobody
  <2>4. CASE StartRest(p)
    BY <2>4, StartKeys
  <2>5. CASE Launch(p)
    BY <2>5, MoveKeys DEF Launch, Serving
  <2>6. CASE StartDownloads(p)
    BY <2>6, MoveKeys DEF StartDownloads, Serving, KeysInv, KeysType
  <2>7. CASE Deliver(p)
    BY <2>7, MoveKeys DEF Deliver, KeysInv, KeysType
  <2>. QED
    BY <1>2, <2>1, <2>2, <2>3, <2>4, <2>5, <2>6, <2>7 DEF Start
<1>3. ASSUME NEW p \in Proc, Load(p) PROVE KeysInv'
  <2>1. CASE \E t \in Torrent : LoadCheckpoint(p, t)
    BY <2>1, MoveKeys DEF LoadCheckpoint
  <2>2. CASE DownloadOnStart(p)
    BY <2>2, MoveKeys DEF DownloadOnStart, Loads, KeysInv, KeysType
  <2>. QED
    BY <1>3, <2>1, <2>2 DEF Load
<1>4. ASSUME NEW p \in Proc, Shutdown(p) PROVE KeysInv'
  <2>1. CASE StopChecker(p)
    BY <2>1, MoveKeys DEF StopChecker, Serving
  <2>2. CASE StopOverlays(p)
    BY <2>2, MoveKeys DEF StopOverlays, Serving
  <2>3. CASE StopDownloads(p)
    BY <2>3, MoveKeys DEF StopDownloads, Serving
  <2>4. CASE SaveState(p)
    BY <2>4, MoveKeys DEF SaveState, Serving, KeysInv, KeysType
  <2>5. CASE CloseDatabase(p)
    BY <2>5, MoveKeys DEF CloseDatabase, Serving
  <2>6. CASE StopRest(p) /\ restart_requested[p]
    <3>1. ReadConfig(p, environ[p]) /\ environ' = environ /\ target' = [target EXCEPT ![p] = None]
      BY <2>6 DEF StopRest
    <3>2. environ[p] \in Key \cup {None}
      BY DEF KeysInv, KeysType
    <3>. QED
      BY <3>1, <3>2, ReadKeys DEF KeysInv, KeysType
  <2>7. CASE StopRest(p) /\ ~restart_requested[p]
    BY <2>7, MoveKeys DEF StopRest, KeysInv, KeysType
  <2>. QED
    BY <1>4, <2>1, <2>2, <2>3, <2>4, <2>5, <2>6, <2>7 DEF Shutdown
<1>5. ASSUME NEW p \in Proc, NEW key \in Key \cup {memory[p].key}, SettingsWritten(p, key) PROVE KeysInv'
  BY <1>5, SettingsKeys
<1>6. ASSUME NEW p \in Proc, Crash(p) PROVE KeysInv'
  BY <1>6, MoveKeys DEF Crash, KeysInv, KeysType
<1>7. ASSUME NEW p \in Proc, PortReused(p) PROVE KeysInv'
  BY <1>7, MoveKeys DEF PortReused
<1>8. ASSUME NEW p \in Proc, NEW restart \in BOOLEAN, ShutdownRequest(p, restart) PROVE KeysInv'
  BY <1>8, MoveKeys DEF ShutdownRequest
<1>9. ASSUME UNCHANGED <<at, memory, file, api_key, environ, changed, target, outdated>> PROVE KeysInv'
  BY <1>9 DEF KeysInv, KeysType, KeysMatch, Steps, Serving
<1>10. ASSUME \/ \E s \in Stream : CancelHandler(s)
              \/ Gui(EventsNext) \/ Rss(RssNext) \/ WatchFolder(WatchNext)
       PROVE  KeysInv'
  BY <1>9, <1>10 DEF CancelHandler, Gui, Rss, WatchFolder
<1>11. ASSUME UNCHANGED vars PROVE KeysInv'
  BY <1>9, <1>11 DEF vars
<1>. QED
  BY <1>1, <1>2, <1>3, <1>4, <1>5, <1>6, <1>7, <1>8, <1>10, <1>11 DEF Next

\* Before the first start no configuration has a port.
THEOREM InitKeys == SessionInit => KeysInv
  BY DEF SessionInit, NoConfig, KeysInv, KeysType, ConfigType, KeysMatch, PortHasKey, Steps, Serving

\* What a process sends to the core that it found has the key that the core asks for, for any
\* number of processes, crashes, restarts and new keys, unless it read the configuration
\* after the core's key was changed there or before the core itself did again.
THEOREM CoresAnswer == Spec => []Authorised
<1>1. KeysInv => Authorised
  BY DEF KeysInv, KeysType, KeysMatch, Steps, Authorised, Authenticate
<1>. QED
  BY <1>1, InitKeys, StepKeys, PTL DEF Spec
-----------------------------------------------------------------------------
(***************************************************************************)
(* Streams.                                                                *)
(***************************************************************************)

HIDE SessionAssumption

\* The number of the last message that has left the queue.
Base == sent - Len(queue)

StreamsType ==
    /\ events_responses \in Seq(Stream) /\ queue \in Seq(Nat) /\ sent \in Nat
    /\ writer \in [message : Nat, next : Nat \ {0}, processed : Seq(Stream)]
    /\ stream \in [Stream -> {"none", "greeting", "told", "listed", "done"}]
    /\ client \in [Stream -> {"absent", "open", "stalled", "gone"}]
    /\ got \in [Stream -> Seq(Nat)]

ListedOnce == \A i, j \in DOMAIN events_responses : events_responses[i] = events_responses[j] => i = j
StreamsInv ==
    /\ StreamsType /\ ListedOnce /\ OpenStreamsStayListed /\ NoGaps
    /\ \A i \in DOMAIN events_responses : stream[events_responses[i]] = "listed"
    /\ \A s \in Stream : /\ stream[s] \in {"none", "greeting", "told"} => got[s] = <<>>
                         /\ stream[s] # "none" => client[s] # "absent"

\* The writer has processed the streams before its position, but for those that are gone.
Processed ==
    LET seen == {k \in DOMAIN events_responses : k < writer.next} IN
    /\ \A j \in DOMAIN writer.processed : \E k \in seen : events_responses[k] = writer.processed[j]
    /\ \A i, j \in DOMAIN writer.processed : writer.processed[i] = writer.processed[j] => i = j
    /\ \A k \in seen : client[events_responses[k]] # "gone" =>
          \E j \in DOMAIN writer.processed : writer.processed[j] = events_responses[k]

\* What a listed stream was written last: this message, or the one before if its turn is yet
\* to come.
Position(k) == IF Writing /\ k >= writer.next THEN Base - 1 ELSE Base
UpToDate ==
    \A k \in DOMAIN events_responses :
        LET s == events_responses[k] IN
        got[s] # <<>> /\ client[s] # "gone" => Last(got[s]) = Position(k)

WriterInv ==
    /\ \A k \in DOMAIN queue : queue[k] = Base + k
    /\ Base \in Nat
    /\ IF Writing THEN writer.message = Base /\ writer.next <= Len(events_responses) + 1 ELSE writer = NoWrite
    /\ Processed /\ UpToDate

\* While the server's handlers are cancelled, nothing is written any more.
IInv == KeysInv /\ StreamsInv /\ (at[Main] = "dark" \/ WriterInv)
-----------------------------------------------------------------------------
Live == StreamsInv /\ WriterInv

\* What a stream is, once for the proofs below.
LEMMA Shapes ==
    ASSUME StreamsInv
    PROVE  /\ events_responses \in Seq(Stream) /\ DOMAIN events_responses = 1 .. Len(events_responses)
           /\ queue \in Seq(Nat) /\ Len(queue) \in Nat /\ Base \in Int /\ sent \in Nat
           /\ Len(events_responses) \in Nat
           /\ writer.message \in Nat /\ writer.next \in Nat \ {0} /\ writer.processed \in Seq(Stream)
           /\ \A k \in DOMAIN events_responses :
                 /\ events_responses[k] \in Stream /\ stream[events_responses[k]] = "listed"
                 /\ client[events_responses[k]] # "absent"
           /\ \A s \in Stream : got[s] \in Seq(Nat)
<1>1. StreamsType
  BY DEF StreamsInv
<1>2. /\ events_responses \in Seq(Stream) /\ DOMAIN events_responses = 1 .. Len(events_responses)
      /\ queue \in Seq(Nat) /\ Len(queue) \in Nat /\ sent \in Nat /\ Len(events_responses) \in Nat
  BY <1>1 DEF StreamsType
<1>3. writer.message \in Nat /\ writer.next \in Nat \ {0} /\ writer.processed \in Seq(Stream)
  BY <1>1 DEF StreamsType
<1>4. \A k \in DOMAIN events_responses : events_responses[k] \in Stream
  BY <1>2
<1>5. \A k \in DOMAIN events_responses : stream[events_responses[k]] = "listed"
  BY DEF StreamsInv
<1>6. \A k \in DOMAIN events_responses : client[events_responses[k]] # "absent"
  BY <1>4, <1>5 DEF StreamsInv
<1>. QED
  BY <1>1, <1>2, <1>3, <1>4, <1>5, <1>6 DEF StreamsType, Base

\* A message enters the queue with the next number.
LEMMA SendLive ==
    ASSUME Live, SendEvent, UNCHANGED <<events_responses, writer, stream, client, got>>
    PROVE  Live'
<1>1. CASE UNCHANGED <<queue, sent>>
  BY <1>1 DEF Live, StreamsInv, StreamsType, ListedOnce, OpenStreamsStayListed, Listed, NoGaps, WriterInv,
       Base, Processed, UpToDate, Position, Writing
<1>2. CASE sent' = sent + 1 /\ queue' = Append(queue, sent + 1)
  <2>1. /\ queue \in Seq(Nat) /\ sent \in Nat /\ Base \in Nat
        /\ \A k \in DOMAIN queue : queue[k] = Base + k
    BY Shapes DEF Live, WriterInv
  <2>2. queue' \in Seq(Nat) /\ sent' \in Nat /\ Len(queue') = Len(queue) + 1
    BY <1>2, <2>1
  <2>3. Base' = Base
    BY <1>2, <2>1, <2>2 DEF Base
  <2>4. \A k \in DOMAIN queue' : queue'[k] = Base + k
    BY <1>2, <2>1 DEF Base
  <2>5. StreamsInv'
    BY <2>2 DEF Live, StreamsInv, StreamsType, ListedOnce, OpenStreamsStayListed, Listed, NoGaps
  <2>6. Processed' /\ UpToDate'
    BY <2>3 DEF Live, WriterInv, Processed, UpToDate, Position, Writing
  <2>. QED
    BY <2>1, <2>3, <2>4, <2>5, <2>6 DEF Live, WriterInv, Writing
<1>. QED
  BY <1>1, <1>2 DEF SendEvent

\* The next message is taken when the last one is written.
LEMMA TakeLive ==
    ASSUME Live, ProcessQueue
    PROVE  Live'
<1>1. /\ queue \in Seq(Nat) /\ queue # <<>> /\ sent \in Nat /\ Base \in Nat
      /\ \A k \in DOMAIN queue : queue[k] = Base + k
  BY Shapes DEF Live, WriterInv, ProcessQueue
<1>2. ~Writing /\ UNCHANGED <<events_responses, sent, stream, client, got>>
      /\ queue' = Tail(queue)
      /\ writer' = IF events_responses = <<>> THEN NoWrite ELSE [NoWrite EXCEPT !.message = Head(queue)]
  BY DEF ProcessQueue, Take
<1>3. /\ queue' \in Seq(Nat) /\ Len(queue') = Len(queue) - 1
      /\ \A k \in DOMAIN queue' : k \in Int /\ k + 1 \in DOMAIN queue /\ queue'[k] = queue[k + 1]
      /\ Head(queue) = Base + 1
  BY <1>1, <1>2
<1>4. Base' = Base + 1
  BY <1>1, <1>2, <1>3 DEF Base
<1>5. \A k \in DOMAIN queue' : queue'[k] = Base' + k
  BY <1>1, <1>3, <1>4
<1>6. writer'.message \in Nat /\ writer'.next = 1 /\ writer'.processed = <<>>
      /\ writer' \in [message : Nat, next : Nat \ {0}, processed : Seq(Stream)]
  <2>1. PICK m \in Nat : writer' = [message |-> m, next |-> 1, processed |-> <<>>]
    <3>1. CASE events_responses = <<>>
      BY <1>2, <3>1 DEF NoWrite
    <3>2. CASE events_responses # <<>>
      <4>1. writer' = [message |-> Head(queue), next |-> 1, processed |-> <<>>]
        BY <1>2, <3>2 DEF NoWrite
      <4>2. Head(queue) \in Nat
        BY <1>1, <1>3
      <4>. QED
        BY <4>1, <4>2
    <3>. QED
      BY <3>1, <3>2
  <2>2. <<>> \in Seq(Stream)
    OBVIOUS
  <2>3. writer'.message = m /\ writer'.next = 1 /\ writer'.processed = <<>>
    BY <2>1
  <2>. QED
    BY <2>1, <2>2, <2>3
<1>7. StreamsInv'
  BY <1>2, <1>3, <1>6 DEF Live, StreamsInv, StreamsType, ListedOnce, OpenStreamsStayListed, Listed, NoGaps
<1>8. Processed'
  BY <1>2, <1>6, Shapes DEF Live, Processed
<1>9. IF Writing' THEN writer'.message = Base' /\ writer'.next <= Len(events_responses') + 1
      ELSE writer' = NoWrite
  BY <1>1, <1>2, <1>3, <1>4, Shapes DEF Live, Writing, NoWrite
<1>10. UpToDate'
  <2>1. CASE events_responses = <<>>
    BY <1>2, <2>1 DEF UpToDate
  <2>2. CASE events_responses # <<>>
    <3>1. Writing' /\ \A k \in DOMAIN events_responses : k >= writer'.next
      BY <1>1, <1>2, <1>3, <1>6, <2>2, Shapes DEF Live, Writing, NoWrite
    <3>2. \A k \in DOMAIN events_responses : Position(k)' = Position(k)
      BY <1>1, <1>2, <1>4, <3>1 DEF Position
    <3>. QED
      BY <1>2, <3>2 DEF Live, WriterInv, UpToDate
  <2>. QED
    BY <2>1, <2>2
<1>. QED
  BY <1>1, <1>4, <1>5, <1>7, <1>8, <1>9, <1>10 DEF Live, WriterInv

\* The writer, when it moves on.
LEMMA NextTurn ==
    ASSUME NEW w \in [message : Nat, next : Nat \ {0}, processed : Seq(Stream)],
           NEW n \in Nat, NEW done \in Seq(Stream), NEW w2,
           w2 = [w EXCEPT !.next = n + 1, !.processed = done]
    PROVE  /\ w2.message = w.message /\ w2.next = n + 1 /\ w2.processed = done
           /\ w2 \in [message : Nat, next : Nat \ {0}, processed : Seq(Stream)]
<1>1. w2.message = w.message /\ w2.next = n + 1 /\ w2.processed = done
  OBVIOUS
<1>2. w2 = [message |-> w.message, next |-> n + 1, processed |-> done]
  OBVIOUS
<1>3. w.message \in Nat /\ n + 1 \in Nat \ {0}
  OBVIOUS
<1>. QED
  BY <1>1, <1>2, <1>3

\* One stream is written to, or found to be gone.
LEMMA WriteLive ==
    ASSUME Live, Write
    PROVE  Live'
<1>. DEFINE n == writer.next
            s == events_responses[n]
            open == client[s] = "open"
<1>1. /\ Writing /\ n \in DOMAIN events_responses /\ client[s] # "stalled"
      /\ writer' = [writer EXCEPT !.next = n + 1,
                                  !.processed = IF open THEN Append(writer.processed, s) ELSE writer.processed]
      /\ got' = IF open THEN [got EXCEPT ![s] = Append(got[s], writer.message)] ELSE got
      /\ UNCHANGED <<events_responses, queue, sent, stream, client>>
  BY Shapes DEF Live, Write, Ends
<1>2. s \in Stream /\ stream[s] = "listed" /\ got[s] \in Seq(Nat)
  BY <1>1, Shapes DEF Live
<1>3. client[s] = (IF open THEN "open" ELSE "gone")
  BY <1>1, <1>2, Shapes DEF Live, StreamsInv, StreamsType
<1>4. writer.message = Base /\ Base' = Base /\ Base \in Nat
  BY <1>1 DEF Live, WriterInv, Base
<1>5. /\ writer'.message = writer.message /\ writer'.next = n + 1
      /\ writer'.processed = (IF open THEN Append(writer.processed, s) ELSE writer.processed)
      /\ writer' \in [message : Nat, next : Nat \ {0}, processed : Seq(Stream)]
  <2>1. writer \in [message : Nat, next : Nat \ {0}, processed : Seq(Stream)]
    BY DEF Live, StreamsInv, StreamsType
  <2>2. CASE open
    <3>1. writer' = [writer EXCEPT !.next = n + 1, !.processed = Append(writer.processed, s)]
      BY <1>1, <2>2
    <3>2. Append(writer.processed, s) \in Seq(Stream)
      BY <1>2, <2>1
    <3>3. n \in Nat
      BY <2>1
    <3>4. /\ writer'.message = writer.message /\ writer'.next = n + 1
          /\ writer'.processed = Append(writer.processed, s)
          /\ writer' \in [message : Nat, next : Nat \ {0}, processed : Seq(Stream)]
      <4>. HIDE DEF n, s
      <4>. QED
        BY <2>1, <3>1, <3>2, <3>3, NextTurn
    <3>. QED
      BY <2>2, <3>4
  <2>3. CASE ~open
    <3>1. writer' = [writer EXCEPT !.next = n + 1, !.processed = writer.processed]
      BY <1>1, <2>3
    <3>. QED
      BY <2>1, <2>3, <3>1, NextTurn
  <2>. QED
    BY <2>2, <2>3
<1>6. /\ got' \in [Stream -> Seq(Nat)]
      /\ open => got'[s] = Append(got[s], Base)
      /\ \A r \in Stream : r # s \/ ~open => got'[r] = got[r]
  BY <1>1, <1>2, <1>4 DEF Live, StreamsInv, StreamsType
<1>7. open /\ got[s] # <<>> => got[s][Len(got[s])] = Base - 1
  <2>1. SUFFICES ASSUME client[s] # "gone", got[s] # <<>> PROVE Last(got[s]) = Base - 1
    BY DEF Last
  <2>2. n \in Nat
    BY Shapes DEF Live
  <2>3. Position(n) = Base - 1
    BY <1>1, <2>2 DEF Position
  <2>. QED
    BY <1>1, <2>1, <2>3 DEF Live, WriterInv, UpToDate
<1>8. NoGaps'
  <2>1. ASSUME NEW r \in Stream, NEW i \in 1 .. Len(got'[r]) - 1 PROVE got'[r][i + 1] = got'[r][i] + 1
    <3>1. CASE r # s \/ ~open
      <4>1. got'[r] = got[r]
        BY <1>6, <3>1
      <4>. QED
        BY <2>1, <4>1 DEF Live, StreamsInv, NoGaps
    <3>2. CASE r = s /\ open
      <4>1. got'[r] = Append(got[s], Base) /\ Len(got'[r]) = Len(got[s]) + 1
        BY <1>2, <1>4, <1>6, <3>2
      <4>2. CASE i < Len(got[s])
        <5>1. got[s][i + 1] = got[s][i] + 1
          BY <1>2, <2>1, <4>2 DEF Live, StreamsInv, NoGaps
        <5>. QED
          BY <1>2, <2>1, <4>1, <4>2, <5>1
      <4>3. CASE i = Len(got[s])
        BY <1>2, <1>4, <1>7, <2>1, <3>2, <4>1, <4>3
      <4>. QED
        BY <1>2, <2>1, <4>1, <4>2, <4>3
    <3>. QED
      BY <3>1, <3>2
  <2>. QED
    BY <2>1 DEF NoGaps
<1>9. StreamsInv'
  BY <1>1, <1>2, <1>5, <1>6, <1>8 DEF Live, StreamsInv, StreamsType, ListedOnce, OpenStreamsStayListed, Listed
<1>10. n \in Nat \ {0} /\ writer.processed \in Seq(Stream)
       /\ \A k \in DOMAIN events_responses : k \in Nat /\ events_responses[k] \in Stream
  BY Shapes DEF Live
<1>11. UpToDate'
  <2>1. SUFFICES ASSUME NEW k \in DOMAIN events_responses, got'[events_responses[k]] # <<>>,
                        client[events_responses[k]] # "gone"
                 PROVE  Last(got'[events_responses[k]]) = Position(k)'
    BY <1>1 DEF UpToDate
  <2>2. CASE k = n
    BY <1>1, <1>2, <1>3, <1>4, <1>5, <1>6, <1>10, <2>1, <2>2 DEF Position, Last
  <2>3. CASE k # n
    <3>1. events_responses[k] # s
      BY <1>1, <2>3 DEF Live, StreamsInv, ListedOnce
    <3>2. got'[events_responses[k]] = got[events_responses[k]]
      BY <1>6, <1>10, <3>1
    <3>3. Position(k)' = Position(k)
      BY <1>4, <1>5, <1>10, <2>3 DEF Position, Writing
    <3>. QED
      BY <2>1, <3>2, <3>3 DEF Live, WriterInv, UpToDate
  <2>. QED
    BY <2>2, <2>3
<1>12. Processed'
  <2>. DEFINE done == writer.processed
              done2 == writer'.processed
  <2>1. /\ DOMAIN done2 = (IF open THEN 1 .. Len(done) + 1 ELSE 1 .. Len(done))
        /\ DOMAIN done = 1 .. Len(done) /\ Len(done) \in Nat
        /\ \A j \in DOMAIN done : done2[j] = done[j]
        /\ open => done2[Len(done) + 1] = s
    BY <1>2, <1>5, <1>10
  <2>2. /\ \A j \in DOMAIN done : \E k \in DOMAIN events_responses : k < n /\ events_responses[k] = done[j]
        /\ \A i, j \in DOMAIN done : done[i] = done[j] => i = j
        /\ \A k \in DOMAIN events_responses : k < n /\ client[events_responses[k]] # "gone" =>
              \E j \in DOMAIN done : done[j] = events_responses[k]
    BY DEF Live, WriterInv, Processed
  <2>3. \A j \in DOMAIN done : done[j] # s
    BY <1>1, <1>10, <2>2 DEF Live, StreamsInv, ListedOnce
  <2>4. \A j \in DOMAIN done2 : \E k \in DOMAIN events_responses : k < n + 1 /\ events_responses[k] = done2[j]
    BY <1>1, <1>10, <2>1, <2>2
  <2>5. \A i, j \in DOMAIN done2 : done2[i] = done2[j] => i = j
    BY <2>1, <2>2, <2>3
  <2>6. ASSUME NEW k \in DOMAIN events_responses, k < n + 1, client[events_responses[k]] # "gone"
        PROVE  \E j \in DOMAIN done2 : done2[j] = events_responses[k]
    <3>1. CASE k < n
      <4>1. PICK j \in DOMAIN done : done[j] = events_responses[k]
        BY <2>2, <2>6, <3>1
      <4>. QED
        BY <2>1, <4>1
    <3>2. CASE k = n
      <4>1. open
        BY <1>3, <2>6, <3>2
      <4>. QED
        BY <2>1, <3>2, <4>1
    <3>. QED
      BY <1>10, <2>6, <3>1, <3>2
  <2>. QED
    BY <1>1, <1>5, <2>4, <2>5, <2>6 DEF Processed
<1>13. IF Writing' THEN writer'.message = Base' /\ writer'.next <= Len(events_responses') + 1
       ELSE writer' = NoWrite
  <2>1. Writing' /\ writer'.message = Base'
    BY <1>1, <1>4, <1>5 DEF Writing
  <2>2. n \in 1 .. Len(events_responses) /\ Len(events_responses) \in Nat
    BY <1>1, Shapes DEF Live
  <2>3. writer'.next <= Len(events_responses') + 1
    BY <1>1, <1>5, <2>2
  <2>. QED
    BY <2>1, <2>3
<1>14. Base' \in Nat /\ \A k \in DOMAIN queue' : queue'[k] = Base' + k
  BY <1>1, <1>4 DEF Live, WriterInv
<1>. QED
  BY <1>9, <1>11, <1>12, <1>13, <1>14 DEF Live, WriterInv

\* The list becomes what was processed.
LEMMA WrittenLive ==
    ASSUME Live, Written
    PROVE  Live'
<1>. DEFINE done == writer.processed
<1>1. /\ Writing /\ writer.next > Len(events_responses)
      /\ events_responses' = done /\ writer' = NoWrite
      /\ UNCHANGED <<queue, sent, stream, client, got>>
  BY DEF Written, Ends
<1>2. /\ done \in Seq(Stream)
      /\ \A k \in DOMAIN events_responses : k \in Nat /\ k < writer.next
  BY <1>1, Shapes DEF Live
<1>3. /\ \A j \in DOMAIN done : \E k \in DOMAIN events_responses : k < writer.next /\ events_responses[k] = done[j]
      /\ \A i, j \in DOMAIN done : done[i] = done[j] => i = j
      /\ \A k \in DOMAIN events_responses : client[events_responses[k]] # "gone" =>
            \E j \in DOMAIN done : done[j] = events_responses[k]
  BY <1>2 DEF Live, WriterInv, Processed
<1>4. writer'.next = 1 /\ writer'.processed = <<>> /\ writer'.message = 0
      /\ writer' \in [message : Nat, next : Nat \ {0}, processed : Seq(Stream)]
  BY <1>1 DEF NoWrite
<1>5. OpenStreamsStayListed'
  BY <1>1, <1>3 DEF Live, StreamsInv, OpenStreamsStayListed, Listed, ToSet
<1>6. StreamsInv'
  BY <1>1, <1>2, <1>3, <1>4, <1>5 DEF Live, StreamsInv, StreamsType, ListedOnce, NoGaps
<1>7. Base' = Base
  BY <1>1 DEF Base
<1>8. UpToDate'
  <2>1. \A k \in DOMAIN events_responses : Position(k) = Base
    BY <1>2, Shapes DEF Position, Live
  <2>2. \A j \in DOMAIN done : Position(j)' = Base
    BY <1>4, <1>7 DEF Position, Writing
  <2>. QED
    BY <1>1, <1>3, <2>1, <2>2 DEF Live, WriterInv, UpToDate
<1>9. Processed'
  <2>1. \A k \in DOMAIN done : ~(k < 1)
    BY <1>2
  <2>. QED
    BY <1>1, <1>4, <2>1 DEF Processed
<1>. QED
  BY <1>1, <1>4, <1>6, <1>7, <1>8, <1>9 DEF Live, WriterInv, Writing

\* A stream that is not listed moves on, and is listed at most once.
LEMMA MoveLive ==
    ASSUME Live, NEW s \in Stream, stream[s] \in {"none", "greeting", "told"},
           UNCHANGED <<queue, sent, writer, got>>,
           \/ stream' = [stream EXCEPT ![s] = "greeting"] /\ stream[s] = "none"
              /\ client' = [client EXCEPT ![s] = "open"] /\ UNCHANGED events_responses
           \/ stream' = [stream EXCEPT ![s] = "told"] /\ stream[s] = "greeting"
              /\ UNCHANGED <<client, events_responses>>
           \/ stream' = [stream EXCEPT ![s] = "done"] /\ stream[s] # "none"
              /\ UNCHANGED <<client, events_responses>>
    PROVE  Live'
<1>1. /\ stream' \in [Stream -> {"none", "greeting", "told", "listed", "done"}]
      /\ client' \in [Stream -> {"absent", "open", "stalled", "gone"}]
      /\ events_responses' = events_responses
      /\ \A r \in Stream \ {s} : stream'[r] = stream[r] /\ client'[r] = client[r]
      /\ stream'[s] \in {"greeting", "told", "done"} /\ client'[s] # "absent"
  BY DEF Live, StreamsInv, StreamsType
<1>2. \A k \in DOMAIN events_responses : events_responses[k] \in Stream \ {s}
  BY Shapes DEF Live
<1>3. StreamsInv'
  <2>1. StreamsType'
    BY <1>1 DEF Live, StreamsInv, StreamsType
  <2>2. ListedOnce' /\ NoGaps'
    BY <1>1 DEF Live, StreamsInv, ListedOnce, NoGaps
  <2>3. OpenStreamsStayListed'
    BY <1>1 DEF Live, StreamsInv, OpenStreamsStayListed, Listed
  <2>4. \A k \in DOMAIN events_responses' : stream'[events_responses'[k]] = "listed"
    BY <1>1, <1>2 DEF Live, StreamsInv
  <2>5. \A r \in Stream : /\ stream'[r] \in {"none", "greeting", "told"} => got'[r] = <<>>
                          /\ stream'[r] # "none" => client'[r] # "absent"
    BY <1>1 DEF Live, StreamsInv
  <2>. QED
    BY <2>1, <2>2, <2>3, <2>4, <2>5 DEF StreamsInv
<1>4. Base' = Base
  BY DEF Base
<1>5. UpToDate'
  BY <1>1, <1>2, <1>4 DEF Live, WriterInv, UpToDate, Position, Writing
<1>6. Processed'
  BY <1>1, <1>2 DEF Live, WriterInv, Processed
<1>. QED
  BY <1>1, <1>3, <1>4, <1>5, <1>6 DEF Live, WriterInv, Writing

\* A stream is listed, perhaps while a message is being written: then it gets it too.
LEMMA ListLive ==
    ASSUME Live, NEW s \in Stream, stream[s] \in {"greeting", "told"}, List(s),
           UNCHANGED <<queue, sent, writer, client, got>>
    PROVE  Live'
<1>. DEFINE N == Len(events_responses)
<1>1. /\ events_responses' = Append(events_responses, s)
      /\ stream' = [stream EXCEPT ![s] = "listed"]
      /\ stream \in [Stream -> {"none", "greeting", "told", "listed", "done"}]
  BY DEF List, Live, StreamsInv, StreamsType
<1>2. /\ events_responses \in Seq(Stream) /\ N \in Nat /\ DOMAIN events_responses = 1 .. N
      /\ \A k \in DOMAIN events_responses : k \in Nat /\ events_responses[k] \in Stream \ {s}
  BY Shapes DEF Live
<1>3. /\ events_responses' \in Seq(Stream) /\ DOMAIN events_responses' = 1 .. N + 1
      /\ events_responses'[N + 1] = s /\ Len(events_responses') = N + 1
      /\ \A k \in DOMAIN events_responses : events_responses'[k] = events_responses[k]
  BY <1>1, <1>2
<1>4. ListedOnce'
  BY <1>2, <1>3 DEF Live, StreamsInv, ListedOnce
<1>5. OpenStreamsStayListed'
  <2>1. ASSUME NEW r \in Stream, stream'[r] = "listed", client[r] # "gone"
        PROVE  \E k \in DOMAIN events_responses' : events_responses'[k] = r
    <3>1. CASE r = s
      BY <1>2, <1>3, <3>1
    <3>2. CASE r # s
      <4>1. PICK k \in DOMAIN events_responses : events_responses[k] = r
        BY <1>1, <2>1, <3>2 DEF Live, StreamsInv, OpenStreamsStayListed, Listed, ToSet
      <4>. QED
        BY <1>2, <1>3, <4>1
    <3>. QED
      BY <3>1, <3>2
  <2>. QED
    BY <2>1 DEF OpenStreamsStayListed, Listed, ToSet
<1>6. \A k \in DOMAIN events_responses' : stream'[events_responses'[k]] = "listed"
  <2>1. \A k \in DOMAIN events_responses : stream[events_responses[k]] = "listed"
    BY Shapes DEF Live
  <2>. QED
    BY <1>1, <1>2, <1>3, <2>1
<1>7. StreamsInv'
  <2>1. StreamsType'
    BY <1>1, <1>3 DEF Live, StreamsInv, StreamsType
  <2>2. NoGaps' /\ \A r \in Stream : /\ stream'[r] \in {"none", "greeting", "told"} => got'[r] = <<>>
                                     /\ stream'[r] # "none" => client'[r] # "absent"
    BY <1>1 DEF Live, StreamsInv, StreamsType, NoGaps
  <2>. QED
    BY <1>4, <1>5, <1>6, <2>1, <2>2 DEF StreamsInv
<1>8. Base' = Base
  BY DEF Base
<1>9. writer.next \in Nat /\ writer.next <= N + 1
  BY <1>2, Shapes DEF Live, WriterInv, NoWrite
<1>10. got[s] = <<>>
  BY DEF Live, StreamsInv
<1>11. UpToDate'
  <2>1. ASSUME NEW k \in DOMAIN events_responses', got[events_responses'[k]] # <<>>,
               client[events_responses'[k]] # "gone"
        PROVE  Last(got[events_responses'[k]]) = Position(k)'
    <3>1. k # N + 1
      BY <1>3, <1>10, <2>1
    <3>2. k \in DOMAIN events_responses /\ events_responses'[k] = events_responses[k]
      BY <1>2, <1>3, <2>1, <3>1
    <3>3. Position(k)' = Position(k)
      BY <1>8 DEF Position, Writing
    <3>. QED
      BY <2>1, <3>2, <3>3 DEF Live, WriterInv, UpToDate
  <2>. QED
    BY <2>1 DEF UpToDate
<1>12. Processed'
  <2>1. {k \in DOMAIN events_responses' : k < writer'.next} = {k \in DOMAIN events_responses : k < writer.next}
    BY <1>2, <1>3, <1>9
  <2>. QED
    BY <1>3, <2>1 DEF Live, WriterInv, Processed
<1>. QED
  BY <1>3, <1>7, <1>8, <1>9, <1>11, <1>12 DEF Live, WriterInv, Writing

\* A client reads, stalls or goes away.
LEMMA BehaveLive ==
    ASSUME Live, NEW s \in Stream, Behave(s)
    PROVE  Live'
<1>1. PICK state \in {"open", "stalled", "gone"} : client' = [client EXCEPT ![s] = state]
  BY DEF Behave
<1>2. /\ client' \in [Stream -> {"absent", "open", "stalled", "gone"}]
      /\ \A r \in Stream : /\ client'[r] # "gone" => client[r] # "gone"
                           /\ client[r] # "absent" => client'[r] # "absent"
      /\ UNCHANGED <<events_responses, queue, sent, writer, stream, got>>
  BY <1>1 DEF Behave, Live, StreamsInv, StreamsType
<1>3. StreamsInv'
  BY <1>2 DEF Live, StreamsInv, StreamsType, ListedOnce, OpenStreamsStayListed, Listed, NoGaps
<1>4. \A k \in DOMAIN events_responses : events_responses[k] \in Stream
  BY Shapes DEF Live
<1>5. Base' = Base
  BY <1>2 DEF Base
<1>6. UpToDate' /\ Processed'
  BY <1>2, <1>4, <1>5 DEF Live, WriterInv, UpToDate, Processed, Position, Writing
<1>. QED
  BY <1>2, <1>3, <1>5, <1>6 DEF Live, WriterInv, Writing

\* Every step of the event streams, while the core serves, keeps their lists and the writer's place.
THEOREM EventsLive == Live /\ EventsNext => Live'
<1>. SUFFICES ASSUME Live, EventsNext PROVE Live'
  OBVIOUS
<1>1. CASE Notify
  BY <1>1, SendLive DEF Notify
<1>2. CASE OnTriblerException
  BY <1>2, SendLive DEF OnTriblerException
<1>3. CASE EventsWork
  <2>1. ASSUME NEW s \in Stream, Greeted(s) PROVE Live'
    BY <2>1, MoveLive, ListLive DEF Greeted
  <2>2. ASSUME NEW s \in Stream, Told(s) PROVE Live'
    BY <2>2, MoveLive, ListLive DEF Told
  <2>. QED
    BY <1>3, <2>1, <2>2, TakeLive, WriteLive, WrittenLive DEF EventsWork
<1>4. ASSUME NEW s \in Stream, Connect(s) PROVE Live'
  BY <1>4, MoveLive DEF Connect
<1>5. ASSUME NEW s \in Stream, Behave(s) PROVE Live'
  BY <1>5, BehaveLive
<1>. QED
  BY <1>1, <1>2, <1>3, <1>4, <1>5 DEF EventsNext
-----------------------------------------------------------------------------
\* A cancelled handler takes its stream off the list, and no other.
LEMMA CancelStreams ==
    ASSUME StreamsInv, NEW s \in Stream, Cancelled(s)
    PROVE  StreamsInv'
<1>. DEFINE N == Len(events_responses)
            stay == {"none", "greeting", "told", "listed", "done"}
<1>1. /\ stream[s] \in {"greeting", "told", "listed"} /\ stream' = [stream EXCEPT ![s] = "done"]
      /\ UNCHANGED <<queue, sent, writer, client, got>>
  BY DEF Cancelled
<1>2. /\ stream' \in [Stream -> stay] /\ stream'[s] = "done"
      /\ \A r \in Stream \ {s} : stream'[r] = stream[r]
  BY <1>1 DEF StreamsInv, StreamsType
<1>3. /\ events_responses \in Seq(Stream) /\ N \in Nat /\ DOMAIN events_responses = 1 .. N
      /\ \A k \in DOMAIN events_responses : stream[events_responses[k]] = "listed"
  BY Shapes
<1>4. CASE s \notin Listed
  <2>1. events_responses' = events_responses
    BY <1>4 DEF Cancelled
  <2>2. \A k \in DOMAIN events_responses : events_responses[k] \in Stream \ {s}
    BY <1>3, <1>4 DEF Listed, ToSet
  <2>. QED
    BY <1>1, <1>2, <2>1, <2>2 DEF StreamsInv, StreamsType, ListedOnce, OpenStreamsStayListed, Listed, NoGaps
<1>5. CASE s \in Listed
  <2>1. PICK i \in DOMAIN events_responses :
           events_responses[i] = s /\ events_responses' = RemoveAt(events_responses, i)
    BY <1>5 DEF Cancelled
  <2>2. events_responses' = SubSeq(events_responses, 1, i - 1) \o SubSeq(events_responses, i + 1, N)
    BY <2>1 DEF RemoveAt
  <2>3. /\ events_responses' \in Seq(Stream) /\ DOMAIN events_responses' = 1 .. N - 1
        /\ \A k \in 1 .. N - 1 :
              events_responses'[k] = IF k < i THEN events_responses[k] ELSE events_responses[k + 1]
    <3>. DEFINE a == SubSeq(events_responses, 1, i - 1)
                b == SubSeq(events_responses, i + 1, N)
    <3>1. i \in 1 .. N
      BY <1>3, <2>1
    <3>2. /\ a \in Seq(Stream) /\ Len(a) = i - 1
          /\ \A k \in 1 .. i - 1 : a[k] = events_responses[k]
      BY <1>3, <3>1
    <3>3. /\ b \in Seq(Stream) /\ Len(b) = N - i
          /\ \A k \in 1 .. N - i : b[k] = events_responses[i + k]
      <4>1. /\ \A k \in i + 1 .. N : events_responses[k] \in Stream
            /\ b \in Seq(Stream)
        BY <1>3, <3>1
      <4>2. Len(b) = N - i
        BY <1>3, <3>1
      <4>3. \A k \in 1 .. N - i : b[k] = events_responses[i + k]
        BY <1>3, <3>1
      <4>. QED
        BY <4>1, <4>2, <4>3
    <3>4. events_responses' = a \o b
      BY <2>2
    <3>. HIDE DEF a, b
    <3>5. events_responses' \in Seq(Stream) /\ Len(events_responses') = N - 1
      <4>1. a \o b \in Seq(Stream) /\ Len(a \o b) = Len(a) + Len(b)
        <5>1. a \in Seq(Stream) /\ b \in Seq(Stream)
          BY <3>2, <3>3
        <5>. QED
          BY <5>1
      <4>2. i \in Int /\ N \in Int
        BY <1>3, <3>1
      <4>. QED
        BY <3>2, <3>3, <3>4, <4>1, <4>2
    <3>6. ASSUME NEW k \in 1 .. N - 1
          PROVE  events_responses'[k] = IF k < i THEN events_responses[k] ELSE events_responses[k + 1]
      <4>1. CASE k < i
        BY <1>3, <3>1, <3>2, <3>3, <3>4, <3>6, <4>1
      <4>2. CASE ~(k < i)
        <5>1. k - (i - 1) \in 1 .. N - i /\ i + (k - (i - 1)) = k + 1
          BY <1>3, <3>1, <3>6, <4>2
        <5>2. k \in 1 .. Len(a) + Len(b) /\ k > Len(a) /\ a \in Seq(Stream) /\ b \in Seq(Stream)
          BY <1>3, <3>1, <3>2, <3>3, <3>6, <4>2
        <5>3. (a \o b)[k] = b[k - Len(a)]
          BY <5>2
        <5>4. events_responses'[k] = b[k - (i - 1)]
          BY <3>2, <3>4, <5>3
        <5>. QED
          BY <3>3, <4>2, <5>1, <5>4
      <4>. QED
        BY <4>1, <4>2
    <3>. QED
      BY <1>3, <3>5, <3>6
  <2>4. \A k \in 1 .. N - 1 : \E j \in 1 .. N : j # i /\ j = (IF k < i THEN k ELSE k + 1)
                                              /\ events_responses'[k] = events_responses[j]
    BY <1>3, <2>1, <2>3
  <2>5. \A j \in 1 .. N : j # i => events_responses[j] # s
    BY <1>3, <2>1 DEF StreamsInv, ListedOnce
  <2>6. ListedOnce'
    <3>1. ASSUME NEW k \in 1 .. N - 1, NEW l \in 1 .. N - 1, events_responses'[k] = events_responses'[l]
          PROVE  k = l
      BY <1>3, <2>1, <2>4, <3>1 DEF StreamsInv, ListedOnce
    <3>. QED
      BY <2>3, <3>1 DEF ListedOnce
  <2>7. OpenStreamsStayListed'
    <3>1. ASSUME NEW r \in Stream, stream'[r] = "listed", client[r] # "gone"
          PROVE  \E k \in DOMAIN events_responses' : events_responses'[k] = r
      <4>1. r # s /\ stream[r] = "listed"
        BY <1>2, <3>1
      <4>2. PICK j \in 1 .. N : events_responses[j] = r
        BY <1>3, <3>1, <4>1 DEF StreamsInv, OpenStreamsStayListed, Listed, ToSet
      <4>3. CASE j < i
        BY <1>3, <2>1, <2>3, <4>2, <4>3
      <4>4. CASE j > i
        <5>1. j - 1 \in 1 .. N - 1 /\ ~(j - 1 < i) /\ (j - 1) + 1 = j
          BY <1>3, <2>1, <4>2, <4>4
        <5>. QED
          BY <2>3, <4>2, <5>1
      <4>. QED
        BY <1>3, <2>1, <4>1, <4>2, <4>3, <4>4
    <3>. QED
      BY <1>1, <3>1 DEF OpenStreamsStayListed, Listed, ToSet
  <2>8. \A k \in DOMAIN events_responses' : stream'[events_responses'[k]] = "listed"
    BY <1>2, <1>3, <2>3, <2>4, <2>5
  <2>9. \A r \in Stream : /\ stream'[r] \in {"none", "greeting", "told"} => got'[r] = <<>>
                          /\ stream'[r] # "none" => client'[r] # "absent"
    BY <1>1, <1>2 DEF StreamsInv
  <2>10. StreamsType' /\ NoGaps'
    <3>1. events_responses' \in Seq(Stream) /\ UNCHANGED <<queue, sent, writer, client, got>>
      BY <1>1, <2>3
    <3>. QED
      BY <1>2, <3>1 DEF StreamsInv, StreamsType, NoGaps
  <2>. QED
    BY <2>6, <2>7, <2>8, <2>9, <2>10 DEF StreamsInv
<1>. QED
  BY <1>4, <1>5

\* The list, the queue and the writer of a new session are empty.
LEMMA FreshLive ==
    ASSUME StreamsInv, FreshEvents(Main)
    PROVE  Live'
<1>1. /\ events_responses' = <<>> /\ queue' = <<>> /\ writer' = NoWrite
      /\ stream' = [s \in Stream |-> IF stream[s] = "none" THEN "none" ELSE "done"]
      /\ UNCHANGED <<client, sent, got>>
  BY DEF FreshEvents
<1>2. /\ stream' \in [Stream -> {"none", "greeting", "told", "listed", "done"}]
      /\ \A s \in Stream : stream'[s] \in {"none", "done"} /\ (stream'[s] = "none" <=> stream[s] = "none")
  BY <1>1 DEF StreamsInv, StreamsType
<1>3. /\ events_responses' \in Seq(Stream) /\ queue' \in Seq(Nat) /\ Len(queue') = 0
      /\ DOMAIN events_responses' = {} /\ DOMAIN queue' = {}
      /\ writer'.message = 0 /\ writer'.next = 1 /\ writer'.processed = <<>>
      /\ writer' \in [message : Nat, next : Nat \ {0}, processed : Seq(Stream)]
  BY <1>1 DEF NoWrite
<1>4. StreamsInv'
  BY <1>1, <1>2, <1>3 DEF StreamsInv, StreamsType, ListedOnce, OpenStreamsStayListed, NoGaps
<1>5. Base' = sent /\ sent \in Nat
  BY <1>1, <1>3 DEF Base, StreamsInv, StreamsType
<1>6. Processed' /\ UpToDate'
  BY <1>3 DEF Processed, UpToDate
<1>. QED
  BY <1>1, <1>3, <1>4, <1>5, <1>6 DEF Live, WriterInv, Writing
-----------------------------------------------------------------------------
\* Nothing is written while the server closes: what is in doubt then is made good when the
\* next session starts.
Closing == at[Main] = "dark"

\* Steps that touch neither streams nor the main core's stage change nothing of it.
LEMMA QuietStreams ==
    ASSUME StreamsInv, Closing \/ WriterInv, UNCHANGED eventVars, Closing => Closing'
    PROVE  StreamsInv' /\ (Closing' \/ WriterInv')
<1>1. UNCHANGED <<events_responses, queue, sent, writer, stream, client, got>>
  BY DEF eventVars
<1>2. StreamsInv'
  BY <1>1 DEF StreamsInv, StreamsType, ListedOnce, OpenStreamsStayListed, Listed, NoGaps
<1>3. CASE WriterInv
  <2>1. Base' = Base /\ Processed' /\ UpToDate'
    BY <1>1, <1>3 DEF WriterInv, Base, Writing, Processed, UpToDate, Position
  <2>2. Base' \in Nat /\ \A k \in DOMAIN queue' : queue'[k] = Base' + k
    BY <1>1, <1>3, <2>1 DEF WriterInv
  <2>3. IF Writing' THEN writer'.message = Base' /\ writer'.next <= Len(events_responses') + 1
        ELSE writer' = NoWrite
    BY <1>1, <1>3, <2>1 DEF WriterInv, Writing
  <2>. QED
    BY <1>2, <2>1, <2>2, <2>3 DEF WriterInv
<1>. QED
  BY <1>2, <1>3

\* Every step keeps the lists of streams; the writer's place counts until the server stops.
THEOREM StepStreams ==
    KeysInv /\ StreamsInv /\ (Closing \/ WriterInv) /\ [Next]_vars => StreamsInv' /\ (Closing' \/ WriterInv')
<1>. SUFFICES ASSUME KeysInv, StreamsInv, Closing \/ WriterInv, [Next]_vars
              PROVE  StreamsInv' /\ (Closing' \/ WriterInv')
  OBVIOUS
<1>. USE SessionAssumption DEF mainVars, inputs, Go, Closing
<1>1. at \in [Proc -> {"off", "keyless", "finding", "delivering", "rest", "components",
                       "downloads", "running", "checker", "overlays", "saving", "metadata", "dark"}]
  BY DEF KeysInv, KeysType
<1>2. ASSUME NEW p \in Proc, NEW t \in Torrent \cup {None}, NEW env \in Key \cup {None}, Run(p, t, env)
      PROVE  UNCHANGED eventVars /\ (Closing => Closing')
  BY <1>1, <1>2 DEF Run, ReadConfig
<1>3. ASSUME NEW p \in Proc, Start(p) PROVE UNCHANGED eventVars /\ (Closing => Closing')
  BY <1>1, <1>3 DEF Start, MakeKey, FindCore, FindNobody, StartRest, Launch, StartDownloads, Deliver
<1>4. ASSUME NEW p \in Proc, Load(p) PROVE UNCHANGED eventVars /\ (Closing => Closing')
  BY <1>4 DEF Load, LoadCheckpoint, DownloadOnStart
<1>5. ASSUME NEW p \in Proc, Shutdown(p), ~StopRest(p) PROVE UNCHANGED eventVars /\ (Closing => Closing')
  BY <1>1, <1>5 DEF Shutdown, StopChecker, StopOverlays, StopDownloads, SaveState, CloseDatabase
<1>6. ASSUME NEW p \in Proc, NEW key \in Key \cup {memory[p].key}, SettingsWritten(p, key)
      PROVE  UNCHANGED eventVars /\ (Closing => Closing')
  BY <1>6 DEF SettingsWritten
<1>7. ASSUME NEW p \in Proc, PortReused(p) PROVE UNCHANGED eventVars /\ (Closing => Closing')
  BY <1>7 DEF PortReused
<1>8. ASSUME NEW p \in Proc, NEW restart \in BOOLEAN, ShutdownRequest(p, restart)
      PROVE  UNCHANGED eventVars /\ (Closing => Closing')
  BY <1>8 DEF ShutdownRequest
<1>9. ASSUME Rss(RssNext) \/ WatchFolder(WatchNext) PROVE UNCHANGED eventVars /\ (Closing => Closing')
  BY <1>9 DEF Rss, WatchFolder
<1>10. ASSUME UNCHANGED vars PROVE UNCHANGED eventVars /\ (Closing => Closing')
  BY <1>10 DEF vars
<1>11. ASSUME NEW p \in Proc, StopRest(p) \/ Crash(p) PROVE StreamsInv' /\ (Closing' \/ WriterInv')
  <2>1. FreshEvents(p)
    BY <1>11 DEF StopRest, Crash
  <2>2. CASE p = Main
    BY <2>1, <2>2, FreshLive DEF Live
  <2>3. CASE p # Main
    <3>1. UNCHANGED eventVars /\ at'[Main] = at[Main]
      BY <1>1, <1>11, <2>1, <2>3 DEF FreshEvents, StopRest, Crash, ReadConfig
    <3>. QED
      BY <3>1, QuietStreams
  <2>. QED
    BY <2>2, <2>3
<1>12. ASSUME NEW s \in Stream, CancelHandler(s) PROVE StreamsInv' /\ (Closing' \/ WriterInv')
  BY <1>12, CancelStreams DEF CancelHandler
<1>13. ASSUME Gui(EventsNext) PROVE StreamsInv' /\ (Closing' \/ WriterInv')
  BY <1>13, EventsLive DEF Gui, Serving, Live
<1>. QED
  BY <1>2, <1>3, <1>4, <1>5, <1>6, <1>7, <1>8, <1>9, <1>10, <1>11, <1>12, <1>13, QuietStreams DEF Next

\* No stream is open before the first start.
THEOREM InitStreams == SessionInit => StreamsInv /\ WriterInv
<1>. SUFFICES ASSUME SessionInit PROVE StreamsInv /\ WriterInv
  OBVIOUS
<1>1. /\ events_responses = <<>> /\ queue = <<>> /\ sent = 0 /\ writer = NoWrite
      /\ stream = [s \in Stream |-> "none"] /\ client = [s \in Stream |-> "absent"]
      /\ got = [s \in Stream |-> <<>>]
  BY DEF SessionInit, EventsInit
<1>2. /\ DOMAIN events_responses = {} /\ DOMAIN queue = {} /\ Base = 0 /\ ~Writing
      /\ writer.processed = <<>>
      /\ writer \in [message : Nat, next : Nat \ {0}, processed : Seq(Stream)]
  <2>1. Base = 0 /\ DOMAIN events_responses = {} /\ DOMAIN queue = {}
    <3>1. sent = 0 /\ Len(queue) = 0 /\ DOMAIN events_responses = {} /\ DOMAIN queue = {}
      BY <1>1
    <3>. QED
      BY <3>1 DEF Base
  <2>2. writer = [message |-> 0, next |-> 1, processed |-> <<>>] /\ <<>> \in Seq(Stream)
    BY <1>1 DEF NoWrite
  <2>. QED
    BY <2>1, <2>2 DEF Writing
<1>3. StreamsInv
  BY <1>1, <1>2 DEF StreamsInv, StreamsType, ListedOnce, OpenStreamsStayListed, NoGaps
<1>. QED
  BY <1>1, <1>2, <1>3 DEF WriterInv, Processed, UpToDate

\* IInv is an inductive invariant of the processes and the core's streams.
THEOREM IInvHolds == Spec => []IInv
<1>1. SessionInit => IInv
  BY InitKeys, InitStreams DEF IInv
<1>2. IInv /\ [Next]_vars => IInv'
  BY StepKeys, StepStreams DEF IInv, Closing
<1>. QED
  BY <1>1, <1>2, PTL DEF Spec

\* A client that stays is not forgotten, whoever comes and goes while a message is written.
THEOREM ClientsStay == Spec => []OpenStreamsStayListed
<1>1. IInv => OpenStreamsStayListed
  BY DEF IInv, StreamsInv
<1>. QED
  BY <1>1, IInvHolds, PTL

\* From the first message on that a client gets, it gets all of them, in order.
THEOREM NothingMissed == Spec => []NoGaps
<1>1. IInv => NoGaps
  BY DEF IInv, StreamsInv
<1>. QED
  BY <1>1, IInvHolds, PTL
=============================================================================
