--------------------------- MODULE LtSessionsProofs ---------------------------
(***************************************************************************)
(* For any sessions, transaction ids, queues of alerts and interleavings   *)
(* of threads, polls, lookups and timers: the manager that hears of the    *)
(* DHT's packets late implements the one that hears of them at once; and a *)
(* session has the limits that were set last, whenever it was created.     *)
(*                                                                         *)
(* The alerts that wait are in the order of the packets: behind the query  *)
(* of an id comes its end, and behind that its next query (Paired).  This  *)
(* is what lets the mapping read off the first alert about an id what the  *)
(* manager knows of it.                                                    *)
(***************************************************************************)
EXTENDS LtSessions, WellFoundedInduction, TLAPS

USE NoInfohashAssumption, ReuseAssumption, LtSessionsAssumption

\* The alerts about the DHT: of a packet, or of nothing that the manager hears of.
PacketAlert == [kind : {"query"}, of : Query]
               \cup [kind : {"answer"}, of : Query, seeds : SUBSET Peer, peers : SUBSET Peer]
               \cup [kind : {"nothing"}, of : Query]
AlertType   == PacketAlert \cup [kind : {"stats"}]

\* Two alerts about an id without another between them, and the last one about an id.
Neighbours(line, j, k) ==
    /\ j < k /\ line[j].of.tid = line[k].of.tid
    /\ \A i \in j + 1 .. k - 1 : line[i].of.tid # line[k].of.tid
IsLast(line, k) == \A i \in k + 1 .. Len(line) : line[i].of.tid # line[k].of.tid

\* A query waits before its end, and every end before the next query with its id.
Paired(line, out) ==
    /\ \A j, k \in DOMAIN line : Neighbours(line, j, k) =>
          IF line[j].kind = "query" THEN line[k].kind # "query" /\ line[k].of = line[j].of
                                    ELSE line[k].kind = "query"
    /\ \A k \in DOMAIN line : IsLast(line, k) =>
          IF line[k].kind = "query" THEN line[k].of \in out
                                    ELSE \A q \in out : q.tid # line[k].of.tid

\* No id stands for two queries that libtorrent waits for.
Once(out) == \A q, r \in out : q.tid = r.tid => q = r

AlertsType == /\ alerts \in [Hops -> Seq(AlertType)]
              /\ alerts[Plain] \in Seq(PacketAlert)
              /\ popped \in Seq(PacketAlert)
              /\ asked \subseteq Query
InOrder    == Once(asked) /\ Paired(Line, asked)
-----------------------------------------------------------------------------
(***************************************************************************)
(* Sequences of alerts.                                                    *)
(***************************************************************************)

\* What every alert about a packet has.
LEMMA PacketFields ==
    ASSUME NEW a \in PacketAlert
    PROVE  /\ a.of \in Query /\ a.of.tid \in Transaction /\ a.of.infohash \in Infohash
           /\ a.kind \in {"query", "answer", "nothing"}
           /\ a.kind = "answer" => a.seeds \in SUBSET Peer /\ a.peers \in SUBSET Peer
BY DEF PacketAlert, Query

\* Less-than is contained in a well-founded relation.
LEMMA LessIsWellFounded ==
    \E R : IsWellFoundedOn(R, Nat) /\ \A x, y \in Nat : x < y => <<x, y>> \in R
<1>1. IsWellFoundedOn(OpToRel(<, Nat), Nat)
  BY NatLessThanWellFounded, Zenon
<1>2. \A x, y \in Nat : x < y => <<x, y>> \in OpToRel(<, Nat)
  BY Zenon DEF OpToRel
<1>. QED
  BY <1>1, <1>2, Zenon

\* A set of natural numbers that is not empty has a least element.
LEMMA HasLeast ==
    ASSUME NEW T, T \subseteq Nat, T # {}
    PROVE  \E x \in T : \A y \in T : x <= y
<1>1. PICK R : IsWellFoundedOn(R, Nat) /\ \A x, y \in Nat : x < y => <<x, y>> \in R
  BY LessIsWellFounded
<1>2. IsWellFoundedOn(R, Nat)
  BY <1>1
<1>3. PICK x \in T : \A y \in T : ~(<<y, x>> \in R)
  BY <1>2, WFMin
<1>4. \A y \in T : ~(y < x)
  BY <1>1, <1>3
<1>. QED
  BY <1>4

\* If there is an alert about an id, there is a first one.
LEMMA FirstExists ==
    ASSUME NEW line \in Seq(PacketAlert), NEW t, NEW i \in DOMAIN line, line[i].of.tid = t
    PROVE  \E k \in DOMAIN line : First(line, k, t)
<1>. DEFINE T == {k \in DOMAIN line : line[k].of.tid = t}
<1>1. T \subseteq Nat /\ T # {}
  OBVIOUS
<1>2. PICK k \in T : \A j \in T : k <= j
  BY <1>1, HasLeast
<1>. QED
  BY <1>2 DEF First

\* libtorrent sends a query with an id that it waits for no answer to: the manager, which
\* has not heard of it, knows what it knew.
LEMMA SendPaired ==
    ASSUME NEW line \in Seq(PacketAlert), NEW out \in SUBSET Query, NEW a \in PacketAlert,
           Paired(line, out), Once(out), a.kind = "query", \A q \in out : q.tid # a.of.tid
    PROVE  /\ Paired(Append(line, a), out \cup {a.of}) /\ Once(out \cup {a.of})
           /\ HeardIn(Append(line, a), out \cup {a.of}) = HeardIn(line, out)
<1>. DEFINE new == Append(line, a)
            n   == Len(line) + 1
<1>1. /\ DOMAIN new = 1 .. n /\ DOMAIN line = 1 .. n - 1 /\ n \in Nat /\ new[n] = a
      /\ \A k \in DOMAIN line : new[k] = line[k]
      /\ Len(new) = n
  OBVIOUS
<1>2. \A k \in DOMAIN line : line[k].of.tid = a.of.tid /\ IsLast(line, k) => line[k].kind # "query"
  BY DEF Paired
<1>3. Once(out \cup {a.of})
  BY DEF Once
<1>4. Paired(new, out \cup {a.of})
  <2>1. ASSUME NEW j \in DOMAIN new, NEW k \in DOMAIN new, Neighbours(new, j, k)
        PROVE  IF new[j].kind = "query" THEN new[k].kind # "query" /\ new[k].of = new[j].of
                                        ELSE new[k].kind = "query"
    <3>1. CASE k = n
      <4>1. j \in DOMAIN line /\ IsLast(line, j) /\ line[j].of.tid = a.of.tid
        BY <1>1, <2>1, <3>1 DEF Neighbours, IsLast
      <4>. QED
        BY <1>1, <1>2, <3>1, <4>1
    <3>2. CASE k # n
      <4>1. j \in DOMAIN line /\ k \in DOMAIN line /\ Neighbours(line, j, k)
        BY <1>1, <2>1, <3>2 DEF Neighbours
      <4>. QED
        BY <1>1, <4>1 DEF Paired
    <3>. QED
      BY <3>1, <3>2
  <2>2. ASSUME NEW k \in DOMAIN new, IsLast(new, k)
        PROVE  IF new[k].kind = "query" THEN new[k].of \in out \cup {a.of}
                                        ELSE \A q \in out \cup {a.of} : q.tid # new[k].of.tid
    <3>1. CASE k = n
      BY <1>1, <3>1
    <3>2. CASE k # n
      <4>1. k \in DOMAIN line /\ IsLast(line, k) /\ new[k].of.tid # a.of.tid
        BY <1>1, <2>2, <3>2 DEF IsLast
      <4>. QED
        BY <1>1, <4>1 DEF Paired
    <3>. QED
      BY <3>1, <3>2
  <2>. QED
    BY <2>1, <2>2 DEF Paired
<1>5. HeardIn(new, out \cup {a.of}) = HeardIn(line, out)
  <2>. SUFFICES ASSUME NEW q \in Query
                PROVE  q \in HeardIn(new, out \cup {a.of}) <=> q \in HeardIn(line, out)
    BY DEF HeardIn
  <2>1. \A k \in DOMAIN line : First(new, k, q.tid) <=> First(line, k, q.tid)
    BY <1>1 DEF First
  <2>2. CASE \E i \in DOMAIN line : line[i].of.tid = q.tid
    <3>1. ~First(new, n, q.tid)
      BY <1>1, <2>2 DEF First
    <3>. QED
      BY <1>1, <2>1, <2>2, <3>1 DEF HeardIn
  <2>3. CASE \A i \in DOMAIN line : line[i].of.tid # q.tid
    <3>1. CASE q.tid = a.of.tid
      <4>1. First(new, n, q.tid)
        BY <1>1, <2>3, <3>1 DEF First
      <4>. QED
        BY <1>1, <2>3, <3>1, <4>1 DEF HeardIn
    <3>2. CASE q.tid # a.of.tid
      <4>1. ~First(new, n, q.tid)
        BY <1>1, <3>2 DEF First
      <4>. QED
        BY <1>1, <2>1, <2>3, <3>2, <4>1 DEF HeardIn
    <3>. QED
      BY <3>1, <3>2
  <2>. QED
    BY <2>2, <2>3
<1>. QED
  BY <1>3, <1>4, <1>5

\* A query ends, by an answer or without: the manager still waits for it.
LEMMA EndPaired ==
    ASSUME NEW line \in Seq(PacketAlert), NEW out \in SUBSET Query, NEW a \in PacketAlert,
           Paired(line, out), Once(out), a.kind # "query", a.of \in out
    PROVE  /\ Paired(Append(line, a), out \ {a.of}) /\ Once(out \ {a.of})
           /\ HeardIn(Append(line, a), out \ {a.of}) = HeardIn(line, out)
<1>. DEFINE new == Append(line, a)
            n   == Len(line) + 1
<1>1. /\ DOMAIN new = 1 .. n /\ DOMAIN line = 1 .. n - 1 /\ n \in Nat /\ new[n] = a
      /\ \A k \in DOMAIN line : new[k] = line[k]
      /\ Len(new) = n
  OBVIOUS
<1>2. \A q \in out : q.tid = a.of.tid => q = a.of
  BY DEF Once
<1>3. \A k \in DOMAIN line : line[k].of.tid = a.of.tid /\ IsLast(line, k) =>
          line[k].kind = "query" /\ line[k].of = a.of
  BY <1>2 DEF Paired
<1>4. Once(out \ {a.of})
  BY DEF Once
<1>5. Paired(new, out \ {a.of})
  <2>1. ASSUME NEW j \in DOMAIN new, NEW k \in DOMAIN new, Neighbours(new, j, k)
        PROVE  IF new[j].kind = "query" THEN new[k].kind # "query" /\ new[k].of = new[j].of
                                        ELSE new[k].kind = "query"
    <3>1. CASE k = n
      <4>1. j \in DOMAIN line /\ IsLast(line, j) /\ line[j].of.tid = a.of.tid
        BY <1>1, <2>1, <3>1 DEF Neighbours, IsLast
      <4>. QED
        BY <1>1, <1>3, <3>1, <4>1
    <3>2. CASE k # n
      <4>1. j \in DOMAIN line /\ k \in DOMAIN line /\ Neighbours(line, j, k)
        BY <1>1, <2>1, <3>2 DEF Neighbours
      <4>. QED
        BY <1>1, <4>1 DEF Paired
    <3>. QED
      BY <3>1, <3>2
  <2>2. ASSUME NEW k \in DOMAIN new, IsLast(new, k)
        PROVE  IF new[k].kind = "query" THEN new[k].of \in out \ {a.of}
                                        ELSE \A q \in out \ {a.of} : q.tid # new[k].of.tid
    <3>1. CASE k = n
      BY <1>1, <1>2, <3>1
    <3>2. CASE k # n
      <4>1. k \in DOMAIN line /\ IsLast(line, k) /\ new[k].of.tid # a.of.tid
        BY <1>1, <2>2, <3>2 DEF IsLast
      <4>. QED
        BY <1>1, <4>1 DEF Paired
    <3>. QED
      BY <3>1, <3>2
  <2>. QED
    BY <2>1, <2>2 DEF Paired
<1>6. HeardIn(new, out \ {a.of}) = HeardIn(line, out)
  <2>. SUFFICES ASSUME NEW q \in Query
                PROVE  q \in HeardIn(new, out \ {a.of}) <=> q \in HeardIn(line, out)
    BY DEF HeardIn
  <2>1. \A k \in DOMAIN line : First(new, k, q.tid) <=> First(line, k, q.tid)
    BY <1>1 DEF First
  <2>2. CASE \E i \in DOMAIN line : line[i].of.tid = q.tid
    <3>1. ~First(new, n, q.tid)
      BY <1>1, <2>2 DEF First
    <3>. QED
      BY <1>1, <2>1, <2>2, <3>1 DEF HeardIn
  <2>3. CASE \A i \in DOMAIN line : line[i].of.tid # q.tid
    <3>1. CASE q.tid = a.of.tid
      <4>1. First(new, n, q.tid) /\ \A k \in DOMAIN line : ~First(line, k, q.tid)
        BY <1>1, <2>3, <3>1 DEF First
      <4>. QED
        BY <1>1, <1>2, <2>1, <2>3, <3>1, <4>1 DEF HeardIn
    <3>2. CASE q.tid # a.of.tid
      <4>1. ~First(new, n, q.tid)
        BY <1>1, <3>2 DEF First
      <4>. QED
        BY <1>1, <2>1, <2>3, <3>2, <4>1 DEF HeardIn
    <3>. QED
      BY <3>1, <3>2
  <2>. QED
    BY <2>2, <2>3
<1>. QED
  BY <1>4, <1>5, <1>6

\* The manager hears the first alert that waits: the order of the others stays, and what it
\* knows of the id is now what the alert said.
LEMMA HearPaired ==
    ASSUME NEW line \in Seq(PacketAlert), NEW out \in SUBSET Query,
           Paired(line, out), Once(out), line # <<>>
    PROVE  LET q == Head(line).of IN
           /\ Paired(Tail(line), out)
           /\ Head(line).kind = "query" =>
                  /\ \A r \in HeardIn(line, out) : r.tid # q.tid
                  /\ HeardIn(Tail(line), out) = HeardIn(line, out) \cup {q}
           /\ Head(line).kind # "query" =>
                  /\ q \in HeardIn(line, out)
                  /\ HeardIn(Tail(line), out) = HeardIn(line, out) \ {q}
<1>. DEFINE rest == Tail(line)
            q    == Head(line).of
            n    == Len(line)
<1>1. /\ n \in Nat \ {0} /\ DOMAIN line = 1 .. n /\ DOMAIN rest = 1 .. n - 1
      /\ rest \in Seq(PacketAlert) /\ Len(rest) = n - 1
      /\ \A k \in 1 .. n - 1 : rest[k] = line[k + 1]
      /\ Head(line) = line[1] /\ line[1] \in PacketAlert
  OBVIOUS
<1>2. q \in Query
  BY <1>1, PacketFields
<1>3. Paired(rest, out)
  <2>1. \A j, k \in DOMAIN rest : Neighbours(rest, j, k) => Neighbours(line, j + 1, k + 1)
    <3>. SUFFICES ASSUME NEW j \in DOMAIN rest, NEW k \in DOMAIN rest, Neighbours(rest, j, k),
                         NEW i \in j + 2 .. k
                  PROVE  line[i].of.tid # line[k + 1].of.tid
      BY <1>1 DEF Neighbours
    <3>1. i - 1 \in j + 1 .. k - 1 /\ line[i] = rest[i - 1] /\ line[k + 1] = rest[k]
      BY <1>1
    <3>. QED
      BY <3>1 DEF Neighbours
  <2>2. \A k \in DOMAIN rest : IsLast(rest, k) => IsLast(line, k + 1)
    <3>1. ASSUME NEW k \in DOMAIN rest, IsLast(rest, k), NEW i \in (k + 1) + 1 .. Len(line)
          PROVE  line[i].of.tid # line[k + 1].of.tid
      <4>1. i - 1 \in k + 1 .. Len(rest) /\ line[i] = rest[i - 1] /\ line[k + 1] = rest[k]
        BY <1>1
      <4>. QED
        BY <3>1, <4>1 DEF IsLast
    <3>. QED
      BY <3>1 DEF IsLast
  <2>. QED
    BY <1>1, <2>1, <2>2 DEF Paired
<1>4. \A r \in Query : r.tid = q.tid =>
          First(line, 1, r.tid) /\ \A k \in DOMAIN line : First(line, k, r.tid) => k = 1
  BY <1>1 DEF First
<1>5. \A r \in Query : r.tid # q.tid => (r \in HeardIn(rest, out) <=> r \in HeardIn(line, out))
  <2>. SUFFICES ASSUME NEW r \in Query, r.tid # q.tid
                PROVE  r \in HeardIn(rest, out) <=> r \in HeardIn(line, out)
    OBVIOUS
  <2>1. ~First(line, 1, r.tid)
    BY <1>1 DEF First
  <2>2. \A k \in DOMAIN rest : First(rest, k, r.tid) <=> First(line, k + 1, r.tid)
    <3>1. ASSUME NEW k \in DOMAIN rest, First(rest, k, r.tid), NEW i \in 1 .. k
          PROVE  line[i].of.tid # r.tid
      <4>1. i = 1 \/ (i - 1 \in 1 .. k - 1 /\ line[i] = rest[i - 1])
        BY <1>1
      <4>. QED
        BY <1>1, <3>1, <4>1 DEF First
    <3>2. ASSUME NEW k \in DOMAIN rest, First(line, k + 1, r.tid), NEW i \in 1 .. k - 1
          PROVE  rest[i].of.tid # r.tid
      BY <1>1, <3>2 DEF First
    <3>. QED
      BY <1>1, <3>1, <3>2 DEF First
  <2>3. \A k \in DOMAIN line : k # 1 => k - 1 \in DOMAIN rest /\ line[k] = rest[k - 1]
    BY <1>1
  <2>4. \A k \in DOMAIN rest : k + 1 \in DOMAIN line /\ rest[k] = line[k + 1]
    BY <1>1
  <2>5. 1 \in DOMAIN line /\ line[1].of.tid # r.tid
    BY <1>1
  <2>6. ASSUME r \in HeardIn(line, out) PROVE r \in HeardIn(rest, out)
    <3>1. \A k \in DOMAIN rest : First(rest, k, r.tid) => rest[k].kind # "query" /\ rest[k].of = r
      BY <2>2, <2>4, <2>6 DEF HeardIn
    <3>2. (\A k \in DOMAIN rest : rest[k].of.tid # r.tid) => \A k \in DOMAIN line : line[k].of.tid # r.tid
      BY <2>3, <2>5
    <3>. QED
      BY <2>6, <3>1, <3>2 DEF HeardIn
  <2>7. ASSUME r \in HeardIn(rest, out) PROVE r \in HeardIn(line, out)
    <3>1. ASSUME NEW k \in DOMAIN line, First(line, k, r.tid)
          PROVE  line[k].kind # "query" /\ line[k].of = r
      <4>1. k # 1 /\ k - 1 \in DOMAIN rest /\ line[k] = rest[k - 1] /\ (k - 1) + 1 = k
        BY <1>1, <2>1, <2>3, <3>1
      <4>. QED
        BY <2>2, <2>7, <3>1, <4>1 DEF HeardIn
    <3>2. (\A k \in DOMAIN line : line[k].of.tid # r.tid) => \A k \in DOMAIN rest : rest[k].of.tid # r.tid
      BY <2>4
    <3>. QED
      BY <2>7, <3>1, <3>2 DEF HeardIn
  <2>. QED
    BY <2>6, <2>7
<1>6. \A k \in DOMAIN rest : First(rest, k, q.tid) => Neighbours(line, 1, k + 1)
  <2>. SUFFICES ASSUME NEW k \in DOMAIN rest, First(rest, k, q.tid), NEW i \in 2 .. k
                PROVE  line[i].of.tid # q.tid
    BY <1>1 DEF First, Neighbours
  <2>1. i - 1 \in 1 .. k - 1 /\ line[i] = rest[i - 1]
    BY <1>1
  <2>. QED
    BY <2>1 DEF First
<1>7. (\A k \in DOMAIN rest : rest[k].of.tid # q.tid) => IsLast(line, 1)
  <2>. SUFFICES ASSUME \A k \in DOMAIN rest : rest[k].of.tid # q.tid, NEW i \in 2 .. n
                PROVE  line[i].of.tid # q.tid
    BY <1>1 DEF IsLast
  <2>1. i - 1 \in DOMAIN rest /\ line[i] = rest[i - 1]
    BY <1>1
  <2>. QED
    BY <2>1
<1>8. ASSUME Head(line).kind = "query"
      PROVE  /\ \A r \in HeardIn(line, out) : r.tid # q.tid
             /\ \A r \in Query : r.tid = q.tid => (r \in HeardIn(rest, out) <=> r = q)
  <2>1. \A k \in DOMAIN rest : First(rest, k, q.tid) => rest[k].kind # "query" /\ rest[k].of = q
    BY <1>1, <1>6, <1>8 DEF Paired
  <2>2. (\A k \in DOMAIN rest : rest[k].of.tid # q.tid) => q \in out
    BY <1>1, <1>7, <1>8 DEF Paired
  <2>3. \A r \in HeardIn(line, out) : r.tid # q.tid
    BY <1>1, <1>4, <1>8 DEF HeardIn
  <2>4. q \in HeardIn(rest, out)
    BY <1>2, <2>1, <2>2 DEF HeardIn
  <2>5. ASSUME NEW r \in Query, r.tid = q.tid, r \in HeardIn(rest, out), r # q PROVE FALSE
    <3>1. \A k \in DOMAIN rest : ~First(rest, k, q.tid)
      BY <2>1, <2>5 DEF HeardIn
    <3>2. \A k \in DOMAIN rest : rest[k].of.tid # q.tid
      BY <1>1, <3>1, FirstExists
    <3>3. q \in out /\ r \in out
      BY <2>2, <2>5, <3>2 DEF HeardIn
    <3>. QED
      BY <2>5, <3>3 DEF Once
  <2>. QED
    BY <2>3, <2>4, <2>5
<1>9. ASSUME Head(line).kind # "query"
      PROVE  /\ q \in HeardIn(line, out)
             /\ \A r \in HeardIn(line, out) : r.tid = q.tid => r = q
             /\ \A r \in HeardIn(rest, out) : r.tid # q.tid
  <2>1. q \in HeardIn(line, out)
    BY <1>1, <1>2, <1>4, <1>9 DEF HeardIn
  <2>2. \A k \in DOMAIN rest : First(rest, k, q.tid) => rest[k].kind = "query"
    BY <1>1, <1>6, <1>9 DEF Paired
  <2>3. (\A k \in DOMAIN rest : rest[k].of.tid # q.tid) => \A r \in out : r.tid # q.tid
    BY <1>1, <1>7, <1>9 DEF Paired
  <2>4. ASSUME NEW r \in Query, r.tid = q.tid, r \in HeardIn(rest, out) PROVE FALSE
    <3>1. \A k \in DOMAIN rest : ~First(rest, k, q.tid)
      BY <2>2, <2>4 DEF HeardIn
    <3>2. \A k \in DOMAIN rest : rest[k].of.tid # q.tid
      BY <1>1, <3>1, FirstExists
    <3>. QED
      BY <2>3, <2>4, <3>2 DEF HeardIn
  <2>5. \A r \in HeardIn(line, out) : r.tid = q.tid => r = q
    BY <1>1, <1>4 DEF HeardIn
  <2>6. \A r \in HeardIn(rest, out) : r \in Query
    BY DEF HeardIn
  <2>. QED
    BY <2>1, <2>4, <2>5, <2>6
<1>10. \A r \in HeardIn(line, out) \cup HeardIn(rest, out) : r \in Query
  BY DEF HeardIn
<1>11. Head(line).kind = "query" => HeardIn(rest, out) = HeardIn(line, out) \cup {q}
  BY <1>2, <1>5, <1>8, <1>10
<1>12. Head(line).kind # "query" => HeardIn(rest, out) = HeardIn(line, out) \ {q}
  BY <1>2, <1>5, <1>9, <1>10
<1>. QED
  BY <1>3, <1>8, <1>9, <1>11, <1>12
-----------------------------------------------------------------------------
(***************************************************************************)
(* What waits for the manager, step by step.                               *)
(***************************************************************************)
LInv == AlertsType /\ (ReuseEarly \/ InOrder)

\* An alert that is posted waits behind all others.
LEMMA AppendBehind ==
    ASSUME NEW S, NEW u \in Seq(S), NEW v \in Seq(S), NEW a \in S
    PROVE  u \o Append(v, a) = Append(u \o v, a) /\ u \o v \in Seq(S)
OBVIOUS

\* The alert that is heard is the first of all.
LEMMA TailBefore ==
    ASSUME NEW S, NEW u \in Seq(S), NEW v \in Seq(S), u # <<>>
    PROVE  /\ Tail(u) \o v = Tail(u \o v) /\ Head(u) = Head(u \o v)
           /\ u \o v # <<>> /\ u \o v \in Seq(S) /\ Head(u) \in S /\ Tail(u) \in Seq(S)
OBVIOUS

\* Nothing waits in a new process.
THEOREM InitLInv == SessionsInit => LInv /\ Line = <<>> /\ Heard = {}
<1>. SUFFICES ASSUME SessionsInit PROVE LInv /\ Line = <<>> /\ Heard = {}
  OBVIOUS
<1>1. popped = <<>> /\ alerts = [h \in Hops |-> <<>>] /\ asked = {} /\ Plain \in Hops
  BY DEF SessionsInit, Init
<1>2. Line = <<>>
  BY <1>1 DEF Line
<1>3. AlertsType
  BY <1>1 DEF AlertsType
<1>4. InOrder
  BY <1>1, <1>2 DEF InOrder, Once, Paired
<1>5. Heard = {}
  BY <1>1, <1>2 DEF Heard, HeardIn
<1>. QED
  BY <1>2, <1>3, <1>4, <1>5 DEF LInv

\* A packet of the DHT is sent or expected in vain: the manager still knows what it knew.
LEMMA PacketStep ==
    ASSUME LInv, NEW a \in PacketAlert,
           alerts' = [alerts EXCEPT ![Plain] = Append(@, a)], popped' = popped,
           \/ a.kind = "query" /\ asked' = asked \cup {a.of} /\ (ReuseEarly \/ \A q \in asked : q.tid # a.of.tid)
           \/ a.kind # "query" /\ asked' = asked \ {a.of} /\ a.of \in asked
    PROVE  LInv' /\ (ReuseEarly \/ Heard' = Heard)
<1>1. popped \in Seq(PacketAlert) /\ alerts[Plain] \in Seq(PacketAlert) /\ Plain \in Hops
  BY DEF LInv, AlertsType
<1>2. alerts'[Plain] = Append(alerts[Plain], a)
  BY <1>1 DEF LInv, AlertsType
<1>3. Line' = Append(Line, a) /\ Line \in Seq(PacketAlert)
  BY <1>1, <1>2, AppendBehind DEF Line
<1>4. asked \subseteq Query /\ asked' \subseteq Query
  BY PacketFields DEF LInv, AlertsType
<1>5. AlertsType'
  BY <1>1, <1>2, <1>4 DEF LInv, AlertsType, AlertType
<1>6. CASE ReuseEarly
  BY <1>5, <1>6 DEF LInv
<1>7. CASE ~ReuseEarly
  <2>1. Once(asked) /\ Paired(Line, asked)
    BY <1>7 DEF LInv, InOrder
  <2>2. Once(asked') /\ Paired(Line', asked') /\ HeardIn(Line', asked') = HeardIn(Line, asked)
    BY <1>3, <1>4, <1>7, <2>1, SendPaired, EndPaired
  <2>. QED
    BY <1>5, <2>2 DEF LInv, InOrder, Heard
<1>. QED
  BY <1>6, <1>7

\* process_alert of the first alert that waits.
LEMMA HearStep ==
    ASSUME LInv, popped # <<>>, popped' = Tail(popped), alerts' = alerts, asked' = asked
    PROVE  /\ LInv' /\ Head(popped) \in PacketAlert
           /\ ~ReuseEarly => LET q == Head(popped).of IN
                  /\ Head(popped).kind = "query" => /\ \A r \in Heard : r.tid # q.tid
                                                    /\ Heard' = Heard \cup {q}
                  /\ Head(popped).kind # "query" => q \in Heard /\ Heard' = Heard \ {q}
<1>1. popped \in Seq(PacketAlert) /\ alerts[Plain] \in Seq(PacketAlert) /\ asked \in SUBSET Query
  BY DEF LInv, AlertsType
<1>2. /\ Line' = Tail(Line) /\ Head(popped) = Head(Line) /\ Line # <<>> /\ Line \in Seq(PacketAlert)
      /\ Head(popped) \in PacketAlert /\ Tail(popped) \in Seq(PacketAlert)
  BY <1>1, TailBefore DEF Line
<1>3. AlertsType'
  BY <1>2 DEF LInv, AlertsType
<1>4. CASE ReuseEarly
  BY <1>2, <1>3, <1>4 DEF LInv
<1>5. CASE ~ReuseEarly
  <2>1. Once(asked) /\ Paired(Line, asked)
    BY <1>5 DEF LInv, InOrder
  <2>2. Paired(Line', asked')
    BY <1>1, <1>2, <2>1, HearPaired
  <2>3. /\ Head(Line).kind = "query" => /\ \A r \in Heard : r.tid # Head(Line).of.tid
                                        /\ Heard' = Heard \cup {Head(Line).of}
        /\ Head(Line).kind # "query" => Head(Line).of \in Heard /\ Heard' = Heard \ {Head(Line).of}
    BY <1>1, <1>2, <2>1, HearPaired DEF Heard
  <2>. QED
    BY <1>2, <1>3, <2>1, <2>2, <2>3 DEF LInv, InOrder
<1>. QED
  BY <1>4, <1>5

\* Nothing that the manager may hear is added or taken.
LEMMA QuietStep ==
    ASSUME LInv, AlertsType', Line' = Line, asked' = asked
    PROVE  LInv' /\ Heard' = Heard
BY DEF LInv, InOrder, Heard

\* libtorrent's own steps, and taking the alerts of a session.
LEMMA LibtorrentStep ==
    ASSUME LInv,
           \/ \E h \in Hops : PostStats(h)
           \/ \E t \in Transaction, i \in Infohash : SendQuery(t, i)
           \/ \E q \in asked : GiveUp(q) \/ \E bits \in SUBSET Peer : Answer(q, bits, bits)
           \/ PopAlerts
    PROVE  LInv' /\ (ReuseEarly \/ Heard' = Heard)
<1>1. asked \subseteq Query /\ popped \in Seq(PacketAlert) /\ alerts \in [Hops -> Seq(AlertType)]
      /\ alerts[Plain] \in Seq(PacketAlert) /\ Plain \in Hops
  BY DEF LInv, AlertsType
<1>2. ASSUME NEW h \in Hops, PostStats(h) PROVE LInv' /\ Heard' = Heard
  <2>1. h # Plain /\ alerts' = [alerts EXCEPT ![h] = Append(@, [kind |-> "stats"])]
        /\ popped' = popped /\ asked' = asked
    BY <1>2 DEF PostStats, Post
  <2>2. Line' = Line
    BY <1>1, <2>1 DEF Line
  <2>3. AlertsType'
    BY <1>1, <2>1 DEF AlertsType, AlertType
  <2>. QED
    BY <2>1, <2>2, <2>3, QuietStep
<1>3. ASSUME NEW t \in Transaction, NEW i \in Infohash, SendQuery(t, i)
      PROVE  LInv' /\ (ReuseEarly \/ Heard' = Heard)
  <2>. DEFINE a == [kind |-> "query", of |-> [tid |-> t, infohash |-> i]]
  <2>1. a \in PacketAlert /\ a.kind = "query" /\ a.of = [tid |-> t, infohash |-> i] /\ a.of.tid = t
    BY DEF PacketAlert, Query
  <2>2. alerts' = [alerts EXCEPT ![Plain] = Append(@, a)] /\ popped' = popped
        /\ asked' = asked \cup {a.of} /\ (ReuseEarly \/ \A q \in asked : q.tid # a.of.tid)
    BY <1>3 DEF SendQuery, Post
  <2>. HIDE DEF a
  <2>. QED
    BY <2>1, <2>2, PacketStep
<1>4. ASSUME NEW q \in asked, NEW bits \in SUBSET Peer, Answer(q, bits, bits)
      PROVE  LInv' /\ (ReuseEarly \/ Heard' = Heard)
  <2>. DEFINE a == [kind |-> "answer", of |-> q, seeds |-> bits, peers |-> bits]
  <2>1. a \in PacketAlert /\ a.kind # "query" /\ a.of = q
    BY <1>1 DEF PacketAlert
  <2>2. alerts' = [alerts EXCEPT ![Plain] = Append(@, a)] /\ popped' = popped
        /\ asked' = asked \ {q}
    BY <1>4 DEF Answer, Post
  <2>. HIDE DEF a
  <2>. QED
    BY <2>1, <2>2, PacketStep
<1>5. ASSUME NEW q \in asked, GiveUp(q) PROVE LInv' /\ (ReuseEarly \/ Heard' = Heard)
  <2>. DEFINE a == [kind |-> "nothing", of |-> q]
  <2>1. a \in PacketAlert /\ a.kind # "query" /\ a.of = q
    BY <1>1 DEF PacketAlert
  <2>2. alerts' = [alerts EXCEPT ![Plain] = Append(@, a)] /\ popped' = popped
        /\ asked' = asked \ {q}
    BY <1>5 DEF GiveUp, Post
  <2>. HIDE DEF a
  <2>. QED
    BY <2>1, <2>2, PacketStep
<1>6. ASSUME PopAlerts PROVE LInv' /\ Heard' = Heard
  <2>. DEFINE h == Head(poll)
  <2>1. popped = <<>> /\ asked' = asked
    BY <1>6 DEF PopAlerts, Idle
  <2>2. CASE ltsessions[h] = "failed"
    <3>1. UNCHANGED <<alerts, popped>>
      BY <1>6, <2>2 DEF PopAlerts
    <3>. QED
      BY <2>1, <3>1, QuietStep DEF LInv, AlertsType, Line
  <2>3. CASE ltsessions[h] # "failed"
    <3>1. alerts' = [alerts EXCEPT ![h] = <<>>] /\ popped' = IF h = Plain THEN alerts[h] ELSE <<>>
      BY <1>6, <2>3 DEF PopAlerts
    <3>2. AlertsType'
      <4>1. <<>> \in Seq(PacketAlert) /\ <<>> \in Seq(AlertType)
        OBVIOUS
      <4>2. alerts' \in [Hops -> Seq(AlertType)]
        BY <1>1, <3>1, <4>1
      <4>3. alerts'[Plain] \in Seq(PacketAlert) /\ popped' \in Seq(PacketAlert)
        BY <1>1, <3>1, <4>1
      <4>. QED
        BY <2>1, <4>2, <4>3 DEF LInv, AlertsType
    <3>3. CASE h = Plain
      <4>1. popped' = alerts[Plain] /\ alerts'[Plain] = <<>>
        BY <1>1, <3>1, <3>3
      <4>2. \A u \in Seq(PacketAlert) : u \o <<>> = u /\ <<>> \o u = u
        OBVIOUS
      <4>3. Line' = Line
        BY <1>1, <2>1, <4>1, <4>2 DEF Line
      <4>. QED
        BY <2>1, <3>2, <4>3, QuietStep
    <3>4. CASE h # Plain
      <4>1. Line' = Line
        BY <1>1, <2>1, <3>1, <3>4 DEF Line
      <4>. QED
        BY <2>1, <3>2, <4>1, QuietStep
    <3>. QED
      BY <3>3, <3>4
  <2>. QED
    BY <2>2, <2>3
<1>. QED
  BY <1>2, <1>3, <1>4, <1>5, <1>6

\* Everything but libtorrent's steps and process_alert leaves the alerts alone.
LEMMA OtherStep ==
    ASSUME LInv,
           \/ Initialize \/ ShutDown
           \/ \E c \in [limits : 1 .. MaxSettings, advanced : BOOLEAN] : UpdateSettings(c)
           \/ ProcessAdvancedRateLimits
           \/ \E h \in Hops : \/ GetSession(h) \/ SetSessionSettings(h)
                              \/ Proxied(h) \/ SetLimitsInThread(h) \/ DictionaryChanged(h) \/ Created(h)
           \/ StartRound
           \/ \E i \in Infohash : Lookup(GetHealth(i)) \/ Lookup(CancelLookup(i))
           \/ \E n \in TaskName : Lookup(FinalizeLookup(n))
           \/ UNCHANGED allVars
    PROVE  LInv' /\ Heard' = Heard
<1>1. UNCHANGED <<alerts, popped, asked>>
  BY DEF Initialize, ShutDown, UpdateSettings, ProcessAdvancedRateLimits, GetSession, SetSessionSettings,
         Proxied, SetLimitsInThread, DictionaryChanged, Created, StartRound, Lookup, GetHealth, CancelLookup,
         FinalizeLookup, allVars, alertVars
<1>. QED
  BY <1>1, QuietStep DEF LInv, AlertsType, Line
-----------------------------------------------------------------------------
(***************************************************************************)
(* The mapping of the steps.                                               *)
(***************************************************************************)

\* The invariant holds whatever happens.
THEOREM LStep == LInv /\ [SessionsNext]_allVars => LInv'
<1>. SUFFICES ASSUME LInv, [SessionsNext]_allVars PROVE LInv'
  OBVIOUS
<1>1. CASE HearQuery \/ HearAnswer \/ HearNothing
  <2>1. popped # <<>> /\ popped' = Tail(popped) /\ alerts' = alerts /\ asked' = asked
    BY <1>1 DEF HearQuery, HearAnswer, HearNothing, Rest
  <2>. QED
    BY <2>1, HearStep
<1>. QED
  BY <1>1, LibtorrentStep, OtherStep DEF SessionsNext

\* Each step is one of the manager that hears the packets at once, or none.
THEOREM MapsToStep ==
    LInv /\ ~ReuseEarly /\ [SessionsNext]_allVars => [Health!Next]_(Health!vars)
<1>. SUFFICES ASSUME LInv, ~ReuseEarly, [SessionsNext]_allVars PROVE [Health!Next]_(Health!vars)
  OBVIOUS
<1>1. CASE HearQuery
  <2>. DEFINE a == Head(popped)
  <2>1. popped # <<>> /\ popped' = Tail(popped) /\ alerts' = alerts /\ asked' = asked /\ a.kind = "query"
    BY <1>1 DEF HearQuery, Rest, NextAlert
  <2>2. a \in PacketAlert /\ (\A r \in Heard : r.tid # a.of.tid) /\ Heard' = Heard \cup {a.of}
    BY <2>1, HearStep
  <2>3. a.of = [tid |-> a.of.tid, infohash |-> a.of.infohash]
        /\ a.of.tid \in Transaction /\ a.of.infohash \in Infohash
    BY <2>2, PacketFields DEF Query
  <2>4. Health!RequestingBloomfilters(a.of.tid, a.of.infohash)
    BY <1>1, <2>2, <2>3 DEF HearQuery, NextAlert, Health!RequestingBloomfilters, Overheard, Health!Overheard,
       Listed, Health!Listed
  <2>. QED
    BY <2>3, <2>4 DEF Health!Next
<1>2. CASE HearAnswer
  <2>. DEFINE a == Head(popped)
  <2>1. popped # <<>> /\ popped' = Tail(popped) /\ alerts' = alerts /\ asked' = asked /\ a.kind = "answer"
    BY <1>2 DEF HearAnswer, Rest, NextAlert
  <2>2. a \in PacketAlert /\ a.of \in Heard /\ Heard' = Heard \ {a.of}
    BY <2>1, HearStep
  <2>3. a.of \in Query /\ a.seeds \in SUBSET Peer /\ a.peers \in SUBSET Peer
    BY <2>1, <2>2, PacketFields
  <2>4. Health!ReceivedBloomfilters(a.of, a.seeds, a.peers)
    BY <1>2, <2>2 DEF HearAnswer, NextAlert, Health!ReceivedBloomfilters, Combine, Health!Combine
  <2>. QED
    BY <2>3, <2>4 DEF Health!Next, Health!Query, Query
<1>3. CASE HearNothing
  <2>. DEFINE a == Head(popped)
  <2>1. popped # <<>> /\ popped' = Tail(popped) /\ alerts' = alerts /\ asked' = asked /\ a.kind = "nothing"
    BY <1>3 DEF HearNothing, Rest, NextAlert
  <2>2. a \in PacketAlert /\ a.of \in Heard /\ Heard' = Heard \ {a.of}
    BY <2>1, HearStep
  <2>3. Health!Unanswered(a.of)
    BY <1>3, <2>2 DEF HearNothing, healthVars, Health!Unanswered
  <2>. QED
    BY <2>2, <2>3, PacketFields DEF Health!Next, Health!Query, Query
<1>4. ASSUME NEW i \in Infohash, Lookup(GetHealth(i)) \/ Lookup(CancelLookup(i)) PROVE Health!Next
  <2>1. Heard' = Heard
    BY <1>4, OtherStep
  <2>2. Health!GetHealth(i) \/ Health!CancelLookup(i)
    BY <1>4, <2>1 DEF Lookup, GetHealth, CancelLookup, Listed, Health!GetHealth, Health!CancelLookup, Health!Listed
  <2>. QED
    BY <2>2 DEF Health!Next
<1>5. ASSUME NEW n \in TaskName, Lookup(FinalizeLookup(n)) PROVE Health!Next
  <2>1. Heard' = Heard
    BY <1>5, OtherStep
  <2>2. Health!FinalizeLookup(n)
    BY <1>5, <2>1 DEF Lookup, FinalizeLookup, Forgotten, Health!FinalizeLookup, Health!Forgotten
  <2>. QED
    BY <2>2 DEF Health!Next
<1>6. CASE \/ \E h \in Hops : PostStats(h)
           \/ \E t \in Transaction, i \in Infohash : SendQuery(t, i)
           \/ \E q \in asked : GiveUp(q) \/ \E bits \in SUBSET Peer : Answer(q, bits, bits)
           \/ PopAlerts
  <2>1. Heard' = Heard
    BY <1>6, LibtorrentStep
  <2>2. UNCHANGED healthVars
    BY <1>6 DEF PostStats, SendQuery, GiveUp, Answer, PopAlerts
  <2>. QED
    BY <2>1, <2>2 DEF Health!vars, healthVars
<1>7. CASE \/ Initialize \/ ShutDown
           \/ \E c \in [limits : 1 .. MaxSettings, advanced : BOOLEAN] : UpdateSettings(c)
           \/ ProcessAdvancedRateLimits
           \/ \E h \in Hops : \/ GetSession(h) \/ SetSessionSettings(h)
                              \/ Proxied(h) \/ SetLimitsInThread(h) \/ DictionaryChanged(h) \/ Created(h)
           \/ StartRound
           \/ UNCHANGED allVars
  <2>1. Heard' = Heard
    BY <1>7, OtherStep
  <2>2. UNCHANGED healthVars
    BY <1>7 DEF Initialize, ShutDown, UpdateSettings, ProcessAdvancedRateLimits, GetSession, SetSessionSettings,
         Proxied, SetLimitsInThread, DictionaryChanged, Created, StartRound, allVars
  <2>. QED
    BY <2>1, <2>2 DEF Health!vars, healthVars
<1>. QED
  BY <1>1, <1>2, <1>3, <1>4, <1>5, <1>6, <1>7 DEF SessionsNext

\* Behind the alerts, the manager does what it does when it hears each packet at once, unless
\* libtorrent reuses an id early: the answer to the first query would pass for the second's.
THEOREM Implements == ~ReuseEarly => (SessionsSpec => HealthBehindAlerts)
<1>1. SessionsInit => Health!Init
  BY InitLInv DEF SessionsInit, Init, Health!Init
<1>. SUFFICES ASSUME ~ReuseEarly PROVE SessionsSpec => HealthBehindAlerts
  OBVIOUS
<1>2. LInv /\ [SessionsNext]_allVars => [Health!Next]_(Health!vars)
  BY MapsToStep
<1>3. SessionsInit => LInv
  BY InitLInv
<1>. QED
  BY <1>1, <1>2, <1>3, LStep, PTL DEF SessionsSpec, HealthBehindAlerts, Health!Spec

\* What holds of the manager that hears at once holds behind the alerts.
AtOnce == INSTANCE DHTHealthProofs WITH asked <- Heard

\* No filter behind the alerts holds a peer of another swarm.
THEOREM OwnFiltersBehindAlerts == ~ReuseEarly => (SessionsSpec => []FiltersAreOwn)
<1>. SUFFICES ASSUME ~ReuseEarly PROVE SessionsSpec => []FiltersAreOwn
  OBVIOUS
<1>1. SessionsSpec => HealthBehindAlerts
  BY Implements
<1>2. AtOnce!Spec => [](ReuseEarly \/ AtOnce!FiltersAreOwn)
  BY AtOnce!OwnFilters
<1>3. HealthBehindAlerts => AtOnce!Spec
  <2>1. Health!Init => AtOnce!Init
    BY DEF Health!Init, AtOnce!Init
  <2>2. [Health!Next]_(Health!vars) => [AtOnce!Next]_(AtOnce!vars)
    <3>1. \A i \in Infohash : /\ Health!GetHealth(i) => AtOnce!GetHealth(i)
                              /\ Health!CancelLookup(i) => AtOnce!CancelLookup(i)
      BY DEF Health!GetHealth, AtOnce!GetHealth, Health!CancelLookup, AtOnce!CancelLookup,
             Health!Listed, AtOnce!Listed
    <3>2. \A n \in TaskName : Health!FinalizeLookup(n) => AtOnce!FinalizeLookup(n)
      BY DEF Health!FinalizeLookup, AtOnce!FinalizeLookup, Health!Forgotten, AtOnce!Forgotten
    <3>3. \A t \in Transaction, i \in Infohash :
              Health!RequestingBloomfilters(t, i) => AtOnce!RequestingBloomfilters(t, i)
      BY DEF Health!RequestingBloomfilters, AtOnce!RequestingBloomfilters, Health!Overheard,
             AtOnce!Overheard, Health!Listed, AtOnce!Listed
    <3>4. \A q, seeds, peers :
              Health!ReceivedBloomfilters(q, seeds, peers) => AtOnce!ReceivedBloomfilters(q, seeds, peers)
      BY DEF Health!ReceivedBloomfilters, AtOnce!ReceivedBloomfilters, Health!Combine, AtOnce!Combine
    <3>5. \A q : Health!Unanswered(q) => AtOnce!Unanswered(q)
      BY DEF Health!Unanswered, AtOnce!Unanswered
    <3>. QED
      BY <3>1, <3>2, <3>3, <3>4, <3>5
         DEF Health!Next, AtOnce!Next, Health!vars, AtOnce!vars, Health!Query, AtOnce!Query
  <2>. QED
    BY <2>1, <2>2, PTL DEF HealthBehindAlerts, Health!Spec, AtOnce!Spec
<1>4. (ReuseEarly \/ AtOnce!FiltersAreOwn) => FiltersAreOwn
  BY DEF AtOnce!FiltersAreOwn, FiltersAreOwn
<1>. QED
  BY <1>1, <1>2, <1>3, <1>4, PTL

\* And whether libtorrent reuses its ids early or not, a kept id stands for a listed lookup,
\* although packets are heard after lookups have ended.
Kept == /\ lookup_futures \in [Infohash -> {"none", "pending", "cancelled"}]
        /\ outstanding \in [Transaction -> Infohash \cup {NoInfohash}]
        /\ tasks \in [TaskName -> Infohash \cup {NoInfohash}]
        /\ OutstandingIsListed

\* Every step keeps the ids of listed lookups only.
LEMMA KeptStep == LInv /\ Kept /\ [SessionsNext]_allVars => Kept'
<1>. SUFFICES ASSUME LInv, Kept, [SessionsNext]_allVars PROVE Kept'
  OBVIOUS
<1>1. CASE HearQuery
  <2>. DEFINE a == Head(popped)
  <2>1. popped # <<>> /\ popped' = Tail(popped) /\ alerts' = alerts /\ asked' = asked
    BY <1>1 DEF HearQuery, Rest
  <2>2. a.of.tid \in Transaction /\ a.of.infohash \in Infohash
    BY <2>1, HearStep, PacketFields
  <2>3. /\ outstanding' = [outstanding EXCEPT ![a.of.tid] = IF Listed(a.of.infohash) THEN a.of.infohash
                                                                                    ELSE NoInfohash]
        /\ UNCHANGED <<lookup_futures, tasks>>
    BY <1>1 DEF HearQuery, NextAlert, Overheard
  <2>. HIDE DEF a
  <2>. QED
    BY <2>2, <2>3 DEF Kept, OutstandingIsListed, Listed
<1>2. ASSUME NEW i \in Infohash, Lookup(GetHealth(i)) PROVE Kept'
  <2>1. PICK n \in TaskName :
          tasks' = IF tasks[n] = NoInfohash THEN [tasks EXCEPT ![n] = i] ELSE tasks
    BY <1>2 DEF Lookup, GetHealth
  <2>2. lookup_futures' = [lookup_futures EXCEPT ![i] = "pending"] /\ outstanding' = outstanding
    BY <1>2 DEF Lookup, GetHealth
  <2>. QED
    BY <2>1, <2>2 DEF Kept, OutstandingIsListed, Listed
<1>3. ASSUME NEW i \in Infohash, Lookup(CancelLookup(i)) PROVE Kept'
  BY <1>3 DEF Lookup, CancelLookup, Kept, OutstandingIsListed, Listed
<1>4. ASSUME NEW n \in TaskName, Lookup(FinalizeLookup(n)) PROVE Kept'
  BY <1>4 DEF Lookup, FinalizeLookup, Forgotten, Kept, OutstandingIsListed, Listed
<1>5. CASE UNCHANGED <<lookup_futures, outstanding, tasks>>
  BY <1>5 DEF Kept, OutstandingIsListed, Listed
<1>. QED
  BY <1>1, <1>2, <1>3, <1>4, <1>5
     DEF SessionsNext, Initialize, ShutDown, UpdateSettings, ProcessAdvancedRateLimits, GetSession,
         SetSessionSettings, Proxied, SetLimitsInThread, DictionaryChanged, Created, StartRound,
         PostStats, SendQuery, GiveUp, Answer, PopAlerts, HearAnswer, HearNothing, healthVars, allVars

\* An id that is kept behind the alerts stands for a listed lookup, also when ids are reused early.
THEOREM KeptBehindAlerts == SessionsSpec => []OutstandingIsListed
<1>1. SessionsInit => LInv /\ Kept
  BY InitLInv DEF SessionsInit, Init, Kept, OutstandingIsListed
<1>2. Kept => OutstandingIsListed
  BY DEF Kept
<1>. QED
  BY <1>1, <1>2, LStep, KeptStep, PTL DEF SessionsSpec
-----------------------------------------------------------------------------
(***************************************************************************)
(* Limits.  What a session will have once its callbacks have run is what   *)
(* the last of them says, or what it has if none says anything (LastIn).   *)
(***************************************************************************)
USE LimitsAssumption

Value   == Int \cup {None}
Setting == [limits : Value, rate : Value]
Config  == [limits : Int, advanced : BOOLEAN]

LastIn(line, a, R) ==
    \/ \E k \in DOMAIN line : line[k] \in R \ {None} /\ \A j \in k + 1 .. Len(line) : line[j] = None
    \/ (\A k \in DOMAIN line : line[k] = None) /\ a \in R

LimitsLine(cb) == [k \in 1 .. Len(cb) |-> cb[k].limits]
RateLine(cb)   == [k \in 1 .. Len(cb) |-> cb[k].rate]

RatesOf(c)  == IF c.advanced THEN Rates ELSE {PlainRate(c.limits)}
\* Of the settings c.
Fresh(c, cb, a) == LastIn(LimitsLine(cb), a.limits, {c.limits}) /\ LastIn(RateLine(cb), a.rate, RatesOf(c))
HasNow(cb)  == \E k \in DOMAIN cb : cb[k] = Now

\* One more callback: it says nothing new, or what is current.
LEMMA AppendLast ==
    ASSUME NEW line \in Seq(Value), NEW v \in Value, NEW a, NEW R,
           v = None => LastIn(line, a, R), v # None => v \in R
    PROVE  LastIn(Append(line, v), a, R)
<1>1. /\ DOMAIN Append(line, v) = 1 .. Len(line) + 1 /\ Len(Append(line, v)) = Len(line) + 1
      /\ DOMAIN line = 1 .. Len(line) /\ Len(line) \in Nat
      /\ Append(line, v)[Len(line) + 1] = v
      /\ \A k \in DOMAIN line : Append(line, v)[k] = line[k]
  OBVIOUS
<1>2. CASE v # None
  BY <1>1, <1>2 DEF LastIn
<1>3. CASE v = None
  <2>1. CASE \E k \in DOMAIN line : line[k] \in R \ {None} /\ \A j \in k + 1 .. Len(line) : line[j] = None
    BY <1>1, <1>3, <2>1 DEF LastIn
  <2>2. CASE (\A k \in DOMAIN line : line[k] = None) /\ a \in R
    BY <1>1, <1>3, <2>2 DEF LastIn
  <2>. QED
    BY <1>3, <2>1, <2>2 DEF LastIn
<1>. QED
  BY <1>2, <1>3

\* One callback has run: the session has what it said.
LEMMA TailLast ==
    ASSUME NEW line \in Seq(Value), NEW a, NEW R, LastIn(line, a, R), line # <<>>
    PROVE  LastIn(Tail(line), IF line[1] = None THEN a ELSE line[1], R)
<1>. DEFINE rest == Tail(line)
            b    == IF line[1] = None THEN a ELSE line[1]
<1>1. /\ Len(line) \in Nat \ {0} /\ DOMAIN line = 1 .. Len(line) /\ DOMAIN rest = 1 .. Len(line) - 1
      /\ Len(rest) = Len(line) - 1 /\ \A k \in 1 .. Len(line) - 1 : rest[k] = line[k + 1]
  OBVIOUS
<1>2. CASE (\A k \in DOMAIN line : line[k] = None) /\ a \in R
  BY <1>1, <1>2 DEF LastIn
<1>3. ASSUME NEW k \in DOMAIN line, line[k] \in R \ {None}, \A j \in k + 1 .. Len(line) : line[j] = None
      PROVE  LastIn(rest, b, R)
  <2>1. CASE k = 1
    <3>1. \A j \in DOMAIN rest : rest[j] = None
      BY <1>1, <1>3, <2>1
    <3>. QED
      BY <1>3, <2>1, <3>1 DEF LastIn
  <2>2. CASE k # 1
    <3>1. k - 1 \in DOMAIN rest /\ rest[k - 1] = line[k]
      BY <1>1, <2>2
    <3>2. \A j \in (k - 1) + 1 .. Len(rest) : rest[j] = None
      BY <1>1, <1>3, <2>2
    <3>. QED
      BY <1>3, <3>1, <3>2 DEF LastIn
  <2>. QED
    BY <2>1, <2>2
<1>. QED
  BY <1>2, <1>3 DEF LastIn

\* The lines of the callbacks.
LEMMA Lines ==
    ASSUME NEW cb \in Seq(Setting)
    PROVE  /\ LimitsLine(cb) \in Seq(Value) /\ RateLine(cb) \in Seq(Value)
           /\ \A c \in Setting : /\ LimitsLine(Append(cb, c)) = Append(LimitsLine(cb), c.limits)
                                 /\ RateLine(Append(cb, c)) = Append(RateLine(cb), c.rate)
           /\ cb # <<>> => /\ LimitsLine(Tail(cb)) = Tail(LimitsLine(cb)) /\ LimitsLine(cb) # <<>>
                           /\ RateLine(Tail(cb)) = Tail(RateLine(cb)) /\ RateLine(cb) # <<>>
                           /\ LimitsLine(cb)[1] = Head(cb).limits /\ RateLine(cb)[1] = Head(cb).rate
           /\ cb = <<>> => LimitsLine(cb) = <<>> /\ RateLine(cb) = <<>>
<1>1. LimitsLine(cb) \in Seq(Value) /\ RateLine(cb) \in Seq(Value)
  <2>1. \A n \in Nat : \A f \in [1 .. n -> Value] : f \in Seq(Value)
    BY SMT
  <2>2. Len(cb) \in Nat /\ \A k \in 1 .. Len(cb) : cb[k].limits \in Value /\ cb[k].rate \in Value
    <3>1. Len(cb) \in Nat /\ \A k \in 1 .. Len(cb) : cb[k] \in Setting
      OBVIOUS
    <3>2. \A c \in Setting : c.limits \in Value /\ c.rate \in Value
      BY DEF Setting
    <3>. QED
      BY <3>1, <3>2
  <2>. QED
    BY <2>1, <2>2 DEF LimitsLine, RateLine
<1>2. ASSUME NEW c \in Setting
      PROVE  /\ LimitsLine(Append(cb, c)) = Append(LimitsLine(cb), c.limits)
             /\ RateLine(Append(cb, c)) = Append(RateLine(cb), c.rate)
  <2>1. c.limits \in Value /\ c.rate \in Value /\ Append(cb, c) \in Seq(Setting)
    BY DEF Setting
  <2>. QED
    BY <1>1, <2>1 DEF LimitsLine, RateLine, Setting
<1>3. ASSUME cb # <<>>
      PROVE  /\ LimitsLine(Tail(cb)) = Tail(LimitsLine(cb)) /\ LimitsLine(cb) # <<>>
             /\ RateLine(Tail(cb)) = Tail(RateLine(cb)) /\ RateLine(cb) # <<>>
             /\ LimitsLine(cb)[1] = Head(cb).limits /\ RateLine(cb)[1] = Head(cb).rate
  BY <1>1, <1>3 DEF LimitsLine, RateLine, Setting
<1>4. cb = <<>> => LimitsLine(cb) = <<>> /\ RateLine(cb) = <<>>
  BY DEF LimitsLine, RateLine
<1>. QED
  BY <1>1, <1>2, <1>3, <1>4
-----------------------------------------------------------------------------
SessionsType ==
    /\ ltsessions \in [Hops -> Over \cup {"absent", "creating"}]
    /\ order \in Seq(Hops)
    /\ thread \in [Hops -> [at : {"none", "building", "limits", "returning"}, read : Config, keys : Nat]]
    /\ callbacks \in [Hops -> Seq(Setting)]
    /\ config \in Config
    /\ applied \in [Hops -> Setting]

\* The dictionary has the sessions that were asked for; a future is over when its thread ends,
\* or before, if it is cancelled.
Threads == /\ \A h \in Hops :
                 /\ (h \in ToSet(order)) = (ltsessions[h] # "absent")
                 /\ thread[h].at # "none" => ltsessions[h] \in {"creating", "cancelled"}
                 /\ ltsessions[h] = "creating" => thread[h].at # "none"
                 /\ ltsessions[h] = "absent" => callbacks[h] = <<>>
           /\ stage # "new" => ltsessions[Background] # "absent"

\* What a session that can still be used will have is current; or its callbacks will ask for
\* the limits (the session of lookups), or its thread will (the others).
Current(h) ==
    \/ Fresh(config, callbacks[h], applied[h])
    \/ h = Background /\ HasNow(callbacks[h])
    \/ h # Background /\ thread[h].at \in {"building", "limits"}
    \/ ltsessions[h] \in {"failed", "cancelled"}

CurrentInv == SessionsType /\ Threads /\ \A h \in ToSet(order) \ overwritten : Current(h)

\* What set_session_limits and process_advanced_rate_limits pass on.
LEMMA Settings ==
    /\ Now \in Setting /\ Scheduled \subseteq Setting /\ Rates \subseteq Int
    /\ \A c \in Config : /\ Limits(c) \in Setting /\ Limits(c).limits = c.limits /\ Limits(c) # Now
                         /\ Limits(c).rate = IF c.advanced THEN None ELSE PlainRate(c.limits)
                         /\ PlainRate(c.limits) \in Int
    /\ \A s \in Scheduled : s.limits = None /\ s.rate \in Rates /\ s # Now
<1>1. Rates \subseteq Int
  <2>1. ASSUME NEW ua \in Value, NEW ub \in Value, NEW minute \in Int PROVE UserRate(ua, ub, minute) \in Int
    BY <2>1 DEF UserRate, Value
  <2>. QED
    BY <2>1 DEF Rates, Value
<1>2. \A c \in Config : PlainRate(c.limits) \in Int
  BY DEF Config, PlainRate
<1>. QED
  BY <1>1, <1>2 DEF Now, Scheduled, Setting, Value, Limits, Config

\* The callbacks add what is current.
LEMMA AppendFresh ==
    ASSUME NEW cb \in Seq(Setting), NEW a \in Setting, NEW c \in Setting, NEW user \in Config,
           c.limits = None => LastIn(LimitsLine(cb), a.limits, {user.limits}),
           c.limits # None => c.limits = user.limits,
           c.rate = None => LastIn(RateLine(cb), a.rate, RatesOf(user)),
           c.rate # None => c.rate \in RatesOf(user)
    PROVE  Fresh(user, Append(cb, c), a)
<1>1. c.limits \in Value /\ c.rate \in Value /\ LimitsLine(cb) \in Seq(Value) /\ RateLine(cb) \in Seq(Value)
  BY Lines DEF Setting
<1>2. LastIn(Append(LimitsLine(cb), c.limits), a.limits, {user.limits})
  BY <1>1, AppendLast
<1>3. LastIn(Append(RateLine(cb), c.rate), a.rate, RatesOf(user))
  BY <1>1, AppendLast
<1>. QED
  BY <1>2, <1>3, Lines DEF Fresh

\* set_session_limits, with what the user has set, whatever was there; the scheduled rates
\* follow it.
LEMMA LimitsThenScheduled ==
    ASSUME NEW cb \in Seq(Setting), NEW a \in Setting, NEW user \in Config
    PROVE  /\ ~user.advanced => Fresh(user, Append(cb, Limits(user)), a)
           /\ user.advanced => \A s \in Scheduled :
                 /\ Fresh(user, Append(Append(cb, Limits(user)), s), a)
                 /\ Fresh(user, cb, a) => Fresh(user, Append(cb, s), a)
<1>1. /\ Limits(user) \in Setting /\ Limits(user).limits = user.limits /\ user.limits # None
      /\ Limits(user).rate = IF user.advanced THEN None ELSE PlainRate(user.limits)
  BY Settings DEF Config
<1>2. CASE ~user.advanced
  BY <1>1, <1>2, AppendFresh, Settings DEF RatesOf
<1>3. CASE user.advanced
  <2>. SUFFICES ASSUME NEW s \in Scheduled
                PROVE  /\ Fresh(user, Append(Append(cb, Limits(user)), s), a)
                       /\ Fresh(user, cb, a) => Fresh(user, Append(cb, s), a)
    BY <1>3
  <2>1. s \in Setting /\ s.limits = None /\ s.rate \in RatesOf(user) /\ s.rate # None
    BY <1>3, Settings DEF RatesOf
  <2>2. LastIn(LimitsLine(Append(cb, Limits(user))), a.limits, {user.limits})
    <3>1. LimitsLine(Append(cb, Limits(user))) = Append(LimitsLine(cb), user.limits)
      BY <1>1, Lines
    <3>2. user.limits \in Value /\ LimitsLine(cb) \in Seq(Value)
      BY Lines DEF Config, Value
    <3>. QED
      BY <1>1, <3>1, <3>2, AppendLast
  <2>3. Append(cb, Limits(user)) \in Seq(Setting)
    BY <1>1
  <2>4. Fresh(user, Append(Append(cb, Limits(user)), s), a)
    BY <2>1, <2>2, <2>3, AppendFresh
  <2>5. Fresh(user, cb, a) => Fresh(user, Append(cb, s), a)
    BY <2>1, AppendFresh DEF Fresh
  <2>. QED
    BY <2>4, <2>5
<1>. QED
  BY <1>2, <1>3

\* A callback has run.
LEMMA TailFresh ==
    ASSUME NEW cb \in Seq(Setting), NEW a \in Setting, NEW user \in Config, cb # <<>>,
           Fresh(user, cb, a)
    PROVE  Fresh(user, Tail(cb), Update(a, Head(cb))) /\ Tail(cb) \in Seq(Setting) /\ Update(a, Head(cb)) \in Setting
<1>1. /\ LimitsLine(Tail(cb)) = Tail(LimitsLine(cb)) /\ LimitsLine(cb) # <<>>
      /\ RateLine(Tail(cb)) = Tail(RateLine(cb)) /\ RateLine(cb) # <<>>
      /\ LimitsLine(cb)[1] = Head(cb).limits /\ RateLine(cb)[1] = Head(cb).rate
      /\ LimitsLine(cb) \in Seq(Value) /\ RateLine(cb) \in Seq(Value)
  BY Lines
<1>2. /\ LastIn(Tail(LimitsLine(cb)), Update(a, Head(cb)).limits, {user.limits})
      /\ LastIn(Tail(RateLine(cb)), Update(a, Head(cb)).rate, RatesOf(user))
  BY <1>1, TailLast DEF Fresh, Update
<1>3. Head(cb) \in Setting /\ Tail(cb) \in Seq(Setting)
  OBVIOUS
<1>. QED
  BY <1>1, <1>2, <1>3 DEF Fresh, Update, Setting

\* process_advanced_rate_limits adds to the callbacks of the sessions that exist, and leaves
\* them as current as they were.
LEMMA AdvancedType ==
    ASSUME NEW user \in Config, NEW cb \in [Hops -> Seq(Setting)], NEW keys \in SUBSET Hops,
           NEW new \in Advanced(user, cb, keys)
    PROVE  new \in [Hops -> Seq(Setting)]
<1>1. CASE ~user.advanced
  BY <1>1 DEF Advanced
<1>2. CASE user.advanced
  <2>1. PICK s \in Scheduled : new = [g \in Hops |-> IF g \in keys THEN Append(cb[g], s) ELSE cb[g]]
    BY <1>2 DEF Advanced
  <2>2. s \in Setting
    BY Settings
  <2>3. \A g \in Hops : cb[g] \in Seq(Setting) /\ Append(cb[g], s) \in Seq(Setting)
    BY <2>2
  <2>. QED
    BY <2>1, <2>3
<1>. QED
  BY <1>1, <1>2

\* The advanced limits put a callback in some sessions' line: one that waits stays.
LEMMA AdvancedKeeps ==
    ASSUME NEW user \in Config, NEW cb \in [Hops -> Seq(Setting)], NEW keys \in SUBSET Hops,
           NEW new \in Advanced(user, cb, keys), NEW h \in Hops, NEW a \in Setting
    PROVE  /\ Fresh(user, cb[h], a) => Fresh(user, new[h], a)
           /\ HasNow(cb[h]) => HasNow(new[h])
<1>1. CASE ~user.advanced
  BY <1>1 DEF Advanced
<1>2. CASE user.advanced
  <2>1. PICK s \in Scheduled : new = [g \in Hops |-> IF g \in keys THEN Append(cb[g], s) ELSE cb[g]]
    BY <1>2 DEF Advanced
  <2>2. s \in Setting /\ \A g \in Hops : cb[g] \in Seq(Setting)
    BY Settings
  <2>3. Fresh(user, cb[h], a) => Fresh(user, new[h], a)
    BY <1>2, <2>1, <2>2, LimitsThenScheduled
  <2>4. ASSUME NEW k \in DOMAIN cb[h], cb[h][k] = Now PROVE HasNow(new[h])
    <3>1. k \in DOMAIN Append(cb[h], s) /\ Append(cb[h], s)[k] = Now
      BY <2>2, <2>4
    <3>. QED
      BY <2>1, <2>4, <3>1 DEF HasNow
  <2>. QED
    BY <2>3, <2>4 DEF HasNow
<1>. QED
  BY <1>1, <1>2

\* And one that has just been passed what the user has set, current.
LEMMA AdvancedFresh ==
    ASSUME NEW user \in Config, NEW cb \in [Hops -> Seq(Setting)], NEW keys \in SUBSET Hops,
           NEW new \in Advanced(user, cb, keys), NEW h \in keys, NEW a \in Setting, NEW old \in Seq(Setting),
           cb[h] = Append(old, Limits(user))
    PROVE  Fresh(user, new[h], a)
<1>1. CASE ~user.advanced
  BY <1>1, LimitsThenScheduled DEF Advanced
<1>2. CASE user.advanced
  <2>1. PICK s \in Scheduled : new = [g \in Hops |-> IF g \in keys THEN Append(cb[g], s) ELSE cb[g]]
    BY <1>2 DEF Advanced
  <2>. QED
    BY <1>2, <2>1, LimitsThenScheduled
<1>. QED
  BY <1>1, <1>2

\* Only sessions are listed.
LEMMA Listing == ASSUME CurrentInv PROVE ToSet(order) \subseteq Hops
BY DEF CurrentInv, SessionsType, ToSet

\* A new process.
LEMMA InitCurrent == SessionsInit => CurrentInv
<1>. SUFFICES ASSUME SessionsInit PROVE CurrentInv
  OBVIOUS
<1>1. /\ stage = "new" /\ order = <<>> /\ overwritten = {} /\ config = [limits |-> 0, advanced |-> FALSE]
      /\ ltsessions = [h \in Hops |-> "absent"] /\ callbacks = [h \in Hops |-> <<>>]
      /\ thread = [h \in Hops |-> NoThread]
      /\ applied = [h \in Hops |-> [limits |-> None, rate |-> None]]
  BY DEF SessionsInit
<1>2. SessionsType
  BY <1>1 DEF SessionsType, Over, NoThread, Config, Setting, Value
<1>3. ToSet(order) = {}
  BY <1>1 DEF ToSet
<1>. QED
  BY <1>1, <1>2, <1>3 DEF CurrentInv, Threads, NoThread

\* The user changes the limits.
LEMMA UpdateSettingsCurrent ==
    ASSUME CurrentInv, NEW c \in [limits : 1 .. MaxSettings, advanced : BOOLEAN], UpdateSettings(c)
    PROVE  CurrentInv'
<1>. DEFINE keys == ToSet(order)
            cb   == [h \in Hops |-> IF h \in keys THEN Append(callbacks[h], Limits(c)) ELSE callbacks[h]]
<1>1. /\ config' = c /\ c \in Config /\ overwritten' = {}
      /\ UNCHANGED <<stage, ltsessions, order, thread, applied>>
  BY DEF UpdateSettings, Config
<1>2. callbacks' \in Advanced(c, cb, keys)
  BY <1>1 DEF UpdateSettings, Targets
<1>3. keys \in SUBSET Hops /\ cb \in [Hops -> Seq(Setting)] /\ keys' = keys
  BY <1>1, Settings DEF CurrentInv, SessionsType, ToSet
<1>4. SessionsType'
  <2>1. callbacks' \in [Hops -> Seq(Setting)]
    <3>. HIDE DEF cb
    <3>. QED
      BY <1>1, <1>2, <1>3, AdvancedType
  <2>. QED
    BY <1>1, <2>1 DEF CurrentInv, SessionsType
<1>5. \A h \in keys : Fresh(c, callbacks'[h], applied[h])
  <2>. TAKE h \in keys
  <2>1. cb[h] = Append(callbacks[h], Limits(c)) /\ callbacks[h] \in Seq(Setting) /\ applied[h] \in Setting
    BY <1>3 DEF CurrentInv, SessionsType
  <2>. HIDE DEF cb
  <2>. QED
    BY <1>1, <1>2, <1>3, <2>1, AdvancedFresh
<1>6. \A h \in Hops : h \notin keys => callbacks'[h] = callbacks[h]
  <2>1. \A h \in Hops : h \notin keys => cb[h] = callbacks[h]
    OBVIOUS
  <2>. HIDE DEF cb
  <2>. QED
    BY <1>1, <1>2, <1>3, <2>1 DEF Advanced
<1>7. Threads'
  BY <1>1, <1>3, <1>6 DEF CurrentInv, Threads
<1>. QED
  BY <1>1, <1>3, <1>4, <1>5, <1>7 DEF CurrentInv, Current

\* Every five minutes.
LEMMA ScheduleCurrent ==
    ASSUME CurrentInv, ProcessAdvancedRateLimits
    PROVE  CurrentInv'
<1>. DEFINE keys == ToSet(order)
<1>1. /\ callbacks' \in Advanced(config, callbacks, keys)
      /\ UNCHANGED <<stage, ltsessions, order, thread, config, applied, overwritten>>
  BY DEF ProcessAdvancedRateLimits
<1>2. keys \in SUBSET Hops /\ keys' = keys /\ config \in Config /\ callbacks \in [Hops -> Seq(Setting)]
  BY <1>1 DEF CurrentInv, SessionsType, ToSet
<1>3. callbacks' \in [Hops -> Seq(Setting)] /\ \A h \in Hops : h \notin keys => callbacks'[h] = callbacks[h]
  <2>1. \A h \in Hops : h \notin keys => callbacks'[h] = callbacks[h]
    BY <1>1, <1>2 DEF Advanced
  <2>2. callbacks' \in [Hops -> Seq(Setting)]
    BY <1>1, <1>2, AdvancedType
  <2>. QED
    BY <2>1, <2>2
<1>4. SessionsType' /\ Threads'
  BY <1>1, <1>2, <1>3 DEF CurrentInv, SessionsType, Threads
<1>5. ASSUME NEW h \in keys \ overwritten PROVE Current(h)'
  <2>1. applied[h] \in Setting /\ Current(h) /\ h \in Hops
    BY <1>2 DEF CurrentInv, SessionsType
  <2>. QED
    BY <1>1, <1>2, <2>1, AdvancedKeeps DEF Current
<1>. QED
  BY <1>1, <1>2, <1>4, <1>5 DEF CurrentInv

\* A callback of a session runs; the one of the session of lookups asks for the limits.
LEMMA CallbackCurrent ==
    ASSUME CurrentInv, NEW h \in Hops, SetSessionSettings(h)
    PROVE  CurrentInv'
<1>. DEFINE keys == ToSet(order)
            c    == Head(callbacks[h])
<1>1. /\ ltsessions[h] \in Over /\ callbacks[h] # <<>>
      /\ applied' = IF ltsessions[h] # "done" THEN applied
                    ELSE [applied EXCEPT ![h] = Update(@, c)]
      /\ callbacks' \in Sequel(h)
      /\ UNCHANGED <<stage, ltsessions, order, thread, config, overwritten>>
  BY DEF SetSessionSettings
<1>2. /\ keys \in SUBSET Hops /\ keys' = keys /\ config \in Config /\ callbacks \in [Hops -> Seq(Setting)]
      /\ applied \in [Hops -> Setting] /\ h \in keys
  <2>1. keys \in SUBSET Hops
    BY DEF CurrentInv, SessionsType, ToSet
  <2>2. h \in keys
    BY <1>1 DEF CurrentInv, Threads, Over
  <2>. QED
    BY <1>1, <2>1, <2>2 DEF CurrentInv, SessionsType
<1>3. c \in Setting /\ Tail(callbacks[h]) \in Seq(Setting) /\ Limits(config) \in Setting
  BY <1>1, <1>2, Settings
<1>4. applied' \in [Hops -> Setting]
  <2>1. Update(applied[h], c) \in Setting
    BY <1>2, <1>3 DEF Update, Setting
  <2>. QED
    BY <1>1, <1>2, <2>1
<1>5. CASE ltsessions[h] = "done" /\ c = Now
  <2>. DEFINE cb == [callbacks EXCEPT ![h] = Append(Tail(@), Limits(config))]
  <2>1. callbacks' \in Advanced(config, cb, keys)
    BY <1>1, <1>5 DEF Sequel
  <2>2. cb \in [Hops -> Seq(Setting)]
    BY <1>2, <1>3
  <2>3. cb[h] = Append(Tail(callbacks[h]), Limits(config)) /\ \A g \in Hops \ {h} : cb[g] = callbacks[g]
    BY <1>2
  <2>. HIDE DEF cb
  <2>4. callbacks' \in [Hops -> Seq(Setting)]
    BY <1>2, <2>1, <2>2, AdvancedType
  <2>5. \A g \in Hops : g \notin keys => callbacks'[g] = callbacks[g]
    BY <1>2, <2>1, <2>2, <2>3 DEF Advanced
  <2>6. Fresh(config, callbacks'[h], applied'[h])
    BY <1>2, <1>3, <1>4, <2>1, <2>2, <2>3, AdvancedFresh
  <2>7. ASSUME NEW g \in keys \ overwritten, g # h PROVE Current(g)'
    <3>1. applied'[g] = applied[g] /\ applied[g] \in Setting /\ Current(g) /\ cb[g] = callbacks[g] /\ g \in Hops
      BY <1>1, <1>2, <2>3, <2>7 DEF CurrentInv
    <3>. QED
      BY <1>1, <1>2, <2>1, <2>2, <3>1, AdvancedKeeps DEF Current
  <2>8. SessionsType' /\ Threads'
    BY <1>1, <1>2, <1>4, <2>4, <2>5 DEF CurrentInv, SessionsType, Threads
  <2>. QED
    BY <1>1, <1>2, <2>6, <2>7, <2>8 DEF CurrentInv, Current
<1>6. CASE ~(ltsessions[h] = "done" /\ c = Now)
  <2>1. callbacks' = [callbacks EXCEPT ![h] = Tail(@)]
    BY <1>1, <1>6 DEF Sequel
  <2>2. SessionsType' /\ Threads'
    BY <1>1, <1>2, <1>3, <1>4, <2>1 DEF CurrentInv, SessionsType, Threads
  <2>3. ASSUME NEW g \in keys \ overwritten, g # h PROVE Current(g)'
    BY <1>1, <1>2, <2>1, <2>3 DEF CurrentInv, Current
  <2>4. ASSUME h \notin overwritten, ltsessions[h] = "done" PROVE Current(h)'
    <3>1. CASE Fresh(config, callbacks[h], applied[h])
      <4>1. Fresh(config, Tail(callbacks[h]), Update(applied[h], c))
        BY <1>1, <1>2, <3>1, TailFresh
      <4>. QED
        BY <1>1, <1>2, <2>1, <2>4, <4>1 DEF Current
    <3>2. CASE h = Background /\ HasNow(callbacks[h])
      <4>1. PICK k \in DOMAIN callbacks[h] : callbacks[h][k] = Now
        BY <3>2 DEF HasNow
      <4>2. k # 1
        BY <1>1, <1>2, <1>6, <2>4, <4>1
      <4>3. k - 1 \in DOMAIN Tail(callbacks[h]) /\ Tail(callbacks[h])[k - 1] = Now
        BY <1>1, <1>2, <4>1, <4>2
      <4>. QED
        BY <1>1, <1>2, <2>1, <3>2, <4>3 DEF Current, HasNow
    <3>. QED
      BY <1>1, <1>2, <2>4, <3>1, <3>2 DEF CurrentInv, Current, Threads
  <2>5. ASSUME ltsessions[h] # "done" PROVE Current(h)'
    BY <1>1, <2>5 DEF Current, Over
  <2>. QED
    BY <1>1, <1>2, <2>2, <2>3, <2>4, <2>5 DEF CurrentInv
<1>. QED
  BY <1>5, <1>6

\* A session that nobody has asked for yet.
LEMMA CreateCurrent ==
    ASSUME CurrentInv, NEW h \in Hops, Create(h),
           UNCHANGED <<config, applied, overwritten>>, stage = "new" => h = Background,
           callbacks' = IF h = Background THEN [callbacks EXCEPT ![h] = <<Now>>] ELSE callbacks
    PROVE  CurrentInv'
<1>1. /\ ltsessions[h] = "absent" /\ ltsessions' = [ltsessions EXCEPT ![h] = "creating"]
      /\ order' = Append(order, h) /\ thread' = [thread EXCEPT ![h].at = "building"]
  BY DEF Create
<1>2. SessionsType'
  <2>1. <<Now>> \in Seq(Setting)
    BY Settings
  <2>2. callbacks' \in [Hops -> Seq(Setting)]
    BY <2>1 DEF CurrentInv, SessionsType
  <2>3. /\ ltsessions' \in [Hops -> Over \cup {"absent", "creating"}]
        /\ order' \in Seq(Hops)
    BY <1>1 DEF CurrentInv, SessionsType
  <2>4. thread' \in [Hops -> [at : {"none", "building", "limits", "returning"}, read : Config, keys : Nat]]
    BY <1>1 DEF CurrentInv, SessionsType
  <2>. QED
    BY <2>2, <2>3, <2>4 DEF CurrentInv, SessionsType
<1>3. ToSet(order') = ToSet(order) \cup {h}
  <2>1. order \in Seq(Hops)
    BY DEF CurrentInv, SessionsType
  <2>2. /\ DOMAIN order' = DOMAIN order \cup {Len(order) + 1} /\ order'[Len(order) + 1] = h
        /\ \A k \in DOMAIN order : order'[k] = order[k]
    BY <1>1, <2>1
  <2>. QED
    BY <2>2 DEF ToSet
<1>4. Threads'
  BY <1>1, <1>3 DEF CurrentInv, SessionsType, Threads
<1>5. Current(h)'
  <2>1. HasNow(<<Now>>)
    BY DEF HasNow
  <2>. QED
    BY <1>1, <2>1 DEF CurrentInv, SessionsType, Current
<1>6. ASSUME NEW g \in ToSet(order) \ overwritten, g # h PROVE Current(g)'
  BY <1>1, <1>6, Listing DEF CurrentInv, SessionsType, Current
<1>. QED
  BY <1>2, <1>3, <1>4, <1>5, <1>6 DEF CurrentInv

\* The thread of a session goes on or raises, and the event loop takes its result.
LEMMA ThreadCurrent ==
    ASSUME CurrentInv, NEW h \in Hops, Proxied(h) \/ DictionaryChanged(h) \/ Created(h)
    PROVE  CurrentInv'
<1>1. UNCHANGED <<stage, order, callbacks, config, applied, overwritten>>
  BY DEF Proxied, DictionaryChanged, Created
<1>2. /\ ToSet(order) \subseteq Hops /\ ToSet(order') = ToSet(order)
      /\ thread \in [Hops -> [at : {"none", "building", "limits", "returning"}, read : Config, keys : Nat]]
      /\ NoThread \in [at : {"none", "building", "limits", "returning"}, read : Config, keys : Nat]
      /\ NoThread.at = "none"
  BY <1>1, Listing DEF CurrentInv, SessionsType, NoThread, Config
<1>3. CASE Proxied(h) /\ Actual(h) \notin NoServer
  <2>. DEFINE new == [at |-> "limits", read |-> config, keys |-> Len(order)]
  <2>1. thread[h].at = "building" /\ ltsessions' = ltsessions /\ thread' = [thread EXCEPT ![h] = new]
    BY <1>3 DEF Proxied
  <2>2. new \in [at : {"none", "building", "limits", "returning"}, read : Config, keys : Nat]
        /\ new.at = "limits"
    BY DEF CurrentInv, SessionsType
  <2>. HIDE DEF new
  <2>3. SessionsType'
    BY <1>1, <1>2, <2>1, <2>2 DEF CurrentInv, SessionsType
  <2>4. Threads'
    BY <1>1, <1>2, <2>1, <2>2 DEF CurrentInv, Threads
  <2>. QED
    BY <1>1, <1>2, <2>1, <2>2, <2>3, <2>4 DEF CurrentInv, Current
<1>4. CASE Fail(h) /\ thread[h].at # "none"
  <2>1. /\ ltsessions' = [ltsessions EXCEPT ![h] = IF @ = "creating" THEN "failed" ELSE @]
        /\ thread' = [thread EXCEPT ![h] = NoThread]
    BY <1>4 DEF Fail
  <2>2. SessionsType'
    BY <1>1, <1>2, <2>1 DEF CurrentInv, SessionsType, Over
  <2>3. Threads' /\ ltsessions'[h] \in {"failed", "cancelled"}
    BY <1>1, <1>2, <1>4, <2>1 DEF CurrentInv, SessionsType, Threads
  <2>. QED
    BY <1>1, <1>2, <2>1, <2>2, <2>3 DEF CurrentInv, SessionsType, Current
<1>5. CASE Created(h)
  <2>1. /\ ltsessions' = [ltsessions EXCEPT ![h] = IF @ = "creating" THEN "done" ELSE @]
        /\ thread[h].at = "returning" /\ thread' = [thread EXCEPT ![h] = NoThread]
    BY <1>5 DEF Created
  <2>2. SessionsType'
    BY <1>1, <1>2, <2>1 DEF CurrentInv, SessionsType, Over
  <2>3. Threads'
    BY <1>1, <1>2, <2>1 DEF CurrentInv, SessionsType, Threads
  <2>. QED
    BY <1>1, <1>2, <2>1, <2>2, <2>3 DEF CurrentInv, SessionsType, Current
<1>. QED
  BY <1>3, <1>4, <1>5 DEF Proxied, DictionaryChanged

\* The thread passes on what it has read: that is current, or remembered as overwriting.
LEMMA SetLimitsCurrent ==
    ASSUME CurrentInv, NEW h \in Hops, SetLimitsInThread(h)
    PROVE  CurrentInv'
<1>. DEFINE keys == {Actual(h)} \cap ToSet(order)
            all  == ToSet(order)
            read == thread[h].read
            cb   == [g \in Hops |-> IF g \in keys THEN Append(callbacks[g], Limits(read)) ELSE callbacks[g]]
<1>1. /\ thread[h].at = "limits" /\ thread' = [thread EXCEPT ![h].at = "returning"]
      /\ callbacks' \in Advanced(config, cb, all)
      /\ overwritten' = IF read = config THEN overwritten ELSE overwritten \cup keys
      /\ UNCHANGED <<stage, ltsessions, order, config, applied>>
  BY DEF SetLimitsInThread
<1>2. /\ all \in SUBSET Hops /\ config \in Config /\ callbacks \in [Hops -> Seq(Setting)]
      /\ applied \in [Hops -> Setting] /\ read \in Config /\ all' = all
  BY <1>1 DEF CurrentInv, SessionsType, ToSet
<1>3. h \in all
  BY <1>1 DEF CurrentInv, Threads
<1>4. cb \in [Hops -> Seq(Setting)]
  BY <1>2, Settings
<1>5. /\ \A g \in keys : cb[g] = Append(callbacks[g], Limits(read))
      /\ \A g \in Hops : g \notin keys => cb[g] = callbacks[g]
  BY <1>2
<1>. HIDE DEF cb
<1>6. callbacks' \in [Hops -> Seq(Setting)]
  BY <1>1, <1>2, <1>4, AdvancedType
<1>7. \A g \in Hops : g \notin all => callbacks'[g] = callbacks[g]
  BY <1>1, <1>2, <1>4, <1>5 DEF Advanced
<1>8. SessionsType' /\ Threads'
  BY <1>1, <1>2, <1>6, <1>7 DEF CurrentInv, SessionsType, Threads
<1>9. ASSUME NEW g \in all \ overwritten', g \in keys PROVE Current(g)'
  <2>1. read = config
    BY <1>1, <1>9
  <2>2. Fresh(config, callbacks'[g], applied[g])
    <3>1. g \in all /\ g \in Hops /\ applied[g] \in Setting /\ callbacks[g] \in Seq(Setting)
      BY <1>2, <1>9
    <3>2. cb[g] = Append(callbacks[g], Limits(config))
      BY <1>5, <1>9, <2>1
    <3>. HIDE DEF all
    <3>. QED
      BY <1>1, <1>2, <1>4, <3>1, <3>2, AdvancedFresh
  <2>. QED
    BY <1>1, <2>2 DEF Current
<1>10. ASSUME NEW g \in all \ overwritten', g \notin keys PROVE Current(g)'
  <2>1. g \in Hops /\ Current(g) /\ cb[g] = callbacks[g] /\ applied[g] \in Setting
    BY <1>1, <1>2, <1>5, <1>10 DEF CurrentInv
  <2>2. g = h => h = Background
    BY <1>3, <1>10 DEF Actual
  <2>. QED
    BY <1>1, <1>2, <1>4, <2>1, <2>2, AdvancedKeeps DEF Current, CurrentInv, SessionsType
<1>. QED
  BY <1>2, <1>8, <1>9, <1>10 DEF CurrentInv

\* Every step.
THEOREM StepCurrent == CurrentInv /\ [SessionsNext]_allVars => CurrentInv'
<1>. SUFFICES ASSUME CurrentInv, [SessionsNext]_allVars PROVE CurrentInv'
  OBVIOUS
<1>1. CASE Initialize
  BY <1>1, CreateCurrent DEF Initialize
<1>2. ASSUME NEW h \in Hops, GetSession(h) PROVE CurrentInv'
  BY <1>2, CreateCurrent DEF GetSession, Create, CurrentInv, Threads
<1>3. CASE ShutDown
  <2>1. /\ ltsessions' = [h \in Hops |-> IF ltsessions[h] = "creating" THEN "cancelled" ELSE ltsessions[h]]
        /\ UNCHANGED <<order, thread, callbacks, config, applied, overwritten>>
    BY <1>3 DEF ShutDown
  <2>2. SessionsType'
    BY <2>1 DEF CurrentInv, SessionsType, Over
  <2>3. Threads'
    BY <1>3, <2>1 DEF ShutDown, CurrentInv, SessionsType, Threads
  <2>. QED
    BY <2>1, <2>2, <2>3, Listing DEF CurrentInv, SessionsType, Current
<1>4. CASE UNCHANGED <<stage, ltsessions, order, thread, callbacks, config, applied, overwritten>>
  BY <1>4 DEF CurrentInv, SessionsType, Threads, Current
<1>. QED
  BY <1>1, <1>2, <1>3, <1>4, UpdateSettingsCurrent, ScheduleCurrent, CallbackCurrent, ThreadCurrent,
     SetLimitsCurrent
     DEF SessionsNext, StartRound, PostStats, SendQuery, GiveUp, Answer, PopAlerts, HearQuery, HearAnswer,
         HearNothing, Lookup, sessionVars, allVars

\* Once its callbacks have run, a session has the limits that the user has set last, whatever
\* threads, changes of the settings and schedule did meanwhile; unless its own thread passed
\* on what it had read before a change.
THEOREM LimitsCurrent == SessionsSpec => []LimitsAreCurrent
<1>1. CurrentInv => LimitsAreCurrent
  <2>. SUFFICES ASSUME CurrentInv, NEW h \in Hops, ltsessions[h] = "done", callbacks[h] = <<>>,
                       h \notin overwritten
                PROVE  /\ applied[h].limits = config.limits
                       /\ applied[h].rate \in RatesOf(config)
    BY DEF LimitsAreCurrent, RatesOf
  <2>1. Fresh(config, <<>>, applied[h])
    BY DEF CurrentInv, Threads, Current, HasNow
  <2>2. <<>> \in Seq(Setting)
    OBVIOUS
  <2>3. LimitsLine(<<>>) = <<>> /\ RateLine(<<>>) = <<>>
    BY <2>2, Lines
  <2>. QED
    BY <2>1, <2>3 DEF Fresh, LastIn
<1>. QED
  BY <1>1, InitCurrent, StepCurrent, PTL DEF SessionsSpec
=============================================================================
