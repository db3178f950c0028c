------------------------- MODULE WorkProcessProofs --------------------------
(***************************************************************************)
(* Proofs about WorkProcess, for any number of workers and any number of   *)
(* scrapes at one time.                                                    *)
(***************************************************************************)
EXTENDS WorkProcess, FiniteSetTheorems, TLAPS

(***************************************************************************)
(* The pool by itself.  Members are the clients in its books.              *)
(***************************************************************************)
Members == using \cup Waiting

PoolOK ==
    /\ using \subseteq Clients
    /\ queue \in Seq(Clients)
    /\ \A i, k \in DOMAIN queue : queue[i] = queue[k] => i = k
    /\ using \cap Waiting = {}
    /\ Cardinality(using) <= MaxConns
    /\ queue # <<>> => Cardinality(using) = MaxConns

\* What is finite, and how many connections there are.
LEMMA PoolSize ==
    /\ Cardinality(WorkerIds) \in Nat
    /\ MaxConns \in Nat
    /\ \A S \in SUBSET Clients : IsFiniteSet(S) /\ Cardinality(S) \in Nat
<1>1. \A S \in SUBSET Clients : IsFiniteSet(S) /\ Cardinality(S) \in Nat
  BY ProcessAssumption, FS_Subset, FS_CardinalityType
<1>2. WorkerIds \subseteq Clients
  BY DEF Clients, Goroutines
<1> QED BY <1>1, <1>2 DEF MaxConns

\* A client that asks for a connection enters the books.
LEMMA AcquireOK ==
    ASSUME PoolOK, NEW c \in Clients, c \notin Members, Acquire(c)
    PROVE  PoolOK' /\ Members' = Members \cup {c}
<1> USE DEF PoolOK, Members, Waiting
<1>0. IsFiniteSet(using) /\ Cardinality(using) \in Nat /\ MaxConns \in Nat
  BY PoolSize
<1>1. CASE /\ Cardinality(using) < MaxConns
           /\ using' = using \cup {c}
           /\ queue' = queue
  <2>1. Cardinality(using') = Cardinality(using) + 1
    BY <1>0, <1>1, FS_AddElement
  <2>2. queue = <<>>
    BY <1>0, <1>1
  <2> QED BY <1>0, <1>1, <2>1, <2>2
<1>2. CASE /\ Cardinality(using) = MaxConns
           /\ queue' = Append(queue, c)
           /\ using' = using
  <2>1. /\ queue' \in Seq(Clients) /\ Len(queue') = Len(queue) + 1
        /\ queue'[Len(queue) + 1] = c
        /\ \A i \in 1 .. Len(queue) : queue'[i] = queue[i]
    BY <1>2
  <2>2. DOMAIN queue = 1 .. Len(queue) /\ DOMAIN queue' = 1 .. (Len(queue) + 1)
        /\ Len(queue) \in Nat
    BY <2>1
  <2>3. Waiting' = Waiting \cup {c}
    BY <2>1, <2>2
  <2>4. \A i, k \in DOMAIN queue' : queue'[i] = queue'[k] => i = k
    BY <2>1, <2>2
  <2> HIDE DEF Waiting
  <2> QED BY <1>0, <1>2, <2>1, <2>3, <2>4
<1> QED BY <1>1, <1>2 DEF Acquire

\* Taking one client out of the queue.
LEMMA WithoutOK ==
    ASSUME PoolOK, NEW i \in DOMAIN queue
    PROVE  LET q == Without(i) IN
           /\ q \in Seq(Clients)
           /\ \A j, k \in DOMAIN q : q[j] = q[k] => j = k
           /\ {q[k] : k \in DOMAIN q} = Waiting \ {queue[i]}
<1> DEFINE n == Len(queue)
           q == Without(i)
           P(k) == IF k < i THEN k ELSE k + 1
<1>0. /\ n \in Nat /\ DOMAIN queue = 1 .. n /\ i \in 1 .. n
      /\ \A j, k \in 1 .. n : queue[j] = queue[k] => j = k
      /\ \A k \in 1 .. n : queue[k] \in Clients
  BY DEF PoolOK
<1>1. q = [k \in 1 .. n - 1 |-> queue[P(k)]]
  BY DEF Without
<1>a. Waiting = {queue[k] : k \in 1 .. n}
  BY <1>0 DEF Waiting
<1>2. /\ \A k \in 1 .. n - 1 : P(k) \in 1 .. n /\ P(k) # i
      /\ \A j, k \in 1 .. n - 1 : P(j) = P(k) => j = k
      /\ \A m \in 1 .. n : m # i => \E k \in 1 .. n - 1 : P(k) = m
  <2>1. \A m \in 1 .. n : m # i => \E k \in 1 .. n - 1 : P(k) = m
    <3> SUFFICES ASSUME NEW m \in 1 .. n, m # i
                 PROVE  \E k \in 1 .. n - 1 : P(k) = m
      OBVIOUS
    <3>1. CASE m < i
      <4>1. m \in 1 .. n - 1 /\ P(m) = m
        BY <1>0, <3>1
      <4> QED BY <4>1
    <3>2. CASE m > i
      <4>1. m - 1 \in 1 .. n - 1 /\ P(m - 1) = m
        BY <1>0, <3>2
      <4> QED BY <4>1
    <3> QED BY <1>0, <3>1, <3>2
  <2> QED BY <1>0, <2>1
<1> HIDE DEF P, q, n
<1>3. DOMAIN q = 1 .. n - 1 /\ \A k \in 1 .. n - 1 : q[k] = queue[P(k)]
  BY <1>1
<1>4. q \in Seq(Clients)
  <2>1. \A k \in 1 .. n - 1 : q[k] \in Clients
    BY <1>0, <1>2, <1>3
  <2>2. n - 1 \in Nat
    BY <1>0
  <2> QED BY <1>0, <1>1, <1>2, <2>2
<1>5. ASSUME NEW j \in DOMAIN q, NEW k \in DOMAIN q, q[j] = q[k] PROVE j = k
  <2>1. queue[P(j)] = queue[P(k)] /\ P(j) \in 1 .. n /\ P(k) \in 1 .. n
    BY <1>2, <1>3, <1>5
  <2>2. P(j) = P(k)
    BY <1>0, <2>1
  <2> QED BY <1>2, <1>3, <2>2
<1>6. {q[k] : k \in 1 .. n - 1} = {queue[k] : k \in 1 .. n} \ {queue[i]}
  <2>1. ASSUME NEW k \in 1 .. n - 1
        PROVE  q[k] \in {queue[m] : m \in 1 .. n} \ {queue[i]}
    BY <1>0, <1>2, <1>3
  <2>2. ASSUME NEW m \in 1 .. n, queue[m] # queue[i]
        PROVE  \E k \in 1 .. n - 1 : q[k] = queue[m]
    <3>1. PICK k \in 1 .. n - 1 : P(k) = m
      BY <1>2, <2>2
    <3> QED BY <1>3, <3>1
  <2> QED BY <2>1, <2>2
<1> QED BY <1>a, <1>3, <1>4, <1>5, <1>6 DEF q

\* A client that returns its connection leaves the books.
LEMMA ReleaseOK ==
    ASSUME PoolOK, NEW c \in using, Release(c)
    PROVE  PoolOK' /\ Members' = Members \ {c}
<1>0. IsFiniteSet(using) /\ Cardinality(using) \in Nat /\ MaxConns \in Nat
  BY PoolSize DEF PoolOK
<1>1. CASE queue = <<>> /\ using' = using \ {c} /\ queue' = queue
  <2>1. Cardinality(using') = Cardinality(using) - 1
    BY <1>0, <1>1, FS_RemoveElement
  <2> QED BY <1>0, <1>1, <2>1 DEF PoolOK, Members, Waiting
<1>2. CASE /\ queue # <<>>
           /\ using' = (using \ {c}) \cup {queue[1]}
           /\ queue' = Without(1)
  <2>1. 1 \in DOMAIN queue /\ queue[1] \in Clients /\ queue[1] \in Waiting
    BY <1>2 DEF PoolOK, Waiting
  <2>2. /\ queue' \in Seq(Clients)
        /\ \A j, k \in DOMAIN queue' : queue'[j] = queue'[k] => j = k
        /\ Waiting' = Waiting \ {queue[1]}
    <3> DEFINE q == Without(1)
    <3>1. /\ q \in Seq(Clients)
          /\ \A j, k \in DOMAIN q : q[j] = q[k] => j = k
          /\ {q[k] : k \in DOMAIN q} = Waiting \ {queue[1]}
      BY <2>1, WithoutOK
    <3>2. queue' = q
      BY <1>2
    <3> HIDE DEF q
    <3>3. Waiting' = {q[k] : k \in DOMAIN q}
      BY <3>2 DEF Waiting
    <3> QED BY <3>1, <3>2, <3>3
  <2>3. queue[1] \notin using
    BY <2>1 DEF PoolOK
  <2>4. Cardinality(using') = Cardinality(using)
    <3>1. /\ IsFiniteSet(using \ {c})
          /\ Cardinality(using \ {c}) = Cardinality(using) - 1
      BY <1>0, FS_RemoveElement
    <3>2. Cardinality((using \ {c}) \cup {queue[1]}) = Cardinality(using \ {c}) + 1
      BY <2>3, <3>1, FS_AddElement
    <3> QED BY <1>0, <1>2, <3>1, <3>2
  <2>5. Cardinality(using') = MaxConns
    BY <1>2, <2>4 DEF PoolOK
  <2>6. using' \cap Waiting' = {} /\ using' \subseteq Clients
    BY <1>2, <2>1, <2>2 DEF PoolOK
  <2>7. Members' = Members \ {c}
    BY <1>2, <2>1, <2>2, <2>3 DEF Members, PoolOK
  <2> QED BY <1>0, <2>2, <2>5, <2>6, <2>7 DEF PoolOK
<1> QED BY <1>1, <1>2 DEF Release, FirstInLine

\* A client that goes on to its next query stays in the books.
LEMMA RequeueOK ==
    ASSUME PoolOK, NEW c \in using, queue # <<>>,
           using' = (using \ {c}) \cup {queue[1]},
           queue' = Append(Without(1), c)
    PROVE  PoolOK' /\ Members' = Members
<1> DEFINE q == Without(1)
           W == {q[k] : k \in DOMAIN q}
<1>0. /\ IsFiniteSet(using) /\ Cardinality(using) \in Nat
      /\ c \in Clients /\ c \notin Waiting
  BY PoolSize DEF PoolOK
<1>1. /\ 1 \in DOMAIN queue /\ queue[1] \in Clients /\ queue[1] \in Waiting
      /\ queue[1] \notin using
  BY DEF PoolOK, Waiting
<1>2. /\ q \in Seq(Clients) /\ W = Waiting \ {queue[1]}
      /\ \A j, k \in DOMAIN q : q[j] = q[k] => j = k
  BY <1>1, WithoutOK
<1> HIDE DEF q
<1>3. /\ queue' \in Seq(Clients) /\ Len(queue') = Len(q) + 1
      /\ queue'[Len(q) + 1] = c /\ Len(q) \in Nat
      /\ \A i \in 1 .. Len(q) : queue'[i] = q[i]
      /\ DOMAIN q = 1 .. Len(q) /\ DOMAIN queue' = 1 .. (Len(q) + 1)
  BY <1>0, <1>2 DEF q
<1>4. Waiting' = W \cup {c}
  BY <1>3 DEF Waiting
<1>5. \A j, k \in DOMAIN queue' : queue'[j] = queue'[k] => j = k
  BY <1>0, <1>2, <1>3
<1>6. Cardinality(using') = Cardinality(using)
  <2>1. /\ IsFiniteSet(using \ {c})
        /\ Cardinality(using \ {c}) = Cardinality(using) - 1
    BY <1>0, FS_RemoveElement
  <2>2. Cardinality((using \ {c}) \cup {queue[1]}) = Cardinality(using \ {c}) + 1
    BY <1>1, <2>1, FS_AddElement
  <2> QED BY <1>0, <2>1, <2>2
<1>7. using' \cap Waiting' = {} /\ using' \subseteq Clients /\ Members' = Members
  BY <1>0, <1>1, <1>2, <1>4 DEF PoolOK, Members
<1> QED BY <1>3, <1>5, <1>6, <1>7, PoolSize DEF PoolOK

\* A client whose context ends leaves the books, too.
LEMMA AbandonOK ==
    ASSUME PoolOK, NEW c, Abandon(c)
    PROVE  PoolOK' /\ Members' = Members \ {c} /\ c \in Waiting
<1>1. PICK i \in DOMAIN queue : queue[i] = c /\ queue' = Without(i)
  BY DEF Abandon
<1>2. using' = using
  BY DEF Abandon
<1>3. /\ queue' \in Seq(Clients)
      /\ \A j, k \in DOMAIN queue' : queue'[j] = queue'[k] => j = k
      /\ Waiting' = Waiting \ {c}
  BY <1>1, WithoutOK DEF Waiting
<1>4. queue # <<>> /\ c \in Waiting
  BY <1>1 DEF Waiting
<1>5. MaxConns' = MaxConns
  BY DEF MaxConns
<1> QED BY <1>2, <1>3, <1>4, <1>5 DEF PoolOK, Members

(***************************************************************************)
(* The process.  The inductive invariant adds to the type the phases of    *)
(* runWork: the pool is open from Connect until every goroutine of the     *)
(* group has returned, and there are none before StartWorkers.             *)
(***************************************************************************)
Callers == {g \in Goroutines : InCall(g)} \cup {s \in Scrapes : left[s] > 0}

Phases ==
    /\ pool = "open" <=> main \in {"serving", "clickhouse", "waiting"}
    /\ main \in {"connecting", "serving"} => \A g \in Goroutines : at[g] = "none"
    /\ main = "clickhouse" => at["shipper"] = "none"
    /\ main \in {"closing", "exited"} => GroupDone
    /\ pool # "open" => queue = <<>>

Inv == TypeOK /\ PoolOK /\ Phases

\* The books of the pool agree with where its clients are.
LEMMA Books == TypeOK => Members = Callers
BY DEF TypeOK, Members, Callers

\* Where goroutines can be.
LEMMA PlaceTypes ==
    /\ DOMAIN Places = {"idle", "calling", "returned", "none", "handling",
                        "reporting", "inserting", "marking"}
    /\ \A p \in {"idle", "calling", "returned", "none"} : Places[p] = Goroutines
    /\ \A p \in {"handling", "reporting"} : Places[p] = WorkerIds
    /\ \A p \in {"inserting", "marking"} : Places[p] = {"shipper"}
    /\ "shipper" \in Goroutines /\ WorkerIds \subseteq Goroutines
    /\ Goroutines \subseteq Clients /\ Scrapes \subseteq Clients
    /\ "shipper" \notin WorkerIds /\ Scrapes \cap Goroutines = {}
<1>1. /\ "shipper" \in Goroutines /\ WorkerIds \subseteq Goroutines
      /\ Goroutines \subseteq Clients /\ Scrapes \subseteq Clients
      /\ "shipper" \notin WorkerIds /\ Scrapes \cap Goroutines = {}
  BY ProcessAssumption DEF Goroutines, Clients
<1>2. /\ DOMAIN Places = {"idle", "calling", "returned", "none", "handling",
                          "reporting", "inserting", "marking"}
      /\ Places.idle = Goroutines /\ Places.calling = Goroutines
      /\ Places.returned = Goroutines /\ Places.none = Goroutines
      /\ Places.handling = WorkerIds /\ Places.reporting = WorkerIds
      /\ Places.inserting = {"shipper"} /\ Places.marking = {"shipper"}
  BY DEF Places
<1> QED BY <1>1, <1>2

\* A goroutine of the group moves from one place to another.
LEMMA MoveOK ==
    ASSUME Inv, PoolOK', NEW g \in Goroutines, NEW place \in DOMAIN Places,
           g \in Places[place], at[g] \notin {"none", "returned"},
           GoTo(g, place), ElseSame,
           Members' = IF place \in {"calling", "reporting", "marking"}
                        THEN Members \cup {g} ELSE Members \ {g}
    PROVE  Inv'
<1>0. /\ TypeOK /\ PoolOK /\ Phases /\ Members = Callers
      /\ at \in [Goroutines -> DOMAIN Places]
  BY Books DEF Inv, TypeOK
<1>1. /\ at' = [at EXCEPT ![g] = place]
      /\ main' = main /\ signalled' = signalled /\ server' = server
      /\ left' = left /\ pool' = pool
  BY DEF GoTo, ElseSame
<1>2. main \in {"clickhouse", "waiting"} /\ pool = "open"
  BY <1>0 DEF TypeOK, Phases, GroupDone
<1>3. Members' = Callers'
  BY <1>0, <1>1, PlaceTypes DEF Callers, InCall
<1>4. Phases'
  BY <1>0, <1>1, <1>2, PlaceTypes DEF Phases
<1>5. /\ at' \in [Goroutines -> DOMAIN Places]
      /\ \A h \in Goroutines : h \in Places[at'[h]]
  BY <1>0, <1>1 DEF TypeOK
<1>6. TypeOK'
  <2>1. /\ main' \in {"connecting", "serving", "clickhouse", "waiting", "closing", "exited"}
        /\ signalled' \in BOOLEAN
        /\ server' \in {"off", "starting", "listening", "failed", "shut"}
        /\ left' \in [Scrapes -> 0 .. 3]
        /\ pool' \in {"none", "open", "closing", "closed"}
    BY <1>0, <1>1 DEF TypeOK
  <2> QED BY <1>3, <1>5, <2>1 DEF TypeOK, PoolOK, Members, Callers
<1> QED BY <1>4, <1>6 DEF Inv

\* A goroutine that is in no call is not in the books.
LEMMA NotInBooks ==
    ASSUME Inv, NEW g \in Goroutines, ~InCall(g)
    PROVE  g \notin Members /\ Members \ {g} = Members
BY Books, PlaceTypes DEF Inv, Callers

\* The steps of the goroutines of the group keep the invariant.
LEMMA GroupStep ==
    ASSUME Inv,
           \/ \E g \in Goroutines : GoroutineStep(g)
           \/ \E w \in WorkerIds : HandlerReturns(w) \/ ReportEnds(w)
           \/ InsertSucceeds \/ InsertFails \/ MarkEnds
    PROVE  Inv'
<1> USE PlaceTypes
<1>0. PoolOK /\ (\A g \in Goroutines : g \in Clients)
  BY DEF Inv
<1>a. ASSUME NEW g \in Goroutines, at[g] \in {"idle", "handling", "inserting"}, Acquire(g),
             NEW place \in {"calling", "reporting", "marking"}, g \in Places[place],
             GoTo(g, place), ElseSame
      PROVE  Inv'
  <2>1. PoolOK' /\ Members' = Members \cup {g}
    BY <1>0, <1>a, NotInBooks, AcquireOK DEF InCall
  <2> QED BY <1>a, <2>1, MoveOK
<1>b. ASSUME NEW g \in Goroutines, InCall(g), g \in using, Release(g),
             NEW place \in {"idle", "handling", "inserting"}, g \in Places[place],
             GoTo(g, place), ElseSame
      PROVE  Inv'
  <2>1. PoolOK' /\ Members' = Members \ {g}
    BY <1>0, <1>b, ReleaseOK
  <2> QED BY <1>b, <2>1, MoveOK DEF InCall
<1>c. ASSUME NEW g \in Goroutines, at[g] \in {"idle", "handling", "inserting"},
             NEW place \in {"idle", "returned"}, GoTo(g, place), ElseSame,
             UNCHANGED <<using, queue>>
      PROVE  Inv'
  <2>1. PoolOK' /\ Members' = Members /\ Members' = Members \ {g}
    BY <1>0, <1>c, NotInBooks DEF PoolOK, Members, Waiting, InCall
  <2> QED BY <1>c, <2>1, MoveOK
<1>1. ASSUME NEW g \in Goroutines, Call(g) PROVE Inv'
  BY <1>a, <1>1 DEF Call
<1>2. ASSUME NEW g \in Goroutines, CallCancelled(g) PROVE Inv'
  <2>1. PoolOK' /\ Members' = Members \ {g}
    BY <1>0, <1>2, AbandonOK DEF CallCancelled
  <2> QED BY <1>2, <2>1, MoveOK DEF CallCancelled
<1>3. ASSUME NEW g \in Goroutines, CallEnds(g) PROVE Inv'
  BY <1>b, <1>3 DEF CallEnds, InCall
<1>4. ASSUME NEW g \in Goroutines, Return(g) PROVE Inv'
  BY <1>c, <1>4 DEF Return
<1>5. ASSUME NEW w \in WorkerIds, HandlerReturns(w) PROVE Inv'
  BY <1>a, <1>c, <1>5 DEF HandlerReturns
<1>6. ASSUME NEW w \in WorkerIds, ReportEnds(w) PROVE Inv'
  BY <1>b, <1>6 DEF ReportEnds, InCall
<1>7. CASE InsertSucceeds
  BY <1>a, <1>7 DEF InsertSucceeds
<1>8. CASE InsertFails
  BY <1>c, <1>8 DEF InsertFails
<1>9. CASE MarkEnds
  BY <1>b, <1>9 DEF MarkEnds, InCall
<1> QED BY <1>1, <1>2, <1>3, <1>4, <1>5, <1>6, <1>7, <1>8, <1>9 DEF GoroutineStep

\* Scrapes keep the invariant.
LEMMA ScrapeStep ==
    ASSUME Inv, NEW s \in Scrapes, Scrape(s) \/ QueryEnds(s) \/ CollectEnds(s)
    PROVE  Inv'
<1> USE PlaceTypes
<1>0. /\ PoolOK /\ TypeOK /\ Phases /\ Members = Callers /\ s \in Clients
      /\ s \notin Goroutines /\ left \in [Scrapes -> 0 .. 3]
  BY Books DEF Inv, TypeOK
<1>a. ASSUME PoolOK', UNCHANGED <<main, signalled, server, at, pool>>,
             NEW n \in 0 .. 3, left' = [left EXCEPT ![s] = n],
             Members' = IF n > 0 THEN Members \cup {s} ELSE Members \ {s},
             pool # "open" => queue' = <<>>
      PROVE  Inv'
  <2>1. Callers' = IF n > 0 THEN Callers \cup {s} ELSE Callers \ {s}
    BY <1>0, <1>a DEF Callers, InCall
  <2>2. Members' = Callers'
    BY <1>0, <1>a, <2>1
  <2>3. left' \in [Scrapes -> 0 .. 3]
    BY <1>0, <1>a
  <2>4. TypeOK'
    BY <1>0, <1>a, <2>2, <2>3 DEF TypeOK, PoolOK, Members, Callers
  <2>5. Phases'
    BY <1>0, <1>a DEF Phases, GroupDone
  <2> QED BY <1>a, <2>4, <2>5 DEF Inv
<1>1. CASE Scrape(s)
  <2>1. s \notin Members
    BY <1>0, <1>1 DEF Scrape, Callers
  <2>2. PoolOK' /\ Members' = Members \cup {s}
    BY <1>0, <1>1, <2>1, AcquireOK DEF Scrape
  <2> QED BY <1>a, <1>1, <2>2 DEF Scrape
<1>2. CASE QueryEnds(s)
  <2>1. /\ left[s] - 1 \in 1 .. 3 /\ s \in Members
        /\ left' = [left EXCEPT ![s] = left[s] - 1]
    BY <1>0, <1>2 DEF QueryEnds, Members
  <2>2. ASSUME UNCHANGED <<using, queue>> PROVE PoolOK' /\ Members' = Members
    BY <1>0, <2>2 DEF PoolOK, Members, Waiting
  <2>3. ASSUME queue # <<>> PROVE PoolOK' /\ Members' = Members
    BY <1>0, <1>2, <2>3, RequeueOK DEF QueryEnds, FirstInLine
  <2>4. PoolOK' /\ Members' = Members \cup {s}
    BY <1>2, <2>1, <2>2, <2>3 DEF QueryEnds
  <2>5. PICK n \in 1 .. 3 : n = left[s] - 1
    BY <2>1
  <2>6. /\ n \in 0 .. 3 /\ n > 0 /\ left' = [left EXCEPT ![s] = n]
        /\ pool = "open" /\ UNCHANGED <<main, signalled, server, at, pool>>
    BY <1>2, <2>1, <2>5 DEF QueryEnds
  <2> QED BY <1>a, <2>4, <2>6
<1>3. CASE CollectEnds(s)
  <2>1. PoolOK' /\ Members' = Members \ {s}
    BY <1>0, <1>3, ReleaseOK, AbandonOK DEF CollectEnds
  <2>2. pool # "open" => queue' = <<>>
    BY <1>0, <1>3 DEF CollectEnds, Phases, Release, Abandon
  <2> QED BY <1>a, <1>3, <2>1, <2>2 DEF CollectEnds
<1> QED BY <1>1, <1>2, <1>3

\* The steps of runWork and of the metrics server keep the invariant.
LEMMA MainStep ==
    ASSUME Inv,
           \/ Serve \/ Shut \/ Signal \/ Connect \/ ConnectFails \/ StartWorkers
           \/ NewClient \/ NewClientFails \/ Close \/ Exit
    PROVE  Inv'
<1> USE PlaceTypes
<1>0. /\ PoolOK /\ TypeOK /\ Phases /\ Members = Callers
      /\ at \in [Goroutines -> DOMAIN Places]
  BY Books DEF Inv, TypeOK
<1>a. ASSUME UNCHANGED <<using, queue>> PROVE PoolOK' /\ Members' = Members
  BY <1>0, <1>a DEF PoolOK, Members, Waiting
<1>b. ASSUME PoolOK', UNCHANGED <<at, left>>, Members' = Members PROVE Members' = Callers'
  BY <1>0, <1>b DEF Callers, InCall
<1>1. CASE Serve \/ Shut \/ Signal
  <2>1. /\ UNCHANGED <<main, at, left, pool, using, queue>>
        /\ signalled' \in BOOLEAN
        /\ server' \in {"off", "starting", "listening", "failed", "shut"}
    BY <1>0, <1>1 DEF Serve, Shut, Signal, TypeOK
  <2>2. PoolOK' /\ Members' = Callers'
    BY <1>a, <1>b, <2>1
  <2> QED BY <1>0, <2>1, <2>2 DEF Inv, TypeOK, PoolOK, Members, Callers, Phases, GroupDone
<1>2. CASE Connect \/ ConnectFails \/ NewClientFails
  <2>1. PoolOK' /\ Members' = Callers' /\ UNCHANGED <<signalled, at, left, using, queue>>
    BY <1>a, <1>b, <1>2 DEF Connect, ConnectFails, NewClientFails
  <2>2. Phases'
    BY <1>0, <1>2 DEF Connect, ConnectFails, NewClientFails, Phases, GroupDone
  <2>3. TypeOK'
    BY <1>0, <1>2, <2>1 DEF Connect, ConnectFails, NewClientFails, TypeOK, PoolOK,
                            Members, Callers
  <2> QED BY <2>1, <2>2, <2>3 DEF Inv
<1>3. CASE StartWorkers \/ NewClient
  <2>1. PoolOK' /\ Members' = Members
    BY <1>a, <1>3 DEF StartWorkers, NewClient
  <2>2. /\ at' \in [Goroutines -> DOMAIN Places]
        /\ \A g \in Goroutines : g \in Places[at'[g]]
        /\ \A g \in Goroutines : \/ at'[g] = at[g]
                                 \/ at[g] = "none" /\ at'[g] \in {"none", "idle"}
    BY <1>0, <1>3 DEF StartWorkers, NewClient, GoTo, TypeOK, Phases
  <2>3. left' = left /\ Callers' = Callers
    BY <1>3, <2>2 DEF StartWorkers, NewClient, Callers, InCall
  <2>4. TypeOK'
    BY <1>0, <1>3, <2>1, <2>2, <2>3 DEF StartWorkers, NewClient, TypeOK, PoolOK,
                                        Members, Callers
  <2>5. Phases'
    BY <1>0, <1>3, <2>2 DEF StartWorkers, NewClient, Phases
  <2> QED BY <2>1, <2>4, <2>5 DEF Inv
<1>4. CASE Close
  <2>1. Waiting' = {} /\ using' = using /\ at' = at /\ queue' = <<>>
    BY <1>4 DEF Close, Waiting
  <2>2. PoolOK'
    BY <1>0, <2>1 DEF PoolOK
  <2>3. /\ left' \in [Scrapes -> 0 .. 3]
        /\ \A s \in Scrapes : left'[s] > 0 <=> left[s] > 0 /\ s \notin Waiting
    BY <1>0, <1>4 DEF Close, TypeOK
  <2>4. \A g \in Goroutines : ~InCall(g) /\ ~InCall(g)'
    BY <1>4, <2>1 DEF Close, GroupDone, InCall
  <2>5. Members' = Callers'
    <3>1. Members' = Members \ Waiting
      BY <1>0, <2>1 DEF Members, PoolOK
    <3>2. Callers' = Callers \ Waiting
      BY <2>3, <2>4 DEF Callers
    <3> QED BY <1>0, <3>1, <3>2
  <2>6. TypeOK'
    BY <1>0, <1>4, <2>1, <2>2, <2>3, <2>5 DEF Close, TypeOK, PoolOK, Members, Callers
  <2>7. Phases'
    BY <1>0, <1>4, <2>1 DEF Close, Phases, GroupDone
  <2> QED BY <2>2, <2>6, <2>7 DEF Inv
<1>5. CASE Exit
  <2>1. PoolOK' /\ Members' = Callers'
    BY <1>a, <1>b, <1>5 DEF Exit
  <2>2. Phases'
    BY <1>0, <1>5 DEF Exit, Phases, GroupDone
  <2>3. TypeOK'
    BY <1>0, <1>5, <2>1 DEF Exit, TypeOK, PoolOK, Members, Callers
  <2> QED BY <2>1, <2>2, <2>3 DEF Inv
<1> QED BY <1>1, <1>2, <1>3, <1>4, <1>5

\* The invariant holds when the process starts.
LEMMA InvInit == Init => Inv
<1> SUFFICES ASSUME Init PROVE Inv
  OBVIOUS
<1>1. Waiting = {} /\ using = {} /\ Cardinality(using) = 0 /\ queue \in Seq(Clients)
  BY FS_EmptySet DEF Init, Waiting
<1>2. PoolOK
  BY <1>1, PoolSize DEF Init, PoolOK
<1>3. Callers = {}
  BY DEF Init, Callers, InCall
<1>4. /\ at \in [Goroutines -> DOMAIN Places]
      /\ \A g \in Goroutines : g \in Places[at[g]]
  BY PlaceTypes DEF Init
<1>5. TypeOK
  <2>1. using \cup Waiting = Callers
    BY <1>1, <1>3
  <2>2. signalled \in BOOLEAN
    BY DEF Init
  <2>3. left \in [Scrapes -> 0 .. 3]
    BY SMT DEF Init
  <2> QED BY <1>2, <1>4, <2>1, <2>2, <2>3 DEF Init, TypeOK, PoolOK, Callers
<1> QED BY <1>2, <1>5 DEF Init, Inv, Phases, GroupDone

-----------------------------------------------------------------------------

\* The inductive invariant of the process.
THEOREM ProcessInvariance == Spec => []Inv
<1>1. ASSUME Inv, [Next]_vars PROVE Inv'
  <2>1. CASE UNCHANGED vars
    BY <1>1, <2>1 DEF vars, Inv, TypeOK, PoolOK, Phases, Waiting, InCall, GroupDone
  <2> QED BY <1>1, <2>1, GroupStep, ScrapeStep, MainStep DEF Next
<1> QED BY <1>1, InvInit, PTL DEF Spec

\* The state keeps its type, and the pool its books and its bound.
THEOREM ProcessTypeCorrect == Spec => []TypeOK
BY ProcessInvariance, PTL DEF Inv

\* The pool is open while a worker has a job in hand.
THEOREM NoReportMeetsAClosedPool == Spec => []JobsInHandHaveAPool
<1>1. Inv => JobsInHandHaveAPool
  BY PlaceTypes DEF Inv, TypeOK, Phases, GroupDone, JobsInHandHaveAPool
<1> QED BY <1>1, ProcessInvariance, PTL

\* A goroutine waits only for scrapes: a goroutine that waits has no
\* connection, so that at most one fewer than there are goroutines have one,
\* and the other connections, three or more, are with scrapes.
THEOREM PoolIsLargeEnough == Spec => []OnlyScrapesCauseWaits
<1>1. ASSUME Inv, NEW g \in Waiting \cap Goroutines
      PROVE  Cardinality(using \cap Scrapes) >= 3
  <2> DEFINE G == using \cap Goroutines
             S == using \cap Scrapes
             N == Cardinality(WorkerIds)
  <2>1. /\ IsFiniteSet(G) /\ IsFiniteSet(S) /\ IsFiniteSet(WorkerIds)
        /\ Cardinality(G) \in Nat /\ Cardinality(S) \in Nat /\ N \in Nat
    BY PoolSize, PlaceTypes
  <2>2. Cardinality(using) = N + 4
    <3>1. queue # <<>>
      BY DEF Waiting
    <3> QED BY <1>1, <3>1 DEF Inv, PoolOK, MaxConns
  <2>3. using = G \cup S /\ G \cap S = {}
    BY <1>1, PlaceTypes DEF Inv, PoolOK, Clients
  <2>4. Cardinality(using) = Cardinality(G) + Cardinality(S)
    <3>1. Cardinality(G \cup S)
            = Cardinality(G) + Cardinality(S) - Cardinality(G \cap S)
      BY <2>1, FS_Union
    <3> QED BY <2>1, <2>3, <3>1, FS_EmptySet
  <2>5. IsFiniteSet(Goroutines) /\ Cardinality(Goroutines) = N + 2
    <3>1. /\ IsFiniteSet(WorkerIds \cup {"reaper"})
          /\ Cardinality(WorkerIds \cup {"reaper"}) = N + 1
      BY <2>1, ProcessAssumption, FS_AddElement
    <3>2. /\ Goroutines = (WorkerIds \cup {"reaper"}) \cup {"shipper"}
          /\ "shipper" \notin WorkerIds \cup {"reaper"}
      BY ProcessAssumption DEF Goroutines
    <3>3. /\ IsFiniteSet((WorkerIds \cup {"reaper"}) \cup {"shipper"})
          /\ Cardinality((WorkerIds \cup {"reaper"}) \cup {"shipper"}) = (N + 1) + 1
      BY <3>1, <3>2, FS_AddElement
    <3> QED BY <2>1, <3>2, <3>3
  <2>6. Cardinality(G) <= N + 1
    <3>1. G \subseteq Goroutines \ {g}
      BY <1>1 DEF Inv, PoolOK
    <3>2. /\ IsFiniteSet(Goroutines \ {g})
          /\ Cardinality(Goroutines \ {g}) = (N + 2) - 1
      BY <2>5, FS_RemoveElement
    <3>3. Cardinality(G) <= Cardinality(Goroutines \ {g})
      BY <3>1, <3>2, FS_Subset
    <3> QED BY <2>1, <3>2, <3>3
  <2> HIDE DEF G, S, N
  <2>7. Cardinality(S) >= 3
    BY <2>1, <2>2, <2>4, <2>6
  <2> QED BY <2>7 DEF S
<1>2. Inv => OnlyScrapesCauseWaits
  BY <1>1 DEF OnlyScrapesCauseWaits
<1> QED BY <1>2, ProcessInvariance, PTL
=============================================================================
