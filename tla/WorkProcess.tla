---------------------------- MODULE WorkProcess -----------------------------
(***************************************************************************)
(* One `jobqueue work` process: runWork from its start to its exit, the    *)
(* goroutines it starts (workers, reaper, shipper, metrics server), and    *)
(* the pool of database connections they share with scrapes of /metrics.   *)
(* JobQueue has what the workers and the reaper do to the tables and       *)
(* Shipper what the shipper does; here only which call each of them is in  *)
(* matters, and whether it has a connection for it.                        *)
(*                                                                         *)
(* The pool (pgxpool) hands connections out first come, first served.      *)
(* Closing it refuses the calls that wait for a connection and those that  *)
(* come later, and blocks until those under way have returned theirs.      *)
(***************************************************************************)
EXTENDS Naturals, Sequences, FiniteSets

CONSTANTS
    WorkerIds,  \* "worker-0", ... : one goroutine each
    Scrapes     \* bound: the requests for /metrics at one time

Goroutines == WorkerIds \cup {"reaper", "shipper"}

Clients == Goroutines \cup Scrapes

ASSUME ProcessAssumption ==
    /\ IsFiniteSet(Clients)
    /\ WorkerIds # {}
    /\ Scrapes \cap Goroutines = {}
    /\ {"reaper", "shipper"} \cap WorkerIds = {}

VARIABLES
    main,       \* where runWork is
    signalled,  \* SIGINT or SIGTERM has arrived: ctx is cancelled
    server,     \* the metrics server
    at,         \* where each goroutine is
    left,       \* the queries each scrape still has to finish
    pool,       \* the state of the pool,
    using,      \* the clients that have a connection,
    queue       \* and those that wait for one

vars == <<main, signalled, server, at, left, pool, using, queue>>

\* Mistake: the default of pgxpool on a small machine.
MaxConnsDefault == 4

MaxConns == Cardinality(WorkerIds) + 4

Waiting == {queue[i] : i \in DOMAIN queue}

\* Where a goroutine is.  "calling" is a worker's claim, the reaper's
\* statement or the shipper's fetch.
Places ==
    [idle |-> Goroutines, calling |-> Goroutines, returned |-> Goroutines,
     none |-> Goroutines, handling |-> WorkerIds, reporting |-> WorkerIds,
     inserting |-> {"shipper"}, marking |-> {"shipper"}]

InCall(g) == at[g] \in {"calling", "reporting", "marking"}

\* A client is in the pool's books exactly while it is in a call.
TypeOK ==
    /\ main \in {"connecting", "serving", "clickhouse", "waiting", "closing", "exited"}
    /\ signalled \in BOOLEAN
    /\ server \in {"off", "starting", "listening", "failed", "shut"}
    /\ at \in [Goroutines -> DOMAIN Places]
    /\ \A g \in Goroutines : g \in Places[at[g]]
    /\ left \in [Scrapes -> 0 .. 3]
    /\ pool \in {"none", "open", "closing", "closed"}
    /\ Cardinality(using) <= MaxConns
    /\ queue \in Seq(Clients)
    /\ \A i, k \in DOMAIN queue : queue[i] = queue[k] => i = k
    /\ using \cap Waiting = {}
    /\ using \cup Waiting =
         {g \in Goroutines : InCall(g)} \cup {s \in Scrapes : left[s] > 0}

Init ==
    /\ main = "connecting"
    /\ signalled = FALSE
    /\ server = "off"
    /\ at = [g \in Goroutines |-> "none"]
    /\ left = [s \in Scrapes |-> 0]
    /\ pool = "none"
    /\ using = {}
    /\ queue = <<>>

-----------------------------------------------------------------------------
(* The pool *)

\* Mistake: the bound is not looked at.
AcquireUnbounded(c) ==
    /\ using' = using \cup {c}
    /\ UNCHANGED queue

\* c takes a connection if one is free, and waits otherwise.
Acquire(c) ==
    \/ /\ Cardinality(using) < MaxConns
       /\ using' = using \cup {c}
       /\ UNCHANGED queue
    \/ /\ Cardinality(using) = MaxConns
       /\ queue' = Append(queue, c)
       /\ UNCHANGED using

\* Mistake: the last to come is served first.
LastInLine == Len(queue)

FirstInLine == 1

\* The queue without the client at position i.
Without(i) == [k \in 1 .. Len(queue) - 1 |-> queue[IF k < i THEN k ELSE k + 1]]

\* c returns its connection, which goes to the client that waits longest.
Release(c) ==
    \/ /\ queue = <<>>
       /\ using' = using \ {c}
       /\ UNCHANGED queue
    \/ /\ queue # <<>>
       /\ using' = (using \ {c}) \cup {queue[FirstInLine]}
       /\ queue' = Without(FirstInLine)

\* The context of c ends while c waits.
Abandon(c) ==
    /\ \E i \in DOMAIN queue : queue[i] = c /\ queue' = Without(i)
    /\ UNCHANGED using

-----------------------------------------------------------------------------
(* Goroutines of the errgroup *)

GoTo(g, place) == at' = [at EXCEPT ![g] = place]

ElseSame == UNCHANGED <<main, signalled, server, left, pool>>

\* A worker polls, or a ticker fires.  Once the context is cancelled, a
\* call returns with an error before it has any effect.
Call(g) ==
    /\ at[g] = "idle"
    /\ ~signalled
    /\ Acquire(g)
    /\ GoTo(g, "calling")
    /\ ElseSame

\* The signal ends the wait for a connection.  (Complete, Retry and Fail
\* have a context that is not cancelled.)
CallCancelled(g) ==
    /\ at[g] \in {"calling", "marking"}
    /\ signalled
    /\ Abandon(g)
    /\ GoTo(g, "idle")
    /\ ElseSame

\* A claim may have a job for the worker, and a fetch events to ship.
CallEnds(g) ==
    /\ at[g] = "calling"
    /\ g \in using
    /\ Release(g)
    /\ \/ GoTo(g, "idle")
       \/ g \in WorkerIds /\ GoTo(g, "handling")
       \/ g = "shipper" /\ GoTo(g, "inserting")
    /\ ElseSame

\* process goes on to record the outcome, whatever became of the context.
\* The statement fails at once if the pool is closed.
HandlerReturns(w) ==
    /\ at[w] = "handling"
    /\ IF pool = "open"
         THEN Acquire(w) /\ GoTo(w, "reporting")
         ELSE GoTo(w, "idle") /\ UNCHANGED <<using, queue>>
    /\ ElseSame

ReportEnds(w) ==
    /\ at[w] = "reporting"
    /\ w \in using
    /\ Release(w)
    /\ GoTo(w, "idle")
    /\ ElseSame

\* InsertEvents talks to ClickHouse, which may take for ever to answer.
InsertSucceeds ==
    /\ at["shipper"] = "inserting"
    /\ ~signalled
    /\ Acquire("shipper")
    /\ GoTo("shipper", "marking")
    /\ ElseSame

InsertFails ==
    /\ at["shipper"] = "inserting"
    /\ GoTo("shipper", "idle")
    /\ UNCHANGED <<using, queue>>
    /\ ElseSame

MarkEnds ==
    /\ at["shipper"] = "marking"
    /\ "shipper" \in using
    /\ Release("shipper")
    /\ GoTo("shipper", "idle")
    /\ ElseSame

\* Run, runReaper and RunShipper see the cancelled context between calls.
Return(g) ==
    /\ at[g] = "idle"
    /\ signalled
    /\ GoTo(g, "returned")
    /\ UNCHANGED <<using, queue>>
    /\ ElseSame

-----------------------------------------------------------------------------
(* The metrics server.  Collect makes three queries, one after the other,   *)
(* under one timeout; a query that fails is logged.                         *)

Serve ==
    /\ server = "starting"
    /\ \E s \in {"listening", "failed"} : server' = s
    /\ UNCHANGED <<main, signalled, at, left, pool, using, queue>>

\* metricsServer.Shutdown.
Shut ==
    /\ server \in {"starting", "listening"}
    /\ signalled
    /\ server' = "shut"
    /\ UNCHANGED <<main, signalled, at, left, pool, using, queue>>

Scrape(s) ==
    /\ server = "listening"
    /\ pool = "open"
    /\ left[s] = 0
    /\ left' = [left EXCEPT ![s] = 3]
    /\ Acquire(s)
    /\ UNCHANGED <<main, signalled, server, at, pool>>

\* The next query queues up behind the clients that wait already.
QueryEnds(s) ==
    /\ s \in using
    /\ left[s] > 1
    /\ pool = "open"
    /\ left' = [left EXCEPT ![s] = @ - 1]
    /\ \/ queue = <<>> /\ UNCHANGED <<using, queue>>
       \/ /\ queue # <<>>
          /\ using' = (using \ {s}) \cup {queue[FirstInLine]}
          /\ queue' = Append(Without(FirstInLine), s)
    /\ UNCHANGED <<main, signalled, server, at, pool>>

\* Mistake: Collect does not close the rows it has read.
CollectLeaks(s) ==
    /\ s \in using
    /\ left' = [left EXCEPT ![s] = 1]
    /\ UNCHANGED <<main, signalled, server, at, pool, using, queue>>

\* The last query ends, or the timeout ends all that are left, or the pool
\* refuses them.
CollectEnds(s) ==
    /\ left[s] > 0
    /\ \/ s \in using /\ Release(s)
       \/ Abandon(s)
    /\ left' = [left EXCEPT ![s] = 0]
    /\ UNCHANGED <<main, signalled, server, at, pool>>

-----------------------------------------------------------------------------
(* runWork *)

Signal ==
    /\ main # "exited"
    /\ ~signalled
    /\ signalled' = TRUE
    /\ UNCHANGED <<main, server, at, left, pool, using, queue>>

\* store.New and Ping.
Connect ==
    /\ main = "connecting"
    /\ ~signalled
    /\ pool' = "open"
    /\ server' = "starting"
    /\ main' = "serving"
    /\ UNCHANGED <<signalled, at, left, using, queue>>

\* os.Exit(1)
ConnectFails ==
    /\ main = "connecting"
    /\ main' = "exited"
    /\ UNCHANGED <<signalled, server, at, left, pool, using, queue>>

StartWorkers ==
    /\ main = "serving"
    /\ main' = "clickhouse"
    /\ at' = [g \in Goroutines |-> IF g = "shipper" THEN "none" ELSE "idle"]
    /\ UNCHANGED <<signalled, server, left, pool, using, queue>>

\* analytics.NewClient may take for ever, too.
NewClient ==
    /\ main = "clickhouse"
    /\ ~signalled
    /\ GoTo("shipper", "idle")
    /\ main' = "waiting"
    /\ UNCHANGED <<signalled, server, left, pool, using, queue>>

\* Mistake: the process exits if ClickHouse cannot be reached, as it does for
\* the database.
NewClientFatal ==
    /\ main = "clickhouse"
    /\ main' = "exited"
    /\ at' = [g \in Goroutines |-> "none"]
    /\ left' = [s \in Scrapes |-> 0]
    /\ using' = {}
    /\ queue' = <<>>
    /\ UNCHANGED <<signalled, server, pool>>

NewClientFails ==
    /\ main = "clickhouse"
    /\ main' = "waiting"
    /\ UNCHANGED <<signalled, server, at, left, pool, using, queue>>

\* Mistake: the signal, and not the group, is waited for.
GroupDoneAtSignal == signalled

GroupDone == \A g \in Goroutines : at[g] \in {"none", "returned"}

\* g.Wait returns; the deferred st.Close turns away those that wait,
Close ==
    /\ main = "waiting"
    /\ GroupDone
    /\ main' = "closing"
    /\ pool' = "closing"
    /\ left' = [s \in Scrapes |-> IF s \in Waiting THEN 0 ELSE left[s]]
    /\ queue' = <<>>
    /\ UNCHANGED <<signalled, server, at, using>>

\* and waits for the others.  (The deferred chClient.Close before it and
\* shutdownTracing after it use neither the pool nor the tables, and are taken
\* to return.)
Exit ==
    /\ main = "closing"
    /\ using = {}
    /\ main' = "exited"
    /\ pool' = "closed"
    /\ UNCHANGED <<signalled, server, at, left, using, queue>>

-----------------------------------------------------------------------------

GoroutineStep(g) == Call(g) \/ CallCancelled(g) \/ CallEnds(g) \/ Return(g)

Next ==
    \/ \E g \in Goroutines : GoroutineStep(g)
    \/ \E w \in WorkerIds : HandlerReturns(w) \/ ReportEnds(w)
    \/ InsertSucceeds \/ InsertFails \/ MarkEnds
    \/ Serve \/ Shut
    \/ \E s \in Scrapes : Scrape(s) \/ QueryEnds(s) \/ CollectEnds(s)
    \/ Signal \/ Connect \/ ConnectFails \/ StartWorkers
    \/ NewClient \/ NewClientFails \/ Close \/ Exit

Spec == Init /\ [][Next]_vars

\* Goroutines that can go on do, the database answers, handlers return.
\* ClickHouse is held to nothing, except that its client gives up once its
\* context is cancelled; and nobody has to send a signal or a scrape.
Fairness ==
    /\ \A g \in Goroutines : WF_vars(GoroutineStep(g))
    /\ \A w \in WorkerIds : WF_vars(HandlerReturns(w) \/ ReportEnds(w))
    /\ WF_vars(signalled /\ InsertFails)
    /\ WF_vars(MarkEnds)
    /\ \A s \in Scrapes : WF_vars(QueryEnds(s) \/ CollectEnds(s))
    /\ WF_vars(Connect \/ ConnectFails)
    /\ WF_vars(StartWorkers)
    /\ WF_vars(signalled /\ NewClientFails)
    /\ WF_vars(Close)
    /\ WF_vars(Exit)

FairSpec == Spec /\ Fairness

-----------------------------------------------------------------------------
(* Properties *)

\* "finishing it — running the handler AND recording the outcome — must not
\* be cut short by shutdown": while a worker has a job in hand, the pool is
\* open, so that no report meets a closed one, and the process is there.
JobsInHandHaveAPool ==
    \A w \in WorkerIds :
        at[w] \in {"handling", "reporting"} => pool = "open" /\ main # "exited"

\* "Sized to this process's own actual concurrent demand": a goroutine waits
\* for a connection only while three scrapes or more have one; workers,
\* reaper and shipper never keep each other waiting.
OnlyScrapesCauseWaits ==
    Waiting \cap Goroutines # {} => Cardinality(using \cap Scrapes) >= 3

\* "without affecting job processing at all": a process that has reached its
\* database has every worker at its first claim in the end, whatever
\* ClickHouse and the scrapes do, unless it is told to stop.
WorkersGetToWork ==
    \A w \in WorkerIds :
        main = "serving" ~> signalled \/ (at[w] = "calling" /\ w \in using)

\* A worker that has run a handler gets the connection to report it with,
\* however many scrapes there are, before and after the signal.
ReportsGetThrough ==
    \A w \in WorkerIds : at[w] = "reporting" ~> w \in using

\* A signal ends the process, whatever it comes upon: a start-up under way,
\* ClickHouse not answering, jobs in hand, scrapes in the middle.
ShutdownEnds == signalled ~> main = "exited"
=============================================================================
