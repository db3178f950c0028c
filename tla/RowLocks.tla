------------------------------ MODULE RowLocks ------------------------------
(***************************************************************************)
(* How the statements of JobStore run inside Postgres, at READ COMMITTED,  *)
(* each in a transaction of its own.  A statement takes a snapshot, visits *)
(* the rows its WHERE clause found there, locks them one by one, and shows *)
(* what it wrote at the commit, which releases the locks.  Before a lock   *)
(* is granted, the newest version of the row is tested against the WHERE   *)
(* clause again.  In between, other sessions do the same to the same rows. *)
(*                                                                         *)
(* JobStore treats each statement as one step.  ImplementsStore is what    *)
(* entitles it to.                                                         *)
(*                                                                         *)
(* now() is the start of the transaction.  A claim waits for nobody, so    *)
(* that its lease is counted from its commit: no time passes while it      *)
(* holds rows.  An Enqueue inserts a row that nobody else sees, and is one *)
(* step here too.                                                          *)
(***************************************************************************)
EXTENDS JobStore

CONSTANTS
    Sessions,   \* connections on which a statement may be in progress
    EventBound  \* bound: outbox rows per job, so that TLC terminates

VARIABLES
    stmt,  \* the statement each session is executing
    todo,  \* the rows of its snapshot that it has not visited
    want,  \* the row it is waiting for
    held   \* the rows it has locked

lockVars == <<stmt, todo, want, held>>

lvars == <<jobs, dead_letters, job_events, stmt, todo, want, held>>

Reports == {"complete", "retry", "fail"}

Statements == Reports \cup {"claim", "reap"}

LocksTypeOK ==
    /\ stmt \in [Sessions -> Statements \cup {"none"}]
    /\ todo \in [Sessions -> SUBSET JobIds]
    /\ want \in [Sessions -> JobIds \cup {NULL}]
    /\ held \in [Sessions -> SUBSET JobIds]

LocksInit ==
    /\ StoreInit
    /\ stmt = [s \in Sessions |-> "none"]
    /\ todo = [s \in Sessions |-> {}]
    /\ want = [s \in Sessions |-> NULL]
    /\ held = [s \in Sessions |-> {}]

-----------------------------------------------------------------------------
(* The WHERE clauses *)

\* The rows a statement finds in its snapshot.
Matches(x, S) ==
    \/ x = "claim" /\ S = Eligible
    \/ x = "reap" /\ S = Reapable
    \/ x \in Reports /\ \E j \in Inserted : S = {j}

\* Mistake: without FOR UPDATE in the sub-select, the lock is that of the
\* UPDATE, and only id IN (...) is tested again.
QualifiesById(x, r) == x = "reap" => LeaseExpired(r)

\* The test of the newest version of a row.
Qualifies(x, r) ==
    /\ x = "claim" => Claimable(r)
    /\ x = "reap" => LeaseExpired(r)

\* Mistake: FOR UPDATE without SKIP LOCKED.
WaitsAlways(x) == TRUE

\* FOR UPDATE SKIP LOCKED waits for no row.
Waits(x) == x # "claim"

\* LIMIT
Full(s) == stmt[s] = "claim" /\ Cardinality(held[s]) = ClaimLimit

-----------------------------------------------------------------------------
(* Locks *)

HeldByOther(s, j) == \E t \in Sessions \ {s} : j \in held[t]

\* Bound: a statement starts only where there is room for its events and
\* for those of the statements that are in progress.
HasRoom(S) ==
    \A j \in S :
        Len(job_events[j]) + Cardinality({t \in Sessions : j \in todo[t] \cup held[t]})
            < EventBound

Begin(s, x, S) ==
    /\ stmt[s] = "none"
    /\ Matches(x, S) /\ S # {} /\ HasRoom(S)
    /\ stmt' = [stmt EXCEPT ![s] = x]
    /\ todo' = [todo EXCEPT ![s] = S]
    /\ UNCHANGED <<jobs, dead_letters, job_events, want, held>>

\* Rows are visited in the order in which the plan finds them, which may be
\* any: no statement but the claim has an ORDER BY.
MayVisit(s, j) ==
    /\ j \in todo[s]
    /\ want[s] \in {j, NULL}
    /\ ~Full(s)

LockRow(s, j) ==
    /\ MayVisit(s, j)
    /\ ~HeldByOther(s, j)
    /\ Qualifies(stmt[s], jobs[j])
    /\ held' = [held EXCEPT ![s] = @ \cup {j}]
    /\ todo' = [todo EXCEPT ![s] = @ \ {j}]
    /\ want' = [want EXCEPT ![s] = NULL]
    /\ UNCHANGED <<jobs, dead_letters, job_events, stmt>>

\* A row that no longer qualifies, or one that SKIP LOCKED passes over.
SkipRow(s, j) ==
    /\ MayVisit(s, j)
    /\ IF HeldByOther(s, j) THEN ~Waits(stmt[s]) ELSE ~Qualifies(stmt[s], jobs[j])
    /\ todo' = [todo EXCEPT ![s] = @ \ {j}]
    /\ want' = [want EXCEPT ![s] = NULL]
    /\ UNCHANGED <<jobs, dead_letters, job_events, stmt, held>>

AwaitRow(s, j) ==
    /\ MayVisit(s, j)
    /\ HeldByOther(s, j)
    /\ Waits(stmt[s])
    /\ want[s] = NULL
    /\ want' = [want EXCEPT ![s] = j]
    /\ UNCHANGED <<jobs, dead_letters, job_events, stmt, todo, held>>

-----------------------------------------------------------------------------
(* The end of a transaction *)

\* What the statement writes into the rows it has locked.
Write(s) ==
    \/ /\ stmt[s] = "claim"
       /\ \E w \in WorkerNames : ClaimRows(w, held[s])
    \/ /\ stmt[s] = "reap"
       /\ MayBury(ReapedDead(held[s]))
       /\ ReapRows(held[s])
    \/ \E j \in held[s] :
         \/ stmt[s] = "complete" /\ Complete(j)
         \/ stmt[s] = "retry" /\ \E delay \in RetryDelays : Retry(j, delay)
         \/ stmt[s] = "fail" /\ Fail(j)

\* lease_expires_at < now() is about the now() of the reap's start.  A row that
\* is claimed after that has a lease that ends later: the second test fails
\* on it.  What other statements leave behind is tested when it is visited.
LeftBy(s, t) == IF stmt[s] = "claim" /\ stmt[t] = "reap" THEN held[s] ELSE {}

Commit(s) ==
    /\ stmt[s] # "none"
    /\ todo[s] = {} \/ Full(s)
    /\ IF held[s] = {} THEN UNCHANGED storeVars ELSE Write(s)
    /\ stmt' = [stmt EXCEPT ![s] = "none"]
    /\ todo' = [t \in Sessions |-> IF t = s THEN {} ELSE todo[t] \ LeftBy(s, t)]
    /\ want' = [t \in Sessions |->
                  IF t = s \/ want[t] \in LeftBy(s, t) THEN NULL ELSE want[t]]
    /\ held' = [held EXCEPT ![s] = {}]

Release(s) ==
    /\ stmt' = [stmt EXCEPT ![s] = "none"]
    /\ todo' = [todo EXCEPT ![s] = {}]
    /\ want' = [want EXCEPT ![s] = NULL]
    /\ held' = [held EXCEPT ![s] = {}]
    /\ UNCHANGED storeVars

\* The statement fails on UNIQUE (job_id), the context is cancelled, or the
\* connection is lost: a method returns the error, and nothing is written.
Rollback(s) ==
    /\ stmt[s] # "none"
    /\ Release(s)

WaitsFor(s, t) == want[s] # NULL /\ want[s] \in held[t]

\* Each session waits for one row, and each row has one holder, so that a
\* set of sessions in which everyone waits for someone and is waited for is
\* made of cycles.
Deadlocked(s) ==
    \E C \in SUBSET Sessions :
        /\ s \in C
        /\ \A t \in C : (\E u \in C : WaitsFor(t, u)) /\ (\E u \in C : WaitsFor(u, t))

\* The deadlock detector picks a session of a cycle.
DeadlockVictim(s) ==
    /\ Deadlocked(s)
    /\ Release(s)

-----------------------------------------------------------------------------

SessionStep(s) ==
    \/ \E x \in Statements, S \in SUBSET JobIds : Begin(s, x, S)
    \/ \E j \in JobIds : LockRow(s, j) \/ SkipRow(s, j) \/ AwaitRow(s, j)
    \/ Commit(s)
    \/ Rollback(s)
    \/ DeadlockVictim(s)

Insert ==
    /\ \E j \in JobIds : Enqueue(j)
    /\ UNCHANGED lockVars

Clock ==
    /\ \A s \in Sessions : stmt[s] = "claim" => held[s] = {}
    /\ Tick
    /\ UNCHANGED lockVars

LocksNext ==
    \/ \E s \in Sessions : SessionStep(s)
    \/ Insert
    \/ Clock

LocksSpec == LocksInit /\ [][LocksNext]_lvars

-----------------------------------------------------------------------------
(* Properties *)

\* Every transaction, however it is interleaved with others that lock, wait,
\* skip and re-test the same rows, has the effect of one statement of
\* JobStore at the moment of its commit, or none.
ImplementsStore == StoreSpec

\* A claim skips locked rows and a report locks a single one, so that of the
\* statements on jobs only reaps, which lock several rows in no particular
\* order, can be in a deadlock: no claim and no outcome is ever lost to the
\* deadlock detector.  (MarkEventsShipped locks rows of job_events, which no
\* other statement does.)
OnlyReapersDeadlock == \A s \in Sessions : Deadlocked(s) => stmt[s] = "reap"
=============================================================================
