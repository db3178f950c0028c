------------------------------ MODULE JobQueue ------------------------------
(***************************************************************************)
(* The running system: clients that submit jobs (internal/grpcserver),     *)
(* `jobqueue work` processes (cmd/jobqueue), each with its workers         *)
(* (internal/worker) and its reaper, and the store they share (JobStore).  *)
(* A worker claims a job, runs its handler and reports the outcome, and    *)
(* time, other workers, reapers, crashes, restarts, shutdowns and lost     *)
(* database calls come in between at every point.                          *)
(*                                                                         *)
(* A worker keeps no lease alive and its reports carry no proof that it    *)
(* still owns the job, so everything depends on whether a handler returns  *)
(* and its outcome is recorded before the lease runs out.                  *)
(* HandlersMeetLease says whether that is assumed: the model is checked    *)
(* with both values, and the properties say which one they need.           *)
(***************************************************************************)
EXTENDS JobStore

CONSTANTS
    Procs,              \* the `jobqueue work` processes (pods)
    HandlersMeetLease,  \* TRUE: no live worker outlives the lease of its job
    AttemptBound,       \* bound: the attempts after which no job is claimed
    FaultBound          \* bound: crashes, shutdowns and lost calls

ASSUME QueueAssumption ==
    /\ HandlersMeetLease \in BOOLEAN
    /\ AttemptBound \in Nat
    /\ FaultBound \in Nat
    /\ NULL \notin JobIds

VARIABLES
    proc,      \* the state of each process
    worker,    \* the state of each worker goroutine
    executed,  \* history: the jobs for which some handler has returned nil
    faults     \* how many faults have happened

queueVars == <<proc, worker, executed, faults>>

vars == <<jobs, dead_letters, job_events, proc, worker, executed, faults>>

\* A goroutine of a process.  Its id, the name it claims under, is only
\* "worker-<i>": it is the same in every process.
Workers == Procs \X WorkerNames

ProcOf(w) == w[1]

IdOf(w) == w[2]

ProcStates == {"up", "stopping", "down"}

\* The job a worker has in hand is a copy of the row the claim returned.
WorkerState ==
    [pc       : {"polling", "executing", "succeeded", "errored", "stopped"},
     job      : JobIds \cup {NULL},
     attempts : Nat]

Idle(pc) == [pc |-> pc, job |-> NULL, attempts |-> 0]

\* The same job, at another point of process.
InHand(w, pc) ==
    [pc |-> pc, job |-> worker[w].job, attempts |-> worker[w].attempts]

Busy(w) == worker[w].pc \in {"executing", "succeeded", "errored"}

TypeOK ==
    /\ StoreTypeOK
    /\ proc \in [Procs -> ProcStates]
    /\ worker \in [Workers -> WorkerState]
    /\ \A w \in Workers : worker[w].job # NULL <=> Busy(w)
    /\ executed \subseteq JobIds
    /\ faults \in 0 .. FaultBound

Init ==
    /\ StoreInit
    /\ proc = [p \in Procs |-> "up"]
    /\ worker = [w \in Workers |-> Idle("polling")]
    /\ executed = {}
    /\ faults = 0

Fault ==
    /\ faults < FaultBound
    /\ faults' = faults + 1

-----------------------------------------------------------------------------
(* Clients *)

Submit(j) ==
    /\ Enqueue(j)
    /\ UNCHANGED queueVars

-----------------------------------------------------------------------------
(* Workers *)

MayClaim(w, j) ==
    /\ proc[ProcOf(w)] = "up"
    /\ worker[w].pc = "polling"
    /\ jobs[j].attempts < AttemptBound

\* Run claims with limit 1 and hands the row to process.
ClaimJob(w, j) ==
    /\ MayClaim(w, j)
    /\ Claim(IdOf(w), {j})
    /\ worker' = [worker EXCEPT
                    ![w] = [pc |-> "executing", job |-> j,
                            attempts |-> jobs'[j].attempts]]
    /\ UNCHANGED <<proc, executed, faults>>

\* The claim commits but its answer is lost: Run logs an error and polls on,
\* and nobody knows of the claim.
ClaimAnswerLost(w, j) ==
    /\ MayClaim(w, j)
    /\ Claim(IdOf(w), {j})
    /\ Fault
    /\ UNCHANGED <<proc, worker, executed>>

HandlerSucceeds(w) ==
    /\ worker[w].pc = "executing"
    /\ worker' = [worker EXCEPT ![w] = InHand(w, "succeeded")]
    /\ executed' = executed \cup {worker[w].job}
    /\ UNCHANGED <<jobs, dead_letters, job_events, proc, faults>>

\* The handler returns an error, panics, or there is none for the type.
HandlerErrs(w) ==
    /\ worker[w].pc = "executing"
    /\ worker' = [worker EXCEPT ![w] = InHand(w, "errored")]
    /\ UNCHANGED <<jobs, dead_letters, job_events, proc, executed, faults>>

Finished(w) == worker[w].pc \in {"succeeded", "errored"}

\* Mistake: off by one.
GivesUpEarly(w) == worker[w].attempts >= MaxAttempts - 1

\* process decides by the attempts of the copy it claimed.
GivesUp(w) == worker[w].attempts >= MaxAttempts

\* Mistake: the error of the handler is not looked at.
RecordCompleted(w) == Complete(worker[w].job)

\* The statement process issues for the outcome.  A Fail that meets the
\* UNIQUE constraint changes nothing, and the error is only logged.
RecordOutcome(w) ==
    LET j == worker[w].job IN
    \/ worker[w].pc = "succeeded" /\ Complete(j)
    \/ /\ worker[w].pc = "errored" /\ GivesUp(w)
       /\ \/ Fail(j)
          \/ ~MayBury({j}) /\ UNCHANGED storeVars
    \/ /\ worker[w].pc = "errored" /\ ~GivesUp(w)
       /\ \E delay \in RetryDelays : Retry(j, delay)

Report(w) ==
    /\ Finished(w)
    /\ RecordOutcome(w)
    /\ worker' = [worker EXCEPT ![w] = Idle("polling")]
    /\ UNCHANGED <<proc, executed, faults>>

\* Mistake: the worker polls with the last job still in hand.
ReportLostKeepsJob(w) ==
    /\ Finished(w)
    /\ Fault
    /\ worker' = [worker EXCEPT ![w] = InHand(w, "polling")]
    /\ UNCHANGED <<jobs, dead_letters, job_events, proc, executed>>

\* The statement fails without effect; the error is logged and the job is
\* left to the reaper.
ReportLost(w) ==
    /\ Finished(w)
    /\ Fault
    /\ worker' = [worker EXCEPT ![w] = Idle("polling")]
    /\ UNCHANGED <<jobs, dead_letters, job_events, proc, executed>>

\* Mistake: Run is given a context that the signal does not cancel.
WorkerReturnsNever(w) ==
    /\ proc[ProcOf(w)] = "down"
    /\ worker[w].pc = "polling"
    /\ worker' = [worker EXCEPT ![w] = Idle("stopped")]
    /\ UNCHANGED <<jobs, dead_letters, job_events, proc, executed, faults>>

\* Run sees the cancelled context at the top of its loop or in its wait.
\* process does not see it (WithoutCancel).
WorkerReturns(w) ==
    /\ proc[ProcOf(w)] = "stopping"
    /\ worker[w].pc = "polling"
    /\ worker' = [worker EXCEPT ![w] = Idle("stopped")]
    /\ UNCHANGED <<jobs, dead_letters, job_events, proc, executed, faults>>

-----------------------------------------------------------------------------
(* Processes *)

SetWorkers(p, s) ==
    worker' = [w \in Workers |-> IF ProcOf(w) = p THEN s ELSE worker[w]]

Sigterm(p) ==
    /\ proc[p] = "up"
    /\ Fault
    /\ proc' = [proc EXCEPT ![p] = "stopping"]
    /\ UNCHANGED <<jobs, dead_letters, job_events, worker, executed>>

\* g.Wait: the process ends when its last worker has returned.
Exit(p) ==
    /\ proc[p] = "stopping"
    /\ \A w \in Workers : ProcOf(w) = p => worker[w].pc = "stopped"
    /\ proc' = [proc EXCEPT ![p] = "down"]
    /\ UNCHANGED <<jobs, dead_letters, job_events, worker, executed, faults>>

Crash(p) ==
    /\ proc[p] # "down"
    /\ Fault
    /\ proc' = [proc EXCEPT ![p] = "down"]
    /\ SetWorkers(p, Idle("stopped"))
    /\ UNCHANGED <<jobs, dead_letters, job_events, executed>>

Start(p) ==
    /\ proc[p] = "down"
    /\ proc' = [proc EXCEPT ![p] = "up"]
    /\ SetWorkers(p, Idle("polling"))
    /\ UNCHANGED <<jobs, dead_letters, job_events, executed, faults>>

\* runReaper of process p.  A statement that meets the UNIQUE constraint
\* changes nothing, and the error is only logged.
Reap(p) ==
    /\ proc[p] = "up"
    /\ \E S \in SUBSET JobIds : ReapExpiredLeases(S)
    /\ UNCHANGED queueVars

\* The same, for every row whose lease has run out.
ReapAll(p) ==
    /\ proc[p] = "up"
    /\ ReapExpiredLeases(Reapable)
    /\ UNCHANGED queueVars

-----------------------------------------------------------------------------
(* Time.  Under HandlersMeetLease it does not pass the end of a lease       *)
(* while a live worker holds the job.                                       *)

LeaseMayRunOn(w) == Busy(w) => jobs[worker[w].job].lease_expires_at # 0

TimePasses ==
    /\ HandlersMeetLease => \A w \in Workers : LeaseMayRunOn(w)
    /\ Tick
    /\ UNCHANGED queueVars

-----------------------------------------------------------------------------

WorkerStep(w) ==
    \/ \E j \in JobIds : ClaimJob(w, j) \/ ClaimAnswerLost(w, j)
    \/ HandlerSucceeds(w)
    \/ HandlerErrs(w)
    \/ Report(w)
    \/ ReportLost(w)
    \/ WorkerReturns(w)

ProcStep(p) ==
    \/ Sigterm(p)
    \/ Exit(p)
    \/ Crash(p)
    \/ Start(p)
    \/ Reap(p)

Next ==
    \/ \E j \in JobIds : Submit(j)
    \/ \E w \in Workers : WorkerStep(w)
    \/ \E p \in Procs : ProcStep(p)
    \/ TimePasses

Spec == Init /\ [][Next]_vars

\* Clocks run, goroutines that can take a step take it, handlers return, the
\* reaper's ticker fires, and the orchestrator restarts a process that ended.
Fairness ==
    /\ WF_vars(TimePasses)
    /\ \A w \in Workers :
         /\ WF_vars(\E j \in JobIds : ClaimJob(w, j))
         /\ WF_vars(HandlerSucceeds(w) \/ HandlerErrs(w))
         /\ WF_vars(Report(w))
         /\ WF_vars(WorkerReturns(w))
    /\ \A p \in Procs :
         /\ WF_vars(Exit(p))
         /\ WF_vars(Start(p))
         /\ WF_vars(ReapAll(p))

FairSpec == Spec /\ Fairness
-----------------------------------------------------------------------------
(* Properties that hold whether or not handlers meet their lease *)

\* FOR UPDATE SKIP LOCKED and attempts = attempts + 1: no two live workers
\* ever run the same attempt of a job, not even when a claim was lost, the
\* lease ran out under a slow handler, or a stale report requeued the row.
NoAttemptRunsTwice ==
    \A v, w \in Workers :
        /\ Busy(v) /\ Busy(w) /\ v # w
        /\ worker[v].job = worker[w].job
        => worker[v].attempts # worker[w].attempts

\* process gives up by the attempts of its own copy and the reaper by those
\* of the row; either way a job is failed, and a letter written, only after
\* max_attempts claims.
FailedOnlyWhenSpent ==
    /\ \A j \in JobIds :
          jobs[j].status = "failed" => jobs[j].attempts >= MaxAttempts
    /\ \A d \in dead_letters : d.attempts >= MaxAttempts

\* At-least-once execution: a job is completed only if one of its handler
\* runs returned nil, whoever's report set the row to completed.
CompletedOnlyIfExecuted ==
    \A j \in JobIds : jobs[j].status = "completed" => j \in executed

-----------------------------------------------------------------------------
(* Properties that need HandlersMeetLease *)

\* A worker that has a job in hand is its only holder, and the row says so:
\* it is running, under that worker's id, on the attempt that was claimed,
\* with lease left.
ExclusiveOwnership ==
    \A w \in Workers :
        Busy(w) =>
            LET r == jobs[worker[w].job] IN
            /\ r.status = "running"
            /\ r.claimed_by = IdOf(w)
            /\ r.attempts = worker[w].attempts
            /\ r.lease_expires_at # -1
            /\ \A v \in Workers : Busy(v) /\ v # w =>
                                     worker[v].job # worker[w].job

\* "A job can only ever reach terminal 'failed' once": no statement takes a
\* job out of completed or failed.
TerminalIsFinal ==
    [][\A j \in JobIds :
         jobs[j].status \in TerminalStatuses =>
             jobs'[j].status = jobs[j].status]_vars

\* "a failed row can never be reclaimed": no claim takes a job that has a
\* dead letter.
DeadLetteredNeverClaimed ==
    [][\A j \in DeadLettered :
         ~(jobs[j].status = "queued" /\ jobs'[j].status = "running")]_vars

\* A job is claimed at most max_attempts times.
AttemptsWithinMax == \A j \in JobIds : jobs[j].attempts <= MaxAttempts

\* The event an outcome writes carries the attempt it is the outcome of.
\* (Complete, Retry and Fail copy the attempts of the row instead.)
OutcomeCarriesItsAttempt ==
    [][\A w \in Workers :
         LET j == worker[w].job IN
         /\ Finished(w)
         /\ worker'[w].pc = "polling"
         /\ job_events'[j] # job_events[j]
         => job_events'[j][Len(job_events'[j])].attempts
                = worker[w].attempts]_vars

Abstract ==
    INSTANCE JobLifecycle WITH
        status   <- [j \in JobIds |-> jobs[j].status],
        attempts <- [j \in JobIds |-> jobs[j].attempts],
        letters  <- DeadLettered

\* The queue implements the life cycle it promises.
ImplementsLifecycle == Abstract!Spec

\* ReapExpiredLeases frees every row whose lease has run out, rather than
\* being refused by the UNIQUE constraint over one of them for ever.
ExpiredLeaseIsReaped ==
    \A j \in JobIds : (j \in Reapable) ~> (j \notin Reapable)

\* No job is lost: through crashes, shutdowns, lost claims and lost reports,
\* a submitted job ends up completed or failed for good.
EveryJobSettles ==
    \A j \in JobIds :
        (jobs[j].status = "queued")
            ~> [](jobs[j].status \in TerminalStatuses)

\* A SIGTERM ends the process, after the jobs in progress.
ShutdownCompletes ==
    \A p \in Procs : (proc[p] = "stopping") ~> (proc[p] = "down")
=============================================================================
