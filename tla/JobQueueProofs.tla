--------------------------- MODULE JobQueueProofs ---------------------------
(***************************************************************************)
(* Proofs about JobQueue, for any number of jobs, processes and workers,   *)
(* any max_attempts, lease, retry delays and number of faults: first what  *)
(* holds whatever handlers do, then what holds when they meet their lease, *)
(* and which events are then written, in which order.                      *)
(***************************************************************************)
EXTENDS Reports, JobStoreProofs

(***************************************************************************)
(* Every step of the system is a statement of the store or leaves the      *)
(* tables alone, so that what JobStoreProofs shows holds of the system.    *)
(***************************************************************************)
\* Every step of the queue is, for the tables, a statement or none.
LEMMA NextIsStatement ==
    ASSUME TypeOK, [Next]_vars
    PROVE  [AnyStatement]_storeVars
<1>0. \A w \in Workers : IdOf(w) \in WorkerNames
  BY DEF Workers, IdOf
<1>1. ASSUME NEW j \in JobIds, Submit(j) PROVE AnyStatement
  BY <1>1 DEF Submit, AnyStatement, Statement
<1>2. ASSUME NEW w \in Workers, NEW j \in JobIds, ClaimJob(w, j) \/ ClaimAnswerLost(w, j)
      PROVE  AnyStatement
  BY <1>0, <1>2 DEF ClaimJob, ClaimAnswerLost, AnyStatement
<1>3. ASSUME NEW w \in Workers, Report(w) PROVE [AnyStatement]_storeVars
  <2>1. worker[w].job \in JobIds
    BY <1>3 DEF Report, Finished, TypeOK, Busy, WorkerState
  <2> QED BY <1>3, <2>1 DEF Report, RecordOutcome, AnyStatement, Statement
<1>4. ASSUME NEW w \in Workers,
             HandlerSucceeds(w) \/ HandlerErrs(w) \/ ReportLost(w) \/ WorkerReturns(w)
      PROVE  UNCHANGED storeVars
  BY <1>4 DEF HandlerSucceeds, HandlerErrs, ReportLost, WorkerReturns, storeVars
<1>5. ASSUME NEW p \in Procs, Sigterm(p) \/ Exit(p) \/ Crash(p) \/ Start(p)
      PROVE  UNCHANGED storeVars
  BY <1>5 DEF Sigterm, Exit, Crash, Start, storeVars
<1>6. ASSUME NEW p \in Procs, Reap(p) PROVE AnyStatement
  BY <1>6 DEF Reap, AnyStatement, Statement
<1>7. CASE TimePasses
  BY <1>7 DEF TimePasses, AnyStatement, Statement
<1>8. CASE UNCHANGED vars
  BY <1>8 DEF vars, storeVars
<1> QED BY <1>1, <1>2, <1>3, <1>4, <1>5, <1>6, <1>7, <1>8
        DEF Next, WorkerStep, ProcStep

(***************************************************************************)
(* Types.                                                                  *)
(***************************************************************************)
LEMMA IdleTyped ==
    ASSUME NEW pc \in {"polling", "stopped"}
    PROVE  /\ Idle(pc) \in WorkerState
           /\ Idle(pc).job = NULL
           /\ Idle(pc).pc \notin {"executing", "succeeded", "errored"}
BY DEF Idle, WorkerState

\* A worker that moves on within process keeps its job and its type.
LEMMA InHandTyped ==
    ASSUME TypeOK, NEW w \in Workers, Busy(w),
           NEW pc \in {"executing", "succeeded", "errored"}
    PROVE  /\ InHand(w, pc) \in WorkerState
           /\ InHand(w, pc).job # NULL
           /\ InHand(w, pc).pc = pc
BY DEF TypeOK, InHand, WorkerState

\* A worker as TypeOK has it.
WorkerOK(s) ==
    /\ s \in WorkerState
    /\ s.job # NULL <=> s.pc \in {"executing", "succeeded", "errored"}

\* The initial state of the queue is well typed.
LEMMA TypeInit == Init => TypeOK
<1> SUFFICES ASSUME Init PROVE TypeOK
  OBVIOUS
<1>1. StoreTypeOK
  BY StoreInitInv DEF Init, StoreInv
<1>2. \A w \in Workers : worker[w] = Idle("polling")
  BY DEF Init
<1> QED BY <1>1, <1>2, IdleTyped, QueueAssumption DEF Init, TypeOK, ProcStates, Busy

\* Every step leaves each worker in a well-formed state.
LEMMA WorkersStep ==
    ASSUME TypeOK, StoreTypeOK', [Next]_vars
    PROVE  /\ worker' = [w \in Workers |-> worker'[w]]
           /\ \A w \in Workers : WorkerOK(worker'[w])
<1> DEFINE Good == /\ worker' = [w \in Workers |-> worker'[w]]
                   /\ \A w \in Workers : WorkerOK(worker'[w])
<1>0. /\ worker \in [Workers -> WorkerState]
      /\ \A w \in Workers : WorkerOK(worker[w])
  BY DEF TypeOK, WorkerOK, Busy
<1>a. ASSUME NEW w \in Workers, NEW s, WorkerOK(s),
             worker' = [worker EXCEPT ![w] = s]
      PROVE  Good
  BY <1>0, <1>a, Zenon
<1>b. ASSUME worker' = worker PROVE Good
  BY <1>0, <1>b
<1>c. WorkerOK(Idle("polling")) /\ WorkerOK(Idle("stopped"))
  BY IdleTyped DEF WorkerOK
<1>d. ASSUME NEW w \in Workers, Busy(w), NEW pc \in {"succeeded", "errored"}
      PROVE  WorkerOK(InHand(w, pc))
  BY <1>d, InHandTyped DEF WorkerOK
<1>1. ASSUME NEW w \in Workers, NEW j \in JobIds, ClaimJob(w, j) PROVE Good
  <2>1. jobs'[j].attempts \in Nat
    BY DEF StoreTypeOK, JobRow
  <2>2. WorkerOK([pc |-> "executing", job |-> j, attempts |-> jobs'[j].attempts])
    BY <2>1, QueueAssumption DEF WorkerOK, WorkerState
  <2> QED BY <1>a, <1>1, <2>2, Zenon DEF ClaimJob
<1>2. ASSUME NEW w \in Workers, HandlerSucceeds(w) \/ HandlerErrs(w) PROVE Good
  BY <1>a, <1>d, <1>2 DEF HandlerSucceeds, HandlerErrs, Busy
<1>3. ASSUME NEW w \in Workers, Report(w) \/ ReportLost(w) \/ WorkerReturns(w)
      PROVE  Good
  BY <1>a, <1>c, <1>3 DEF Report, ReportLost, WorkerReturns
<1>4. ASSUME NEW p \in Procs, Crash(p) \/ Start(p) PROVE Good
  BY <1>0, <1>c, <1>4 DEF Crash, Start, SetWorkers
<1>5. ASSUME \/ \E j \in JobIds : Submit(j)
             \/ \E w \in Workers, j \in JobIds : ClaimAnswerLost(w, j)
             \/ \E p \in Procs : Sigterm(p) \/ Exit(p) \/ Reap(p)
             \/ TimePasses
             \/ UNCHANGED vars
      PROVE  Good
  BY <1>b, <1>5, Zenon DEF Submit, ClaimAnswerLost, Sigterm, Exit, Reap, TimePasses,
                    queueVars, vars
<1> QED BY <1>1, <1>2, <1>3, <1>4, <1>5 DEF Next, WorkerStep, ProcStep

\* No step of the queue leaves its types.
LEMMA TypeStep ==
    ASSUME TypeOK, [Next]_vars
    PROVE  TypeOK'
<1>1. StoreTypeOK'
  <2>1. CASE AnyStatement
    BY <2>1, StoreTypeStep DEF TypeOK
  <2>2. CASE UNCHANGED storeVars
    BY <2>2 DEF TypeOK, StoreTypeOK, storeVars
  <2> QED BY <2>1, <2>2, NextIsStatement
<1>2. /\ worker' \in [Workers -> WorkerState]
      /\ \A w \in Workers : worker'[w].job # NULL <=> Busy(w)'
  BY <1>1, WorkersStep DEF WorkerOK, Busy
<1>3. proc' \in [Procs -> ProcStates]
  BY Zenon DEF TypeOK, ProcStates, vars, queueVars, Next, WorkerStep, ProcStep, Submit,
     ClaimJob, ClaimAnswerLost, HandlerSucceeds, HandlerErrs, Report, ReportLost,
     WorkerReturns, Sigterm, Exit, Crash, Start, Reap, TimePasses
<1>4. executed' \subseteq JobIds
  <2>1. ASSUME NEW w \in Workers, HandlerSucceeds(w) PROVE executed' \subseteq JobIds
    BY <2>1 DEF HandlerSucceeds, TypeOK, Busy, WorkerState
  <2> QED BY <2>1, Zenon DEF TypeOK, vars, queueVars, Next, WorkerStep, ProcStep, Submit,
     ClaimJob, ClaimAnswerLost, HandlerErrs, Report, ReportLost,
     WorkerReturns, Sigterm, Exit, Crash, Start, Reap, TimePasses
<1>5. faults' \in 0 .. FaultBound
  <2>1. CASE Fault
    BY <2>1, QueueAssumption DEF Fault, TypeOK
  <2> QED BY <2>1, Zenon DEF TypeOK, vars, queueVars, Next, WorkerStep, ProcStep, Submit,
     ClaimJob, ClaimAnswerLost, HandlerSucceeds, HandlerErrs, Report, ReportLost,
     WorkerReturns, Sigterm, Exit, Crash, Start, Reap, TimePasses
<1> QED BY <1>1, <1>2, <1>3, <1>4, <1>5 DEF TypeOK

(***************************************************************************)
(* What holds whatever handlers do.  The inductive invariant adds to the   *)
(* properties that the attempt in a worker's hand is one the row has       *)
(* counted, and that a handler known to have succeeded is on record.       *)
(***************************************************************************)
AttemptWasCounted ==
    \A w \in Workers :
        Busy(w) => worker[w].attempts \in 1 .. jobs[worker[w].job].attempts

SuccessIsRecorded ==
    \A w \in Workers : worker[w].pc = "succeeded" => worker[w].job \in executed

AnyInv ==
    /\ TypeOK
    /\ StoreInv
    /\ AttemptWasCounted
    /\ NoAttemptRunsTwice
    /\ FailedOnlyWhenSpent
    /\ SuccessIsRecorded
    /\ CompletedOnlyIfExecuted

\* A statement never lowers the attempts of a row.
LEMMA AttemptsGrow ==
    ASSUME StoreInv, [AnyStatement]_storeVars, NEW j \in JobIds
    PROVE  jobs'[j].attempts \in {jobs[j].attempts, jobs[j].attempts + 1}
<1>1. CASE UNCHANGED storeVars
  BY <1>1 DEF storeVars
<1>2. CASE AnyStatement
  <2>1. JobStep(j)
    BY <1>2, StatementPerJob DEF StoreInv
  <2>2. CASE jobs'[j] = AgedRow(jobs[j])
    BY <2>2 DEF AgedRow
  <2>3. ASSUME NEW type, NEW w, Moved(j, type, w)
        PROVE  jobs'[j].attempts \in {jobs[j].attempts, jobs[j].attempts + 1}
    <3>1. jobs[j].status = "absent" => jobs[j].attempts = 0
      BY DEF StoreInv, FreshIds, Inserted, NoRow
    <3> QED BY <2>3, <3>1, MovedAttempts
  <2> QED BY <2>1, <2>2, <2>3 DEF JobStep
<1> QED BY <1>1, <1>2

\* Only ClaimJob puts a job into a worker's hands.
Kept ==
    \A w \in Workers :
        Busy(w)' => /\ Busy(w)
                    /\ worker'[w].job = worker[w].job
                    /\ worker'[w].attempts = worker[w].attempts

\* A step hands a worker a freshly claimed job, or leaves it at most
\* with the one it had.
LEMMA ClaimOrKept ==
    ASSUME TypeOK, [Next]_vars
    PROVE  \/ \E w \in Workers, j \in JobIds : ClaimJob(w, j)
           \/ Kept
<1>0. worker \in [Workers -> WorkerState]
  BY DEF TypeOK
<1>c. Idle("polling").pc = "polling" /\ Idle("stopped").pc = "stopped"
  BY DEF Idle
<1>1. ASSUME NEW w \in Workers, HandlerSucceeds(w) \/ HandlerErrs(w) PROVE Kept
  BY <1>0, <1>1 DEF HandlerSucceeds, HandlerErrs, Kept, Busy, InHand
<1>2. ASSUME NEW w \in Workers, Report(w) \/ ReportLost(w) \/ WorkerReturns(w)
      PROVE  Kept
  BY <1>0, <1>c, <1>2 DEF Report, ReportLost, WorkerReturns, Kept, Busy
<1>3. ASSUME NEW p \in Procs, Crash(p) \/ Start(p) PROVE Kept
  BY <1>0, <1>c, <1>3 DEF Crash, Start, SetWorkers, Kept, Busy
<1>4. ASSUME \/ \E j \in JobIds : Submit(j)
             \/ \E w \in Workers, j \in JobIds : ClaimAnswerLost(w, j)
             \/ \E p \in Procs : Sigterm(p) \/ Exit(p) \/ Reap(p)
             \/ TimePasses
             \/ UNCHANGED vars
      PROVE  Kept
  BY <1>4, Zenon DEF Submit, ClaimAnswerLost, Sigterm, Exit, Reap, TimePasses,
                    queueVars, vars, Kept, Busy
<1> QED BY <1>1, <1>2, <1>3, <1>4 DEF Next, WorkerStep, ProcStep

\* What a claim does to the row and to the worker.
LEMMA ClaimEffect ==
    ASSUME TypeOK, NEW w \in Workers, NEW j \in JobIds, ClaimJob(w, j)
    PROVE  /\ jobs[j].status = "queued" /\ ~Busy(w)
           /\ jobs'[j] = ClaimedRow(jobs[j], IdOf(w))
           /\ jobs'[j].attempts = jobs[j].attempts + 1
           /\ \A i \in JobIds \ {j} : jobs'[i] = jobs[i]
           /\ worker'[w].pc = "executing" /\ worker'[w].job = j
           /\ worker'[w].attempts = jobs[j].attempts + 1
           /\ \A v \in Workers \ {w} : worker'[v] = worker[v]
<1>1. /\ jobs[j].status = "queued"
      /\ jobs'[j] = ClaimedRow(jobs[j], IdOf(w))
      /\ \A i \in JobIds \ {j} : jobs'[i] = jobs[i]
  BY DEF ClaimJob, Claim, ClaimRows, Eligible, Claimable
<1>2. jobs'[j].attempts = jobs[j].attempts + 1
  BY <1>1 DEF ClaimedRow
<1>3. worker \in [Workers -> WorkerState]
  BY DEF TypeOK
<1> QED BY <1>1, <1>2, <1>3 DEF ClaimJob, MayClaim, Busy

\* A claim gives its worker an attempt number no other worker has.
LEMMA CountedStep ==
    ASSUME TypeOK, StoreInv, AttemptWasCounted, NoAttemptRunsTwice, [Next]_vars
    PROVE  AttemptWasCounted' /\ NoAttemptRunsTwice'
<1>1. \A j \in JobIds : /\ jobs[j].attempts \in Nat
                        /\ jobs'[j].attempts \in {jobs[j].attempts, jobs[j].attempts + 1}
  BY NextIsStatement, AttemptsGrow DEF TypeOK, StoreTypeOK, JobRow
<1>2. \A w \in Workers : Busy(w) => worker[w].job \in JobIds
  BY DEF TypeOK, WorkerState
<1>3. CASE Kept
  <2>1. AttemptWasCounted'
    BY <1>1, <1>2, <1>3 DEF Kept, AttemptWasCounted
  <2>2. NoAttemptRunsTwice'
    BY <1>3 DEF Kept, NoAttemptRunsTwice
  <2> QED BY <2>1, <2>2
<1>4. ASSUME NEW w \in Workers, NEW j \in JobIds, ClaimJob(w, j)
      PROVE  AttemptWasCounted' /\ NoAttemptRunsTwice'
  <2>1. \A v \in Workers \ {w} : Busy(v)' <=> Busy(v)
    BY <1>4, ClaimEffect DEF Busy
  <2>2. \A v \in Workers : Busy(v) /\ worker[v].job = j =>
                              worker[v].attempts # jobs[j].attempts + 1
    BY <1>1 DEF AttemptWasCounted
  <2>3. AttemptWasCounted'
    <3> SUFFICES ASSUME NEW v \in Workers, Busy(v)'
                 PROVE  worker'[v].attempts \in 1 .. jobs'[worker'[v].job].attempts
      BY DEF AttemptWasCounted
    <3>1. CASE v = w
      BY <1>1, <1>4, <3>1, ClaimEffect
    <3>2. CASE v # w
      BY <1>1, <1>2, <1>4, <2>1, <3>2, ClaimEffect DEF AttemptWasCounted
    <3> QED BY <3>1, <3>2
  <2>4. NoAttemptRunsTwice'
    <3> SUFFICES ASSUME NEW u \in Workers, NEW v \in Workers,
                        Busy(u)', Busy(v)', u # v, worker'[u].job = worker'[v].job
                 PROVE  worker'[u].attempts # worker'[v].attempts
      BY DEF NoAttemptRunsTwice
    <3>1. CASE u = w
      BY <1>4, <2>1, <2>2, <3>1, ClaimEffect
    <3>2. CASE v = w
      BY <1>4, <2>1, <2>2, <3>2, ClaimEffect
    <3>3. CASE u # w /\ v # w
      BY <1>4, <2>1, <3>3, ClaimEffect DEF NoAttemptRunsTwice
    <3> QED BY <3>1, <3>2, <3>3
  <2> QED BY <2>3, <2>4
<1> QED BY <1>3, <1>4, ClaimOrKept

\* The steps of the system by what they do to the tables.
LEMMA StepKinds ==
    ASSUME [Next]_vars
    PROVE  \/ UNCHANGED storeVars
           \/ \E j \in JobIds : Enqueue(j)
           \/ \E w \in Workers, j \in JobIds : Claim(IdOf(w), {j})
           \/ \E w \in Workers : Report(w)
           \/ \E S \in SUBSET JobIds : ReapExpiredLeases(S)
           \/ Tick
<1>1. ASSUME \/ \E w \in Workers : \/ HandlerSucceeds(w) \/ HandlerErrs(w)
                                   \/ ReportLost(w) \/ WorkerReturns(w)
             \/ \E p \in Procs : Sigterm(p) \/ Exit(p) \/ Crash(p) \/ Start(p)
             \/ UNCHANGED vars
      PROVE  UNCHANGED storeVars
  BY <1>1 DEF HandlerSucceeds, HandlerErrs, ReportLost, WorkerReturns, Sigterm,
              Exit, Crash, Start, vars, storeVars
<1> QED BY <1>1 DEF Next, WorkerStep, ProcStep, Submit, ClaimJob,
                    ClaimAnswerLost, Reap, TimePasses

\* The statement an outcome is recorded with.
LEMMA ReportKinds ==
    ASSUME TypeOK, NEW w \in Workers, Report(w)
    PROVE  /\ worker[w].job \in JobIds /\ Busy(w)
           /\ \/ worker[w].pc = "succeeded" /\ Complete(worker[w].job)
              \/ worker[w].attempts >= MaxAttempts /\ Fail(worker[w].job)
              \/ UNCHANGED storeVars
              \/ /\ ~(worker[w].attempts >= MaxAttempts)
                 /\ \E delay \in RetryDelays : Retry(worker[w].job, delay)
BY DEF Report, RecordOutcome, Finished, GivesUp, TypeOK, Busy, WorkerState

\* No row becomes failed but by Fail and the reaper,
LEMMA FailedRows ==
    ASSUME StoreTypeOK, NEW j \in JobIds, jobs'[j].status = "failed",
           \/ UNCHANGED storeVars
           \/ \E i \in JobIds : Enqueue(i) \/ Complete(i)
           \/ \E i \in JobIds, delay \in RetryDelays : Retry(i, delay)
           \/ \E n \in WorkerNames, i \in JobIds : Claim(n, {i})
           \/ Tick
    PROVE  /\ jobs[j].status = "failed" /\ jobs'[j].attempts = jobs[j].attempts
           /\ dead_letters' = dead_letters
<1>0. jobs \in [JobIds -> JobRow]
  BY DEF StoreTypeOK
<1>1. ASSUME NEW i \in JobIds, Enqueue(i)
      PROVE  jobs'[j] = jobs[j] /\ dead_letters' = dead_letters
  BY <1>0, <1>1 DEF Enqueue, NewRow
<1>2. ASSUME NEW i \in JobIds, Complete(i)
      PROVE  jobs'[j] = jobs[j] /\ dead_letters' = dead_letters
  BY <1>0, <1>2 DEF Complete, CompletedRow
<1>3. ASSUME NEW i \in JobIds, NEW delay \in RetryDelays, Retry(i, delay)
      PROVE  jobs'[j] = jobs[j] /\ dead_letters' = dead_letters
  BY <1>0, <1>3 DEF Retry, RetriedRow
<1>4. ASSUME NEW n \in WorkerNames, NEW i \in JobIds, Claim(n, {i})
      PROVE  jobs'[j] = jobs[j] /\ dead_letters' = dead_letters
  <2>1. jobs'[j] = (IF j = i THEN ClaimedRow(jobs[j], n) ELSE jobs[j])
    BY <1>4 DEF Claim, ClaimRows
  <2>2. j # i
    BY <2>1 DEF ClaimedRow
  <2> QED BY <1>4, <2>1, <2>2 DEF Claim, ClaimRows
<1>5. ASSUME Tick
      PROVE  /\ jobs[j].status = "failed" /\ jobs'[j].attempts = jobs[j].attempts
             /\ dead_letters' = dead_letters
  BY <1>5 DEF Tick, AgedRow
<1> QED BY <1>1, <1>2, <1>3, <1>4, <1>5, Zenon DEF storeVars

\* and none becomes completed but by Complete.
LEMMA CompletedRows ==
    ASSUME StoreTypeOK, NEW j \in JobIds, jobs'[j].status = "completed",
           [AnyStatement]_storeVars, ~Complete(j)
    PROVE  jobs[j].status = "completed"
<1>0. jobs \in [JobIds -> JobRow]
  BY DEF StoreTypeOK
<1>1. ASSUME NEW i \in JobIds, Enqueue(i) PROVE jobs[j].status = "completed"
  BY <1>0, <1>1 DEF Enqueue, NewRow
<1>2. ASSUME NEW i \in JobIds, Complete(i) PROVE jobs[j].status = "completed"
  BY <1>0, <1>2, Zenon DEF Complete
<1>3. ASSUME NEW i \in JobIds, NEW delay \in RetryDelays, Retry(i, delay)
      PROVE  jobs[j].status = "completed"
  BY <1>0, <1>3 DEF Retry, RetriedRow
<1>4. ASSUME NEW n \in WorkerNames, NEW S \in SUBSET JobIds, Claim(n, S)
      PROVE  jobs[j].status = "completed"
  <2>1. jobs'[j] = (IF j \in S THEN ClaimedRow(jobs[j], n) ELSE jobs[j])
    BY <1>4 DEF Claim, ClaimRows
  <2>2. ClaimedRow(jobs[j], n).status = "running"
    BY DEF ClaimedRow
  <2> QED BY <2>1, <2>2
<1>5. ASSUME NEW i \in JobIds, Fail(i) PROVE jobs[j].status = "completed"
  BY <1>0, <1>5 DEF Fail, FailedRow
<1>6. ASSUME NEW S \in SUBSET JobIds, ReapExpiredLeases(S)
      PROVE  jobs[j].status = "completed"
  <2>1. jobs'[j] = (IF j \in S THEN ReapedRow(jobs[j]) ELSE jobs[j])
    BY <1>6 DEF ReapExpiredLeases, ReapRows
  <2>2. ReapedRow(jobs[j]).status # "completed"
    BY DEF ReapedRow
  <2> QED BY <2>1, <2>2
<1>7. ASSUME Tick PROVE jobs[j].status = "completed"
  BY <1>7 DEF Tick, AgedRow
<1>8. CASE UNCHANGED storeVars
  BY <1>8 DEF storeVars
<1> QED BY <1>1, <1>2, <1>3, <1>4, <1>5, <1>6, <1>7, <1>8 DEF AnyStatement, Statement

\* Fail and the reaper act on spent attempts only.
LEMMA SpentStep ==
    ASSUME TypeOK, AttemptWasCounted, FailedOnlyWhenSpent, [Next]_vars
    PROVE  FailedOnlyWhenSpent'
<1>0. /\ jobs \in [JobIds -> JobRow] /\ StoreTypeOK
      /\ \A j \in JobIds : jobs[j].attempts \in Nat
  BY DEF TypeOK, StoreTypeOK, JobRow
<1>a. \A w \in Workers : IdOf(w) \in WorkerNames
  BY DEF Workers, IdOf
<1>1. ASSUME \/ UNCHANGED storeVars
             \/ \E i \in JobIds : Enqueue(i) \/ Complete(i)
             \/ \E i \in JobIds, delay \in RetryDelays : Retry(i, delay)
             \/ \E n \in WorkerNames, i \in JobIds : Claim(n, {i})
             \/ Tick
      PROVE  FailedOnlyWhenSpent'
  <2>1. dead_letters' = dead_letters
    BY <1>1 DEF storeVars, Enqueue, Complete, Retry, Claim, ClaimRows, Tick
  <2> QED BY <1>0, <1>1, <2>1, FailedRows, Zenon DEF FailedOnlyWhenSpent
<1>2. ASSUME NEW i \in JobIds, jobs[i].attempts >= MaxAttempts, Fail(i)
      PROVE  FailedOnlyWhenSpent'
  <2>1. \A d \in dead_letters' : d.attempts >= MaxAttempts
    BY <1>2 DEF Fail, Letter, FailedOnlyWhenSpent
  <2>2. \A j \in JobIds : jobs'[j].status = "failed" => jobs'[j].attempts >= MaxAttempts
    BY <1>0, <1>2 DEF Fail, FailedRow, FailedOnlyWhenSpent
  <2> QED BY <2>1, <2>2 DEF FailedOnlyWhenSpent
<1>3. ASSUME NEW S \in SUBSET JobIds, ReapExpiredLeases(S)
      PROVE  FailedOnlyWhenSpent'
  <2>1. \A d \in dead_letters' : d.attempts >= MaxAttempts
    BY <1>3 DEF ReapExpiredLeases, ReapRows, ReapedDead, Exhausted, Letter, FailedOnlyWhenSpent
  <2>2. ASSUME NEW j \in JobIds, jobs'[j].status = "failed"
        PROVE  jobs'[j].attempts >= MaxAttempts
    <3>1. jobs'[j] = (IF j \in S THEN ReapedRow(jobs[j]) ELSE jobs[j])
      BY <1>3 DEF ReapExpiredLeases, ReapRows
    <3> QED BY <2>2, <3>1 DEF ReapedRow, Exhausted, FailedOnlyWhenSpent
  <2> QED BY <2>1, <2>2 DEF FailedOnlyWhenSpent
<1>4. ASSUME NEW w \in Workers, Report(w) PROVE FailedOnlyWhenSpent'
  <2>1. /\ worker[w].attempts \in Nat
        /\ worker[w].attempts <= jobs[worker[w].job].attempts
    BY <1>0, <1>4, ReportKinds DEF AttemptWasCounted
  <2>2. ASSUME worker[w].attempts >= MaxAttempts
        PROVE  jobs[worker[w].job].attempts >= MaxAttempts
    BY <1>0, <1>4, <2>1, <2>2, ReportKinds, StoreAssumption
  <2> QED BY <1>1, <1>2, <1>4, <2>2, ReportKinds
<1> QED BY <1>1, <1>3, <1>4, <1>a, StepKinds, Zenon

\* A worker has succeeded only by a handler that returned nil.
LEMMA SucceededStep ==
    ASSUME TypeOK, [Next]_vars, NEW v \in Workers, worker'[v].pc = "succeeded"
    PROVE  HandlerSucceeds(v) \/ worker'[v] = worker[v]
<1>0. worker \in [Workers -> WorkerState]
  BY DEF TypeOK
<1>1. ASSUME NEW w \in Workers, HandlerSucceeds(w), w # v PROVE worker'[v] = worker[v]
  BY <1>0, <1>1 DEF HandlerSucceeds
<1>2. ASSUME NEW w \in Workers, NEW j \in JobIds, ClaimJob(w, j)
      PROVE  worker'[v] = worker[v]
  BY <1>2, ClaimEffect
<1>3. ASSUME NEW w \in Workers, HandlerErrs(w) PROVE worker'[v] = worker[v]
  BY <1>0, <1>3 DEF HandlerErrs, InHand
<1>4. ASSUME NEW w \in Workers, Report(w) \/ ReportLost(w) \/ WorkerReturns(w)
      PROVE  worker'[v] = worker[v]
  BY <1>0, <1>4 DEF Report, ReportLost, WorkerReturns, Idle
<1>5. ASSUME NEW p \in Procs, Crash(p) \/ Start(p) PROVE worker'[v] = worker[v]
  BY <1>0, <1>5 DEF Crash, Start, SetWorkers, Idle
<1>6. ASSUME \/ \E j \in JobIds : Submit(j)
             \/ \E w \in Workers, j \in JobIds : ClaimAnswerLost(w, j)
             \/ \E p \in Procs : Sigterm(p) \/ Exit(p) \/ Reap(p)
             \/ TimePasses
             \/ UNCHANGED vars
      PROVE  worker'[v] = worker[v]
  BY <1>6, Zenon DEF Submit, ClaimAnswerLost, Sigterm, Exit, Reap, TimePasses,
              queueVars, vars
<1> QED BY <1>1, <1>2, <1>3, <1>4, <1>5, <1>6 DEF Next, WorkerStep, ProcStep

\* A row becomes completed only by the report of a worker that succeeded.
LEMMA CompletedStep ==
    ASSUME TypeOK, [Next]_vars, NEW j \in JobIds, jobs'[j].status = "completed"
    PROVE  \/ jobs[j].status = "completed"
           \/ \E w \in Workers : worker[w].pc = "succeeded" /\ worker[w].job = j
<1>0. StoreTypeOK /\ jobs \in [JobIds -> JobRow]
  BY DEF TypeOK, StoreTypeOK
<1>1. ASSUME NEW w \in Workers, Report(w)
      PROVE  \/ jobs[j].status = "completed"
             \/ worker[w].pc = "succeeded" /\ worker[w].job = j
  <2>1. CASE worker[w].pc = "succeeded" /\ Complete(worker[w].job)
    BY <1>0, <2>1 DEF Complete
  <2>2. CASE Fail(worker[w].job)
    BY <1>0, <1>1, <2>2, ReportKinds DEF Fail, FailedRow
  <2>3. CASE UNCHANGED storeVars
    BY <2>3 DEF storeVars
  <2>4. CASE \E delay \in RetryDelays : Retry(worker[w].job, delay)
    BY <1>0, <1>1, <2>4, ReportKinds DEF Retry, RetriedRow
  <2> QED BY <1>1, <2>1, <2>2, <2>3, <2>4, ReportKinds
<1>2. ASSUME \/ UNCHANGED storeVars
             \/ \E i \in JobIds : Enqueue(i)
             \/ \E w \in Workers, i \in JobIds : Claim(IdOf(w), {i})
             \/ \E S \in SUBSET JobIds : ReapExpiredLeases(S)
             \/ Tick
      PROVE  jobs[j].status = "completed"
  <2>1. [AnyStatement]_storeVars
    BY NextIsStatement
  <2>2. ASSUME Complete(j), jobs[j].status # "completed" PROVE FALSE
    <3>1. jobs'[j] = CompletedRow(jobs[j])
      BY <1>0, <2>2 DEF Complete
    <3>2. CASE UNCHANGED storeVars
      BY <2>2, <3>2 DEF storeVars
    <3>3. ASSUME NEW i \in JobIds, Enqueue(i) PROVE FALSE
      BY <1>0, <2>2, <3>3 DEF Enqueue, NewRow
    <3>4. ASSUME NEW w \in Workers, NEW i \in JobIds, Claim(IdOf(w), {i}) PROVE FALSE
      <4>1. jobs'[j] = (IF j = i THEN ClaimedRow(jobs[j], IdOf(w)) ELSE jobs[j])
        BY <3>4 DEF Claim, ClaimRows
      <4> QED BY <2>2, <4>1 DEF ClaimedRow
    <3>5. CASE \E S \in SUBSET JobIds : ReapExpiredLeases(S)
      <4>0. PICK S \in SUBSET JobIds : ReapExpiredLeases(S)
        BY <3>5
      <4>1. jobs'[j] = (IF j \in S THEN ReapedRow(jobs[j]) ELSE jobs[j])
        BY <4>0 DEF ReapExpiredLeases, ReapRows
      <4> QED BY <2>2, <4>1 DEF ReapedRow
    <3>6. CASE Tick
      BY <2>2, <3>6 DEF Tick, AgedRow
    <3> QED BY <1>2, <3>2, <3>3, <3>4, <3>5, <3>6, Zenon
  <2> QED BY <1>0, <2>1, <2>2, CompletedRows
<1> QED BY <1>1, <1>2, StepKinds, Zenon

\* Only a worker whose handler returned nil completes a job.
LEMMA ExecutedStep ==
    ASSUME TypeOK, SuccessIsRecorded, CompletedOnlyIfExecuted, [Next]_vars
    PROVE  SuccessIsRecorded' /\ CompletedOnlyIfExecuted'
<1>0. worker \in [Workers -> WorkerState]
  BY DEF TypeOK
<1>1. executed \subseteq executed'
  BY Zenon DEF Next, WorkerStep, ProcStep, Submit, ClaimJob, ClaimAnswerLost,
     HandlerSucceeds, HandlerErrs, Report, ReportLost, WorkerReturns, Sigterm,
     Exit, Crash, Start, Reap, TimePasses, queueVars, vars
<1>2. SuccessIsRecorded'
  <2> SUFFICES ASSUME NEW v \in Workers, worker'[v].pc = "succeeded"
               PROVE  worker'[v].job \in executed'
    BY DEF SuccessIsRecorded
  <2>1. CASE HandlerSucceeds(v)
    BY <1>0, <2>1 DEF HandlerSucceeds, InHand
  <2>2. CASE worker'[v] = worker[v]
    BY <1>1, <2>2 DEF SuccessIsRecorded
  <2> QED BY <2>1, <2>2, SucceededStep
<1>3. CompletedOnlyIfExecuted'
  BY <1>1, CompletedStep DEF CompletedOnlyIfExecuted, SuccessIsRecorded
<1> QED BY <1>2, <1>3

\* The invariant of either regime holds initially.
LEMMA AnyInvInit == Init => AnyInv
<1> SUFFICES ASSUME Init PROVE AnyInv
  OBVIOUS
<1>1. \A w \in Workers : worker[w].pc = "polling"
  BY DEF Init, Idle
<1>2. \A j \in JobIds : jobs[j].status = "absent"
  BY DEF Init, StoreInit, NoRow
<1>3. dead_letters = {}
  BY DEF Init, StoreInit
<1> QED BY <1>1, <1>2, <1>3, TypeInit, StoreInitInv
        DEF Init, AnyInv, AttemptWasCounted, NoAttemptRunsTwice, Busy,
            FailedOnlyWhenSpent, SuccessIsRecorded, CompletedOnlyIfExecuted

\* Every step keeps the invariant of either regime.
LEMMA AnyInvStep ==
    ASSUME AnyInv, [Next]_vars
    PROVE  AnyInv'
BY TypeStep, NextIsStatement, StoreInvStep, CountedStep, SpentStep, ExecutedStep
   DEF AnyInv

\* The inductive invariant of the system, whatever handlers do.
THEOREM QueueInvariance == Spec => []AnyInv
BY AnyInvInit, AnyInvStep, PTL DEF Spec

\* The state of the system keeps its type.
THEOREM QueueTypeCorrect == Spec => []TypeOK
BY QueueInvariance, PTL DEF AnyInv

\* No two live workers ever run the same attempt of the same job.
THEOREM NoDoubleClaim == Spec => []NoAttemptRunsTwice
BY QueueInvariance, PTL DEF AnyInv

\* No job is given up on before its attempts are spent.
THEOREM NoEarlyFailure == Spec => []FailedOnlyWhenSpent
BY QueueInvariance, PTL DEF AnyInv

\* No job is completed that was never executed.
THEOREM AtLeastOnce == Spec => []CompletedOnlyIfExecuted
BY QueueInvariance, PTL DEF AnyInv

-----------------------------------------------------------------------------
(***************************************************************************)
(* What holds when handlers meet their lease: a worker owns the job it has *)
(* in hand, and the system implements JobLifecycle.  ExclusiveOwnership    *)
(* carries the argument.  A worker's report is applied to a row that is    *)
(* still its own, so that it decides by the attempts of the row and not by *)
(* an outdated copy of them, and the reaper only ever sees rows that       *)
(* nobody holds.                                                           *)
(***************************************************************************)

OwnsRow(w, r) ==
    /\ r.status = "running"
    /\ r.claimed_by = IdOf(w)
    /\ r.attempts = worker[w].attempts
    /\ r.lease_expires_at # -1

\* No statement but its own report touches a row that a worker holds, other
\* than to age it, and ageing does not exhaust its lease.
LEMMA HeldRowKept ==
    ASSUME HandlersMeetLease, AnyInv, ExclusiveOwnership, [Next]_vars,
           NEW w \in Workers, Busy(w), Busy(w)'
    PROVE  OwnsRow(w, jobs'[worker[w].job])
<1> DEFINE j == worker[w].job
           r == jobs[j]
<1>0. /\ j \in JobIds /\ OwnsRow(w, r) /\ r \in JobRow
      /\ jobs \in [JobIds -> JobRow] /\ worker \in [Workers -> WorkerState]
  BY DEF AnyInv, TypeOK, StoreTypeOK, WorkerState, ExclusiveOwnership, OwnsRow
<1>a. ASSUME jobs'[j] = jobs[j] PROVE OwnsRow(w, jobs'[j])
  BY <1>0, <1>a
<1>1. ASSUME UNCHANGED storeVars PROVE jobs'[j] = jobs[j]
  BY <1>1 DEF storeVars
<1>2. ASSUME NEW i \in JobIds, Enqueue(i) PROVE jobs'[j] = jobs[j]
  BY <1>0, <1>2 DEF Enqueue, Inserted, OwnsRow
<1>3. ASSUME NEW v \in Workers, NEW i \in JobIds, Claim(IdOf(v), {i})
      PROVE  jobs'[j] = jobs[j]
  BY <1>0, <1>3 DEF Claim, ClaimRows, Eligible, Claimable, OwnsRow
<1>4. ASSUME NEW v \in Workers, Report(v) PROVE jobs'[j] = jobs[j]
  <2>1. v # w
    BY <1>0, <1>4 DEF Report, Idle, Busy
  <2>2. worker[v].job # j
    BY <1>4, <2>1, ReportKinds DEF AnyInv, ExclusiveOwnership
  <2>3. CASE Complete(worker[v].job)
    BY <1>0, <2>2, <2>3 DEF Complete
  <2>4. CASE Fail(worker[v].job)
    BY <1>0, <2>2, <2>4 DEF Fail
  <2>5. CASE \E delay \in RetryDelays : Retry(worker[v].job, delay)
    BY <1>0, <2>2, <2>5 DEF Retry
  <2> QED BY <1>1, <1>4, <2>3, <2>4, <2>5, ReportKinds DEF AnyInv
<1>5. ASSUME NEW S \in SUBSET JobIds, ReapExpiredLeases(S)
      PROVE  jobs'[j] = jobs[j]
  <2>1. ~LeaseExpired(r)
    BY <1>0, StoreAssumption DEF LeaseExpired, OwnsRow, JobRow
  <2> QED BY <1>0, <1>5, <2>1 DEF ReapExpiredLeases, ReapRows, Reapable
<1>6. ASSUME TimePasses PROVE OwnsRow(w, jobs'[j])
  <2>1. r.lease_expires_at # 0 /\ jobs'[j] = AgedRow(r)
    BY <1>0, <1>6 DEF TimePasses, LeaseMayRunOn, Tick
  <2>2. AgedRow(r).lease_expires_at # -1
    <3>1. AgedRow(r).lease_expires_at = IF r.lease_expires_at \in 0 .. Lease
                                        THEN r.lease_expires_at - 1
                                        ELSE r.lease_expires_at
      BY DEF AgedRow
    <3>2. r.lease_expires_at \in 1 .. Lease \/ r.lease_expires_at = NULL
      <4>1. r.lease_expires_at \in (-1 .. Lease) \cup {NULL}
        BY <1>0 DEF JobRow
      <4> QED BY <1>0, <2>1, <4>1, StoreAssumption DEF OwnsRow
    <3>3. CASE r.lease_expires_at \in 1 .. Lease
      BY <3>1, <3>3, StoreAssumption
    <3>4. CASE r.lease_expires_at = NULL
      BY <3>1, <3>4, StoreAssumption
    <3> QED BY <3>2, <3>3, <3>4
  <2>3. /\ AgedRow(r).status = r.status /\ AgedRow(r).attempts = r.attempts
        /\ AgedRow(r).claimed_by = r.claimed_by
    BY RowFields
  <2> QED BY <1>0, <2>1, <2>2, <2>3 DEF OwnsRow
<1>7. \/ UNCHANGED storeVars
      \/ \E i \in JobIds : Enqueue(i)
      \/ \E v \in Workers, i \in JobIds : Claim(IdOf(v), {i})
      \/ \E v \in Workers : Report(v)
      \/ \E S \in SUBSET JobIds : ReapExpiredLeases(S)
      \/ TimePasses
  <2>1. ASSUME \/ \E v \in Workers : \/ HandlerSucceeds(v) \/ HandlerErrs(v)
                                     \/ ReportLost(v) \/ WorkerReturns(v)
               \/ \E p \in Procs : Sigterm(p) \/ Exit(p) \/ Crash(p) \/ Start(p)
               \/ UNCHANGED vars
        PROVE  UNCHANGED storeVars
    BY <2>1 DEF HandlerSucceeds, HandlerErrs, ReportLost, WorkerReturns, Sigterm,
                Exit, Crash, Start, vars, storeVars
  <2> QED BY <2>1, Zenon DEF Next, WorkerStep, ProcStep, Submit, ClaimJob,
                      ClaimAnswerLost, Reap
<1> HIDE DEF j, r
<1>8. OwnsRow(w, jobs'[j])
  BY <1>a, <1>1, <1>2, <1>3, <1>4, <1>5, <1>6, <1>7, Zenon
<1> QED BY <1>8 DEF j

\* While handlers meet their lease, no step takes a job from its worker.
LEMMA OwnershipStep ==
    ASSUME HandlersMeetLease, AnyInv, ExclusiveOwnership, [Next]_vars
    PROVE  ExclusiveOwnership'
<1>1. CASE Kept
  <2> SUFFICES ASSUME NEW w \in Workers, Busy(w)'
               PROVE  /\ jobs'[worker'[w].job].status = "running"
                      /\ jobs'[worker'[w].job].claimed_by = IdOf(w)
                      /\ jobs'[worker'[w].job].attempts = worker'[w].attempts
                      /\ jobs'[worker'[w].job].lease_expires_at # -1
                      /\ \A v \in Workers : Busy(v)' /\ v # w =>
                                               worker'[v].job # worker'[w].job
    BY DEF ExclusiveOwnership, IdOf
  <2>1. /\ Busy(w) /\ worker'[w].job = worker[w].job
        /\ worker'[w].attempts = worker[w].attempts
    BY <1>1 DEF Kept
  <2>2. OwnsRow(w, jobs'[worker[w].job])
    BY <2>1, HeldRowKept
  <2>3. \A v \in Workers : Busy(v)' /\ v # w => worker'[v].job # worker'[w].job
    BY <1>1, <2>1 DEF Kept, ExclusiveOwnership
  <2> QED BY <2>1, <2>2, <2>3 DEF OwnsRow
<1>2. ASSUME NEW u \in Workers, NEW j \in JobIds, ClaimJob(u, j)
      PROVE  ExclusiveOwnership'
  <2>0. TypeOK
    BY DEF AnyInv
  <2>1. \A v \in Workers \ {u} : /\ Busy(v)' <=> Busy(v)
                                 /\ worker'[v] = worker[v]
                                 /\ Busy(v) => worker[v].job # j
    BY <1>2, <2>0, ClaimEffect DEF Busy, ExclusiveOwnership
  <2>2. \A v \in Workers \ {u} : Busy(v) => /\ worker[v].job \in JobIds
                                            /\ jobs'[worker[v].job] = jobs[worker[v].job]
    <3>1. \A v \in Workers : Busy(v) => worker[v].job \in JobIds
      BY <2>0 DEF TypeOK, WorkerState
    <3>2. \A i \in JobIds \ {j} : jobs'[i] = jobs[i]
      BY <1>2, <2>0, ClaimEffect
    <3> QED BY <2>1, <3>1, <3>2
  <2> SUFFICES ASSUME NEW w \in Workers, Busy(w)'
               PROVE  /\ jobs'[worker'[w].job].status = "running"
                      /\ jobs'[worker'[w].job].claimed_by = IdOf(w)
                      /\ jobs'[worker'[w].job].attempts = worker'[w].attempts
                      /\ jobs'[worker'[w].job].lease_expires_at # -1
                      /\ \A v \in Workers : Busy(v)' /\ v # w =>
                                               worker'[v].job # worker'[w].job
    BY DEF ExclusiveOwnership, IdOf
  <2>3. CASE w = u
    <3>1. worker'[w].job = j /\ jobs'[j] = ClaimedRow(jobs[j], IdOf(w))
          /\ jobs'[j].attempts = worker'[w].attempts
      BY <1>2, <2>0, <2>3, ClaimEffect
    <3> QED BY <2>1, <2>3, <3>1, StoreAssumption DEF ClaimedRow
  <2>4. CASE w # u
    <3>1. \A v \in Workers : Busy(v)' /\ v # w => worker'[v].job # worker'[w].job
      BY <1>2, <2>0, <2>1, <2>4, ClaimEffect DEF ExclusiveOwnership
    <3> QED BY <2>1, <2>2, <2>4, <3>1 DEF ExclusiveOwnership
  <2> QED BY <2>3, <2>4
<1> QED BY <1>1, <1>2, ClaimOrKept DEF AnyInv

(***************************************************************************)
(* The life of a job, in the variables of JobQueue.                        *)
(***************************************************************************)
Life(j, from, to) == jobs[j].status = from /\ jobs'[j].status = to

LifeStep(j) ==
    LET n == jobs[j].attempts IN
    \/ jobs'[j].status = jobs[j].status /\ jobs'[j].attempts = n
    \/ Life(j, "queued", "running") /\ n < MaxAttempts /\ jobs'[j].attempts = n + 1
    \/ /\ jobs'[j].attempts = n
       /\ \/ Life(j, "absent", "queued")
          \/ Life(j, "running", "completed")
          \/ Life(j, "running", "queued") /\ n < MaxAttempts
          \/ Life(j, "running", "failed") /\ n = MaxAttempts

\* Queued jobs have attempts left.
AttemptsLeft ==
    \A j \in JobIds :
        /\ jobs[j].attempts <= MaxAttempts
        /\ jobs[j].status = "queued" => jobs[j].attempts < MaxAttempts

LettersAreFailures ==
    DeadLettered = {j \in JobIds : jobs[j].status = "failed"}

TimelyInv ==
    /\ AnyInv
    /\ ExclusiveOwnership
    /\ AttemptsLeft
    /\ LettersAreFailures

\* Every step moves every job along its life cycle or leaves it be.
LEMMA LifeStepOfNext ==
    ASSUME TimelyInv, [Next]_vars, NEW j \in JobIds
    PROVE  LifeStep(j)
<1>0. /\ jobs \in [JobIds -> JobRow] /\ jobs[j].attempts \in Nat
      /\ MaxAttempts \in Nat \ {0} /\ TypeOK
      /\ jobs[j].attempts <= MaxAttempts
      /\ jobs[j].status = "queued" => jobs[j].attempts < MaxAttempts
  BY StoreAssumption DEF TimelyInv, AnyInv, TypeOK, StoreTypeOK, JobRow, AttemptsLeft
<1>a. ASSUME jobs'[j] = jobs[j] PROVE LifeStep(j)
  BY <1>a DEF LifeStep
<1>1. CASE UNCHANGED storeVars
  BY <1>a, <1>1 DEF storeVars
<1>2. ASSUME NEW i \in JobIds, Enqueue(i) PROVE LifeStep(j)
  <2>1. CASE i = j
    <3>1. jobs[j].status = "absent" /\ jobs'[j] = NewRow /\ jobs[j] = NoRow
      BY <1>0, <1>2, <2>1 DEF Enqueue, TimelyInv, AnyInv, StoreInv, FreshIds, Inserted
    <3> QED BY <3>1 DEF LifeStep, Life, NewRow, NoRow
  <2>2. CASE i # j
    BY <1>0, <1>a, <1>2, <2>2 DEF Enqueue
  <2> QED BY <2>1, <2>2
<1>3. ASSUME NEW w \in Workers, NEW i \in JobIds, Claim(IdOf(w), {i}) PROVE LifeStep(j)
  <2>1. CASE i = j
    <3>1. jobs[j].status = "queued" /\ jobs'[j] = ClaimedRow(jobs[j], IdOf(w))
      BY <1>3, <2>1 DEF Claim, ClaimRows, Eligible, Claimable
    <3> QED BY <1>0, <3>1 DEF LifeStep, Life, ClaimedRow
  <2>2. CASE i # j
    BY <1>0, <1>a, <1>3, <2>2 DEF Claim, ClaimRows
  <2> QED BY <2>1, <2>2
<1>4. ASSUME NEW w \in Workers, Report(w) PROVE LifeStep(j)
  <2>1. /\ worker[w].job \in JobIds /\ Busy(w)
        /\ jobs[worker[w].job].status = "running"
        /\ jobs[worker[w].job].attempts = worker[w].attempts
    BY <1>0, <1>4, ReportKinds DEF TimelyInv, ExclusiveOwnership
  <2>2. CASE worker[w].job # j
    <3>1. CASE Complete(worker[w].job)
      BY <1>0, <1>a, <2>2, <3>1 DEF Complete
    <3>2. CASE Fail(worker[w].job)
      BY <1>0, <1>a, <2>2, <3>2 DEF Fail
    <3>3. CASE \E delay \in RetryDelays : Retry(worker[w].job, delay)
      BY <1>0, <1>a, <2>2, <3>3 DEF Retry
    <3> QED BY <1>0, <1>1, <1>4, <3>1, <3>2, <3>3, ReportKinds
  <2>3. CASE worker[w].job = j
    <3>1. CASE Complete(j)
      <4>1. jobs'[j] = CompletedRow(jobs[j])
        BY <1>0, <3>1 DEF Complete
      <4>2. jobs'[j].status = "completed" /\ jobs'[j].attempts = jobs[j].attempts
        BY <4>1, RowFields
      <4> QED BY <2>1, <2>3, <4>2 DEF LifeStep, Life
    <3>2. CASE worker[w].attempts >= MaxAttempts /\ Fail(j)
      <4>1. jobs'[j] = FailedRow(jobs[j])
        BY <1>0, <3>2 DEF Fail
      <4>2. jobs[j].attempts = MaxAttempts
        BY <1>0, <2>1, <2>3, <3>2
      <4>3. jobs'[j].status = "failed" /\ jobs'[j].attempts = jobs[j].attempts
        BY <4>1, RowFields
      <4> QED BY <2>1, <2>3, <4>2, <4>3 DEF LifeStep, Life
    <3>3. CASE /\ ~(worker[w].attempts >= MaxAttempts)
               /\ \E delay \in RetryDelays : Retry(j, delay)
      <4>1. PICK delay \in RetryDelays : jobs'[j] = RetriedRow(jobs[j], delay)
        BY <1>0, <3>3 DEF Retry
      <4>2. jobs[j].attempts < MaxAttempts
        BY <1>0, <2>1, <2>3, <3>3
      <4>3. jobs'[j].status = "queued" /\ jobs'[j].attempts = jobs[j].attempts
        BY <4>1, RetriedFields
      <4> QED BY <2>1, <2>3, <4>2, <4>3 DEF LifeStep, Life
    <3> QED BY <1>0, <1>1, <1>4, <2>3, <3>1, <3>2, <3>3, ReportKinds
  <2> QED BY <2>2, <2>3
<1>5. ASSUME NEW S \in SUBSET JobIds, ReapExpiredLeases(S) PROVE LifeStep(j)
  <2>1. CASE j \in S
    <3>1. jobs[j].status = "running" /\ jobs'[j] = ReapedRow(jobs[j])
      BY <1>5, <2>1 DEF ReapExpiredLeases, ReapRows, Reapable, LeaseExpired
    <3>2. /\ Exhausted(jobs[j]) => jobs'[j].status = "failed"
          /\ ~Exhausted(jobs[j]) => jobs'[j].status = "queued"
          /\ jobs'[j].attempts = jobs[j].attempts
      BY <3>1, RowFields
    <3> QED BY <1>0, <3>1, <3>2 DEF LifeStep, Life, Exhausted
  <2>2. CASE j \notin S
    BY <1>a, <1>5, <2>2 DEF ReapExpiredLeases, ReapRows
  <2> QED BY <2>1, <2>2
<1>6. CASE Tick
  BY <1>6 DEF Tick, AgedRow, LifeStep
<1> QED BY <1>1, <1>2, <1>3, <1>4, <1>5, <1>6, StepKinds, Zenon

\* A job goes back to the queue only with attempts left.
LEMMA AttemptsLeftStep ==
    ASSUME TimelyInv, [Next]_vars
    PROVE  AttemptsLeft'
<1> SUFFICES ASSUME NEW j \in JobIds
             PROVE  /\ jobs'[j].attempts <= MaxAttempts
                    /\ jobs'[j].status = "queued" => jobs'[j].attempts < MaxAttempts
  BY DEF AttemptsLeft
<1>1. /\ jobs[j].attempts \in Nat /\ MaxAttempts \in Nat \ {0}
      /\ jobs[j].attempts <= MaxAttempts
      /\ jobs[j].status = "queued" => jobs[j].attempts < MaxAttempts
      /\ jobs[j].status = "absent" => jobs[j].attempts = 0
  BY StoreAssumption DEF TimelyInv, AnyInv, TypeOK, StoreTypeOK, JobRow,
     AttemptsLeft, StoreInv, FreshIds, Inserted, NoRow
<1>2. LifeStep(j)
  BY LifeStepOfNext
<1> QED BY <1>1, <1>2 DEF LifeStep, Life

\* Letters are written for jobs that fail, and failed jobs stay failed.
LEMMA LettersStep ==
    ASSUME TimelyInv, [Next]_vars, FailureHasItsLetter'
    PROVE  LettersAreFailures'
<1>0. /\ jobs \in [JobIds -> JobRow] /\ TypeOK /\ dead_letters \subseteq DeadLetter
  BY DEF TimelyInv, AnyInv, TypeOK, StoreTypeOK
<1>1. ASSUME NEW j \in JobIds, jobs'[j].status = "failed" PROVE j \in DeadLettered'
  <2>1. Letter(j, jobs'[j]) \in dead_letters'
    BY <1>1 DEF FailureHasItsLetter, LettersOf
  <2> QED BY <2>1 DEF DeadLettered, Letter
<1>a. ASSUME NEW d \in dead_letters
      PROVE  d.job_id \in JobIds /\ jobs'[d.job_id].status = "failed"
  <2>1. d.job_id \in JobIds /\ jobs[d.job_id].status = "failed"
    BY DEF TimelyInv, LettersAreFailures, DeadLettered
  <2> QED BY <2>1, LifeStepOfNext DEF LifeStep, Life
<1>2. ASSUME NEW d \in dead_letters', d \notin dead_letters
      PROVE  d.job_id \in JobIds /\ jobs'[d.job_id].status = "failed"
  <2>1. ASSUME NEW i \in JobIds, Fail(i)
        PROVE  d.job_id \in JobIds /\ jobs'[d.job_id].status = "failed"
    BY <1>0, <1>2, <2>1 DEF Fail, Letter, FailedRow
  <2>2. ASSUME NEW S \in SUBSET JobIds, ReapExpiredLeases(S)
        PROVE  d.job_id \in JobIds /\ jobs'[d.job_id].status = "failed"
    <3>1. PICK i \in ReapedDead(S) : d = Letter(i, jobs[i])
      BY <1>2, <2>2 DEF ReapExpiredLeases, ReapRows
    <3>2. i \in JobIds /\ jobs'[i] = ReapedRow(jobs[i]) /\ Exhausted(jobs[i])
      BY <2>2, <3>1 DEF ReapExpiredLeases, ReapRows, ReapedDead
    <3>3. d.job_id = i
      BY <3>1 DEF Letter
    <3>4. jobs'[i].status = "failed"
      BY <3>2, RowFields
    <3> QED BY <3>2, <3>3, <3>4
  <2>3. ASSUME NEW w \in Workers, Report(w)
        PROVE  d.job_id \in JobIds /\ jobs'[d.job_id].status = "failed"
    <3>1. worker[w].job \in JobIds /\ Fail(worker[w].job)
      BY <1>0, <1>2, <2>3, ReportKinds DEF Complete, Retry, storeVars
    <3> QED BY <2>1, <3>1
  <2> QED BY <1>2, <2>2, <2>3, StepKinds DEF Enqueue, Claim, ClaimRows, Tick, storeVars
<1> QED BY <1>1, <1>a, <1>2 DEF LettersAreFailures, DeadLettered

\* The invariant of the timely regime holds initially.
LEMMA TimelyInvInit == Init => TimelyInv
<1> SUFFICES ASSUME Init PROVE TimelyInv
  OBVIOUS
<1>1. \A w \in Workers : ~Busy(w)
  BY DEF Init, Idle, Busy
<1>2. \A j \in JobIds : jobs[j].status = "absent" /\ jobs[j].attempts = 0
  BY DEF Init, StoreInit, NoRow
<1>3. DeadLettered = {}
  BY DEF Init, StoreInit, DeadLettered
<1> QED BY <1>1, <1>2, <1>3, AnyInvInit, StoreAssumption
        DEF TimelyInv, ExclusiveOwnership, AttemptsLeft, LettersAreFailures

\* Every step keeps the invariant of the timely regime.
LEMMA TimelyInvStep ==
    ASSUME HandlersMeetLease, TimelyInv, [Next]_vars
    PROVE  TimelyInv'
<1>1. AnyInv' /\ ExclusiveOwnership'
  BY AnyInvStep, OwnershipStep DEF TimelyInv
<1>2. FailureHasItsLetter'
  BY <1>1 DEF AnyInv, StoreInv
<1> QED BY <1>1, <1>2, AttemptsLeftStep, LettersStep DEF TimelyInv

-----------------------------------------------------------------------------

\* The inductive invariant of the system when handlers meet their lease.
THEOREM TimelyInvariance ==
    ASSUME HandlersMeetLease
    PROVE  Spec => []TimelyInv
<1>1. TimelyInv /\ [Next]_vars => TimelyInv'
  BY TimelyInvStep
<1> QED BY TimelyInvInit, <1>1, PTL DEF Spec

\* A worker is the only holder of its job, and the row says so.
THEOREM Ownership ==
    ASSUME HandlersMeetLease
    PROVE  Spec => []ExclusiveOwnership
BY TimelyInvariance, PTL DEF TimelyInv

\* No job is claimed more than max_attempts times.
THEOREM BoundedAttempts ==
    ASSUME HandlersMeetLease
    PROVE  Spec => []AttemptsWithinMax
<1>1. TimelyInv => AttemptsWithinMax
  BY DEF TimelyInv, AttemptsLeft, AttemptsWithinMax
<1> QED BY <1>1, TimelyInvariance, PTL

\* Completed and failed jobs stay so.
THEOREM TerminalForGood ==
    ASSUME HandlersMeetLease
    PROVE  Spec => TerminalIsFinal
<1>1. TimelyInv /\ [Next]_vars =>
        [\A j \in JobIds : jobs[j].status \in TerminalStatuses =>
                             jobs'[j].status = jobs[j].status]_vars
  BY LifeStepOfNext DEF LifeStep, Life, TerminalStatuses
<1> QED BY <1>1, TimelyInvariance, PTL DEF Spec, TerminalIsFinal

\* What migration 0002 says of a failed row: no claim takes it again.  (True
\* in this regime only, see the run late_reclaim.)
THEOREM NeverReclaimed ==
    ASSUME HandlersMeetLease
    PROVE  Spec => DeadLetteredNeverClaimed
<1>1. TimelyInv => \A j \in DeadLettered : jobs[j].status # "queued"
  BY DEF TimelyInv, LettersAreFailures
<1>2. TimelyInv /\ [Next]_vars =>
        [\A j \in DeadLettered :
           ~(jobs[j].status = "queued" /\ jobs'[j].status = "running")]_vars
  BY <1>1
<1> QED BY <1>2, TimelyInvariance, PTL DEF Spec, DeadLetteredNeverClaimed

\* The reaper's statement is never refused by UNIQUE (job_id).
THEOREM ReaperNeverRefused ==
    ASSUME HandlersMeetLease
    PROVE  Spec => []MayBury(ReapedDead(Reapable))
<1>1. TimelyInv => MayBury(ReapedDead(Reapable))
  BY DEF TimelyInv, LettersAreFailures, MayBury, ReapedDead, Reapable, LeaseExpired
<1> QED BY <1>1, TimelyInvariance, PTL

\* The detailed system implements the abstract life cycle.
THEOREM Refinement ==
    ASSUME HandlersMeetLease
    PROVE  Spec => ImplementsLifecycle
<1>1. Init => Abstract!Init
  BY DEF Init, StoreInit, NoRow, DeadLettered, Abstract!Init
<1>2. ASSUME TimelyInv, TimelyInv', [Next]_vars
      PROVE  Abstract!Next
  <2>1. ASSUME NEW j \in JobIds
        PROVE  Abstract!Attempt(j) \/ Abstract!Settle(j) \/ Abstract!Stay(j)
    BY <1>2, <2>1, LifeStepOfNext
       DEF LifeStep, Life, Abstract!Attempt, Abstract!Settle, Abstract!Stay, Abstract!Move
  <2>2. DeadLettered' = {j \in JobIds : jobs'[j].status = "failed"}
    BY <1>2 DEF TimelyInv, LettersAreFailures
  <2> QED BY <2>1, <2>2 DEF Abstract!Next
<1> QED BY <1>1, <1>2, TimelyInvariance, PTL
        DEF Spec, ImplementsLifecycle, Abstract!Spec

\* The event of an outcome carries the attempt that the worker claimed.
THEOREM OutcomeAttempts ==
    ASSUME HandlersMeetLease
    PROVE  Spec => OutcomeCarriesItsAttempt
<1> DEFINE Carries(w) ==
             LET j == worker[w].job IN
             /\ Finished(w)
             /\ worker'[w].pc = "polling"
             /\ job_events'[j] # job_events[j]
             => job_events'[j][Len(job_events'[j])].attempts = worker[w].attempts
<1>1. ASSUME TimelyInv, [Next]_vars, NEW w \in Workers PROVE Carries(w)
  <2> DEFINE j == worker[w].job
  <2> SUFFICES ASSUME Finished(w), worker'[w].pc = "polling",
                      job_events'[j] # job_events[j]
               PROVE  job_events'[j][Len(job_events'[j])].attempts = worker[w].attempts
    OBVIOUS
  <2>0. /\ j \in JobIds /\ job_events[j] \in Seq(Event) /\ TypeOK
        /\ worker \in [Workers -> WorkerState] /\ Busy(w)
        /\ jobs[j].attempts = worker[w].attempts
        /\ job_events \in [JobIds -> Seq(Event)]
    BY <1>1, Zenon DEF TimelyInv, AnyInv, TypeOK, StoreTypeOK, WorkerState, Finished, Busy,
                ExclusiveOwnership
  <2>1. ASSUME NEW type, job_events'[j] = Append(job_events[j], EventOf(type, jobs[j], NULL))
        PROVE  job_events'[j][Len(job_events'[j])].attempts = worker[w].attempts
    <3>1. job_events'[j][Len(job_events'[j])] = EventOf(type, jobs[j], NULL)
      BY <2>0, <2>1, LastAppended
    <3>2. EventOf(type, jobs[j], NULL).attempts = jobs[j].attempts
      BY DEF EventOf
    <3> QED BY <2>0, <3>1, <3>2
  <2>2. CASE Report(w)
    <3>1. CASE Complete(j)
      BY <2>0, <2>1, <3>1, Zenon DEF Complete
    <3>2. CASE Fail(j)
      BY <2>0, <2>1, <3>2, Zenon DEF Fail
    <3>3. CASE \E delay \in RetryDelays : Retry(j, delay)
      BY <2>0, <2>1, <3>3 DEF Retry
    <3>4. CASE UNCHANGED storeVars
      BY <3>4 DEF storeVars
    <3> QED BY <2>0, <2>2, <3>1, <3>2, <3>3, <3>4, ReportKinds, Zenon
  <2>3. ASSUME NEW v \in Workers \ {w},
               \/ Report(v)
               \/ \E i \in JobIds : ClaimJob(v, i)
        PROVE  FALSE
    <3>1. worker'[w] = worker[w]
      BY <2>0, <2>3, Zenon DEF Report, ClaimJob
    <3> QED BY <3>1 DEF Finished
  <2>4. ASSUME NEW i \in JobIds, ClaimJob(w, i) PROVE FALSE
    BY <2>4 DEF ClaimJob, MayClaim, Finished
  <2>5. ASSUME \/ \E i \in JobIds : Submit(i)
               \/ \E v \in Workers, i \in JobIds : ClaimAnswerLost(v, i)
               \/ \E p \in Procs : Reap(p)
               \/ TimePasses
        PROVE  FALSE
    <3>1. worker'[w] = worker[w]
      BY <2>5, Zenon DEF Submit, ClaimAnswerLost, Reap, TimePasses, queueVars
    <3> QED BY <3>1 DEF Finished
  <2>6. ASSUME \/ \E v \in Workers : \/ HandlerSucceeds(v) \/ HandlerErrs(v)
                                     \/ ReportLost(v) \/ WorkerReturns(v)
               \/ \E p \in Procs : Sigterm(p) \/ Exit(p) \/ Crash(p) \/ Start(p)
               \/ UNCHANGED vars
        PROVE  FALSE
    BY <2>6, Zenon DEF HandlerSucceeds, HandlerErrs, ReportLost, WorkerReturns, Sigterm,
                Exit, Crash, Start, vars
  <2> QED BY <1>1, <2>2, <2>3, <2>4, <2>5, <2>6, Zenon DEF Next, WorkerStep, ProcStep
<1>2. TimelyInv /\ [Next]_vars => [\A w \in Workers : Carries(w)]_vars
  BY <1>1
<1> QED BY <1>2, TimelyInvariance, PTL DEF Spec, OutcomeCarriesItsAttempt

-----------------------------------------------------------------------------
(***************************************************************************)
(* The events that the queue writes, job by job.                           *)
(***************************************************************************)

\* Event e is added to the log of job j, in a status in which it may be.
Written(j, e) ==
    /\ e \in Event
    /\ job_events'[j] = Append(job_events[j], e)
    /\ \/ e.event_type = "enqueued" /\ jobs[j].status = "absent"
       \/ e.event_type = "claimed" /\ jobs[j].status = "queued"
       \/ /\ e.event_type \notin {"enqueued", "claimed"}
          /\ jobs[j].status = "running"
          /\ e.attempts = jobs[j].attempts

\* A step adds at most one event to the log of a job.  An outcome is written
\* only to a running job: by its owner, or by the reaper.
LEMMA WrittenByStep ==
    ASSUME TimelyInv, [Next]_vars, NEW j \in JobIds
    PROVE  job_events'[j] = job_events[j] \/ \E e : Written(j, e)
<1> DEFINE Goal == job_events'[j] = job_events[j] \/ \E e : Written(j, e)
<1>0. /\ jobs \in [JobIds -> JobRow] /\ job_events \in [JobIds -> Seq(Event)]
      /\ jobs[j] \in JobRow /\ jobs[j].attempts \in Nat /\ TypeOK
  BY DEF TimelyInv, AnyInv, TypeOK, StoreTypeOK, JobRow
<1>1. CASE UNCHANGED storeVars
  BY <1>1 DEF storeVars
<1>2. ASSUME NEW i \in JobIds, Enqueue(i) PROVE Goal
  <2>1. CASE i = j
    <3> DEFINE e == EventOf("enqueued", NewRow, NULL)
    <3>1. e \in Event /\ e.event_type = "enqueued"
      BY DEF EventOf, NewRow, Event, EventTypes
    <3>2. jobs[j].status = "absent" /\ job_events'[j] = Append(job_events[j], e)
      BY <1>0, <1>2, <2>1 DEF Enqueue, Inserted
    <3> QED BY <3>1, <3>2 DEF Written
  <2>2. CASE i # j
    BY <1>0, <1>2, <2>2 DEF Enqueue
  <2> QED BY <2>1, <2>2
<1>3. ASSUME NEW w \in Workers, NEW i \in JobIds, Claim(IdOf(w), {i}) PROVE Goal
  <2>1. CASE i = j
    <3> DEFINE e == EventOf("claimed", ClaimedRow(jobs[j], IdOf(w)), IdOf(w))
    <3>1. e \in Event /\ e.event_type = "claimed"
      BY <1>0 DEF EventOf, ClaimedRow, Event, EventTypes, Workers, IdOf
    <3>2. jobs[j].status = "queued" /\ job_events'[j] = Append(job_events[j], e)
      BY <1>0, <1>3, <2>1 DEF Claim, ClaimRows, Eligible, Claimable
    <3> QED BY <3>1, <3>2 DEF Written
  <2>2. CASE i # j
    BY <1>3, <2>2 DEF Claim, ClaimRows
  <2> QED BY <2>1, <2>2
<1>4. ASSUME NEW type \in EventTypes \ {"enqueued", "claimed"},
             jobs[j].status = "running",
             job_events'[j] = Append(job_events[j], EventOf(type, jobs[j], NULL))
      PROVE  Goal
  <2>1. /\ EventOf(type, jobs[j], NULL) \in Event
        /\ EventOf(type, jobs[j], NULL).event_type = type
        /\ EventOf(type, jobs[j], NULL).attempts = jobs[j].attempts
    BY <1>0, <1>4 DEF EventOf, Event
  <2> QED BY <1>4, <2>1 DEF Written
<1>5. ASSUME NEW w \in Workers, Report(w) PROVE Goal
  <2>1. worker[w].job \in JobIds /\ jobs[worker[w].job].status = "running"
    BY <1>0, <1>5, ReportKinds DEF TimelyInv, ExclusiveOwnership
  <2>2. CASE worker[w].job # j
    BY <1>0, <1>1, <1>5, <2>2, ReportKinds, Zenon DEF Complete, Fail, Retry
  <2>3. CASE worker[w].job = j
    <3>1. \/ UNCHANGED storeVars
          \/ \E type \in {"completed", "failed", "retried"} :
               job_events'[j] = Append(job_events[j], EventOf(type, jobs[j], NULL))
      BY <1>0, <1>5, <2>3, ReportKinds, Zenon DEF Complete, Fail, Retry
    <3> QED BY <1>1, <1>4, <2>1, <2>3, <3>1, Zenon DEF EventTypes
  <2> QED BY <2>2, <2>3
<1>6. ASSUME NEW S \in SUBSET JobIds, ReapExpiredLeases(S) PROVE Goal
  <2>1. CASE j \in S
    <3>1. /\ jobs[j].status = "running"
          /\ job_events'[j] = Append(job_events[j],
                                     EventOf(ReapedEventType(jobs[j]), jobs[j], NULL))
      BY <1>6, <2>1 DEF ReapExpiredLeases, ReapRows, Reapable, LeaseExpired
    <3> QED BY <1>4, <3>1 DEF ReapedEventType, EventTypes
  <2>2. CASE j \notin S
    BY <1>6, <2>2 DEF ReapExpiredLeases, ReapRows
  <2> QED BY <2>1, <2>2
<1>7. CASE Tick
  BY <1>7 DEF Tick
<1> QED BY <1>1, <1>2, <1>3, <1>5, <1>6, <1>7, StepKinds, Zenon

(***************************************************************************)
(* The order of the events of a job: it is enqueued first and once, it     *)
(* departs last and once, and the outcome a worker reports comes right     *)
(* after the claim of the same attempt.                                    *)
(***************************************************************************)
Ordered(log) ==
    \A i \in DOMAIN log :
        /\ log[i].event_type = "enqueued" <=> i = 1
        /\ log[i].event_type \in Departures => i = Len(log)
        /\ log[i].event_type \in {"completed", "failed"} =>
               /\ i - 1 \in DOMAIN log
               /\ log[i - 1].event_type = "claimed"
               /\ log[i - 1].attempts = log[i].attempts

LogsOrdered == \A j \in JobIds : Ordered(job_events[j])

\* The newest event of a job tells in which status the next one is written,
\* and that fixes the order.
LEMMA LogsOrderedStep ==
    ASSUME TimelyInv, LogsOrdered, [Next]_vars
    PROVE  LogsOrdered'
<1> SUFFICES ASSUME NEW j \in JobIds PROVE Ordered(job_events'[j])
  BY DEF LogsOrdered
<1> DEFINE log == job_events[j]
           last == log[Len(log)]
<1>0. /\ log \in Seq(Event) /\ Ordered(log) /\ jobs[j] \in JobRow
      /\ job_events \in [JobIds -> Seq(Event)]
  BY DEF TimelyInv, AnyInv, TypeOK, StoreTypeOK, LogsOrdered
<1>1. CASE job_events'[j] = job_events[j]
  BY <1>0, <1>1
<1>2. ASSUME NEW e, Written(j, e) PROVE Ordered(job_events'[j])
  <2> DEFINE n == Len(log) + 1
             log2 == Append(log, e)
  <2>0. job_events'[j] = log2 /\ e \in Event
    BY <1>2 DEF Written
  <2>1. /\ DOMAIN log2 = DOMAIN log \cup {n} /\ Len(log2) = n /\ n \in Nat
        /\ \A i \in DOMAIN log : log2[i] = log[i] /\ i # n /\ i \in Nat
        /\ log2[n] = e
        /\ DOMAIN log = 1 .. Len(log) /\ Len(log) \in Nat
    BY <1>0, <2>0
  <2>2. CASE jobs[j].status = "absent"
    <3>1. log = <<>> /\ e.event_type = "enqueued"
      BY <1>2, <2>2 DEF Written, TimelyInv, AnyInv, StoreInv, FreshIds, Inserted
    <3> QED BY <2>0, <2>1, <3>1 DEF Ordered, Departures
  <2>3. CASE jobs[j].status # "absent"
    <3>1. /\ Len(log) \in DOMAIN log
          /\ jobs[j].status = StatusAfter[last.event_type]
          /\ jobs[j].attempts = last.attempts
          /\ last.event_type \in EventTypes
      <4>1. /\ log # <<>>
            /\ jobs[j].status = StatusAfter[last.event_type]
            /\ jobs[j].attempts = last.attempts
        BY <2>3 DEF TimelyInv, AnyInv, StoreInv, OutboxTracksTable, Inserted
      <4>2. Len(log) \in DOMAIN log /\ last \in Event
        BY <1>0, <4>1
      <4> QED BY <4>1, <4>2 DEF Event
    <3>2. e.event_type # "enqueued" /\ jobs[j].status \in {"queued", "running"}
      BY <1>2, <2>3 DEF Written
    <3>3. last.event_type \notin Departures
      BY <3>1, <3>2 DEF StatusAfter, EventTypes, Departures
    <3>4. \A i \in DOMAIN log : log[i].event_type \notin Departures
      BY <1>0, <3>3 DEF Ordered
    <3>5. ASSUME e.event_type \in {"completed", "failed"}
          PROVE  last.event_type = "claimed" /\ last.attempts = e.attempts
      <4>1. jobs[j].status = "running" /\ e.attempts = jobs[j].attempts
        BY <1>2, <3>5 DEF Written
      <4> QED BY <3>1, <4>1 DEF StatusAfter, EventTypes
    <3> SUFFICES ASSUME NEW i \in DOMAIN log2
                 PROVE  /\ log2[i].event_type = "enqueued" <=> i = 1
                        /\ log2[i].event_type \in Departures => i = Len(log2)
                        /\ log2[i].event_type \in {"completed", "failed"} =>
                              /\ i - 1 \in DOMAIN log2
                              /\ log2[i - 1].event_type = "claimed"
                              /\ log2[i - 1].attempts = log2[i].attempts
      BY <2>0 DEF Ordered
    <3>6. CASE i \in DOMAIN log
      BY <1>0, <2>1, <3>4, <3>6 DEF Ordered, Departures
    <3>7. CASE i = n
      <4>1. i - 1 = Len(log) /\ i # 1
        BY <2>1, <3>1, <3>7
      <4>2. log2[i] = e /\ log2[i - 1] = last
        BY <2>1, <3>1, <3>7, <4>1
      <4> QED BY <2>1, <3>1, <3>2, <3>5, <3>7, <4>1, <4>2, Zenon
    <3> QED BY <2>1, <3>6, <3>7
  <2> QED BY <2>2, <2>3
<1> QED BY <1>1, <1>2, WrittenByStep

\* A step submits at most one job.
LEMMA InsertedStep ==
    ASSUME TypeOK, ExclusiveOwnership, [Next]_vars
    PROVE  \E i : Inserted' \subseteq Inserted \cup {i}
<1>0. jobs \in [JobIds -> JobRow]
  BY DEF TypeOK, StoreTypeOK
<1>1. ASSUME NEW i \in JobIds, Enqueue(i) PROVE Inserted' = Inserted \cup {i}
  BY <1>0, <1>1 DEF Enqueue, Inserted, NewRow
<1>2. ASSUME UNCHANGED storeVars PROVE Inserted' \subseteq Inserted
  BY <1>2 DEF storeVars, Inserted
<1>3. ASSUME NEW w \in Workers, NEW i \in JobIds, Claim(IdOf(w), {i})
      PROVE  Inserted' \subseteq Inserted
  BY <1>3 DEF Claim, ClaimRows, Eligible, Claimable, Inserted
<1>4. ASSUME NEW w \in Workers, Report(w) PROVE Inserted' \subseteq Inserted
  <2>1. worker[w].job \in Inserted
    BY <1>4, ReportKinds, Zenon DEF ExclusiveOwnership, Inserted
  <2>2. \A j \in JobIds \ {worker[w].job} : jobs'[j] = jobs[j]
    <3>1. CASE UNCHANGED storeVars
      BY <3>1 DEF storeVars
    <3>2. CASE Complete(worker[w].job)
      BY <1>0, <3>2 DEF Complete
    <3>3. CASE Fail(worker[w].job)
      BY <1>0, <3>3 DEF Fail
    <3>4. CASE \E delay \in RetryDelays : Retry(worker[w].job, delay)
      BY <1>0, <3>4 DEF Retry
    <3> QED BY <1>4, <3>1, <3>2, <3>3, <3>4, ReportKinds, Zenon
  <2> QED BY <2>1, <2>2 DEF Inserted
<1>5. ASSUME NEW S \in SUBSET JobIds, ReapExpiredLeases(S)
      PROVE  Inserted' \subseteq Inserted
  BY <1>5, Zenon DEF ReapExpiredLeases, ReapRows, Reapable, LeaseExpired, Inserted
<1>6. ASSUME Tick PROVE Inserted' \subseteq Inserted
  BY <1>6 DEF Tick, AgedRow, Inserted
<1> QED BY <1>1, <1>2, <1>3, <1>4, <1>5, <1>6, StepKinds, Zenon
=============================================================================
