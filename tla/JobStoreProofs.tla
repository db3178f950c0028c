--------------------------- MODULE JobStoreProofs ---------------------------
(***************************************************************************)
(* Proofs about JobStore, for any set of jobs, any max_attempts, any lease *)
(* and any callers.                                                        *)
(***************************************************************************)
EXTENDS JobStore, TLAPS

(***************************************************************************)
(* Every statement treats each job in one of a few ways.  Moved(j, type,   *)
(* w) says what an event of a type, once written, tells of the row.        *)
(***************************************************************************)
Moved(j, type, w) ==
    LET r == jobs[j] IN
    \/ type = "enqueued" /\ r.status = "absent" /\ jobs'[j] = NewRow
    \/ /\ type = "claimed" /\ r.status = "queued" /\ w \in WorkerNames
       /\ jobs'[j] = ClaimedRow(r, w)
    \/ type = "completed" /\ jobs'[j] = CompletedRow(r)
    \/ /\ type = "retried"
       /\ \E delay \in RetryDelays : jobs'[j] = RetriedRow(r, delay)
    \/ type = "failed" /\ jobs'[j] = FailedRow(r)
    \/ type = ReapedEventType(r) /\ LeaseExpired(r) /\ jobs'[j] = ReapedRow(r)

JobStep(j) ==
    \/ jobs'[j] = jobs[j] /\ job_events'[j] = job_events[j]
    \/ jobs'[j] = AgedRow(jobs[j]) /\ job_events'[j] = job_events[j]
    \/ /\ j \in Inserted \/ jobs'[j] = NewRow
       /\ \E type \in EventTypes, w \in WorkerNames \cup {NULL} :
            /\ job_events'[j] = Append(job_events[j], EventOf(type, jobs'[j], w))
            /\ Moved(j, type, w)

Tables ==
    /\ jobs' = [j \in JobIds |-> jobs'[j]]
    /\ job_events' = [j \in JobIds |-> job_events'[j]]

\* A statement, whatever limit a caller passes to Claim.
AnyStatement ==
    \/ Statement
    \/ \E w \in WorkerNames, S \in SUBSET JobIds : Claim(w, S)

\* What the statements leave of a row, or take from it.
LEMMA RowFields ==
    ASSUME NEW r
    PROVE  /\ CompletedRow(r).status = "completed"
           /\ CompletedRow(r).attempts = r.attempts
           /\ FailedRow(r).status = "failed"
           /\ FailedRow(r).attempts = r.attempts
           /\ Exhausted(r) => ReapedRow(r).status = "failed"
           /\ ~Exhausted(r) => ReapedRow(r).status = "queued"
           /\ ReapedRow(r).attempts = r.attempts
           /\ AgedRow(r).status = r.status
           /\ AgedRow(r).attempts = r.attempts
           /\ AgedRow(r).claimed_by = r.claimed_by
BY DEF CompletedRow, FailedRow, ReapedRow, AgedRow

\* The same, of a retried row.
LEMMA RetriedFields ==
    ASSUME NEW r, NEW delay
    PROVE  /\ RetriedRow(r, delay).status = "queued"
           /\ RetriedRow(r, delay).attempts = r.attempts
BY DEF RetriedRow

\* The event appended to a log is its last.
LEMMA LastAppended ==
    ASSUME NEW log \in Seq(Event), NEW e
    PROVE  Append(log, e) # <<>> /\ Append(log, e)[Len(Append(log, e))] = e
OBVIOUS

\* Every row a statement writes is well-typed.
LEMMA RowTypes ==
    ASSUME NEW r \in JobRow
    PROVE  /\ NoRow \in JobRow
           /\ NewRow \in JobRow
           /\ \A w \in WorkerNames : ClaimedRow(r, w) \in JobRow
           /\ CompletedRow(r) \in JobRow
           /\ FailedRow(r) \in JobRow
           /\ ReapedRow(r) \in JobRow
           /\ AgedRow(r) \in JobRow
           /\ \A delay \in RetryDelays : RetriedRow(r, delay) \in JobRow
<1> USE StoreAssumption
<1>1. NoRow \in JobRow /\ NewRow \in JobRow
  BY DEF NoRow, NewRow, JobRow, Statuses
<1>2. \A w \in WorkerNames : ClaimedRow(r, w) \in JobRow
  BY DEF ClaimedRow, JobRow, Statuses
<1>3. CompletedRow(r) \in JobRow /\ FailedRow(r) \in JobRow
  BY DEF CompletedRow, FailedRow, JobRow, Statuses
<1>4. ReapedRow(r) \in JobRow
  BY DEF ReapedRow, Exhausted, JobRow, Statuses
<1>5. AgedRow(r) \in JobRow
  BY DEF AgedRow, JobRow, Statuses
<1>6. \A delay \in RetryDelays : RetriedRow(r, delay) \in JobRow
  BY DEF RetriedRow, JobRow, Statuses
<1> QED BY <1>1, <1>2, <1>3, <1>4, <1>5, <1>6

\* Each statement treats each job in one of the ways of JobStep.
LEMMA StatementPerJob ==
    ASSUME StoreTypeOK, AnyStatement
    PROVE  Tables /\ \A j \in JobIds : JobStep(j)
<1> USE DEF StoreTypeOK, Tables
<1>1. ASSUME NEW i \in JobIds, Enqueue(i) PROVE Tables /\ \A j \in JobIds : JobStep(j)
  BY <1>1 DEF Enqueue, JobStep, Moved, EventTypes, NewRow, NoRow, EventOf, Inserted
<1>2. ASSUME NEW w \in WorkerNames, NEW S \in SUBSET JobIds, Claim(w, S)
      PROVE  Tables /\ \A j \in JobIds : JobStep(j)
  BY <1>2 DEF Claim, ClaimRows, JobStep, Moved, EventTypes, Eligible, Claimable, Inserted
<1>3. ASSUME NEW i \in JobIds, Complete(i) PROVE Tables /\ \A j \in JobIds : JobStep(j)
  BY <1>3 DEF Complete, JobStep, Moved, EventTypes, CompletedRow, EventOf, JobRow
<1>4. ASSUME NEW i \in JobIds, NEW delay \in RetryDelays, Retry(i, delay)
      PROVE  Tables /\ \A j \in JobIds : JobStep(j)
  BY <1>4 DEF Retry, JobStep, Moved, EventTypes, RetriedRow, EventOf, JobRow
<1>5. ASSUME NEW i \in JobIds, Fail(i) PROVE Tables /\ \A j \in JobIds : JobStep(j)
  BY <1>5 DEF Fail, JobStep, Moved, EventTypes, FailedRow, EventOf, JobRow
<1>6. ASSUME NEW S \in SUBSET JobIds, ReapExpiredLeases(S)
      PROVE  Tables /\ \A j \in JobIds : JobStep(j)
  BY <1>6 DEF ReapExpiredLeases, ReapRows, JobStep, Moved, EventTypes, ReapedRow, EventOf,
       JobRow, Reapable, ReapedEventType, Inserted, LeaseExpired
<1>7. ASSUME Tick PROVE Tables /\ \A j \in JobIds : JobStep(j)
  BY <1>7 DEF Tick, JobStep
<1> QED BY <1>1, <1>2, <1>3, <1>4, <1>5, <1>6, <1>7 DEF AnyStatement, Statement

(***************************************************************************)
(* The inductive invariant: the properties of JobStore, and that an id     *)
(* not yet handed out has neither row nor events.                          *)
(***************************************************************************)
FreshIds ==
    \A j \in JobIds \ Inserted : jobs[j] = NoRow /\ job_events[j] = <<>>

StoreInv ==
    /\ StoreTypeOK
    /\ FreshIds
    /\ FailureHasItsLetter
    /\ ColumnsFollowStatus
    /\ OutboxTracksTable
    /\ OneClaimPerAttempt

\* The empty tables satisfy the invariant.
LEMMA StoreInitInv == StoreInit => StoreInv
<1> SUFFICES ASSUME StoreInit PROVE StoreInv
  OBVIOUS
<1> USE StoreAssumption DEF StoreInit, NoRow
<1>1. StoreTypeOK
  BY DEF StoreTypeOK, JobRow, Statuses
<1>2. FreshIds
  BY DEF FreshIds
<1>3. FailureHasItsLetter
  BY DEF FailureHasItsLetter
<1>4. ColumnsFollowStatus
  BY DEF ColumnsFollowStatus, TerminalStatuses
<1>5. OutboxTracksTable
  BY DEF OutboxTracksTable, Inserted
<1>6. OneClaimPerAttempt
  BY DEF OneClaimPerAttempt, ClaimEvents
<1> QED BY <1>1, <1>2, <1>3, <1>4, <1>5, <1>6 DEF StoreInv

\* An event a statement writes is well-typed, and its row with it.
LEMMA JobStepTypes ==
    ASSUME StoreTypeOK, NEW j \in JobIds, JobStep(j)
    PROVE  jobs'[j] \in JobRow /\ job_events'[j] \in Seq(Event)
<1>0. jobs[j] \in JobRow /\ job_events[j] \in Seq(Event)
  BY DEF StoreTypeOK
<1>1. jobs'[j] \in JobRow
  BY <1>0, RowTypes DEF JobStep, Moved
<1>2. ASSUME NEW type \in EventTypes, NEW w \in WorkerNames \cup {NULL}
      PROVE  EventOf(type, jobs'[j], w) \in Event
  BY <1>1 DEF EventOf, Event, JobRow
<1>3. job_events'[j] \in Seq(Event)
  BY <1>0, <1>2 DEF JobStep
<1> QED BY <1>1, <1>3

\* The statements write dead letters of the right shape only.
LEMMA LettersTyped ==
    ASSUME StoreTypeOK, AnyStatement
    PROVE  dead_letters' \subseteq DeadLetter
<1> USE DEF StoreTypeOK, JobRow, DeadLetter, Letter
<1>1. ASSUME NEW i \in JobIds, Fail(i) PROVE dead_letters' \subseteq DeadLetter
  BY <1>1 DEF Fail
<1>2. ASSUME NEW S \in SUBSET JobIds, ReapExpiredLeases(S)
      PROVE  dead_letters' \subseteq DeadLetter
  BY <1>2 DEF ReapExpiredLeases, ReapRows, ReapedDead
<1> QED
  BY <1>1, <1>2 DEF AnyStatement, Statement, Enqueue, Claim, ClaimRows, Complete, Retry, Tick

\* No statement leaves the types of the tables.
LEMMA StoreTypeStep ==
    ASSUME StoreTypeOK, AnyStatement
    PROVE  StoreTypeOK'
<1>1. Tables /\ \A j \in JobIds : jobs'[j] \in JobRow /\ job_events'[j] \in Seq(Event)
  BY StatementPerJob, JobStepTypes
<1> QED BY <1>1, LettersTyped DEF StoreTypeOK, Tables

\* An event tells the status of the row the statement wrote with it.
LEMMA MovedStatus ==
    ASSUME NEW j \in JobIds, NEW type \in EventTypes, NEW w, Moved(j, type, w)
    PROVE  /\ jobs'[j].status = StatusAfter[type]
           /\ jobs'[j].status \in Statuses
<1> USE DEF StatusAfter, EventTypes, Statuses
<1>1. CASE type = "enqueued" /\ jobs'[j] = NewRow
  BY <1>1 DEF NewRow
<1>2. CASE type = "claimed" /\ jobs'[j] = ClaimedRow(jobs[j], w)
  BY <1>2 DEF ClaimedRow
<1>3. CASE type = "completed" /\ jobs'[j] = CompletedRow(jobs[j])
  BY <1>3 DEF CompletedRow
<1>4. CASE /\ type = "retried"
           /\ \E delay \in RetryDelays : jobs'[j] = RetriedRow(jobs[j], delay)
  BY <1>4 DEF RetriedRow
<1>5. CASE type = "failed" /\ jobs'[j] = FailedRow(jobs[j])
  BY <1>5 DEF FailedRow
<1>6. CASE type = ReapedEventType(jobs[j]) /\ jobs'[j] = ReapedRow(jobs[j])
  BY <1>6 DEF ReapedRow, ReapedEventType
<1> QED BY <1>1, <1>2, <1>3, <1>4, <1>5, <1>6 DEF Moved

\* Only a claim counts an attempt.
LEMMA MovedAttempts ==
    ASSUME NEW j \in JobIds, NEW type, NEW w, Moved(j, type, w)
    PROVE  /\ type = "claimed" => jobs'[j].attempts = jobs[j].attempts + 1
           /\ type = "enqueued" => /\ jobs[j].status = "absent"
                                   /\ jobs'[j].attempts = 0
           /\ type \notin {"enqueued", "claimed"} =>
                  jobs'[j].attempts = jobs[j].attempts
<1>1. CASE type = "enqueued" /\ jobs[j].status = "absent" /\ jobs'[j] = NewRow
  BY <1>1 DEF NewRow
<1>2. CASE type = "claimed" /\ jobs'[j] = ClaimedRow(jobs[j], w)
  BY <1>2 DEF ClaimedRow
<1>3. CASE type = "completed" /\ jobs'[j] = CompletedRow(jobs[j])
  BY <1>3 DEF CompletedRow
<1>4. CASE /\ type = "retried"
           /\ \E delay \in RetryDelays : jobs'[j] = RetriedRow(jobs[j], delay)
  BY <1>4 DEF RetriedRow
<1>5. CASE type = "failed" /\ jobs'[j] = FailedRow(jobs[j])
  BY <1>5 DEF FailedRow
<1>6. CASE type = ReapedEventType(jobs[j]) /\ jobs'[j] = ReapedRow(jobs[j])
  BY <1>6 DEF ReapedRow, ReapedEventType
<1> QED BY <1>1, <1>2, <1>3, <1>4, <1>5, <1>6 DEF Moved

\* An id that was not handed out keeps an empty row and no events.
LEMMA FreshIdsStep ==
    ASSUME StoreTypeOK, FreshIds, AnyStatement
    PROVE  FreshIds'
<1> SUFFICES ASSUME NEW j \in JobIds, jobs'[j].status = "absent"
             PROVE  jobs'[j] = NoRow /\ job_events'[j] = <<>>
  BY DEF FreshIds, Inserted
<1>1. JobStep(j)
  BY StatementPerJob
<1>2. AgedRow(NoRow) = NoRow
  BY StoreAssumption DEF AgedRow, NoRow
<1>3. jobs[j].status = "absent"
  <2>1. ASSUME NEW type \in EventTypes, NEW w, Moved(j, type, w) PROVE FALSE
    BY <2>1, MovedStatus DEF Statuses
  <2>2. CASE jobs'[j] = AgedRow(jobs[j])
    BY <2>2 DEF AgedRow
  <2> QED BY <1>1, <2>1, <2>2 DEF JobStep
<1>4. jobs[j] = NoRow /\ job_events[j] = <<>>
  BY <1>3 DEF FreshIds, Inserted
<1> QED BY <1>1, <1>2, <1>3, <1>4 DEF JobStep, Inserted, NewRow

\* Every statement writes the columns that go with the status it sets.
LEMMA ColumnsStep ==
    ASSUME StoreTypeOK, ColumnsFollowStatus, AnyStatement
    PROVE  ColumnsFollowStatus'
<1> SUFFICES ASSUME NEW j \in JobIds
             PROVE  /\ jobs'[j].status = "running" =>
                          jobs'[j].claimed_by # NULL /\ jobs'[j].lease_expires_at # NULL
                    /\ jobs'[j].status \in {"queued", "failed"} =>
                          jobs'[j].claimed_by = NULL /\ jobs'[j].lease_expires_at = NULL
                    /\ jobs'[j].status \in TerminalStatuses => jobs'[j].completed_at
  BY DEF ColumnsFollowStatus
<1> USE StoreAssumption DEF ColumnsFollowStatus, TerminalStatuses
<1>0. jobs[j] \in JobRow
  BY DEF StoreTypeOK
<1>1. JobStep(j)
  BY StatementPerJob
<1>2. CASE jobs'[j] = jobs[j]
  BY <1>2
<1>3. CASE jobs'[j] = AgedRow(jobs[j])
  BY <1>0, <1>3 DEF AgedRow, JobRow
<1>4. ASSUME NEW type, NEW w, Moved(j, type, w)
      PROVE  /\ jobs'[j].status = "running" =>
                   jobs'[j].claimed_by # NULL /\ jobs'[j].lease_expires_at # NULL
             /\ jobs'[j].status \in {"queued", "failed"} =>
                   jobs'[j].claimed_by = NULL /\ jobs'[j].lease_expires_at = NULL
             /\ jobs'[j].status \in TerminalStatuses => jobs'[j].completed_at
  <2> USE DEF JobRow
  <2>1. CASE jobs'[j] = NewRow
    BY <2>1 DEF NewRow
  <2>2. CASE w \in WorkerNames /\ jobs'[j] = ClaimedRow(jobs[j], w)
    BY <2>2 DEF ClaimedRow
  <2>3. CASE jobs'[j] = CompletedRow(jobs[j])
    BY <2>3 DEF CompletedRow
  <2>4. CASE \E delay \in RetryDelays : jobs'[j] = RetriedRow(jobs[j], delay)
    BY <2>4 DEF RetriedRow
  <2>5. CASE jobs'[j] = FailedRow(jobs[j])
    BY <2>5 DEF FailedRow
  <2>6. CASE jobs'[j] = ReapedRow(jobs[j])
    BY <2>6 DEF ReapedRow
  <2> QED BY <1>4, <2>1, <2>2, <2>3, <2>4, <2>5, <2>6 DEF Moved
<1> QED BY <1>1, <1>2, <1>3, <1>4 DEF JobStep

\* The event a statement appends tells the row it leaves behind.
LEMMA OutboxStep ==
    ASSUME StoreTypeOK, OutboxTracksTable, AnyStatement
    PROVE  OutboxTracksTable'
<1> DEFINE Tracks(r, log) ==
             /\ log # <<>>
             /\ r.status = StatusAfter[log[Len(log)].event_type]
             /\ r.attempts = log[Len(log)].attempts
<1> SUFFICES ASSUME NEW j \in JobIds, jobs'[j].status # "absent"
             PROVE  Tracks(jobs'[j], job_events'[j])
  BY DEF OutboxTracksTable, Inserted
<1>0. jobs[j] \in JobRow /\ job_events[j] \in Seq(Event)
  BY DEF StoreTypeOK
<1>1. JobStep(j)
  BY StatementPerJob
<1>2. jobs[j].status # "absent" => Tracks(jobs[j], job_events[j])
  BY DEF OutboxTracksTable, Inserted
<1>3. CASE jobs'[j] = jobs[j] /\ job_events'[j] = job_events[j]
  BY <1>2, <1>3
<1>4. CASE jobs'[j] = AgedRow(jobs[j]) /\ job_events'[j] = job_events[j]
  BY <1>2, <1>4 DEF AgedRow
<1>5. ASSUME NEW type \in EventTypes, NEW w \in WorkerNames \cup {NULL},
             job_events'[j] = Append(job_events[j], EventOf(type, jobs'[j], w)),
             Moved(j, type, w)
      PROVE  Tracks(jobs'[j], job_events'[j])
  <2>1. /\ job_events'[j] # <<>>
        /\ job_events'[j][Len(job_events'[j])] = EventOf(type, jobs'[j], w)
    BY <1>0, <1>5, LastAppended
  <2> QED BY <1>5, <2>1, MovedStatus DEF EventOf
<1> QED BY <1>1, <1>3, <1>4, <1>5 DEF JobStep

(***************************************************************************)
(* OneClaimPerAttempt, of one row and its log.                             *)
(***************************************************************************)
Claims(log, n) ==
    {i \in DOMAIN log : log[i].event_type = "claimed" /\ log[i].attempts = n}

Counted(r, log) ==
    /\ \A n \in 1 .. r.attempts : \E i \in DOMAIN log : Claims(log, n) = {i}
    /\ Claims(log, 0) = {}
    /\ \A i \in DOMAIN log : log[i].attempts \in 0 .. r.attempts

\* What appending an event does to a log.
LEMMA AppendedLog ==
    ASSUME NEW log \in Seq(Event), NEW e \in Event
    PROVE  /\ DOMAIN Append(log, e) = DOMAIN log \cup {Len(log) + 1}
           /\ \A i \in DOMAIN log : Append(log, e)[i] = log[i]
           /\ Append(log, e)[Len(log) + 1] = e
           /\ Len(log) + 1 \notin DOMAIN log
OBVIOUS

\* A claim of attempt n adds one to the claims of that attempt,
LEMMA ClaimAppended ==
    ASSUME NEW log \in Seq(Event), NEW e \in Event, e.event_type = "claimed"
    PROVE  Claims(Append(log, e), e.attempts)
             = Claims(log, e.attempts) \cup {Len(log) + 1}
BY AppendedLog DEF Claims

\* and any other event adds none.
LEMMA OtherAppended ==
    ASSUME NEW log \in Seq(Event), NEW e \in Event, NEW n,
           ~(e.event_type = "claimed" /\ e.attempts = n)
    PROVE  Claims(Append(log, e), n) = Claims(log, n)
BY AppendedLog DEF Claims

\* A claim numbers its attempt afresh; no other statement adds a claim.
LEMMA OneClaimStep ==
    ASSUME StoreTypeOK, FreshIds, OneClaimPerAttempt, AnyStatement
    PROVE  OneClaimPerAttempt'
<1> SUFFICES ASSUME NEW j \in JobIds
             PROVE  Counted(jobs'[j], job_events'[j])
  BY DEF OneClaimPerAttempt, ClaimEvents, Counted, Claims
<1> DEFINE r == jobs[j]
           log == job_events[j]
<1>0. r \in JobRow /\ r.attempts \in Nat /\ log \in Seq(Event)
  BY DEF StoreTypeOK, JobRow
<1>1. JobStep(j)
  BY StatementPerJob
<1>2. Counted(r, log)
  BY DEF OneClaimPerAttempt, ClaimEvents, Counted, Claims
<1>3. CASE jobs'[j].attempts = r.attempts /\ job_events'[j] = log
  BY <1>2, <1>3 DEF Counted
<1>4. ASSUME NEW type \in EventTypes, NEW w \in WorkerNames \cup {NULL},
             j \in Inserted \/ jobs'[j] = NewRow,
             job_events'[j] = Append(log, EventOf(type, jobs'[j], w)),
             Moved(j, type, w)
      PROVE  Counted(jobs'[j], job_events'[j])
  <2> DEFINE e == EventOf(type, jobs'[j], w)
  <2>0. e \in Event /\ e.event_type = type /\ e.attempts = jobs'[j].attempts
    BY <1>1, JobStepTypes DEF EventOf, Event, JobRow
  <2>a. job_events'[j] = Append(log, e)
    BY <1>4
  <2> HIDE DEF e
  <2>b. /\ DOMAIN job_events'[j] = DOMAIN log \cup {Len(log) + 1}
        /\ \A i \in DOMAIN log : job_events'[j][i] = log[i]
        /\ job_events'[j][Len(log) + 1] = e
    BY <1>0, <2>0, <2>a, AppendedLog
  <2>c. ASSUME NEW n, type # "claimed" \/ n # jobs'[j].attempts
        PROVE  Claims(job_events'[j], n) = Claims(log, n)
    BY <1>0, <2>0, <2>a, <2>c, OtherAppended
  <2>1. CASE type = "enqueued"
    <3>1. log = <<>> /\ jobs'[j].attempts = 0
      BY <1>4, <2>1, MovedAttempts DEF FreshIds, Inserted
    <3>2. Claims(job_events'[j], 0) = {}
      BY <2>1, <2>c, <3>1, <1>2 DEF Counted
    <3> QED BY <1>0, <2>0, <2>b, <3>1, <3>2 DEF Counted
  <2>2. CASE type = "claimed"
    <3>1. jobs'[j].attempts = r.attempts + 1
      BY <1>4, <2>2, MovedAttempts
    <3>2. ASSUME NEW n \in 1 .. r.attempts
          PROVE  \E i \in DOMAIN job_events'[j] : Claims(job_events'[j], n) = {i}
      <4>1. n # jobs'[j].attempts
        BY <1>0, <3>1
      <4>2. Claims(job_events'[j], n) = Claims(log, n)
        BY <2>c, <4>1
      <4>3. \E i \in DOMAIN log : Claims(log, n) = {i}
        BY <1>2 DEF Counted
      <4> QED BY <2>b, <4>2, <4>3
    <3>3. Claims(log, r.attempts + 1) = {}
      BY <1>0, <1>2 DEF Counted, Claims
    <3>4. Claims(job_events'[j], r.attempts + 1) = {Len(log) + 1}
      BY <1>0, <2>0, <2>a, <2>2, <3>1, <3>3, ClaimAppended
    <3>6. \A i \in DOMAIN job_events'[j] :
             job_events'[j][i].attempts \in 0 .. r.attempts + 1
      BY <1>0, <1>2, <2>0, <2>b, <3>1 DEF Counted
    <3>7. \A n \in 1 .. r.attempts + 1 : n \in 1 .. r.attempts \/ n = r.attempts + 1
      BY <1>0
    <3>8. Claims(job_events'[j], 0) = {}
      <4>1. 0 # jobs'[j].attempts
        BY <1>0, <3>1
      <4> QED BY <1>2, <2>c, <4>1 DEF Counted
    <3> QED BY <2>b, <3>1, <3>2, <3>4, <3>6, <3>7, <3>8 DEF Counted
  <2>3. CASE type \notin {"enqueued", "claimed"}
    <3>1. jobs'[j].attempts = r.attempts
      BY <1>4, <2>3, MovedAttempts
    <3>2. ASSUME NEW n PROVE Claims(job_events'[j], n) = Claims(log, n)
      <4>1. type # "claimed"
        BY <2>3
      <4> QED BY <2>c, <4>1
    <3>4. \A i \in DOMAIN job_events'[j] :
             job_events'[j][i].attempts \in 0 .. r.attempts
      BY <1>0, <1>2, <2>0, <2>b, <3>1 DEF Counted
    <3> QED BY <1>2, <2>b, <3>1, <3>2, <3>4 DEF Counted
  <2> QED BY <2>1, <2>2, <2>3
<1>5. CASE jobs'[j] = AgedRow(r) /\ job_events'[j] = log
  BY <1>3, <1>5 DEF AgedRow
<1> QED BY <1>1, <1>3, <1>4, <1>5 DEF JobStep

(***************************************************************************)
(* FailureHasItsLetter.  No statement but Fail and the reaper makes a row  *)
(* failed, and both write the letter of a job that had none.               *)
(***************************************************************************)

\* A statement that writes no letter fails no job, and does not change the
\* attempts of a failed one.
LEMMA NoNewFailure ==
    ASSUME NEW j \in JobIds, NEW r \in JobRow, NEW w, NEW delay
    PROVE  /\ NewRow.status # "failed"
           /\ ClaimedRow(r, w).status # "failed"
           /\ CompletedRow(r).status # "failed"
           /\ RetriedRow(r, delay).status # "failed"
           /\ AgedRow(r).status = r.status
           /\ Letter(j, AgedRow(r)) = Letter(j, r)
BY DEF NewRow, ClaimedRow, CompletedRow, RetriedRow, AgedRow, Letter

\* The statement that fails a job writes its letter, and none rewrites it.
LEMMA LetterStep ==
    ASSUME StoreTypeOK, FailureHasItsLetter, AnyStatement
    PROVE  FailureHasItsLetter'
<1> SUFFICES ASSUME NEW j \in JobIds, jobs'[j].status = "failed"
             PROVE  LettersOf(j)' = {Letter(j, jobs'[j])}
  BY DEF FailureHasItsLetter
<1>0. jobs[j] \in JobRow /\ jobs \in [JobIds -> JobRow]
  BY DEF StoreTypeOK
<1>a. jobs[j].status = "failed" => LettersOf(j) = {Letter(j, jobs[j])}
  BY DEF FailureHasItsLetter
<1>b. ASSUME dead_letters' = dead_letters, jobs'[j] = jobs[j]
      PROVE  LettersOf(j)' = {Letter(j, jobs'[j])}
  BY <1>a, <1>b DEF LettersOf
<1>1. ASSUME NEW i \in JobIds, Enqueue(i) PROVE LettersOf(j)' = {Letter(j, jobs'[j])}
  BY <1>0, <1>b, <1>1, NoNewFailure DEF Enqueue
<1>2. ASSUME NEW w \in WorkerNames, NEW S \in SUBSET JobIds, Claim(w, S)
      PROVE  LettersOf(j)' = {Letter(j, jobs'[j])}
  <2>1. jobs'[j] = (IF j \in S THEN ClaimedRow(jobs[j], w) ELSE jobs[j])
    BY <1>2 DEF Claim, ClaimRows
  <2>2. j \notin S
    BY <2>1 DEF ClaimedRow
  <2>3. dead_letters' = dead_letters
    BY <1>2 DEF Claim, ClaimRows
  <2> QED BY <1>b, <2>1, <2>2, <2>3
<1>3. ASSUME NEW i \in JobIds, Complete(i) PROVE LettersOf(j)' = {Letter(j, jobs'[j])}
  BY <1>0, <1>b, <1>3, NoNewFailure DEF Complete
<1>4. ASSUME NEW i \in JobIds, NEW delay \in RetryDelays, Retry(i, delay)
      PROVE  LettersOf(j)' = {Letter(j, jobs'[j])}
  BY <1>0, <1>b, <1>4, NoNewFailure DEF Retry
<1>5. ASSUME NEW i \in JobIds, Fail(i) PROVE LettersOf(j)' = {Letter(j, jobs'[j])}
  <2>1. CASE i = j
    <3>1. LettersOf(j) = {}
      BY <1>5, <2>1 DEF Fail, MayBury, DeadLettered, LettersOf
    <3>2. Letter(j, jobs'[j]) = Letter(j, jobs[j])
      BY <1>0, <1>5, <2>1 DEF Fail, FailedRow, Letter
    <3>3. dead_letters' = dead_letters \cup {Letter(j, jobs[j])}
      BY <1>5, <2>1 DEF Fail
    <3> QED BY <3>1, <3>2, <3>3 DEF LettersOf, Letter
  <2>2. CASE i # j
    <3>1. jobs'[j] = jobs[j] /\ dead_letters' = dead_letters \cup {Letter(i, jobs[i])}
      BY <1>0, <1>5, <2>2 DEF Fail
    <3>2. LettersOf(j)' = LettersOf(j)
      BY <2>2, <3>1 DEF LettersOf, Letter
    <3> QED BY <1>a, <3>1, <3>2
  <2> QED BY <2>1, <2>2
<1>6. ASSUME NEW S \in SUBSET JobIds, ReapExpiredLeases(S)
      PROVE  LettersOf(j)' = {Letter(j, jobs'[j])}
  <2>1. dead_letters' = dead_letters \cup {Letter(i, jobs[i]) : i \in ReapedDead(S)}
    BY <1>6 DEF ReapExpiredLeases, ReapRows
  <2>2. CASE j \in S
    <3>1. jobs'[j] = ReapedRow(jobs[j])
      BY <1>6, <2>2 DEF ReapExpiredLeases, ReapRows
    <3>2. j \in ReapedDead(S) /\ Letter(j, jobs'[j]) = Letter(j, jobs[j])
      BY <2>2, <3>1 DEF ReapedDead, ReapedRow, Letter
    <3>3. LettersOf(j) = {}
      BY <1>6, <3>2 DEF ReapExpiredLeases, MayBury, DeadLettered, LettersOf
    <3> QED BY <2>1, <3>2, <3>3 DEF LettersOf, Letter
  <2>3. CASE j \notin S
    <3>1. jobs'[j] = jobs[j] /\ j \notin ReapedDead(S)
      BY <1>6, <2>3 DEF ReapExpiredLeases, ReapRows, ReapedDead
    <3>2. LettersOf(j)' = LettersOf(j)
      BY <2>1, <3>1 DEF LettersOf, Letter
    <3> QED BY <1>a, <3>1, <3>2
  <2> QED BY <2>2, <2>3
<1>7. ASSUME Tick PROVE LettersOf(j)' = {Letter(j, jobs'[j])}
  <2>1. jobs'[j] = AgedRow(jobs[j]) /\ dead_letters' = dead_letters
    BY <1>7 DEF Tick
  <2>2. jobs[j].status = "failed" /\ Letter(j, jobs'[j]) = Letter(j, jobs[j])
    BY <1>0, <2>1, NoNewFailure
  <2> QED BY <1>a, <2>1, <2>2 DEF LettersOf
<1> QED BY <1>1, <1>2, <1>3, <1>4, <1>5, <1>6, <1>7 DEF AnyStatement, Statement

-----------------------------------------------------------------------------

\* Any statement, and any step that leaves the tables alone, preserves the
\* inductive invariant.
LEMMA StoreInvStep ==
    ASSUME StoreInv, [AnyStatement]_storeVars
    PROVE  StoreInv'
<1>1. CASE AnyStatement
  BY <1>1, StoreTypeStep, FreshIdsStep, LetterStep, ColumnsStep, OutboxStep,
     OneClaimStep DEF StoreInv
<1>2. CASE UNCHANGED storeVars
  BY <1>2 DEF storeVars, StoreInv, StoreTypeOK, FreshIds, FailureHasItsLetter,
     ColumnsFollowStatus, OutboxTracksTable, OneClaimPerAttempt, Inserted,
     LettersOf, ClaimEvents
<1> QED BY <1>1, <1>2

\* The inductive invariant holds of the store under every caller.
THEOREM StoreInvariance == StoreSpec => []StoreInv
<1>1. StoreInv /\ [Statement]_storeVars => StoreInv'
  BY StoreInvStep DEF AnyStatement
<1> QED BY StoreInitInv, <1>1, PTL DEF StoreSpec

\* The tables keep their types.
THEOREM StoreTypeCorrect == StoreSpec => []StoreTypeOK
BY StoreInvariance, PTL DEF StoreInv

\* However Fail, the reaper and late callers interleave, a failed job has
\* exactly one dead letter, and it tells the attempts of the row.
THEOREM LetterForEveryFailure == StoreSpec => []FailureHasItsLetter
BY StoreInvariance, PTL DEF StoreInv

\* A running row always has an owner and a lease for the reaper to see.
THEOREM ColumnsCorrect == StoreSpec => []ColumnsFollowStatus
BY StoreInvariance, PTL DEF StoreInv

\* The outbox's newest event of a job always tells the state of its row.
THEOREM OutboxCorrect == StoreSpec => []OutboxTracksTable
BY StoreInvariance, PTL DEF StoreInv

\* Each attempt number of a job is handed out by exactly one claim.
THEOREM ClaimsCountAttempts == StoreSpec => []OneClaimPerAttempt
BY StoreInvariance, PTL DEF StoreInv
=============================================================================
