------------------------------ MODULE JobStore ------------------------------
(***************************************************************************)
(* The storage layer of the job queue (internal/store): the tables jobs,   *)
(* dead_letters and job_events, and one action per SQL statement that      *)
(* changes them.  Every Store method is a single statement, so a method    *)
(* call is a single step; its CTEs (the dead_letters and job_events        *)
(* inserts) are part of that step.                                         *)
(*                                                                         *)
(* Timestamps are kept relative to now(), because that is the only thing   *)
(* the statements compare them with.  run_after is the time a row still    *)
(* has to wait (0: run_after <= now()); lease_expires_at is what is left   *)
(* of the lease (negative: lease_expires_at < now()).  Tick ages them and  *)
(* stops at the value at which no statement can tell any difference.       *)
(* claimed_at is always written and cleared together with claimed_by, so   *)
(* claimed_by stands for both; completed_at is reduced to "is not NULL".   *)
(* type, payload, trace_context and last_error never influence a           *)
(* statement and are left out.  The worker_id of an event that has none    *)
(* ('' in the table) is NULL here.                                         *)
(*                                                                         *)
(* StoreSpec lets any caller issue any statement at any time: late,        *)
(* duplicated and stale calls are all included.  What holds of StoreSpec   *)
(* therefore holds whatever the workers do.                                *)
(***************************************************************************)
EXTENDS Integers, Sequences, FiniteSets

CONSTANTS
    JobIds,       \* the ids the identity column of jobs may hand out
    WorkerNames,  \* the values of claimed_by ("worker-0", "worker-1", ...)
    MaxAttempts,  \* the default of max_attempts, which no statement changes
    Lease,        \* LEASE_DURATION, in ticks
    RetryDelays,  \* how far ahead of now() a Retry may put run_after, in ticks
    ClaimLimit,   \* the largest limit a caller passes to Claim
    NULL          \* SQL NULL

ASSUME StoreAssumption ==
    /\ MaxAttempts \in Nat \ {0}
    /\ Lease \in Nat
    /\ RetryDelays \subseteq Nat
    /\ ClaimLimit \in Nat \ {0}
    /\ NULL \notin Int
    /\ NULL \notin WorkerNames

VARIABLES
    jobs,          \* the jobs table, by id
    dead_letters,  \* the dead_letters table, a set of rows
    job_events     \* the outbox rows of each job, in the order of their ids

storeVars == <<jobs, dead_letters, job_events>>

-----------------------------------------------------------------------------
(* Rows *)

Statuses == {"queued", "running", "completed", "failed"}

TerminalStatuses == {"completed", "failed"}

\* "absent" marks an id that has not been handed out.
JobRow ==
    [status           : Statuses \cup {"absent"},
     attempts         : Nat,
     run_after        : Nat,
     claimed_by       : WorkerNames \cup {NULL},
     lease_expires_at : (-1 .. Lease) \cup {NULL},
     completed_at     : BOOLEAN]

DeadLetter == [job_id : JobIds, attempts : Nat]

EventTypes ==
    {"enqueued", "claimed", "completed", "retried", "failed",
     "reaped_retry", "reaped_failed"}

Event ==
    [event_type : EventTypes,
     attempts   : Nat,
     worker_id  : WorkerNames \cup {NULL}]

NoRow ==
    [status |-> "absent", attempts |-> 0, run_after |-> 0,
     claimed_by |-> NULL, lease_expires_at |-> NULL, completed_at |-> FALSE]

Inserted == {j \in JobIds : jobs[j].status # "absent"}

DeadLettered == {d.job_id : d \in dead_letters}

StoreTypeOK ==
    /\ jobs \in [JobIds -> JobRow]
    /\ dead_letters \subseteq DeadLetter
    /\ job_events \in [JobIds -> Seq(Event)]

StoreInit ==
    /\ jobs = [j \in JobIds |-> NoRow]
    /\ dead_letters = {}
    /\ job_events = [j \in JobIds |-> <<>>]

-----------------------------------------------------------------------------
(* What each statement writes.  A definition whose comment starts with      *)
(* "Mistake:" is a wrong version of the definition that follows it; no      *)
(* action uses it.  Put in the place of the right one, it breaks the        *)
(* property it is there to exercise.                                        *)

\* INSERT with the schema's defaults: queued, no attempts, run_after now().
NewRow ==
    [status |-> "queued", attempts |-> 0, run_after |-> 0,
     claimed_by |-> NULL, lease_expires_at |-> NULL, completed_at |-> FALSE]

\* Mistake: the claim does not count the attempt.
ClaimedRowUncounted(r, w) ==
    [r EXCEPT !.status = "running", !.claimed_by = w,
              !.lease_expires_at = Lease]

\* Mistake: the claim sets no lease.
ClaimedRowUnleased(r, w) ==
    [r EXCEPT !.status = "running", !.claimed_by = w, !.attempts = @ + 1]

ClaimedRow(r, w) ==
    [status |-> "running", attempts |-> r.attempts + 1,
     run_after |-> r.run_after, claimed_by |-> w,
     lease_expires_at |-> Lease, completed_at |-> r.completed_at]

\* Complete leaves the claim fields as they are.
CompletedRow(r) ==
    [status |-> "completed", attempts |-> r.attempts,
     run_after |-> r.run_after, claimed_by |-> r.claimed_by,
     lease_expires_at |-> r.lease_expires_at, completed_at |-> TRUE]

\* Mistake: Retry keeps the claim fields.
RetriedRowStillClaimed(r, delay) ==
    [r EXCEPT !.status = "queued", !.run_after = delay]

\* Retry leaves completed_at as it is.
RetriedRow(r, delay) ==
    [status |-> "queued", attempts |-> r.attempts,
     run_after |-> delay, claimed_by |-> NULL,
     lease_expires_at |-> NULL, completed_at |-> r.completed_at]

FailedRow(r) ==
    [status |-> "failed", attempts |-> r.attempts,
     run_after |-> r.run_after, claimed_by |-> NULL,
     lease_expires_at |-> NULL, completed_at |-> TRUE]

\* Mistake: one attempt too many.
ExhaustedLate(r) == r.attempts > MaxAttempts

\* attempts >= max_attempts
Exhausted(r) == r.attempts >= MaxAttempts

ReapedRow(r) ==
    [status |-> IF Exhausted(r) THEN "failed" ELSE "queued",
     attempts |-> r.attempts, run_after |-> r.run_after,
     claimed_by |-> NULL,
     lease_expires_at |-> NULL, completed_at |-> Exhausted(r)]

\* Mistake: the event tells a retry of a job that was failed.
ReapedEventTypeRetry(r) == "reaped_retry"

ReapedEventType(r) == IF Exhausted(r) THEN "reaped_failed" ELSE "reaped_retry"

\* An outbox row carries the attempts of the row as the statement returns it.
EventOf(type, r, w) ==
    [event_type |-> type, attempts |-> r.attempts, worker_id |-> w]

Letter(j, r) == [job_id |-> j, attempts |-> r.attempts]

-----------------------------------------------------------------------------
(* The statements *)

Enqueue(j) ==
    /\ j \notin Inserted
    /\ jobs' = [jobs EXCEPT ![j] = NewRow]
    /\ job_events' = [job_events EXCEPT
                        ![j] = Append(@, EventOf("enqueued", NewRow, NULL))]
    /\ UNCHANGED dead_letters

\* The rows the claim query's sub-select may return.
Claimable(r) == r.status = "queued" /\ r.run_after = 0

Eligible == {j \in JobIds : Claimable(jobs[j])}

\* SET ... and the insert into job_events, for the rows of a claim.
ClaimRows(w, S) ==
    /\ jobs' = [j \in JobIds |->
                  IF j \in S THEN ClaimedRow(jobs[j], w) ELSE jobs[j]]
    /\ job_events' =
         [j \in JobIds |->
            IF j \in S
            THEN Append(job_events[j],
                        EventOf("claimed", ClaimedRow(jobs[j], w), w))
            ELSE job_events[j]]
    /\ UNCHANGED dead_letters

\* The sub-select orders by priority and run_after, but FOR UPDATE SKIP
\* LOCKED passes over every row some other statement holds at that moment,
\* so that the rows returned may be any of the eligible ones.
Claim(w, S) ==
    /\ S # {}
    /\ S \subseteq Eligible
    /\ ClaimRows(w, S)

\* WHERE id = $1 and nothing else: neither the status nor the claim of the
\* row is compared with the caller's.  The same goes for Retry and Fail.
Complete(j) ==
    /\ j \in Inserted
    /\ jobs' = [jobs EXCEPT ![j] = CompletedRow(@)]
    /\ job_events' = [job_events EXCEPT
                        ![j] = Append(@, EventOf("completed", jobs[j], NULL))]
    /\ UNCHANGED dead_letters

Retry(j, delay) ==
    /\ j \in Inserted
    /\ jobs' = [jobs EXCEPT ![j] = RetriedRow(@, delay)]
    /\ job_events' = [job_events EXCEPT
                        ![j] = Append(@, EventOf("retried", jobs[j], NULL))]
    /\ UNCHANGED dead_letters

\* Mistake: a key that all letters share.
MayBuryFirst(S) == S # {} => Cardinality(S) = 1 /\ dead_letters = {}

\* UNIQUE (job_id) of dead_letters: a second letter for a job aborts the
\* whole statement that tries to write it.
MayBury(S) == S \cap DeadLettered = {}

Fail(j) ==
    /\ j \in Inserted
    /\ MayBury({j})
    /\ jobs' = [jobs EXCEPT ![j] = FailedRow(@)]
    /\ dead_letters' = dead_letters \cup {Letter(j, jobs[j])}
    /\ job_events' = [job_events EXCEPT
                        ![j] = Append(@, EventOf("failed", jobs[j], NULL))]

\* Mistake: any status; Complete leaves lease_expires_at set.
LeaseExpiredAnyStatus(r) ==
    /\ r.lease_expires_at # NULL
    /\ r.lease_expires_at < 0

\* Mistake: the lease ends one instant early.
LeaseExpiredEarly(r) ==
    /\ r.status = "running"
    /\ r.lease_expires_at # NULL
    /\ r.lease_expires_at <= 0

\* status = 'running' AND lease_expires_at < now(), which is not true of a
\* NULL lease_expires_at.
LeaseExpired(r) ==
    /\ r.status = "running"
    /\ r.lease_expires_at # NULL
    /\ r.lease_expires_at < 0

Reapable == {j \in JobIds : LeaseExpired(jobs[j])}

\* Mistake: letters only for rows past max_attempts.
ReapedDeadLate(S) == {j \in S : jobs[j].attempts > MaxAttempts}

ReapedDead(S) == {j \in S : Exhausted(jobs[j])}

\* SET ... and the inserts, for the rows of a reap.
ReapRows(S) ==
    /\ jobs' = [j \in JobIds |->
                  IF j \in S THEN ReapedRow(jobs[j]) ELSE jobs[j]]
    /\ dead_letters' = dead_letters \cup {Letter(j, jobs[j]) : j \in ReapedDead(S)}
    /\ job_events' =
         [j \in JobIds |->
            IF j \in S
            THEN Append(job_events[j],
                        EventOf(ReapedEventType(jobs[j]), jobs[j], NULL))
            ELSE job_events[j]]

\* One statement for all the rows: either all of them are reaped or, when
\* one of them cannot be buried, none is.  now() is the time at which the
\* statement started, so that rows whose lease ran out since are left for
\* the next call, as are rows that another statement has changed.
ReapExpiredLeases(S) ==
    /\ S # {}
    /\ S \subseteq Reapable
    /\ MayBury(ReapedDead(S))
    /\ ReapRows(S)

\* Time passes.
AgedRow(r) ==
    [status |-> r.status, attempts |-> r.attempts,
     run_after |-> IF r.run_after > 0 THEN r.run_after - 1 ELSE 0,
     claimed_by |-> r.claimed_by,
     lease_expires_at |-> IF r.lease_expires_at \in 0 .. Lease
                          THEN r.lease_expires_at - 1
                          ELSE r.lease_expires_at,
     completed_at |-> r.completed_at]

Tick ==
    /\ jobs' = [j \in JobIds |-> AgedRow(jobs[j])]
    /\ UNCHANGED <<dead_letters, job_events>>

-----------------------------------------------------------------------------
(* The store on its own, under every possible caller *)

Statement ==
    \/ \E j \in JobIds : Enqueue(j)
    \/ \E w \in WorkerNames, S \in SUBSET JobIds :
         Cardinality(S) <= ClaimLimit /\ Claim(w, S)
    \/ \E j \in JobIds : Complete(j)
    \/ \E j \in JobIds, delay \in RetryDelays : Retry(j, delay)
    \/ \E j \in JobIds : Fail(j)
    \/ \E S \in SUBSET JobIds : ReapExpiredLeases(S)
    \/ Tick

StoreSpec == StoreInit /\ [][Statement]_storeVars
-----------------------------------------------------------------------------
(* Properties of the store, whoever calls it *)

LettersOf(j) == {d \in dead_letters : d.job_id = j}

\* Fail and ReapExpiredLeases write the letter in the statement that fails
\* the job: a row is never failed without exactly one letter, and the letter
\* and the row agree on the attempts spent, however calls are interleaved.
FailureHasItsLetter ==
    \A j \in JobIds :
        jobs[j].status = "failed" => LettersOf(j) = {Letter(j, jobs[j])}

\* The columns a status implies: a running row has an owner and a lease, a
\* queued or failed row has neither, a completed or failed row has its
\* completed_at.  A running row without a lease would never be reaped, as
\* lease_expires_at < now() is not true of NULL: its job would be lost.
ColumnsFollowStatus ==
    \A j \in JobIds :
        LET r == jobs[j] IN
        /\ r.status = "running" =>
               r.claimed_by # NULL /\ r.lease_expires_at # NULL
        /\ r.status \in {"queued", "failed"} =>
               r.claimed_by = NULL /\ r.lease_expires_at = NULL
        /\ r.status \in TerminalStatuses => r.completed_at

\* The status a job has after the statement that wrote an event of a type.
StatusAfter ==
    [type \in EventTypes |->
       CASE type \in {"enqueued", "retried", "reaped_retry"} -> "queued"
         [] type = "claimed"                                -> "running"
         [] type = "completed"                              -> "completed"
         [] type \in {"failed", "reaped_failed"}            -> "failed"]

\* The transactional outbox: a job's newest event always tells the status
\* and the attempts of its row, so that a consumer which replays job_events
\* rebuilds the jobs table.
OutboxTracksTable ==
    \A j \in Inserted :
        /\ job_events[j] # <<>>
        /\ LET e == job_events[j][Len(job_events[j])] IN
           /\ jobs[j].status = StatusAfter[e.event_type]
           /\ jobs[j].attempts = e.attempts

ClaimEvents(j, n) ==
    {i \in DOMAIN job_events[j] : /\ job_events[j][i].event_type = "claimed"
                                  /\ job_events[j][i].attempts = n}

\* Every attempt number up to a job's attempts was handed out by exactly one
\* claim, and no other was: the reports pair the events of an attempt by
\* (job_id, attempts) and rely on it.
OneClaimPerAttempt ==
    \A j \in JobIds :
        /\ \A n \in 1 .. jobs[j].attempts :
               \E i \in DOMAIN job_events[j] : ClaimEvents(j, n) = {i}
        /\ ClaimEvents(j, 0) = {}
        /\ \A i \in DOMAIN job_events[j] :
               job_events[j][i].attempts \in 0 .. jobs[j].attempts
=============================================================================
