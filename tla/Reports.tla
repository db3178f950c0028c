------------------------------ MODULE Reports -------------------------------
(***************************************************************************)
(* The reports of internal/analytics and the counts behind the gauges,     *)
(* over the events and the rows that JobQueue produces.  A report reads    *)
(* the copy of job_events in ClickHouse; Shipper is about how far that     *)
(* copy lags and repeats.  Here it has caught up and is merged, and the    *)
(* window reaches back to the first event, so that a report reads every    *)
(* event once.  All jobs are of one type, and all buckets are one.         *)
(***************************************************************************)
EXTENDS JobQueue

CONSTANT Milliseconds  \* the values of occurred_at, as ClickHouse has it

ASSUME ReportsAssumption == Milliseconds \subseteq Nat \ {0}

EventsOfTypes(types) ==
    UNION {{j} \X {i \in DOMAIN job_events[j] : job_events[j][i].event_type \in types} :
             j \in JobIds}

countIf(types) == Cardinality(EventsOfTypes(types))

\* Mistake: jobs that the reaper gave up are not counted.
DeparturesReported == {"completed", "failed"}

Departures == {"completed", "failed", "reaped_failed"}

ArrivalsVsCompletions ==
    [arrivals    |-> countIf({"enqueued"}),
     completions |-> countIf(Departures)]

\* uniqIf(worker_id, event_type = 'claimed')
ClaimingIds ==
    {job_events[e[1]][e[2]].worker_id : e \in EventsOfTypes({"claimed"})}

BacklogVsWorkers ==
    [active_workers     |-> Cardinality(ClaimingIds),
     cumulative_backlog |-> ArrivalsVsCompletions.arrivals
                                - ArrivalsVsCompletions.completions]

CountByStatus(status) == Cardinality({j \in JobIds : jobs[j].status = status})

\* Mistake: GROUP BY job_id.
GroupByJob(j, n) == DOMAIN job_events[j]

\* GROUP BY job_id, attempts
Group(j, n) == {i \in DOMAIN job_events[j] : job_events[j][i].attempts = n}

InGroup(j, n, types) == {i \in Group(j, n) : job_events[j][i].event_type \in types}

\* The times of the events of a job.  Postgres stamps them in microseconds,
\* and DateTime64(3) cuts that to milliseconds: events may be of the same
\* one.  No order is assumed, as the clock may be set back.
Stamps(j) == [DOMAIN job_events[j] -> Milliseconds]

\* minIf, which is the epoch if there is no such event.
minIf(at, S) ==
    IF S = {} THEN 0 ELSE CHOOSE t \in {at[i] : i \in S} : \A i \in S : t <= at[i]

claimed_at(j, n, at) == minIf(at, InGroup(j, n, {"claimed"}))

terminal_at(j, n, at) == minIf(at, InGroup(j, n, {"completed", "failed"}))

\* HAVING
IsSample(j, n, at) ==
    /\ claimed_at(j, n, at) > 0
    /\ terminal_at(j, n, at) > claimed_at(j, n, at)

\* The rows of the inner SELECT for a job, with the times its events have.
DurationSamples(j, at) ==
    {<<n, claimed_at(j, n, at), terminal_at(j, n, at)>> :
       n \in {m \in {job_events[j][i].attempts : i \in DOMAIN job_events[j]} :
                IsSample(j, m, at)}}

-----------------------------------------------------------------------------
(* Properties that need HandlersMeetLease *)

\* "Arrivals minus departures": over the whole history, the backlog the events
\* add up to is the number of rows that are queued or running, so that no
\* path to a terminal state is without its event or has two.
BacklogIsUnsettled ==
    BacklogVsWorkers.cumulative_backlog
        = CountByStatus("queued") + CountByStatus("running")

\* "pairing each job's 'claimed' event with its terminal event for the same
\* attempt": whatever the times are, the samples are the outcomes that workers
\* reported in a later millisecond than the claim before, each with that claim
\* and so with one run of the handler.  (HAVING is strict: an attempt of less
\* than a millisecond may have no sample.)
SamplesAreSingleRuns ==
    \A j \in JobIds : \A at \in Stamps(j) :
        DurationSamples(j, at) =
            {<<job_events[j][i].attempts, at[i - 1], at[i]>> :
               i \in {k \in DOMAIN job_events[j] :
                        /\ job_events[j][k].event_type \in {"completed", "failed"}
                        /\ at[k] > at[k - 1]}}

-----------------------------------------------------------------------------

\* "how many distinct workers claimed a job (a proxy for how many workers
\* were actually active)": there are never more workers at work than the
\* report has active.
ActiveWorkersNotFewer ==
    Cardinality({w \in Workers : Busy(w)}) <= BacklogVsWorkers.active_workers
=============================================================================
