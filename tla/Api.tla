-------------------------------- MODULE Api ---------------------------------
(***************************************************************************)
(* The gRPC API (internal/grpcserver, runServe) and its callers, the       *)
(* commands enqueue, status and watch.  Of the jobs only their life cycle  *)
(* matters here, as JobLifecycle has it and JobQueue implements it.        *)
(*                                                                         *)
(* Submit and GetStatus are one statement and an answer.  WatchStatus is a *)
(* loop: it reads the row, sends what it has read, and waits; jobs move,   *)
(* callers hang up and the server is stopped or killed in between.         *)
(***************************************************************************)
EXTENDS Integers, Sequences

CONSTANTS
    JobIds,
    MaxAttempts,
    Callers,     \* the runs of enqueue, status and watch that are observed
    FaultBound,  \* bound: hang-ups, failed calls and kills
    NULL

JobStatuses == {"absent", "queued", "running", "completed", "failed"}

TerminalStatuses == {"completed", "failed"}

Snapshot == [status : JobStatuses \ {"absent"}, attempts : 0 .. MaxAttempts]

ASSUME ApiAssumption ==
    /\ MaxAttempts \in Nat \ {0}
    /\ FaultBound \in Nat
    /\ NULL \notin JobIds
    /\ NULL \notin Snapshot

VARIABLES
    status, attempts, letters,  \* the jobs, see JobLifecycle
    server,  \* the `jobqueue serve` process
    call,    \* what each caller has called, and where the call is
    snap,    \* what the handler of the call has read and not sent
    seen,    \* history: what the caller was sent, repetitions left out
    faults

jobVars == <<status, attempts, letters>>

callVars == <<server, call, snap, seen, faults>>

apiVars == <<status, attempts, letters, server, call, snap, seen, faults>>

Jobs == INSTANCE JobLifecycle

\* A call of WatchStatus is polling, sending or waiting while it runs.
Active == {"polling", "sending", "waiting"}

Call ==
    [rpc : {"none", "submit", "status", "watch"},
     job : JobIds \cup {NULL},
     pc  : Active \cup {"none", "ok", "not_found", "error"}]

TypeOK ==
    /\ status \in [JobIds -> JobStatuses]
    /\ attempts \in [JobIds -> 0 .. MaxAttempts]
    /\ letters \subseteq JobIds
    /\ server \in {"serving", "draining", "down"}
    /\ call \in [Callers -> Call]
    /\ \A c \in Callers : call[c].rpc # "none" => call[c].job \in JobIds
    /\ \A c \in Callers : call[c].pc \in Active => call[c].rpc = "watch"
    /\ snap \in [Callers -> Snapshot \cup {NULL}]
    /\ \A c \in Callers : snap[c] # NULL <=> call[c].pc = "sending"
    /\ seen \in [Callers -> Seq(Snapshot)]
    /\ faults \in 0 .. FaultBound

NoCall == [rpc |-> "none", job |-> NULL, pc |-> "none"]

Init ==
    /\ Jobs!Init
    /\ server = "serving"
    /\ call = [c \in Callers |-> NoCall]
    /\ snap = [c \in Callers |-> NULL]
    /\ seen = [c \in Callers |-> <<>>]
    /\ faults = 0

Fault ==
    /\ faults < FaultBound
    /\ faults' = faults + 1

-----------------------------------------------------------------------------
(* The jobs *)

JobsMoveTo(st, at) ==
    /\ status' = st
    /\ attempts' = at
    /\ letters' = {j \in JobIds : st[j] = "failed"}
    /\ Jobs!Next

\* A client that is not among the Callers submits j.
JobArrives(j) ==
    /\ server = "serving"
    /\ status[j] = "absent"
    /\ JobsMoveTo([status EXCEPT ![j] = "queued"], attempts)
    /\ UNCHANGED callVars

\* Workers and reapers do something with j.
JobMoves(j) ==
    /\ status[j] # "absent"
    /\ \E s \in JobStatuses, n \in 0 .. MaxAttempts :
          /\ s # status[j]
          /\ JobsMoveTo([status EXCEPT ![j] = s], [attempts EXCEPT ![j] = n])
    /\ UNCHANGED callVars

-----------------------------------------------------------------------------
(* Calls *)

\* Mistake: the attempts left instead of those made.
ReadRowLeft(j) ==
    [status |-> status[j], attempts |-> MaxAttempts - attempts[j]]

ReadRow(j) == [status |-> status[j], attempts |-> attempts[j]]

MayCall(c) == server = "serving" /\ call[c].rpc = "none"

Answer(c, rpc, j, pc) ==
    call' = [call EXCEPT ![c] = [rpc |-> rpc, job |-> j, pc |-> pc]]

\* Submit enqueues a job; if the answer is lost, so is its id.
Submit(c, j) ==
    /\ MayCall(c)
    /\ status[j] = "absent"
    /\ JobsMoveTo([status EXCEPT ![j] = "queued"], attempts)
    /\ \/ Answer(c, "submit", j, "ok") /\ UNCHANGED faults
       \/ Answer(c, "submit", j, "error") /\ Fault
    /\ UNCHANGED <<server, snap, seen>>

GetStatus(c, j) ==
    /\ MayCall(c)
    /\ IF status[j] = "absent"
       THEN Answer(c, "status", j, "not_found") /\ UNCHANGED seen
       ELSE /\ Answer(c, "status", j, "ok")
            /\ seen' = [seen EXCEPT ![c] = <<ReadRow(j)>>]
    /\ UNCHANGED <<jobVars, server, snap, faults>>

\* Submit or GetStatus fails without effect: codes.Internal.
CallFails(c, j) ==
    /\ MayCall(c)
    /\ Fault
    /\ \E rpc \in {"submit", "status"} : Answer(c, rpc, j, "error")
    /\ UNCHANGED <<jobVars, server, snap, seen>>

WatchStatus(c, j) ==
    /\ MayCall(c)
    /\ Answer(c, "watch", j, "polling")
    /\ UNCHANGED <<jobVars, server, snap, seen, faults>>

Goto(c, pc) == Answer(c, "watch", call[c].job, pc)

\* Mistake: a row that does not exist is not told apart.
PollAnyRow(c) ==
    /\ call[c].pc = "polling"
    /\ snap' = [snap EXCEPT ![c] = ReadRow(call[c].job)]
    /\ Goto(c, "sending")
    /\ UNCHANGED <<jobVars, server, seen, faults>>

\* store.GetStatus of a row that exists.
Poll(c) ==
    /\ call[c].pc = "polling"
    /\ status[call[c].job] # "absent"
    /\ snap' = [snap EXCEPT ![c] = ReadRow(call[c].job)]
    /\ Goto(c, "sending")
    /\ UNCHANGED <<jobVars, server, seen, faults>>

\* store.ErrNotFound
PollNotFound(c) ==
    /\ call[c].pc = "polling"
    /\ status[call[c].job] = "absent"
    /\ Goto(c, "not_found")
    /\ UNCHANGED <<jobVars, server, snap, seen, faults>>

\* Mistake: the loop ends by what the row says now, not by what was sent.
EndsByRow(c) == status[call[c].job] \in TerminalStatuses

\* Mistake: a failed job is waited for.
EndsWhenCompleted(c) == snap[c].status = "completed"

\* What was sent decides whether the stream ends.
Ends(c) == snap[c].status \in TerminalStatuses

SeenWith(log, s) ==
    IF log # <<>> /\ log[Len(log)] = s THEN log ELSE Append(log, s)

Send(c) ==
    /\ call[c].pc = "sending"
    /\ seen' = [seen EXCEPT ![c] = SeenWith(@, snap[c])]
    /\ snap' = [snap EXCEPT ![c] = NULL]
    /\ Goto(c, IF Ends(c) THEN "ok" ELSE "waiting")
    /\ UNCHANGED <<jobVars, server, faults>>

\* time.After(pollInterval)
Wake(c) ==
    /\ call[c].pc = "waiting"
    /\ Goto(c, "polling")
    /\ UNCHANGED <<jobVars, server, snap, seen, faults>>

\* The caller hangs up, or the query or the Send fails.
Break(c) ==
    /\ call[c].pc \in Active
    /\ Fault
    /\ snap' = [snap EXCEPT ![c] = NULL]
    /\ Goto(c, "error")
    /\ UNCHANGED <<jobVars, server, seen>>

-----------------------------------------------------------------------------
(* The server *)

Sigterm ==
    /\ server = "serving"
    /\ server' = "draining"
    /\ UNCHANGED <<jobVars, call, snap, seen, faults>>

\* GracefulStop returns when the last call has ended.
Exit ==
    /\ server = "draining"
    /\ \A c \in Callers : call[c].pc \notin Active
    /\ server' = "down"
    /\ UNCHANGED <<jobVars, call, snap, seen, faults>>

Kill ==
    /\ server # "down"
    /\ Fault
    /\ server' = "down"
    /\ call' = [c \in Callers |-> IF call[c].pc \in Active
                                  THEN [rpc |-> "watch", job |-> call[c].job,
                                        pc |-> "error"]
                                  ELSE call[c]]
    /\ snap' = [c \in Callers |-> NULL]
    /\ UNCHANGED <<jobVars, seen>>

Start ==
    /\ server = "down"
    /\ server' = "serving"
    /\ UNCHANGED <<jobVars, call, snap, seen, faults>>

-----------------------------------------------------------------------------

CallStep(c) ==
    \/ \E j \in JobIds : \/ Submit(c, j)
                         \/ GetStatus(c, j)
                         \/ CallFails(c, j)
                         \/ WatchStatus(c, j)
    \/ Poll(c)
    \/ PollNotFound(c)
    \/ Send(c)
    \/ Wake(c)
    \/ Break(c)

Next ==
    \/ \E j \in JobIds : JobArrives(j) \/ JobMoves(j)
    \/ \E c \in Callers : CallStep(c)
    \/ Sigterm
    \/ Exit
    \/ Kill
    \/ Start

Spec == Init /\ [][Next]_apiVars

\* Jobs that were submitted go on (EveryJobSettles of JobQueue), the handler
\* of a stream runs, GracefulStop returns when it can and the process is
\* restarted.
Fairness ==
    /\ \A j \in JobIds : WF_apiVars(JobMoves(j))
    /\ \A c \in Callers :
         WF_apiVars(Poll(c) \/ PollNotFound(c) \/ Send(c) \/ Wake(c))
    /\ WF_apiVars(Exit)
    /\ WF_apiVars(Start)

FairSpec == Spec /\ Fairness
-----------------------------------------------------------------------------
(* Properties *)

\* WatchStatus "streams updates ... until it reaches a terminal state": a
\* stream that ended well has shown the outcome the job really has, last and
\* only once, however the job moved between read and send.
StreamEndsWithOutcome ==
    \A c \in Callers :
        call[c].rpc = "watch" =>
            LET n == Len(seen[c]) IN
            /\ \A i \in 1 .. n : seen[c][i].status \in TerminalStatuses =>
                                    i = n /\ call[c].pc = "ok"
            /\ call[c].pc = "ok" =>
                  /\ n > 0
                  /\ seen[c][n] = ReadRow(call[c].job)

Earlier(a, b) ==
    \/ a.attempts < b.attempts
    \/ /\ a.attempts = b.attempts
       /\ a.status = "running"
       /\ b.status # "running"

\* A stream may skip states, but shows none out of order: attempts never go
\* back, and within an attempt a job is seen running first.
UpdatesInOrder ==
    \A c \in Callers :
        \A i, k \in 1 .. Len(seen[c]) : i < k => Earlier(seen[c][i], seen[c][k])

\* Every stream comes to its end.
StreamsEnd ==
    \A c \in Callers : (call[c].pc = "polling") ~> (call[c].pc \notin Active)

\* "stops accepting new RPCs and lets in-flight ones finish before exiting":
\* the server does exit, although streams last as long as their jobs.
DrainEnds == (server = "draining") ~> (server = "down")
=============================================================================
