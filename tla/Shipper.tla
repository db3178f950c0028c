------------------------------ MODULE Shipper -------------------------------
(***************************************************************************)
(* The way of an event from the outbox to ClickHouse (internal/analytics): *)
(* every `jobqueue work` process runs one shipper, which on each tick      *)
(* fetches the oldest unshipped rows, inserts them into ClickHouse and     *)
(* marks them shipped.  The three are separate calls to two databases, the *)
(* fetch locks nothing, and all processes ship the same outbox.            *)
(*                                                                         *)
(* An outbox row is its id; JobOf and MonthOf give the columns that        *)
(* matter.  Rows become visible when their statement commits, which is in  *)
(* the order of ids for one job only, whose row the statement has locked   *)
(* before it draws the id.  An id whose statement rolls back stays absent. *)
(***************************************************************************)
EXTENDS Integers, FiniteSets

CONSTANTS
    EventIds,    \* the ids the identity column of job_events may hand out
    JobOf,       \* job_id of each of them
    MonthOf,     \* toYYYYMM(occurred_at): its partition in ClickHouse
    Procs,       \* the `jobqueue work` processes
    BatchSize,   \* SHIP_BATCH_SIZE
    FaultBound   \* bound: outages, failed calls and ends of processes

ASSUME ShipperAssumption ==
    /\ EventIds \subseteq Nat
    /\ IsFiniteSet(EventIds)
    /\ IsFiniteSet(Procs)
    /\ BatchSize \in Nat \ {0}
    /\ FaultBound \in Nat

VARIABLES
    outbox,      \* job_events in Postgres: shipped_at of each row
    clickhouse,  \* job_events in ClickHouse: copies of each row
    chUp,        \* whether ClickHouse can be reached
    shipper,     \* where the shipper of each process is
    batch,       \* the events it has fetched
    faults       \* how many faults have happened

shipVars == <<outbox, clickhouse, chUp, shipper, batch, faults>>

\* "off": the process runs, without a shipper.
ShipperStates == {"down", "off", "ticking", "inserting", "marking"}

TypeOK ==
    /\ outbox \in [EventIds -> {"absent", "unshipped", "shipped"}]
    /\ clickhouse \in [EventIds -> Nat]
    /\ chUp \in BOOLEAN
    /\ shipper \in [Procs -> ShipperStates]
    /\ batch \in [Procs -> SUBSET EventIds]
    /\ \A p \in Procs : batch[p] # {} <=> shipper[p] \in {"inserting", "marking"}
    /\ faults \in 0 .. FaultBound

Init ==
    /\ outbox = [e \in EventIds |-> "absent"]
    /\ clickhouse = [e \in EventIds |-> 0]
    /\ chUp = TRUE
    /\ shipper = [p \in Procs |-> "down"]
    /\ batch = [p \in Procs |-> {}]
    /\ faults = 0

Fault ==
    /\ faults < FaultBound
    /\ faults' = faults + 1

-----------------------------------------------------------------------------
(* The outbox *)

Unshipped == {e \in EventIds : outbox[e] = "unshipped"}

\* Mistake: a statement draws the id before it locks the job's row.
CommitAnyOrder(e) ==
    /\ outbox[e] = "absent"
    /\ outbox' = [outbox EXCEPT ![e] = "unshipped"]
    /\ UNCHANGED <<clickhouse, chUp, shipper, batch, faults>>

\* A statement of the store commits the event it wrote.
Commit(e) ==
    /\ outbox[e] = "absent"
    /\ \A d \in EventIds : JobOf[d] = JobOf[e] /\ d > e => outbox[d] = "absent"
    /\ outbox' = [outbox EXCEPT ![e] = "unshipped"]
    /\ UNCHANGED <<clickhouse, chUp, shipper, batch, faults>>

\* Mistake: rows that have been shipped are fetched again.
OldestAgain ==
    LET rows == {e \in EventIds : outbox[e] # "absent"} IN
    {e \in rows : Cardinality({d \in rows : d < e}) < BatchSize}

\* Mistake: newest first.
Newest ==
    {e \in Unshipped : Cardinality({d \in Unshipped : d > e}) < BatchSize}

\* WHERE shipped_at IS NULL ORDER BY id LIMIT $1
FetchUnshippedEvents ==
    {e \in Unshipped : Cardinality({d \in Unshipped : d < e}) < BatchSize}

-----------------------------------------------------------------------------
(* ClickHouse *)

Stored == {e \in EventIds : clickhouse[e] > 0}

AddCopies(S) ==
    clickhouse' = [e \in EventIds |->
                     IF e \in S THEN clickhouse[e] + 1 ELSE clickhouse[e]]

\* ReplacingMergeTree, ORDER BY event_id: duplicates go when parts merge.
Merge(e) ==
    /\ clickhouse[e] > 1
    /\ clickhouse' = [clickhouse EXCEPT ![e] = 1]
    /\ UNCHANGED <<outbox, chUp, shipper, batch, faults>>

ChLost ==
    /\ chUp
    /\ Fault
    /\ chUp' = FALSE
    /\ UNCHANGED <<outbox, clickhouse, shipper, batch>>

ChBack ==
    /\ ~chUp
    /\ chUp' = TRUE
    /\ UNCHANGED <<outbox, clickhouse, shipper, batch, faults>>

-----------------------------------------------------------------------------
(* Shippers *)

Goto(p, pc, S) ==
    /\ shipper' = [shipper EXCEPT ![p] = pc]
    /\ batch' = [batch EXCEPT ![p] = S]

\* NewClient pings ClickHouse once.  Without an answer the process works on
\* without a shipper, and does not try again.
Start(p) ==
    /\ shipper[p] = "down"
    /\ Goto(p, IF chUp THEN "ticking" ELSE "off", {})
    /\ UNCHANGED <<outbox, clickhouse, chUp, faults>>

Fetch(p) ==
    /\ shipper[p] = "ticking"
    /\ FetchUnshippedEvents # {}
    /\ Goto(p, "inserting", FetchUnshippedEvents)
    /\ UNCHANGED <<outbox, clickhouse, chUp, faults>>

InsertEvents(p) ==
    /\ shipper[p] = "inserting"
    /\ chUp
    /\ AddCopies(batch[p])
    /\ Goto(p, "marking", batch[p])
    /\ UNCHANGED <<outbox, chUp, faults>>

\* During an outage nothing is sent; shipOnce logs the error and returns.
InsertRefused(p) ==
    /\ shipper[p] = "inserting"
    /\ ~chUp
    /\ Goto(p, "ticking", {})
    /\ UNCHANGED <<outbox, clickhouse, chUp, faults>>

\* The call returns an error and the insert took place in full, in part or
\* not at all.  Each partition is written as a whole.
InsertFails(p) ==
    /\ shipper[p] = "inserting"
    /\ Fault
    /\ \E months \in SUBSET {MonthOf[e] : e \in batch[p]} :
          AddCopies({e \in batch[p] : MonthOf[e] \in months})
    /\ Goto(p, "ticking", {})
    /\ UNCHANGED <<outbox, chUp>>

\* Mistake: everything up to the newest id of the batch is marked.
MarkUpToNewest(p) ==
    /\ shipper[p] = "marking"
    /\ outbox' = [e \in EventIds |->
                    IF /\ outbox[e] # "absent"
                       /\ \E d \in batch[p] : e <= d
                    THEN "shipped" ELSE outbox[e]]
    /\ Goto(p, "ticking", {})
    /\ UNCHANGED <<clickhouse, chUp, faults>>

\* Mistake: the update matches no row.
MarkNone(p) ==
    /\ shipper[p] = "marking"
    /\ Goto(p, "ticking", {})
    /\ UNCHANGED <<outbox, clickhouse, chUp, faults>>

\* WHERE id = ANY(ids): shipped_at is set on the rows of the batch, those
\* another shipper has marked in the meantime included.
MarkEventsShipped(p) ==
    /\ shipper[p] = "marking"
    /\ outbox' = [e \in EventIds |->
                    IF e \in batch[p] THEN "shipped" ELSE outbox[e]]
    /\ Goto(p, "ticking", {})
    /\ UNCHANGED <<clickhouse, chUp, faults>>

\* The rows stay unshipped and are sent again by a later cycle.
MarkFails(p) ==
    /\ shipper[p] = "marking"
    /\ Fault
    /\ Goto(p, "ticking", {})
    /\ UNCHANGED <<outbox, clickhouse, chUp>>

\* A crash, or a SIGTERM: the shipper's calls take the context the signal
\* cancels, so that it stops between any two of them.
End(p) ==
    /\ shipper[p] # "down"
    /\ Fault
    /\ Goto(p, "down", {})
    /\ UNCHANGED <<outbox, clickhouse, chUp>>

-----------------------------------------------------------------------------

ShipperStep(p) ==
    \/ Start(p)
    \/ Fetch(p)
    \/ InsertEvents(p)
    \/ InsertRefused(p)
    \/ InsertFails(p)
    \/ MarkEventsShipped(p)
    \/ MarkFails(p)
    \/ End(p)

Next ==
    \/ \E e \in EventIds : Commit(e) \/ Merge(e)
    \/ ChLost
    \/ ChBack
    \/ \E p \in Procs : ShipperStep(p)

Spec == Init /\ [][Next]_shipVars

\* A shipper's ticker fires, its calls return and a process that ended is
\* restarted.  Neither commits nor the return of ClickHouse are fair.
Fairness ==
    \A p \in Procs :
        /\ WF_shipVars(Start(p))
        /\ WF_shipVars(Fetch(p))
        /\ WF_shipVars(InsertEvents(p) \/ InsertRefused(p))
        /\ WF_shipVars(MarkEventsShipped(p))

FairSpec == Spec /\ Fairness
-----------------------------------------------------------------------------
(* Properties *)

\* Shipping is at-least-once: shipOnce marks what it has inserted and nothing
\* else, so that a row is never marked shipped, and thus never looked at
\* again, before ClickHouse has it.
ShippedIsStored ==
    \A e \in EventIds : outbox[e] = "shipped" => e \in Stored

\* d is an earlier event of the job of e.
Before(d, e) == d < e /\ JobOf[d] = JobOf[e] /\ outbox[d] # "absent"

\* Oldest first: once an event is marked, ClickHouse has the history of its
\* job up to it, whichever shippers sent which part of it in which batches.
ShippedHistoryIsWhole ==
    \A d, e \in EventIds :
        outbox[e] = "shipped" /\ Before(d, e) => d \in Stored

\* The reports read ClickHouse at any moment.  Of the events of a job in one
\* month they always see a prefix: no completion without its claim.
StoredHistoryIsPrefix ==
    \A d, e \in EventIds :
        /\ e \in Stored
        /\ Before(d, e)
        /\ MonthOf[d] = MonthOf[e]
        => d \in Stored

\* What the reports may over-count, as they read without FINAL: every copy of
\* a row beyond one for each process is owed to a fault.  A single shipper
\* without faults delivers exactly once.
DuplicatesAreRetries ==
    \A e \in EventIds : clickhouse[e] <= Cardinality(Procs) + faults

\* "A single failed cycle never stops the loop": every row is shipped in the
\* end, when ClickHouse stays reachable and some process goes on shipping.
EventsGetShipped ==
    <>[](chUp /\ \E p \in Procs : shipper[p] \notin {"down", "off"})
        => \A e \in EventIds : (e \in Unshipped) ~> (outbox[e] = "shipped")

\* "events simply accumulate unshipped until a connection succeeds": every
\* row is shipped in the end, when ClickHouse stays reachable and some process
\* goes on running.
ShippingResumes ==
    <>[](chUp /\ \E p \in Procs : shipper[p] # "down")
        => \A e \in EventIds : (e \in Unshipped) ~> (outbox[e] = "shipped")
=============================================================================
