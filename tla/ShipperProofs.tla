---------------------------- MODULE ShipperProofs ---------------------------
(***************************************************************************)
(* Proofs that the safety properties of Shipper hold for every set of      *)
(* events, jobs, months and processes, every batch size and any number of  *)
(* faults.                                                                 *)
(*                                                                         *)
(* The properties speak of the two tables only; what makes them inductive  *)
(* is what a shipper knows about the batch it holds (BatchesHold), because *)
(* the tables change between its three calls.                              *)
(***************************************************************************)
EXTENDS Shipper, FiniteSetTheorems, TLAPS

\* The batch a shipper holds: its rows are committed, and in ClickHouse once
\* it is marking them.  Whatever precedes a row in the history of its job is
\* in the batch as well or already in ClickHouse.
BatchesHold ==
    \A p \in Procs : \A e \in batch[p] :
        /\ outbox[e] # "absent"
        /\ shipper[p] = "marking" => e \in Stored
        /\ \A d \in EventIds : Before(d, e) => d \in batch[p] \cup Stored

StoredIsCommitted == \A e \in Stored : outbox[e] # "absent"

ShipInv ==
    /\ TypeOK
    /\ BatchesHold
    /\ StoredIsCommitted
    /\ ShippedIsStored
    /\ ShippedHistoryIsWhole
    /\ StoredHistoryIsPrefix

-----------------------------------------------------------------------------

\* ORDER BY id: a fetch that returns a row returns the older unshipped rows.
LEMMA FetchIsOldest ==
    ASSUME NEW d \in Unshipped, NEW e \in FetchUnshippedEvents, d < e
    PROVE  d \in FetchUnshippedEvents
<1> DEFINE Older(x) == {c \in Unshipped : c < x}
<1>1. /\ EventIds \subseteq Nat /\ IsFiniteSet(EventIds) /\ BatchSize \in Nat
      /\ Unshipped \subseteq EventIds /\ e \in Unshipped
  BY ShipperAssumption DEF Unshipped, FetchUnshippedEvents
<1>2. Older(d) \subseteq Older(e)
  <2>1. d \in Nat /\ e \in Nat /\ Unshipped \subseteq Nat /\ d < e
    BY <1>1
  <2>2. \A c \in Unshipped : c < d => c < e
    BY <2>1
  <2> QED
    BY <2>2
<1>3. Older(e) \subseteq EventIds
  BY <1>1
<1>4. IsFiniteSet(Older(e))
  BY <1>1, <1>3, FS_Subset
<1>5. /\ IsFiniteSet(Older(d))
      /\ Cardinality(Older(d)) <= Cardinality(Older(e))
  BY <1>2, <1>4, FS_Subset
<1>6. /\ Cardinality(Older(d)) \in Nat
      /\ Cardinality(Older(e)) \in Nat
  BY <1>4, <1>5, FS_CardinalityType
<1>7. Cardinality(Older(e)) < BatchSize
  BY DEF FetchUnshippedEvents
<1>8. Cardinality(Older(d)) < BatchSize
  BY <1>1, <1>5, <1>6, <1>7
<1> QED
  BY <1>8 DEF FetchUnshippedEvents

\* Before any event is committed there is nothing to ship.
LEMMA ShipInitInv == Init => ShipInv
BY ShipperAssumption
   DEF Init, ShipInv, TypeOK, ShipperStates, BatchesHold, StoredIsCommitted,
       ShippedIsStored, ShippedHistoryIsWhole, StoredHistoryIsPrefix, Stored,
       Before

\* Adding copies adds the rows to those ClickHouse has and loses none.
LEMMA CopiesAdded ==
    ASSUME TypeOK, NEW S \in SUBSET EventIds, AddCopies(S)
    PROVE  /\ Stored' = Stored \cup S
           /\ clickhouse' \in [EventIds -> Nat]
BY DEF TypeOK, AddCopies, Stored

\* What a step that leaves the outbox alone has to respect: ClickHouse loses
\* nothing, and gains whole months of batches.
LEMMA InsertStep ==
    ASSUME ShipInv, TypeOK', UNCHANGED outbox,
           NEW S \in SUBSET EventIds, Stored' = Stored \cup S,
           NEW p \in Procs, S \subseteq batch[p],
           \A d \in batch[p], e \in S : MonthOf[d] = MonthOf[e] => d \in S,
           \A q \in Procs : /\ batch'[q] \in {batch[q], {}}
                            /\ \/ batch'[q] = {}
                               \/ shipper'[q] # "marking"
                               \/ shipper'[q] = shipper[q]
                               \/ batch'[q] \subseteq S
    PROVE  ShipInv'
<1> USE DEF ShipInv
<1>1. \A d, e : Before(d, e)' <=> Before(d, e)
  BY DEF Before
<1>2. BatchesHold'
  BY <1>1 DEF BatchesHold
<1>3. StoredIsCommitted'
  BY DEF StoredIsCommitted, BatchesHold
<1>4. ShippedIsStored' /\ ShippedHistoryIsWhole'
  BY <1>1 DEF ShippedIsStored, ShippedHistoryIsWhole
<1>5. StoredHistoryIsPrefix'
  BY <1>1 DEF StoredHistoryIsPrefix, BatchesHold
<1> QED
  BY <1>2, <1>3, <1>4, <1>5

\* Dropping a batch: whatever ends a cycle early is harmless.
LEMMA DropStep ==
    ASSUME ShipInv, TypeOK', UNCHANGED <<outbox, clickhouse>>,
           \A q \in Procs : \/ batch'[q] = {}
                            \/ batch'[q] = batch[q] /\ shipper'[q] = shipper[q]
    PROVE  ShipInv'
<1> USE DEF ShipInv
<1>1. \A d, e : Before(d, e)' <=> Before(d, e)
  BY DEF Before
<1>2. Stored' = Stored
  BY DEF Stored
<1>3. BatchesHold'
  BY <1>1, <1>2 DEF BatchesHold
<1>4. StoredIsCommitted' /\ ShippedIsStored'
  BY <1>2 DEF StoredIsCommitted, ShippedIsStored
<1>5. ShippedHistoryIsWhole' /\ StoredHistoryIsPrefix'
  BY <1>1, <1>2 DEF ShippedHistoryIsWhole, StoredHistoryIsPrefix
<1> QED
  BY <1>3, <1>4, <1>5

-----------------------------------------------------------------------------
(* Type correctness *)

\* Every step keeps the tables and the shippers within their types, and a
\* shipper holds a batch exactly between its fetch and its mark.
LEMMA ShipTypeStep == ShipInv /\ [Next]_shipVars => TypeOK'
<1> SUFFICES ASSUME ShipInv, [Next]_shipVars
             PROVE  TypeOK'
  OBVIOUS
<1>0. TypeOK
  BY DEF ShipInv
<1>1. ASSUME NEW e \in EventIds, Commit(e)
      PROVE  TypeOK'
  BY <1>0, <1>1 DEF TypeOK, Commit
<1>2. ASSUME NEW e \in EventIds, Merge(e)
      PROVE  TypeOK'
  BY <1>0, <1>2 DEF TypeOK, Merge
<1>3. CASE ChLost
  <2>1. faults' \in 0 .. FaultBound
    BY <1>0, <1>3, ShipperAssumption DEF TypeOK, ChLost, Fault
  <2> QED
    BY <1>0, <1>3, <2>1 DEF TypeOK, ChLost
<1>4. CASE ChBack
  BY <1>0, <1>4 DEF TypeOK, ChBack
<1>5. ASSUME NEW p \in Procs, ShipperStep(p)
      PROVE  TypeOK'
  <2> USE <1>0
  <2>1. CASE Start(p)
    BY <2>1 DEF TypeOK, Start, Goto, ShipperStates
  <2>2. CASE Fetch(p)
    <3>1. FetchUnshippedEvents \in SUBSET EventIds
      BY DEF FetchUnshippedEvents, Unshipped
    <3> QED
      BY <2>2, <3>1 DEF TypeOK, Fetch, Goto, ShipperStates
  <2>3. CASE InsertEvents(p)
    <3>1. clickhouse' \in [EventIds -> Nat]
      BY <2>3, CopiesAdded DEF InsertEvents, TypeOK
    <3> QED
      BY <2>3, <3>1 DEF TypeOK, InsertEvents, Goto, ShipperStates
  <2>4. CASE InsertRefused(p)
    BY <2>4 DEF TypeOK, InsertRefused, Goto, ShipperStates
  <2>5. CASE InsertFails(p)
    <3>1. clickhouse' \in [EventIds -> Nat]
      BY <2>5 DEF InsertFails, TypeOK, AddCopies
    <3>2. faults' \in 0 .. FaultBound
      BY <2>5, ShipperAssumption DEF TypeOK, InsertFails, Fault
    <3> QED
      BY <2>5, <3>1, <3>2 DEF TypeOK, InsertFails, Goto, ShipperStates
  <2>6. CASE MarkEventsShipped(p)
    BY <2>6 DEF TypeOK, MarkEventsShipped, Goto, ShipperStates
  <2>7. CASE MarkFails(p) \/ End(p)
    <3>1. faults' \in 0 .. FaultBound
      BY <2>7, ShipperAssumption DEF TypeOK, MarkFails, End, Fault
    <3> QED
      BY <2>7, <3>1 DEF TypeOK, MarkFails, End, Goto, ShipperStates
  <2> QED
    BY <1>5, <2>1, <2>2, <2>3, <2>4, <2>5, <2>6, <2>7 DEF ShipperStep
<1>6. CASE UNCHANGED shipVars
  BY <1>0, <1>6 DEF TypeOK, shipVars
<1> QED
  BY <1>1, <1>2, <1>3, <1>4, <1>5, <1>6 DEF Next

-----------------------------------------------------------------------------
(* The invariant *)

\* A committed row is the last of its job so far: no batch and no row of
\* ClickHouse has to be preceded by it.
LEMMA CommitStep ==
    ASSUME ShipInv, TypeOK', NEW e \in EventIds, Commit(e)
    PROVE  ShipInv'
<1> USE DEF ShipInv
<1>1. /\ Stored' = Stored
      /\ \A x \in EventIds : outbox[x] # "absent" => outbox'[x] = outbox[x]
      /\ \A x \in EventIds : outbox'[x] = "shipped" => outbox[x] = "shipped"
  BY DEF Commit, Stored, TypeOK
<1>2. ASSUME NEW d \in EventIds, NEW x \in EventIds,
             outbox[x] # "absent", Before(d, x)'
      PROVE  Before(d, x)
  BY <1>2 DEF Before, Commit, TypeOK
<1>3. BatchesHold'
  BY <1>1, <1>2 DEF BatchesHold, Commit, TypeOK
<1>4. StoredIsCommitted' /\ ShippedIsStored'
  BY <1>1 DEF StoredIsCommitted, ShippedIsStored, Stored
<1>5. ShippedHistoryIsWhole'
  BY <1>1, <1>2 DEF ShippedHistoryIsWhole
<1>6. StoredHistoryIsPrefix'
  BY <1>1, <1>2 DEF StoredHistoryIsPrefix, StoredIsCommitted, Stored
<1> QED
  BY <1>3, <1>4, <1>5, <1>6

\* A fetched batch is closed under "earlier in the same job", but for rows
\* that are marked and therefore in ClickHouse.
LEMMA FetchStep ==
    ASSUME ShipInv, TypeOK', NEW p \in Procs, Fetch(p)
    PROVE  ShipInv'
<1> USE DEF ShipInv
<1>1. /\ Stored' = Stored
      /\ \A d, e : Before(d, e)' <=> Before(d, e)
  BY DEF Fetch, Stored, Before
<1>2. ASSUME NEW e \in FetchUnshippedEvents, NEW d \in EventIds, Before(d, e)
      PROVE  d \in FetchUnshippedEvents \cup Stored
  <2>1. CASE outbox[d] = "unshipped"
    BY <1>2, <2>1, FetchIsOldest DEF Before, Unshipped
  <2>2. CASE outbox[d] = "shipped"
    BY <2>2 DEF ShippedIsStored
  <2> QED
    BY <1>2, <2>1, <2>2 DEF Before, TypeOK
<1>3. ASSUME NEW e \in FetchUnshippedEvents
      PROVE  outbox[e] # "absent"
  BY DEF FetchUnshippedEvents, Unshipped
<1>4. /\ batch'[p] = FetchUnshippedEvents /\ shipper'[p] = "inserting"
      /\ \A q \in Procs \ {p} : batch'[q] = batch[q] /\ shipper'[q] = shipper[q]
      /\ outbox' = outbox
  BY DEF Fetch, Goto, TypeOK
<1>5. BatchesHold'
  BY <1>1, <1>2, <1>3, <1>4 DEF BatchesHold
<1>6. StoredIsCommitted' /\ ShippedIsStored'
  BY <1>1, <1>4 DEF StoredIsCommitted, ShippedIsStored
<1>7. ShippedHistoryIsWhole' /\ StoredHistoryIsPrefix'
  BY <1>1, <1>4 DEF ShippedHistoryIsWhole, StoredHistoryIsPrefix
<1> QED
  BY <1>5, <1>6, <1>7

\* A mark concerns rows that ClickHouse has, histories included.
LEMMA MarkStep ==
    ASSUME ShipInv, TypeOK', NEW p \in Procs, MarkEventsShipped(p)
    PROVE  ShipInv'
<1> USE DEF ShipInv
<1>1. /\ Stored' = Stored
      /\ \A x \in EventIds : outbox'[x] = "absent" <=> outbox[x] = "absent"
  BY DEF MarkEventsShipped, Stored, BatchesHold, TypeOK
<1>2. \A d, e \in EventIds : Before(d, e)' <=> Before(d, e)
  BY <1>1 DEF Before
<1>3. \A e \in batch[p] :
         /\ e \in Stored
         /\ \A d \in EventIds : Before(d, e) => d \in Stored
  BY DEF MarkEventsShipped, BatchesHold
<1>4. \A e \in EventIds :
         outbox'[e] = "shipped" => e \in batch[p] \/ outbox[e] = "shipped"
  BY DEF MarkEventsShipped
<1>5. \A q \in Procs : \/ batch'[q] = {}
                       \/ batch'[q] = batch[q] /\ shipper'[q] = shipper[q]
  BY DEF MarkEventsShipped, Goto, TypeOK
<1>6. BatchesHold'
  BY <1>1, <1>2, <1>5 DEF BatchesHold, TypeOK
<1>7. StoredIsCommitted' /\ ShippedIsStored'
  BY <1>1, <1>3, <1>4 DEF StoredIsCommitted, ShippedIsStored, Stored
<1>8. ShippedHistoryIsWhole'
  BY <1>1, <1>2, <1>3, <1>4 DEF ShippedHistoryIsWhole
<1>9. StoredHistoryIsPrefix'
  BY <1>1, <1>2 DEF StoredHistoryIsPrefix
<1> QED
  BY <1>6, <1>7, <1>8, <1>9

\* One step per action.
LEMMA ShipInvStep == ShipInv /\ [Next]_shipVars => ShipInv'
<1> SUFFICES ASSUME ShipInv, [Next]_shipVars
             PROVE  ShipInv'
  OBVIOUS
<1>0. TypeOK /\ TypeOK'
  BY ShipTypeStep DEF ShipInv
<1>1. ASSUME NEW e \in EventIds, Commit(e)
      PROVE  ShipInv'
  BY <1>0, <1>1, CommitStep
<1>2. ASSUME NEW e \in EventIds, Merge(e)
      PROVE  ShipInv'
  <2>1. Stored' = Stored
    BY <1>0, <1>2 DEF Merge, Stored, TypeOK
  <2>2. \A x, y : Before(x, y)' <=> Before(x, y)
    BY <1>2 DEF Merge, Before
  <2>3. BatchesHold' /\ StoredIsCommitted' /\ ShippedIsStored'
    BY <1>2, <2>1, <2>2
       DEF Merge, ShipInv, BatchesHold, StoredIsCommitted, ShippedIsStored
  <2>4. ShippedHistoryIsWhole' /\ StoredHistoryIsPrefix'
    BY <1>2, <2>1, <2>2
       DEF Merge, ShipInv, ShippedHistoryIsWhole, StoredHistoryIsPrefix
  <2> QED
    BY <1>0, <2>3, <2>4 DEF ShipInv
<1>3. CASE ChLost \/ ChBack
  BY <1>0, <1>3, DropStep DEF ChLost, ChBack
<1>4. ASSUME NEW p \in Procs, ShipperStep(p)
      PROVE  ShipInv'
  <2>1. CASE Start(p) \/ InsertRefused(p) \/ MarkFails(p) \/ End(p)
    BY <1>0, <2>1, DropStep
       DEF Start, InsertRefused, MarkFails, End, Goto, TypeOK
  <2>2. CASE Fetch(p)
    BY <1>0, <2>2, FetchStep
  <2>3. CASE InsertEvents(p)
    <3>1. batch[p] \in SUBSET EventIds /\ Stored' = Stored \cup batch[p]
      BY <1>0, <2>3, CopiesAdded DEF InsertEvents, TypeOK
    <3>2. \A q \in Procs : /\ batch'[q] = batch[q]
                           /\ q # p => shipper'[q] = shipper[q]
      BY <1>0, <2>3 DEF InsertEvents, Goto, TypeOK
    <3>3. outbox' = outbox
      BY <2>3 DEF InsertEvents
    <3> QED
      BY <1>0, <3>1, <3>2, <3>3, InsertStep
  <2>4. CASE InsertFails(p)
    <3>1. PICK months \in SUBSET {MonthOf[e] : e \in batch[p]} :
             AddCopies({e \in batch[p] : MonthOf[e] \in months})
      BY <2>4 DEF InsertFails
    <3> DEFINE S == {e \in batch[p] : MonthOf[e] \in months}
    <3>2. S \in SUBSET EventIds /\ S \subseteq batch[p]
      BY <1>0 DEF TypeOK
    <3>3. Stored' = Stored \cup S
      BY <1>0, <3>1, <3>2, CopiesAdded
    <3>4. \A d \in batch[p], e \in S : MonthOf[d] = MonthOf[e] => d \in S
      OBVIOUS
    <3>5. \A q \in Procs : \/ batch'[q] = {}
                           \/ batch'[q] = batch[q] /\ shipper'[q] = shipper[q]
      BY <1>0, <2>4 DEF InsertFails, Goto, TypeOK
    <3>6. outbox' = outbox
      BY <2>4 DEF InsertFails
    <3> HIDE DEF S
    <3> QED
      BY <1>0, <3>2, <3>3, <3>4, <3>5, <3>6, InsertStep
  <2>5. CASE MarkEventsShipped(p)
    BY <1>0, <2>5, MarkStep
  <2> QED
    BY <1>4, <2>1, <2>2, <2>3, <2>4, <2>5 DEF ShipperStep
<1>5. CASE UNCHANGED shipVars
  BY <1>0, <1>5, DropStep DEF shipVars
<1> QED
  BY <1>1, <1>2, <1>3, <1>4, <1>5 DEF Next

-----------------------------------------------------------------------------
(* Theorems *)

\* The inductive invariant holds in every reachable state.
THEOREM ShipInvariance == Spec => []ShipInv
BY ShipInitInv, ShipInvStep, PTL DEF Spec

\* The shipper keeps its types, whatever fails.
THEOREM ShipperTypeCorrect == Spec => []TypeOK
<1>1. ShipInv => TypeOK
  BY DEF ShipInv
<1> QED
  BY <1>1, ShipInvariance, PTL

\* No event is lost on the way to ClickHouse: what shipOnce has marked is
\* there, for any number of concurrent shippers, faults and restarts.
THEOREM NoEventLost == Spec => []ShippedIsStored
<1>1. ShipInv => ShippedIsStored
  BY DEF ShipInv
<1> QED
  BY <1>1, ShipInvariance, PTL

\* A marked event has the history of its job with it in ClickHouse.
THEOREM WholeHistories == Spec => []ShippedHistoryIsWhole
<1>1. ShipInv => ShippedHistoryIsWhole
  BY DEF ShipInv
<1> QED
  BY <1>1, ShipInvariance, PTL

\* The reports see a prefix of a job's events of a month at any time.
THEOREM PrefixHistories == Spec => []StoredHistoryIsPrefix
<1>1. ShipInv => StoredHistoryIsPrefix
  BY DEF ShipInv
<1> QED
  BY <1>1, ShipInvariance, PTL

-----------------------------------------------------------------------------
(* Duplicates *)

\* The processes that have had their one copy of e: they are marking it, or
\* it is marked and they do not hold a fetch from before.
HasCopied(e) ==
    {p \in Procs :
        \/ shipper[p] = "marking" /\ e \in batch[p]
        \/ /\ outbox[e] = "shipped"
           /\ ~(shipper[p] = "inserting" /\ e \in batch[p])}

CopiesOf(e) == clickhouse[e] <= Cardinality(HasCopied(e)) + faults

\* The processes are finitely many, and so are those that have had a copy.
LEMMA HasCopiedFinite ==
    \A e \in EventIds :
        /\ IsFiniteSet(HasCopied(e))
        /\ Cardinality(HasCopied(e)) \in Nat
        /\ Cardinality(HasCopied(e)) <= Cardinality(Procs)
<1> TAKE e \in EventIds
<1>1. HasCopied(e) \subseteq Procs
  BY DEF HasCopied
<1> QED
  BY <1>1, ShipperAssumption, FS_Subset, FS_CardinalityType

\* The three ways a step can keep the account: it adds no copy and nobody
\* loses theirs; a fault pays for one copy or for one process; or the copy is
\* that of a process which had none.
LEMMA AccountStep ==
    ASSUME TypeOK, TypeOK', NEW e \in EventIds, CopiesOf(e), NEW p,
           \/ /\ clickhouse'[e] <= clickhouse[e]
              /\ faults' >= faults
              /\ HasCopied(e) \subseteq HasCopied(e)'
           \/ /\ clickhouse'[e] <= clickhouse[e] + 1
              /\ faults' = faults + 1
              /\ HasCopied(e) \subseteq HasCopied(e)'
           \/ /\ clickhouse'[e] <= clickhouse[e]
              /\ faults' = faults + 1
              /\ HasCopied(e) \ {p} \subseteq HasCopied(e)'
           \/ /\ clickhouse'[e] <= clickhouse[e] + 1
              /\ faults' = faults
              /\ p \notin HasCopied(e)
              /\ HasCopied(e) \cup {p} \subseteq HasCopied(e)'
    PROVE  CopiesOf(e)'
<1> DEFINE H == HasCopied(e)
           G == HasCopied(e)'
<1>1. /\ IsFiniteSet(H) /\ Cardinality(H) \in Nat
      /\ IsFiniteSet(G) /\ Cardinality(G) \in Nat
  <2>1. G \subseteq Procs /\ H \subseteq Procs
    BY DEF HasCopied
  <2> QED
    BY <2>1, ShipperAssumption, FS_Subset, FS_CardinalityType
<1>2. /\ clickhouse[e] \in Nat /\ clickhouse'[e] \in Nat
      /\ faults \in Nat /\ faults' \in Nat
      /\ clickhouse[e] <= Cardinality(H) + faults
  BY DEF TypeOK, CopiesOf
<1> HIDE DEF H, G
<1>3. H \subseteq G => Cardinality(H) <= Cardinality(G)
  BY <1>1, FS_Subset
<1>4. H \ {p} \subseteq G => Cardinality(H) <= Cardinality(G) + 1
  <2>1. /\ IsFiniteSet(H \ {p})
        /\ Cardinality(H \ {p}) \in Nat
        /\ Cardinality(H) <= Cardinality(H \ {p}) + 1
    <3>1. IsFiniteSet(H \ {p})
      BY <1>1, FS_RemoveElement
    <3>2. Cardinality(H \ {p}) \in Nat
      BY <3>1, FS_CardinalityType
    <3>3. Cardinality(H \ {p}) =
             IF p \in H THEN Cardinality(H) - 1 ELSE Cardinality(H)
      BY <1>1, FS_RemoveElement
    <3>4. \A m, n \in Nat : n = m - 1 \/ n = m => m <= n + 1
      OBVIOUS
    <3> QED
      BY <1>1, <3>1, <3>2, <3>3, <3>4
  <2>2. H \ {p} \subseteq G => Cardinality(H \ {p}) <= Cardinality(G)
    BY <1>1, FS_Subset
  <2> QED
    BY <1>1, <2>1, <2>2
<1>5. p \notin H /\ H \cup {p} \subseteq G => Cardinality(H) + 1 <= Cardinality(G)
  <2>1. p \notin H => Cardinality(H \cup {p}) = Cardinality(H) + 1
    BY <1>1, FS_AddElement
  <2>2. H \cup {p} \subseteq G => Cardinality(H \cup {p}) <= Cardinality(G)
    BY <1>1, FS_Subset
  <2> QED
    BY <2>1, <2>2
<1>6. clickhouse'[e] <= Cardinality(G) + faults'
  BY <1>1, <1>2, <1>3, <1>4, <1>5 DEF H, G
<1> QED
  BY <1>6 DEF CopiesOf, G

\* A step of a shipper, for each event.
LEMMA ShipperAccount ==
    ASSUME TypeOK, TypeOK', NEW p \in Procs, ShipperStep(p),
           NEW e \in EventIds, CopiesOf(e)
    PROVE  CopiesOf(e)'
<1>0. /\ clickhouse[e] \in Nat /\ faults \in Nat
      /\ shipper \in [Procs -> ShipperStates]
      /\ batch \in [Procs -> SUBSET EventIds]
  BY DEF TypeOK
<1>1. CASE Start(p) \/ InsertRefused(p)
  <2>1. HasCopied(e) \subseteq HasCopied(e)'
    BY <1>0, <1>1 DEF Start, InsertRefused, Goto, HasCopied
  <2>2. clickhouse' = clickhouse /\ faults' = faults
    BY <1>1 DEF Start, InsertRefused
  <2> QED
    BY <1>0, <2>1, <2>2, AccountStep
<1>2. CASE Fetch(p)
  <2>1. HasCopied(e) \subseteq HasCopied(e)'
    BY <1>0, <1>2 DEF Fetch, Goto, HasCopied, FetchUnshippedEvents, Unshipped
  <2>2. clickhouse' = clickhouse /\ faults' = faults
    BY <1>2 DEF Fetch
  <2> QED
    BY <1>0, <2>1, <2>2, AccountStep
<1>3. CASE InsertEvents(p)
  <2>1. faults' = faults
    BY <1>3 DEF InsertEvents
  <2>2. CASE e \in batch[p]
    <3>1. /\ p \notin HasCopied(e)
          /\ HasCopied(e) \cup {p} \subseteq HasCopied(e)'
      BY <1>0, <1>3, <2>2 DEF InsertEvents, Goto, HasCopied
    <3>2. clickhouse'[e] = clickhouse[e] + 1
      BY <1>3, <2>2 DEF InsertEvents, AddCopies
    <3> QED
      BY <1>0, <2>1, <3>1, <3>2, AccountStep
  <2>3. CASE e \notin batch[p]
    <3>1. HasCopied(e) \subseteq HasCopied(e)'
      BY <1>0, <1>3, <2>3 DEF InsertEvents, Goto, HasCopied
    <3>2. clickhouse'[e] = clickhouse[e]
      BY <1>3, <2>3 DEF InsertEvents, AddCopies
    <3> QED
      BY <1>0, <2>1, <3>1, <3>2, AccountStep
  <2> QED
    BY <2>2, <2>3
<1>4. CASE InsertFails(p)
  <2>1. HasCopied(e) \subseteq HasCopied(e)'
    BY <1>0, <1>4 DEF InsertFails, Goto, HasCopied
  <2>2. clickhouse'[e] <= clickhouse[e] + 1 /\ faults' = faults + 1
    BY <1>0, <1>4 DEF InsertFails, AddCopies, Fault
  <2> QED
    BY <2>1, <2>2, AccountStep
<1>5. CASE MarkEventsShipped(p)
  <2>1. HasCopied(e) \subseteq HasCopied(e)'
    BY <1>0, <1>5 DEF MarkEventsShipped, Goto, HasCopied
  <2>2. clickhouse' = clickhouse /\ faults' = faults
    BY <1>5 DEF MarkEventsShipped
  <2> QED
    BY <1>0, <2>1, <2>2, AccountStep
<1>6. CASE MarkFails(p) \/ End(p)
  <2>1. HasCopied(e) \ {p} \subseteq HasCopied(e)'
    BY <1>0, <1>6 DEF MarkFails, End, Goto, HasCopied
  <2>2. clickhouse' = clickhouse /\ faults' = faults + 1
    BY <1>6 DEF MarkFails, End, Fault
  <2> QED
    BY <1>0, <2>1, <2>2, AccountStep
<1> QED
  BY <1>1, <1>2, <1>3, <1>4, <1>5, <1>6 DEF ShipperStep

\* Initially there are no copies, and every step keeps the account.
LEMMA CopiesInvariance == Spec => [](\A e \in EventIds : CopiesOf(e))
<1> DEFINE Account == \A e \in EventIds : CopiesOf(e)
<1>1. Init => Account
  <2> SUFFICES ASSUME Init, NEW e \in EventIds
               PROVE  CopiesOf(e)
    OBVIOUS
  <2>1. clickhouse[e] = 0 /\ faults = 0
    BY DEF Init
  <2> QED
    BY <2>1, HasCopiedFinite DEF CopiesOf
<1>2. TypeOK /\ TypeOK' /\ Account /\ [Next]_shipVars => Account'
  <2> SUFFICES ASSUME TypeOK, TypeOK', Account, [Next]_shipVars,
                      NEW e \in EventIds
               PROVE  CopiesOf(e)'
    OBVIOUS
  <2>0. clickhouse[e] \in Nat /\ faults \in Nat
    BY DEF TypeOK
  <2>1. ASSUME NEW x \in EventIds, Commit(x) \/ Merge(x)
        PROVE  CopiesOf(e)'
    <3>1. HasCopied(e) \subseteq HasCopied(e)'
      BY <2>1 DEF Commit, Merge, HasCopied, TypeOK
    <3>2. clickhouse'[e] <= clickhouse[e] /\ faults' = faults
      BY <2>0, <2>1 DEF Commit, Merge, TypeOK
    <3> QED
      BY <2>0, <3>1, <3>2, AccountStep
  <2>2. CASE ChLost \/ ChBack \/ UNCHANGED shipVars
    <3>1. HasCopied(e) \subseteq HasCopied(e)'
      BY <2>2 DEF ChLost, ChBack, shipVars, HasCopied
    <3>2. clickhouse' = clickhouse /\ faults' >= faults
      BY <2>0, <2>2 DEF ChLost, ChBack, shipVars, Fault
    <3> QED
      BY <2>0, <3>1, <3>2, AccountStep
  <2>3. ASSUME NEW p \in Procs, ShipperStep(p)
        PROVE  CopiesOf(e)'
    BY <2>3, ShipperAccount
  <2> QED
    BY <2>1, <2>2, <2>3 DEF Next
<1> HIDE DEF Account
<1>3. Spec => []Account
  BY <1>1, <1>2, ShipperTypeCorrect, PTL DEF Spec
<1> QED
  BY <1>3 DEF Account

\* Duplicates in ClickHouse are bounded by the shippers and the faults: the
\* shippers of several processes each send a row at most once, and any
\* further copy is the retry after a failed call or the end of a process.
THEOREM BoundedDuplicates == Spec => []DuplicatesAreRetries
<1>1. TypeOK /\ (\A e \in EventIds : CopiesOf(e)) => DuplicatesAreRetries
  <2> SUFFICES ASSUME TypeOK, NEW e \in EventIds, CopiesOf(e)
               PROVE  clickhouse[e] <= Cardinality(Procs) + faults
    BY DEF DuplicatesAreRetries
  <2>1. /\ clickhouse[e] \in Nat /\ faults \in Nat
        /\ Cardinality(Procs) \in Nat
    BY ShipperAssumption, FS_CardinalityType DEF TypeOK
  <2> QED
    BY <2>1, HasCopiedFinite DEF CopiesOf
<1> QED
  BY <1>1, CopiesInvariance, ShipperTypeCorrect, PTL
=============================================================================
