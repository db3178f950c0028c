--------------------------- MODULE RowLocksProofs ---------------------------
(***************************************************************************)
(* Proofs about RowLocks, for any number of sessions and rows: statements  *)
(* that lock rows one by one take effect as one step of JobStore, and only *)
(* reapers deadlock.                                                       *)
(***************************************************************************)
EXTENDS RowLocks, JobStoreProofs, FiniteSetTheorems

(***************************************************************************)
(* The inductive invariant.  No row is locked twice, and a locked row      *)
(* still satisfies the WHERE clause it was locked for: that is what lets   *)
(* the commit write to it without looking again.                           *)
(***************************************************************************)
OneHolder ==
    \A s, t \in Sessions : s # t => held[s] \cap held[t] = {}

HeldRowsQualify ==
    \A s \in Sessions : \A j \in held[s] : Qualifies(stmt[s], jobs[j])

RowsExist ==
    \A s \in Sessions : todo[s] \cup held[s] \subseteq Inserted

\* A report has one row to lock, a claim no more than its limit.
FewRows ==
    \A s \in Sessions :
        /\ stmt[s] \in Reports =>
              (held[s] = {} \/ todo[s] = {}) /\ \A i, j \in todo[s] : i = j
        /\ IsFiniteSet(held[s]) \/ stmt[s] # "claim"
        /\ stmt[s] = "claim" => Cardinality(held[s]) <= ClaimLimit

\* A session that waits has a row to visit, and is not a claim.
WaitersVisit ==
    \A s \in Sessions :
        /\ want[s] # NULL => want[s] \in todo[s] /\ Waits(stmt[s])
        /\ stmt[s] = "none" => held[s] = {} /\ todo[s] = {} /\ want[s] = NULL

LocksInv ==
    /\ StoreInv
    /\ LocksTypeOK
    /\ OneHolder
    /\ HeldRowsQualify
    /\ RowsExist
    /\ FewRows
    /\ WaitersVisit

\* No session holds or wants anything at first.
LEMMA LocksInitInv == LocksInit => LocksInv
<1> SUFFICES ASSUME LocksInit PROVE LocksInv
  OBVIOUS
<1>1. StoreInv
  BY StoreInitInv DEF LocksInit
<1>2. LocksTypeOK /\ OneHolder /\ HeldRowsQualify /\ RowsExist /\ WaitersVisit
  BY DEF LocksInit, LocksTypeOK, OneHolder, HeldRowsQualify, RowsExist, WaitersVisit
<1>3. FewRows
  BY DEF LocksInit, FewRows, Reports
<1> QED BY <1>1, <1>2, <1>3 DEF LocksInv

\* A commit writes what the statement of JobStore writes, under its guard.
LEMMA WriteIsStatement ==
    ASSUME LocksInv, NEW s \in Sessions, held[s] # {}, Write(s)
    PROVE  Statement
<1>0. /\ held[s] \in SUBSET JobIds /\ \A j \in held[s] : Qualifies(stmt[s], jobs[j])
      /\ stmt[s] = "claim" => Cardinality(held[s]) <= ClaimLimit
  BY DEF LocksInv, LocksTypeOK, HeldRowsQualify, FewRows
<1>1. CASE stmt[s] = "claim" /\ \E w \in WorkerNames : ClaimRows(w, held[s])
  <2>1. held[s] \subseteq Eligible
    BY <1>0, <1>1 DEF Qualifies, Eligible
  <2> QED BY <1>0, <1>1, <2>1 DEF Statement, Claim
<1>2. CASE stmt[s] = "reap" /\ MayBury(ReapedDead(held[s])) /\ ReapRows(held[s])
  <2>1. held[s] \subseteq Reapable
    BY <1>0, <1>2 DEF Qualifies, Reapable
  <2> QED BY <1>0, <1>2, <2>1 DEF Statement, ReapExpiredLeases
<1>3. CASE \E j \in held[s] : \/ Complete(j)
                              \/ \E delay \in RetryDelays : Retry(j, delay)
                              \/ Fail(j)
  BY <1>0, <1>3 DEF Statement
<1> QED BY <1>1, <1>2, <1>3 DEF Write

\* Each step is a statement or leaves the tables alone.
LEMMA LocksStepIsStatement ==
    ASSUME LocksInv, [LocksNext]_lvars
    PROVE  [Statement]_storeVars
<1>1. ASSUME NEW s \in Sessions, SessionStep(s) PROVE [Statement]_storeVars
  <2>1. CASE Commit(s)
    BY <2>1, WriteIsStatement DEF Commit
  <2>2. CASE \/ \E x \in Statements, S \in SUBSET JobIds : Begin(s, x, S)
             \/ \E j \in JobIds : LockRow(s, j) \/ SkipRow(s, j) \/ AwaitRow(s, j)
    BY <2>2 DEF Begin, LockRow, SkipRow, AwaitRow, storeVars
  <2>3. CASE Rollback(s) \/ DeadlockVictim(s)
    BY <2>3 DEF Rollback, DeadlockVictim, Release
  <2> QED BY <1>1, <2>1, <2>2, <2>3 DEF SessionStep
<1>2. CASE Insert \/ Clock
  BY <1>2 DEF Insert, Clock, Statement
<1>3. CASE UNCHANGED lvars
  BY <1>3 DEF lvars, storeVars
<1> QED BY <1>1, <1>2, <1>3 DEF LocksNext

\* No statement takes a row out of the table.
LEMMA RowsStay ==
    ASSUME StoreInv, [Statement]_storeVars
    PROVE  Inserted \subseteq Inserted'
<1> SUFFICES ASSUME NEW j \in JobIds, jobs[j].status # "absent"
             PROVE  jobs'[j].status # "absent"
  BY DEF Inserted
<1>1. CASE Statement
  <2>1. JobStep(j)
    BY <1>1, StatementPerJob DEF StoreInv, AnyStatement
  <2>2. ASSUME NEW type \in EventTypes, NEW w, Moved(j, type, w)
        PROVE  jobs'[j].status # "absent"
    BY <2>2, MovedStatus DEF Statuses
  <2> QED BY <2>1, <2>2 DEF JobStep, AgedRow
<1>2. CASE UNCHANGED storeVars
  BY <1>2 DEF storeVars
<1> QED BY <1>1, <1>2

\* A commit changes no row but those it holds.
LEMMA WriteOnlyHeld ==
    ASSUME LocksInv, NEW s \in Sessions, Write(s),
           NEW j \in JobIds, j \notin held[s]
    PROVE  jobs'[j] = jobs[j]
<1>0. jobs \in [JobIds -> JobRow] /\ held[s] \in SUBSET JobIds
  BY DEF LocksInv, LocksTypeOK, StoreInv, StoreTypeOK
<1>1. ASSUME NEW w, ClaimRows(w, held[s]) PROVE jobs'[j] = jobs[j]
  BY <1>1 DEF ClaimRows
<1>2. ASSUME ReapRows(held[s]) PROVE jobs'[j] = jobs[j]
  BY <1>2 DEF ReapRows
<1>3. ASSUME NEW i \in held[s], \/ Complete(i) \/ Fail(i)
                                \/ \E delay \in RetryDelays : Retry(i, delay)
      PROVE  jobs'[j] = jobs[j]
  BY <1>0, <1>3 DEF Complete, Fail, Retry
<1> QED BY <1>1, <1>2, <1>3 DEF Write

\* A row that another session has locked keeps qualifying: only its holder
\* writes to it, and the clock does not undo what a statement waited for.
LEMMA LockedRowKept ==
    ASSUME LocksInv, [LocksNext]_lvars, NEW s \in Sessions, NEW j \in held[s],
           stmt'[s] = stmt[s], stmt[s] # "none"
    PROVE  Qualifies(stmt[s], jobs'[j])
<1>0. /\ j \in JobIds /\ jobs[j] \in JobRow /\ Qualifies(stmt[s], jobs[j])
      /\ jobs \in [JobIds -> JobRow] /\ j \in Inserted
      /\ stmt \in [Sessions -> Statements \cup {"none"}]
  BY DEF LocksInv, LocksTypeOK, HeldRowsQualify, RowsExist, StoreInv, StoreTypeOK
<1>a. ASSUME jobs'[j] = jobs[j] PROVE Qualifies(stmt[s], jobs'[j])
  BY <1>0, <1>a
<1>1. ASSUME NEW t \in Sessions, Commit(t) PROVE jobs'[j] = jobs[j]
  <2>1. t # s
    BY <1>0, <1>1 DEF Commit
  <2>2. j \notin held[t]
    BY <2>1 DEF LocksInv, OneHolder
  <2> QED BY <1>0, <1>1, <2>2, WriteOnlyHeld DEF Commit, storeVars
<1>2. ASSUME NEW t \in Sessions,
             \/ \E x \in Statements, S \in SUBSET JobIds : Begin(t, x, S)
             \/ \E i \in JobIds : LockRow(t, i) \/ SkipRow(t, i) \/ AwaitRow(t, i)
             \/ Rollback(t) \/ DeadlockVictim(t)
      PROVE  jobs'[j] = jobs[j]
  BY <1>2 DEF Begin, LockRow, SkipRow, AwaitRow, Rollback, DeadlockVictim, Release, storeVars
<1>3. CASE Insert
  BY <1>0, <1>a, <1>3 DEF Insert, Enqueue
<1>4. CASE Clock
  <2>1. jobs'[j] = AgedRow(jobs[j])
    BY <1>0, <1>4 DEF Clock, Tick
  <2>2. Claimable(jobs[j]) => Claimable(AgedRow(jobs[j]))
    BY DEF Claimable, AgedRow
  <2>3. LeaseExpired(jobs[j]) => LeaseExpired(AgedRow(jobs[j]))
    BY <1>0, StoreAssumption DEF LeaseExpired, AgedRow, JobRow
  <2> QED BY <1>0, <2>1, <2>2, <2>3 DEF Qualifies
<1>5. CASE UNCHANGED lvars
  BY <1>a, <1>5 DEF lvars
<1> QED BY <1>a, <1>1, <1>2, <1>3, <1>4, <1>5 DEF LocksNext, SessionStep

(***************************************************************************)
(* What a step does to each session: it leaves the session its locks, ends *)
(* it, starts it, or gives it one more lock that nobody else has.          *)
(***************************************************************************)
KeepsLocks(t) ==
    /\ stmt'[t] = stmt[t] /\ held'[t] = held[t] /\ todo'[t] \subseteq todo[t]
    /\ want'[t] # NULL => want'[t] \in todo'[t] /\ Waits(stmt[t])

Ends(t) ==
    stmt'[t] = "none" /\ held'[t] = {} /\ todo'[t] = {} /\ want'[t] = NULL

Starts(t) ==
    /\ stmt[t] = "none" /\ stmt'[t] \in Statements
    /\ held'[t] = {} /\ want'[t] = NULL /\ todo'[t] \subseteq Inserted
    /\ stmt'[t] \in Reports => \E j \in Inserted : todo'[t] = {j}

GetsLock(t) ==
    \E j \in todo[t] :
        /\ stmt'[t] = stmt[t] /\ ~Full(t) /\ Qualifies(stmt[t], jobs'[j])
        /\ held'[t] = held[t] \cup {j} /\ todo'[t] = todo[t] \ {j}
        /\ want'[t] = NULL
        /\ \A u \in Sessions \ {t} : j \notin held'[u]

SessionsMove ==
    /\ stmt' \in [Sessions -> Statements \cup {"none"}]
    /\ todo' \in [Sessions -> SUBSET JobIds]
    /\ want' \in [Sessions -> JobIds \cup {NULL}]
    /\ held' \in [Sessions -> SUBSET JobIds]
    /\ \A t \in Sessions : KeepsLocks(t) \/ Ends(t) \/ Starts(t) \/ GetsLock(t)

\* Every step moves the sessions in one of these ways.
LEMMA StepMovesSessions ==
    ASSUME LocksInv, [LocksNext]_lvars
    PROVE  SessionsMove
<1>0. /\ stmt \in [Sessions -> Statements \cup {"none"}]
      /\ todo \in [Sessions -> SUBSET JobIds]
      /\ want \in [Sessions -> JobIds \cup {NULL}]
      /\ held \in [Sessions -> SUBSET JobIds]
      /\ \A t \in Sessions : want[t] # NULL => want[t] \in todo[t] /\ Waits(stmt[t])
      /\ \A t \in Sessions : stmt[t] = "none" => held[t] = {} /\ todo[t] = {} /\ want[t] = NULL
  BY DEF LocksInv, LocksTypeOK, WaitersVisit
<1> USE DEF SessionsMove
<1>1. ASSUME NEW s \in Sessions, NEW x \in Statements, NEW S \in SUBSET JobIds,
             Begin(s, x, S)
      PROVE  SessionsMove
  <2>1. S \subseteq Inserted /\ (x \in Reports => \E j \in Inserted : S = {j})
    BY <1>1 DEF Begin, Matches, Eligible, Reapable, Claimable, LeaseExpired, Inserted, Reports
  <2>2. Starts(s)
    BY <1>0, <1>1, <2>1 DEF Begin, Starts
  <2>3. \A t \in Sessions \ {s} : KeepsLocks(t)
    BY <1>0, <1>1 DEF Begin, KeepsLocks
  <2> QED BY <1>0, <1>1, <2>2, <2>3 DEF Begin
<1>2. ASSUME NEW s \in Sessions, NEW j \in JobIds, LockRow(s, j) PROVE SessionsMove
  <2>1. GetsLock(s)
    BY <1>0, <1>2 DEF LockRow, MayVisit, GetsLock, HeldByOther
  <2>2. \A t \in Sessions \ {s} : KeepsLocks(t)
    BY <1>0, <1>2 DEF LockRow, KeepsLocks
  <2> QED BY <1>0, <1>2, <2>1, <2>2 DEF LockRow
<1>3. ASSUME NEW s \in Sessions, NEW j \in JobIds, SkipRow(s, j) PROVE SessionsMove
  <2>1. \A t \in Sessions : KeepsLocks(t)
    BY <1>0, <1>3 DEF SkipRow, KeepsLocks
  <2> QED BY <1>0, <1>3, <2>1 DEF SkipRow
<1>4. ASSUME NEW s \in Sessions, NEW j \in JobIds, AwaitRow(s, j) PROVE SessionsMove
  <2>1. \A t \in Sessions : KeepsLocks(t)
    BY <1>0, <1>4 DEF AwaitRow, MayVisit, KeepsLocks
  <2> QED BY <1>0, <1>4, <2>1 DEF AwaitRow
<1>5. ASSUME NEW s \in Sessions, Commit(s) PROVE SessionsMove
  <2>1. Ends(s)
    BY <1>0, <1>5 DEF Commit, Ends
  <2>2. \A t \in Sessions \ {s} : KeepsLocks(t)
    BY <1>0, <1>5 DEF Commit, KeepsLocks
  <2> QED BY <1>0, <1>5, <2>1, <2>2 DEF Commit
<1>6. ASSUME NEW s \in Sessions, Rollback(s) \/ DeadlockVictim(s) PROVE SessionsMove
  <2>1. Release(s)
    BY <1>6 DEF Rollback, DeadlockVictim
  <2>2. Ends(s)
    BY <1>0, <2>1 DEF Release, Ends
  <2>3. \A t \in Sessions \ {s} : KeepsLocks(t)
    BY <1>0, <2>1 DEF Release, KeepsLocks
  <2> QED BY <1>0, <2>1, <2>2, <2>3 DEF Release
<1>7. CASE Insert \/ Clock \/ UNCHANGED lvars
  BY <1>0, <1>7 DEF Insert, Clock, lockVars, lvars, KeepsLocks
<1> QED BY <1>1, <1>2, <1>3, <1>4, <1>5, <1>6, <1>7 DEF LocksNext, SessionStep

\* Every step keeps the invariant.
LEMMA LocksInvStep ==
    ASSUME LocksInv, [LocksNext]_lvars
    PROVE  LocksInv'
<1>0. SessionsMove
  BY StepMovesSessions
<1>1. StoreInv'
  BY LocksStepIsStatement, StoreInvStep DEF LocksInv, AnyStatement
<1>2. LocksTypeOK'
  BY <1>0 DEF SessionsMove, LocksTypeOK
<1>3. OneHolder'
  <2> SUFFICES ASSUME NEW s \in Sessions, NEW t \in Sessions, s # t
               PROVE  held'[s] \cap held'[t] = {}
    BY DEF OneHolder
  <2>1. held[s] \cap held[t] = {}
    BY DEF LocksInv, OneHolder
  <2>2. /\ held'[s] \subseteq held[s] \/ GetsLock(s)
        /\ held'[t] \subseteq held[t] \/ GetsLock(t)
    BY <1>0 DEF SessionsMove, KeepsLocks, Ends, Starts
  <2>3. ASSUME NEW a \in Sessions, NEW b \in Sessions, a # b, GetsLock(a),
               held'[b] \subseteq held[b] \/ GetsLock(b), held[a] \cap held[b] = {}
        PROVE  held'[a] \cap held'[b] = {}
    BY <2>3 DEF GetsLock
  <2> QED BY <2>1, <2>2, <2>3
<1>4. HeldRowsQualify'
  <2> SUFFICES ASSUME NEW s \in Sessions, NEW j \in held'[s]
               PROVE  Qualifies(stmt'[s], jobs'[j])
    BY DEF HeldRowsQualify, Qualifies
  <2>1. ASSUME j \in held[s], stmt'[s] = stmt[s] PROVE Qualifies(stmt'[s], jobs'[j])
    BY <2>1, LockedRowKept DEF LocksInv, WaitersVisit
  <2> QED BY <1>0, <2>1 DEF SessionsMove, KeepsLocks, Ends, Starts, GetsLock
<1>5. RowsExist'
  <2>1. Inserted \subseteq Inserted'
    BY LocksStepIsStatement, RowsStay DEF LocksInv
  <2>2. ASSUME NEW s \in Sessions PROVE todo'[s] \cup held'[s] \subseteq Inserted
    BY <1>0 DEF SessionsMove, KeepsLocks, Ends, Starts, GetsLock, LocksInv, RowsExist
  <2> QED BY <2>1, <2>2 DEF RowsExist
<1>6. FewRows'
  <2> SUFFICES ASSUME NEW s \in Sessions
               PROVE  /\ stmt'[s] \in Reports =>
                            /\ held'[s] = {} \/ todo'[s] = {}
                            /\ \A i, j \in todo'[s] : i = j
                      /\ IsFiniteSet(held'[s]) \/ stmt'[s] # "claim"
                      /\ stmt'[s] = "claim" => Cardinality(held'[s]) <= ClaimLimit
    BY DEF FewRows, Reports
  <2>0. /\ stmt[s] \in Reports =>
              (held[s] = {} \/ todo[s] = {}) /\ \A i, j \in todo[s] : i = j
        /\ IsFiniteSet(held[s]) \/ stmt[s] # "claim"
        /\ stmt[s] = "claim" => Cardinality(held[s]) <= ClaimLimit
    BY DEF LocksInv, FewRows
  <2>1. CASE KeepsLocks(s)
    BY <2>0, <2>1 DEF KeepsLocks
  <2>2. CASE Ends(s)
    BY <2>2 DEF Ends, Reports
  <2>3. CASE Starts(s)
    <3>1. IsFiniteSet({}) /\ Cardinality({}) = 0
      BY FS_EmptySet
    <3> QED BY <2>3, <3>1, StoreAssumption DEF Starts
  <2>4. CASE GetsLock(s)
    <3>1. PICK j \in todo[s] :
            /\ stmt'[s] = stmt[s] /\ ~Full(s)
            /\ held'[s] = held[s] \cup {j} /\ todo'[s] = todo[s] \ {j}
      BY <2>4 DEF GetsLock
    <3>2. CASE stmt[s] = "claim"
      <4>1. IsFiniteSet(held[s]) /\ Cardinality(held[s]) \in Nat
        BY <2>0, <3>2, FS_CardinalityType
      <4>2. /\ IsFiniteSet(held[s] \cup {j})
            /\ \/ Cardinality(held[s] \cup {j}) = Cardinality(held[s])
               \/ Cardinality(held[s] \cup {j}) = Cardinality(held[s]) + 1
        BY <4>1, FS_AddElement
      <4>3. Cardinality(held[s]) # ClaimLimit
        BY <3>1, <3>2 DEF Full
      <4> QED BY <2>0, <3>1, <3>2, <4>1, <4>2, <4>3, StoreAssumption DEF Reports
    <3>3. CASE stmt[s] # "claim"
      BY <2>0, <3>1, <3>3
    <3> QED BY <3>2, <3>3
  <2> QED BY <1>0, <2>1, <2>2, <2>3, <2>4 DEF SessionsMove
<1>7. WaitersVisit'
  <2> SUFFICES ASSUME NEW s \in Sessions
               PROVE  /\ want'[s] # NULL => want'[s] \in todo'[s] /\ Waits(stmt'[s])
                      /\ stmt'[s] = "none" =>
                            held'[s] = {} /\ todo'[s] = {} /\ want'[s] = NULL
    BY DEF WaitersVisit, Waits
  <2>1. stmt[s] = "none" => held[s] = {} /\ todo[s] = {} /\ want[s] = NULL
    BY DEF LocksInv, WaitersVisit
  <2> QED BY <1>0, <2>1 DEF SessionsMove, KeepsLocks, Ends, Starts, GetsLock, Statements, Reports
<1> QED BY <1>1, <1>2, <1>3, <1>4, <1>5, <1>6, <1>7 DEF LocksInv

-----------------------------------------------------------------------------

\* The inductive invariant holds of every execution, and with it what
\* JobStoreProofs shows of the tables.
THEOREM LocksInvariance == LocksSpec => []LocksInv
<1>1. LocksInv /\ [LocksNext]_lvars => LocksInv'
  BY LocksInvStep
<1> QED BY LocksInitInv, <1>1, PTL DEF LocksSpec

\* Statements that lock, wait, skip and re-test row by row have the effect of
\* the single steps of JobStore.
THEOREM StatementsAreAtomic == LocksSpec => ImplementsStore
<1>1. LocksInit => StoreInit
  BY DEF LocksInit
<1>2. LocksInv /\ [LocksNext]_lvars => [Statement]_storeVars
  BY LocksStepIsStatement
<1> QED BY <1>1, <1>2, LocksInvariance, PTL
        DEF LocksSpec, ImplementsStore, StoreSpec

\* A session in a deadlock holds a row and waits for another: a claim never
\* waits, and a report that waits holds nothing.
THEOREM DeadlocksAreReapers == LocksSpec => []OnlyReapersDeadlock
<1>1. LocksInv => OnlyReapersDeadlock
  <2> SUFFICES ASSUME LocksInv, NEW s \in Sessions, Deadlocked(s)
               PROVE  stmt[s] = "reap"
    BY DEF OnlyReapersDeadlock
  <2>1. PICK t \in Sessions, u \in Sessions : WaitsFor(s, t) /\ WaitsFor(u, s)
    BY DEF Deadlocked
  <2>2. want[s] \in todo[s] /\ Waits(stmt[s]) /\ held[s] # {}
    BY <2>1 DEF WaitsFor, LocksInv, WaitersVisit
  <2>3. stmt[s] # "none" /\ stmt[s] \notin Reports
    BY <2>2 DEF LocksInv, WaitersVisit, FewRows
  <2> QED BY <2>2, <2>3 DEF Waits, LocksInv, LocksTypeOK, Statements
<1> QED BY <1>1, LocksInvariance, PTL
=============================================================================
