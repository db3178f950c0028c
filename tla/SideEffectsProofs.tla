------------------------- MODULE SideEffectsProofs --------------------------
(***************************************************************************)
(* What running the jobs leaves behind when handlers meet their lease: what *)
(* the reports make of the events (Reports), and the files and counters    *)
(* (SideEffects).  All of it rests on the ownership that JobQueueProofs    *)
(* shows.                                                                  *)
(***************************************************************************)
EXTENDS SideEffects, JobQueueProofs, FiniteSetTheorems

\* For the tables, the queue is one of the callers the store was checked
\* with: every claim is for one job, and so within any limit.
THEOREM QueueUsesStore == Spec => StoreSpec
<1>1. ASSUME NEW w \in Workers, NEW j \in JobIds, Claim(IdOf(w), {j}) PROVE Statement
  <2>1. Cardinality({j}) = 1
    BY FS_Singleton
  <2>2. Cardinality({j}) <= ClaimLimit
    BY <2>1, StoreAssumption
  <2>3. IdOf(w) \in WorkerNames
    BY DEF Workers, IdOf
  <2> QED BY <1>1, <2>2, <2>3 DEF Statement
<1>2. ASSUME AnyInv, [Next]_vars PROVE [Statement]_storeVars
  <2>1. ASSUME NEW w \in Workers, Report(w) PROVE [Statement]_storeVars
    BY <1>2, <2>1, ReportKinds DEF AnyInv, Statement
  <2> QED BY <1>1, <1>2, <2>1, StepKinds, Zenon DEF AnyInv, Statement
<1> QED BY <1>2, QueueInvariance, PTL DEF Spec, Init, StoreSpec

-----------------------------------------------------------------------------
(***************************************************************************)
(* The reports count events, and so jobs and outcomes.                     *)
(***************************************************************************)
\* What it is to be counted by countIf.
LEMMA EventsIn ==
    ASSUME NEW types, NEW e
    PROVE  e \in EventsOfTypes(types) <=>
             \E j \in JobIds : \E i \in DOMAIN job_events[j] :
               e = <<j, i>> /\ job_events[j][i].event_type \in types
BY DEF EventsOfTypes

\* Counting one set by another: a map that is one to one and onto.
LEMMA SameSize ==
    ASSUME NEW S, NEW T, IsFiniteSet(S), NEW f \in [S -> T],
           \A a, b \in S : f[a] = f[b] => a = b,
           \A t \in T : \E s \in S : f[s] = t
    PROVE  IsFiniteSet(T) /\ Cardinality(T) = Cardinality(S)
<1>1. f \in Bijection(S, T)
  BY DEF Bijection, Injection, Surjection, IsInjective
<1>2. ExistsBijection(S, T)
  BY <1>1 DEF ExistsBijection
<1> QED BY <1>2, FS_Bijection

ReportsInv ==
    /\ TimelyInv
    /\ LogsOrdered
    /\ IsFiniteSet(Inserted)

\* The inductive invariant of the reports.
THEOREM ReportsInvariance ==
    ASSUME HandlersMeetLease
    PROVE  Spec => []ReportsInv
<1>1. ASSUME Init PROVE ReportsInv
  <2>1. Inserted = {}
    BY <1>1 DEF Init, StoreInit, Inserted, NoRow
  <2>2. LogsOrdered
    BY <1>1 DEF Init, StoreInit, LogsOrdered, Ordered
  <2> QED BY <1>1, <2>1, <2>2, TimelyInvInit, FS_EmptySet DEF ReportsInv
<1>2. ASSUME ReportsInv, [Next]_vars PROVE ReportsInv'
  <2>1. TimelyInv' /\ LogsOrdered'
    BY <1>2, TimelyInvStep, LogsOrderedStep DEF ReportsInv
  <2>2. IsFiniteSet(Inserted)'
    <3>1. PICK i : Inserted' \subseteq Inserted \cup {i}
      BY <1>2, InsertedStep DEF ReportsInv, TimelyInv, AnyInv
    <3> QED BY <1>2, <3>1, FS_AddElement, FS_Subset, Zenon DEF ReportsInv
  <2> QED BY <2>1, <2>2 DEF ReportsInv
<1> QED BY <1>1, <1>2, PTL DEF Spec

\* Every job that was submitted has one arrival.
LEMMA ArrivalsAreJobs ==
    ASSUME ReportsInv
    PROVE  countIf({"enqueued"}) = Cardinality(Inserted)
<1> DEFINE E == EventsOfTypes({"enqueued"})
           f == [j \in Inserted |-> <<j, 1>>]
<1>0. /\ \A j \in JobIds : job_events[j] \in Seq(Event)
      /\ \A j \in Inserted : job_events[j] # <<>>
      /\ \A j \in JobIds \ Inserted : job_events[j] = <<>>
      /\ \A j \in JobIds : Ordered(job_events[j])
      /\ Inserted \subseteq JobIds
  BY DEF ReportsInv, TimelyInv, AnyInv, TypeOK, StoreTypeOK, StoreInv, FreshIds,
         OutboxTracksTable, LogsOrdered, Inserted
<1>1. \A j \in Inserted : <<j, 1>> \in E
  <2> SUFFICES ASSUME NEW j \in Inserted PROVE <<j, 1>> \in E
    OBVIOUS
  <2>1. 1 \in DOMAIN job_events[j]
    BY <1>0
  <2>2. job_events[j][1].event_type = "enqueued"
    BY <1>0, <2>1 DEF Ordered
  <2> QED BY <1>0, <2>1, <2>2, EventsIn
<1>2. \A e \in E : \E j \in Inserted : e = <<j, 1>>
  <2> SUFFICES ASSUME NEW e \in E PROVE \E j \in Inserted : e = <<j, 1>>
    OBVIOUS
  <2>1. PICK j \in JobIds : \E i \in DOMAIN job_events[j] :
               e = <<j, i>> /\ job_events[j][i].event_type = "enqueued"
    BY EventsIn
  <2>2. e = <<j, 1>> /\ j \in Inserted
    BY <1>0, <2>1 DEF Ordered
  <2> QED BY <2>2
<1> HIDE DEF E
<1>3. /\ f \in [Inserted -> E]
      /\ \A i, j \in Inserted : f[i] = f[j] => i = j
      /\ \A e \in E : \E j \in Inserted : f[j] = e
  BY <1>1, <1>2
<1> HIDE DEF f
<1>4. Cardinality(E) = Cardinality(Inserted)
  BY <1>3, SameSize DEF ReportsInv
<1> QED BY <1>4 DEF E, countIf

\* Counting two sets that have nothing in common.
LEMMA DisjointUnion ==
    ASSUME NEW S, NEW T, IsFiniteSet(S), IsFiniteSet(T), S \cap T = {}
    PROVE  /\ IsFiniteSet(S \cup T)
           /\ Cardinality(S) \in Nat /\ Cardinality(T) \in Nat
           /\ Cardinality(S \cup T) = Cardinality(S) + Cardinality(T)
<1>1. Cardinality(S \cap T) = 0
  BY FS_EmptySet
<1>2. Cardinality(S \cup T) = Cardinality(S) + Cardinality(T) - Cardinality(S \cap T)
  BY FS_Union
<1>3. Cardinality(S) \in Nat /\ Cardinality(T) \in Nat
  BY FS_CardinalityType
<1>4. IsFiniteSet(S \cup T)
  BY FS_Union, Zenon
<1> QED BY <1>1, <1>2, <1>3, <1>4

Settled == {j \in JobIds : jobs[j].status \in TerminalStatuses}

\* Every job that is completed or failed has one departure, no other has any.
LEMMA DeparturesAreJobs ==
    ASSUME ReportsInv
    PROVE  /\ IsFiniteSet(Settled) /\ IsFiniteSet(EventsOfTypes(Departures))
           /\ countIf(Departures) = Cardinality(Settled)
<1> DEFINE E == EventsOfTypes(Departures)
           f == [j \in Settled |-> <<j, Len(job_events[j])>>]
<1>0. /\ \A j \in JobIds : job_events[j] \in Seq(Event)
      /\ \A j \in JobIds \ Inserted : job_events[j] = <<>>
      /\ \A j \in JobIds : Ordered(job_events[j])
      /\ Settled \subseteq Inserted
      /\ Inserted \subseteq JobIds
  BY DEF ReportsInv, TimelyInv, AnyInv, TypeOK, StoreTypeOK, StoreInv, FreshIds,
         LogsOrdered, Inserted, Settled, TerminalStatuses
<1>1. ASSUME NEW j \in Inserted
      PROVE  /\ Len(job_events[j]) \in DOMAIN job_events[j]
             /\ job_events[j][Len(job_events[j])].event_type \in Departures
                  <=> j \in Settled
  <2> DEFINE log == job_events[j]
  <2>1. log # <<>> /\ jobs[j].status = StatusAfter[log[Len(log)].event_type]
    BY DEF ReportsInv, TimelyInv, AnyInv, StoreInv, OutboxTracksTable
  <2>2. log \in Seq(Event) /\ j \in JobIds
    BY <1>0
  <2>3. Len(log) \in DOMAIN log /\ log[Len(log)] \in Event
    BY <2>1, <2>2
  <2>4. log[Len(log)].event_type \in EventTypes
    BY <2>3 DEF Event
  <2>5. \A t \in EventTypes : t \in Departures <=> StatusAfter[t] \in TerminalStatuses
    BY DEF StatusAfter, EventTypes, Departures, TerminalStatuses
  <2> QED BY <2>1, <2>2, <2>3, <2>4, <2>5 DEF Settled
<1>2. \A j \in Settled : f[j] \in E
  BY <1>0, <1>1, EventsIn
<1>3. \A e \in E : \E j \in Settled : e = f[j]
  <2> SUFFICES ASSUME NEW e \in E PROVE \E j \in Settled : e = <<j, Len(job_events[j])>>
    OBVIOUS
  <2>a. PICK j \in JobIds : \E i \in DOMAIN job_events[j] :
               e = <<j, i>> /\ job_events[j][i].event_type \in Departures
    BY EventsIn
  <2>1. PICK i \in DOMAIN job_events[j] :
               e = <<j, i>> /\ job_events[j][i].event_type \in Departures
    BY <2>a
  <2>2. i = Len(job_events[j]) /\ j \in Inserted
    BY <1>0, <2>1 DEF Ordered
  <2> QED BY <1>1, <2>1, <2>2
<1>4. \A i, j \in Settled : f[i] = f[j] => i = j
  OBVIOUS
<1>5. IsFiniteSet(Settled)
  BY <1>0, FS_Subset DEF ReportsInv
<1>6. f \in [Settled -> E]
  BY <1>2
<1> HIDE DEF E, f
<1>7. IsFiniteSet(E) /\ Cardinality(E) = Cardinality(Settled)
  BY <1>3, <1>4, <1>5, <1>6, SameSize
<1> QED BY <1>5, <1>7 DEF E, countIf

\* "Arrivals minus departures" is what is queued or running.
THEOREM BacklogCorrect ==
    ASSUME HandlersMeetLease
    PROVE  Spec => []BacklogIsUnsettled
<1>1. ASSUME ReportsInv PROVE BacklogIsUnsettled
  <2> DEFINE Q == {j \in JobIds : jobs[j].status = "queued"}
             R == {j \in JobIds : jobs[j].status = "running"}
  <2>1. Inserted = (Q \cup R) \cup Settled
    BY <1>1 DEF ReportsInv, TimelyInv, AnyInv, TypeOK, StoreTypeOK, JobRow, Statuses,
                Inserted, Settled, TerminalStatuses
  <2>2. Q \cap R = {} /\ (Q \cup R) \cap Settled = {}
    BY DEF Settled, TerminalStatuses
  <2> HIDE DEF Q, R
  <2>3. IsFiniteSet(Q) /\ IsFiniteSet(R) /\ IsFiniteSet(Settled)
    <3>1. IsFiniteSet(Inserted)
      BY <1>1 DEF ReportsInv
    <3> QED BY <2>1, <3>1, FS_Subset
  <2>4. /\ IsFiniteSet(Q \cup R)
        /\ Cardinality(Q) \in Nat /\ Cardinality(R) \in Nat
        /\ Cardinality(Q \cup R) = Cardinality(Q) + Cardinality(R)
    BY <2>2, <2>3, DisjointUnion, Zenon
  <2>5. /\ Cardinality(Settled) \in Nat
        /\ Cardinality(Inserted) = Cardinality(Q \cup R) + Cardinality(Settled)
    BY <2>1, <2>2, <2>3, <2>4, DisjointUnion, Zenon
  <2>6. /\ BacklogVsWorkers.cumulative_backlog = Cardinality(Inserted) - Cardinality(Settled)
        /\ CountByStatus("queued") = Cardinality(Q)
        /\ CountByStatus("running") = Cardinality(R)
    BY <1>1, ArrivalsAreJobs, DeparturesAreJobs
       DEF BacklogVsWorkers, ArrivalsVsCompletions, CountByStatus, Q, R
  <2> QED BY <2>4, <2>5, <2>6 DEF BacklogIsUnsettled
<1> QED BY <1>1, ReportsInvariance, PTL

(***************************************************************************)
(* The samples of a job's durations.                                       *)
(***************************************************************************)
Outcomes == {"completed", "failed"}

\* The group of an outcome has one claim, right before the outcome.
LEMMA GroupOfOutcome ==
    ASSUME TimelyInv, LogsOrdered, NEW j \in JobIds, NEW d \in DOMAIN job_events[j],
           job_events[j][d].event_type \in Outcomes
    PROVE  LET n == job_events[j][d].attempts IN
           /\ d - 1 \in DOMAIN job_events[j]
           /\ InGroup(j, n, {"claimed"}) = {d - 1}
           /\ InGroup(j, n, Outcomes) = {d}
<1> DEFINE log == job_events[j]
           n == log[d].attempts
<1>0. log \in Seq(Event) /\ Ordered(log) /\ log[d] \in Event
  BY DEF TimelyInv, AnyInv, TypeOK, StoreTypeOK, LogsOrdered
<1>1. /\ d = Len(log) /\ d \in Nat /\ d - 1 \in DOMAIN log
      /\ log[d - 1].event_type = "claimed" /\ log[d - 1].attempts = n
  BY <1>0 DEF Ordered, Outcomes, Departures
<1>2. \A i \in DOMAIN log : log[i].event_type \in Outcomes => i = d
  BY <1>0, <1>1 DEF Ordered, Outcomes, Departures
<1>3. InGroup(j, n, Outcomes) = {d}
  BY <1>2 DEF InGroup, Group
<1>4. InGroup(j, n, {"claimed"}) = ClaimEvents(j, n)
  BY DEF InGroup, Group, ClaimEvents
<1>5. d - 1 \in ClaimEvents(j, n)
  BY <1>1 DEF ClaimEvents
<1>6. ClaimEvents(j, n) = {d - 1}
  <2>1. /\ n \in 0 .. jobs[j].attempts
        /\ ClaimEvents(j, 0) = {}
        /\ \A m \in 1 .. jobs[j].attempts :
             \E i \in DOMAIN log : ClaimEvents(j, m) = {i}
    BY DEF TimelyInv, AnyInv, StoreInv, OneClaimPerAttempt
  <2>2. n # 0 /\ jobs[j].attempts \in Nat
    BY <1>5, <2>1 DEF TimelyInv, AnyInv, TypeOK, StoreTypeOK, JobRow
  <2>3. n \in 1 .. jobs[j].attempts
    BY <2>1, <2>2
  <2> QED BY <1>5, <2>1, <2>3
<1> QED BY <1>1, <1>3, <1>4, <1>6, Zenon

\* minIf of one event is its time, and of none 0.
LEMMA MinIfOfOne ==
    ASSUME NEW j \in JobIds, NEW at \in Stamps(j), NEW i \in DOMAIN job_events[j]
    PROVE  /\ at[i] \in Nat /\ at[i] > 0
           /\ minIf(at, {i}) = at[i]
           /\ minIf(at, {}) = 0
<1>0. at[i] \in Milliseconds
  BY Zenon DEF Stamps
<1>1. at[i] \in Nat /\ at[i] > 0
  <2>1. at[i] \in Nat \ {0}
    BY <1>0, ReportsAssumption, Zenon
  <2> QED BY <2>1
<1>2. {at[k] : k \in {i}} = {at[i]}
  OBVIOUS
<1>3. minIf(at, {i}) = CHOOSE t \in {at[i]} : t <= at[i]
  BY <1>2 DEF minIf
<1> QED BY <1>1, <1>3 DEF minIf

\* What the query makes of the group of an outcome.
LEMMA SampleOfOutcome ==
    ASSUME TimelyInv, LogsOrdered, NEW j \in JobIds, NEW at \in Stamps(j),
           NEW d \in DOMAIN job_events[j], job_events[j][d].event_type \in Outcomes
    PROVE  LET n == job_events[j][d].attempts IN
           /\ claimed_at(j, n, at) = at[d - 1]
           /\ terminal_at(j, n, at) = at[d]
           /\ IsSample(j, n, at) <=> at[d] > at[d - 1]
<1> DEFINE n == job_events[j][d].attempts
<1>1. /\ d - 1 \in DOMAIN job_events[j]
      /\ InGroup(j, n, {"claimed"}) = {d - 1}
      /\ InGroup(j, n, Outcomes) = {d}
  BY GroupOfOutcome
<1>2. claimed_at(j, n, at) = at[d - 1] /\ at[d - 1] \in Nat /\ at[d - 1] > 0
  BY <1>1, MinIfOfOne, Zenon DEF claimed_at
<1>3. terminal_at(j, n, at) = at[d]
  BY <1>1, MinIfOfOne, Zenon DEF terminal_at, Outcomes
<1> QED BY <1>2, <1>3 DEF IsSample

\* A group with a sample has an outcome.
LEMMA SampleHasOutcome ==
    ASSUME TimelyInv, NEW j \in JobIds, NEW at \in Stamps(j),
           NEW i \in DOMAIN job_events[j], IsSample(j, job_events[j][i].attempts, at)
    PROVE  \E d \in DOMAIN job_events[j] :
              /\ job_events[j][d].event_type \in Outcomes
              /\ job_events[j][d].attempts = job_events[j][i].attempts
<1> DEFINE n == job_events[j][i].attempts
           c == claimed_at(j, n, at)
<1>1. c \in Nat
  <2>1. ClaimEvents(j, n) = {} \/ \E k \in DOMAIN job_events[j] : ClaimEvents(j, n) = {k}
    <3>1. /\ n \in 0 .. jobs[j].attempts
          /\ ClaimEvents(j, 0) = {}
          /\ \A m \in 1 .. jobs[j].attempts :
               \E k \in DOMAIN job_events[j] : ClaimEvents(j, m) = {k}
      BY DEF TimelyInv, AnyInv, StoreInv, OneClaimPerAttempt
    <3>2. jobs[j].attempts \in Nat
      BY DEF TimelyInv, AnyInv, TypeOK, StoreTypeOK, JobRow
    <3>3. n = 0 \/ n \in 1 .. jobs[j].attempts
      BY <3>1, <3>2
    <3> QED BY <3>1, <3>3, Zenon
  <2>2. c = minIf(at, ClaimEvents(j, n))
    BY DEF claimed_at, InGroup, Group, ClaimEvents
  <2>3. CASE ClaimEvents(j, n) = {}
    BY <2>2, <2>3 DEF minIf
  <2>4. ASSUME NEW k \in DOMAIN job_events[j], ClaimEvents(j, n) = {k} PROVE c \in Nat
    <3>1. c = minIf(at, {k})
      BY <2>2, <2>4, Zenon
    <3>2. minIf(at, {k}) \in Nat
      BY MinIfOfOne, Zenon
    <3> QED BY <3>1, <3>2, Zenon
  <2> QED BY <2>1, <2>3, <2>4, Zenon
<1>2. InGroup(j, n, Outcomes) # {}
  <2> SUFFICES ASSUME InGroup(j, n, Outcomes) = {} PROVE FALSE
    OBVIOUS
  <2>1. terminal_at(j, n, at) = 0
    BY DEF terminal_at, minIf, Outcomes
  <2>2. c > 0 /\ 0 > c
    BY <2>1, Zenon DEF IsSample
  <2> HIDE DEF c
  <2> QED BY <1>1, <2>2
<1> QED BY <1>2 DEF InGroup, Group

\* Whatever the times of its events, the samples of a job are the outcomes
\* that workers reported in a later millisecond than their claim, each with
\* the time of that claim.
THEOREM SamplesCorrect ==
    ASSUME HandlersMeetLease
    PROVE  Spec => []SamplesAreSingleRuns
<1>1. ASSUME ReportsInv, NEW j \in JobIds, NEW at \in Stamps(j)
      PROVE  LET log == job_events[j] IN
             DurationSamples(j, at) =
               {<<log[i].attempts, at[i - 1], at[i]>> :
                  i \in {k \in DOMAIN log : log[k].event_type \in Outcomes /\ at[k] > at[k - 1]}}
  <2> DEFINE log == job_events[j]
             Later == {k \in DOMAIN log : log[k].event_type \in Outcomes /\ at[k] > at[k - 1]}
             Triple(i) == <<log[i].attempts, at[i - 1], at[i]>>
  <2>1. TimelyInv /\ LogsOrdered
    BY <1>1 DEF ReportsInv
  <2>2. ASSUME NEW i \in Later PROVE Triple(i) \in DurationSamples(j, at)
    <3>1. /\ claimed_at(j, log[i].attempts, at) = at[i - 1]
          /\ terminal_at(j, log[i].attempts, at) = at[i]
          /\ IsSample(j, log[i].attempts, at)
      BY <1>1, <2>1, SampleOfOutcome
    <3> QED BY <3>1 DEF DurationSamples
  <2>3. ASSUME NEW s \in DurationSamples(j, at) PROVE \E i \in Later : s = Triple(i)
    <3>1. PICK k \in DOMAIN log :
             LET n == log[k].attempts IN
             /\ IsSample(j, n, at)
             /\ s = <<n, claimed_at(j, n, at), terminal_at(j, n, at)>>
      BY DEF DurationSamples
    <3> DEFINE n == log[k].attempts
    <3>2. PICK d \in DOMAIN log : log[d].event_type \in Outcomes /\ log[d].attempts = n
      BY <1>1, <2>1, <3>1, SampleHasOutcome
    <3>3. /\ claimed_at(j, n, at) = at[d - 1] /\ terminal_at(j, n, at) = at[d]
          /\ at[d] > at[d - 1]
      BY <1>1, <2>1, <3>1, <3>2, SampleOfOutcome
    <3> QED BY <3>1, <3>2, <3>3
  <2> HIDE DEF Later, Triple
  <2>4. DurationSamples(j, at) = {Triple(i) : i \in Later}
    BY <2>2, <2>3, Zenon
  <2> QED BY <2>4 DEF Later, Triple
<1>2. ReportsInv => SamplesAreSingleRuns
  BY <1>1 DEF SamplesAreSingleRuns, Outcomes
<1> QED BY <1>2, ReportsInvariance, PTL

-----------------------------------------------------------------------------
(***************************************************************************)
(* The file that a run leaves behind (SideEffects).  A run may leave it    *)
(* truncated at any point; it is ownership that keeps a run from           *)
(* truncating the file of a job that another run has finished.             *)
(***************************************************************************)

\* Every step is one of the queue, or none as far as the queue can see.
LEMMA EffectsStepIsNext ==
    ASSUME [EffectsNext]_evars
    PROVE  [Next]_vars
<1>1. CASE UNCHANGED evars
  BY <1>1 DEF evars, vars
<1>2. ASSUME NEW w \in Workers,
             \/ OpenFile(w) \/ WriteFile(w) \/ WriteFileErrs(w)
             \/ CountOutcome(w) \/ RecordCounted(w)
      PROVE  [Next]_vars
  BY <1>2 DEF OpenFile, WriteFile, WriteFileErrs, CountOutcome, RecordCounted,
              Next, WorkerStep
<1>3. ASSUME NEW p \in Procs, CrashMidway(p) PROVE [Next]_vars
  BY <1>3 DEF CrashMidway, Next, ProcStep
<1>4. CASE OtherStep
  BY <1>4 DEF OtherStep, Next, WorkerStep, ProcStep
<1> QED BY <1>1, <1>2, <1>3, <1>4 DEF EffectsNext

\* The workers of a process that is down are gone.
DownIsIdle ==
    \A w \in Workers : proc[ProcOf(w)] = "down" => worker[w].pc = "stopped"

\* A handler that succeeded has written its file.
SucceededWrote ==
    \A w \in Workers : worker[w].pc = "succeeded" => file[worker[w].job] = "whole"

EffectsInv ==
    /\ TimelyInv
    /\ DownIsIdle
    /\ EffectsTypeOK
    /\ SucceededWrote
    /\ CompletedFileIsWhole

\* A process goes down with its workers, and they start with it.
LEMMA DownStep ==
    ASSUME TypeOK, DownIsIdle, [Next]_vars
    PROVE  DownIsIdle'
<1>0. /\ worker \in [Workers -> WorkerState] /\ proc \in [Procs -> ProcStates]
      /\ \A w \in Workers : ProcOf(w) \in Procs
  BY DEF TypeOK, Workers, ProcOf
<1>1. ASSUME NEW w \in Workers,
             \/ \E j \in JobIds : ClaimJob(w, j)
             \/ HandlerSucceeds(w) \/ HandlerErrs(w)
             \/ Report(w) \/ ReportLost(w) \/ WorkerReturns(w)
      PROVE  DownIsIdle'
  <2>1. proc' = proc /\ proc[ProcOf(w)] # "down"
    BY <1>1, Zenon DEF ClaimJob, MayClaim, HandlerSucceeds, HandlerErrs, Report,
       ReportLost, WorkerReturns, Finished, DownIsIdle
  <2>2. \A v \in Workers \ {w} : worker'[v] = worker[v]
    BY <1>0, <1>1, Zenon DEF ClaimJob, HandlerSucceeds, HandlerErrs, Report, ReportLost,
       WorkerReturns
  <2> QED BY <1>0, <2>1, <2>2 DEF DownIsIdle
<1>2. ASSUME NEW p \in Procs, Sigterm(p) \/ Exit(p) PROVE DownIsIdle'
  BY <1>0, <1>2 DEF Sigterm, Exit, DownIsIdle
<1>3. ASSUME NEW p \in Procs, Crash(p) PROVE DownIsIdle'
  BY <1>0, <1>3 DEF Crash, SetWorkers, Idle, DownIsIdle
<1>4. ASSUME NEW p \in Procs, Start(p) PROVE DownIsIdle'
  BY <1>0, <1>4 DEF Start, SetWorkers, DownIsIdle
<1>5. ASSUME \/ \E j \in JobIds : Submit(j)
             \/ \E w \in Workers, j \in JobIds : ClaimAnswerLost(w, j)
             \/ \E p \in Procs : Reap(p)
             \/ TimePasses
             \/ UNCHANGED vars
      PROVE  DownIsIdle'
  BY <1>5, Zenon DEF Submit, ClaimAnswerLost, Reap, TimePasses, queueVars, vars, DownIsIdle
<1> QED BY <1>1, <1>2, <1>3, <1>4, <1>5 DEF Next, WorkerStep, ProcStep

\* The other steps leave the workers that are midway alone.
LEMMA OthersKeepMidway ==
    ASSUME TypeOK, DownIsIdle, OtherStep, NEW v \in Workers,
           worker[v].pc \in {"executing", "errored"}
    PROVE  worker'[v] = worker[v]
<1>0. worker \in [Workers -> WorkerState]
  BY DEF TypeOK
<1>1. ASSUME NEW p \in Procs, Start(p) PROVE worker'[v] = worker[v]
  BY <1>0, <1>1 DEF Start, SetWorkers, DownIsIdle
<1>2. ASSUME NEW w \in Workers, NEW j \in JobIds, ClaimJob(w, j)
      PROVE  worker'[v] = worker[v]
  BY <1>0, <1>2 DEF ClaimJob, MayClaim
<1>3. ASSUME NEW w \in Workers, WorkerReturns(w) PROVE worker'[v] = worker[v]
  BY <1>0, <1>3 DEF WorkerReturns
<1> QED BY <1>0, <1>1, <1>2, <1>3, Zenon DEF OtherStep, Submit, ClaimAnswerLost,
           Sigterm, Exit, Reap, TimePasses, queueVars

\* No step of the side effects leaves their types.
LEMMA EffectsTypeStep ==
    ASSUME TypeOK, TypeOK', EffectsTypeOK, DownIsIdle, [EffectsNext]_evars
    PROVE  EffectsTypeOK'
<1> DEFINE Half == {w \in Workers : worker[w].pc \in {"executing", "errored"}}
           Good == /\ file' \in [JobIds -> FileStates]
                   /\ midway' \subseteq Half'
                   /\ retries_total' \in Nat
                   /\ dead_letters_total' \in Nat
<1>0. /\ file \in [JobIds -> FileStates] /\ midway \subseteq Half
      /\ retries_total \in Nat /\ dead_letters_total \in Nat
      /\ worker \in [Workers -> WorkerState]
      /\ \A w \in Workers : Busy(w) => worker[w].job \in JobIds
  BY DEF EffectsTypeOK, TypeOK, WorkerState
<1>1. CASE UNCHANGED evars
  BY <1>0, <1>1 DEF evars, EffectsTypeOK
<1>2. ASSUME NEW w \in Workers, OpenFile(w) PROVE Good
  BY <1>0, <1>2, Zenon DEF OpenFile, FileStates, vars
<1>3. ASSUME NEW w \in Workers, WriteFile(w) PROVE Good
  <2>1. \A v \in Workers \ {w} : worker'[v] = worker[v]
    BY <1>0, <1>3 DEF WriteFile, HandlerSucceeds
  <2> QED BY <1>0, <1>3, <2>1, Zenon DEF WriteFile, FileStates
<1>4. ASSUME NEW w \in Workers, WriteFileErrs(w) PROVE Good
  <2>1. \A v \in Workers \ {w} : worker'[v] = worker[v]
    BY <1>0, <1>4 DEF WriteFileErrs, HandlerErrs
  <2> QED BY <1>0, <1>4, <2>1 DEF WriteFileErrs
<1>5. ASSUME NEW w \in Workers, CountOutcome(w) PROVE Good
  BY <1>0, <1>5 DEF CountOutcome, vars
<1>6. ASSUME NEW w \in Workers, RecordCounted(w) PROVE Good
  <2>1. \A v \in Workers \ {w} : worker'[v] = worker[v]
    BY <1>0, <1>6 DEF RecordCounted, Report, ReportLost
  <2> QED BY <1>0, <1>6, <2>1 DEF RecordCounted
<1>7. ASSUME NEW p \in Procs, CrashMidway(p) PROVE Good
  <2>1. \A v \in Workers : ProcOf(v) # p => worker'[v] = worker[v]
    BY <1>0, <1>7 DEF CrashMidway, Crash, SetWorkers
  <2> QED BY <1>0, <1>7, <2>1 DEF CrashMidway
<1>8. CASE OtherStep
  <2>1. \A v \in Workers : worker[v].pc \in {"executing", "errored"}
                              => worker'[v] = worker[v]
    BY <1>8, OthersKeepMidway
  <2>2. UNCHANGED effectVars
    BY <1>8 DEF OtherStep
  <2>3. midway' \subseteq Half'
    BY <1>0, <2>1, <2>2 DEF effectVars
  <2>4. Good
    BY <1>0, <2>2, <2>3 DEF effectVars
  <2> QED BY <2>4 DEF EffectsTypeOK
<1> QED BY <1>1, <1>2, <1>3, <1>4, <1>5, <1>6, <1>7, <1>8 DEF EffectsNext, EffectsTypeOK

\* A run truncates the file of the job it owns, and of no other.
LEMMA FileStep ==
    ASSUME EffectsInv, [EffectsNext]_evars
    PROVE  SucceededWrote' /\ CompletedFileIsWhole'
<1>0. /\ TypeOK /\ [Next]_vars /\ ExclusiveOwnership
      /\ file \in [JobIds -> FileStates] /\ worker \in [Workers -> WorkerState]
      /\ \A w \in Workers : Busy(w) => worker[w].job \in JobIds
  BY EffectsStepIsNext DEF EffectsInv, TimelyInv, AnyInv, EffectsTypeOK, TypeOK, WorkerState
<1>1. ASSUME NEW w \in Workers, OpenFile(w)
      PROVE  SucceededWrote' /\ CompletedFileIsWhole'
  <2>1. jobs' = jobs /\ worker' = worker /\ Busy(w)
    BY <1>1 DEF OpenFile, vars, Busy
  <2>2. jobs[worker[w].job].status = "running"
    BY <1>0, <2>1 DEF ExclusiveOwnership
  <2>3. ASSUME NEW v \in Workers, worker[v].pc = "succeeded"
        PROVE  worker[v].job # worker[w].job
    BY <1>0, <1>1, <2>1, <2>3 DEF ExclusiveOwnership, Busy, OpenFile
  <2>4. \A j \in JobIds \ {worker[w].job} : file'[j] = file[j]
    BY <1>0, <1>1 DEF OpenFile
  <2>5. SucceededWrote'
    BY <1>0, <2>1, <2>3, <2>4 DEF EffectsInv, SucceededWrote, Busy
  <2>6. CompletedFileIsWhole'
    BY <2>1, <2>2, <2>4 DEF EffectsInv, CompletedFileIsWhole
  <2> QED BY <2>5, <2>6
<1>2. ASSUME NEW w \in Workers, WriteFile(w)
      PROVE  SucceededWrote' /\ CompletedFileIsWhole'
  <2>1. /\ worker[w].job \in JobIds
        /\ jobs' = jobs /\ worker' = [worker EXCEPT ![w] = InHand(w, "succeeded")]
        /\ file' = [file EXCEPT ![worker[w].job] = "whole"]
    BY <1>0, <1>2 DEF WriteFile, HandlerSucceeds, Busy
  <2>2. \A j \in JobIds : file[j] = "whole" => file'[j] = "whole"
    BY <1>0, <2>1
  <2>3. file'[worker'[w].job] = "whole"
    BY <1>0, <2>1 DEF InHand
  <2>4. \A v \in Workers \ {w} : worker'[v] = worker[v]
    BY <1>0, <2>1
  <2>5. SucceededWrote'
    BY <1>0, <2>2, <2>3, <2>4 DEF EffectsInv, SucceededWrote, Busy
  <2>6. CompletedFileIsWhole'
    BY <2>1, <2>2 DEF EffectsInv, CompletedFileIsWhole
  <2> QED BY <2>5, <2>6
<1> DEFINE Same == /\ file' = file
                   /\ \A v \in Workers : worker'[v].pc = "succeeded"
                                            => worker'[v] = worker[v]
<1>3. ASSUME Same PROVE SucceededWrote' /\ CompletedFileIsWhole'
  <2>1. SucceededWrote'
    BY <1>3 DEF EffectsInv, SucceededWrote
  <2>2. CompletedFileIsWhole'
    BY <1>0, <1>3, CompletedStep DEF EffectsInv, SucceededWrote, CompletedFileIsWhole
  <2> QED BY <2>1, <2>2
<1>4. ASSUME NEW w \in Workers, WriteFileErrs(w) PROVE Same
  BY <1>0, <1>4 DEF WriteFileErrs, HandlerErrs, InHand
<1>5. ASSUME NEW w \in Workers, CountOutcome(w) PROVE Same
  BY <1>5 DEF CountOutcome, vars
<1>6. ASSUME NEW w \in Workers, RecordCounted(w) PROVE Same
  BY <1>0, <1>6 DEF RecordCounted, Report, ReportLost, Idle
<1>7. ASSUME NEW p \in Procs, CrashMidway(p) PROVE Same
  BY <1>0, <1>7 DEF CrashMidway, Crash, SetWorkers, Idle
<1>8. ASSUME OtherStep PROVE Same
  <2>1. file' = file
    BY <1>8 DEF OtherStep, effectVars
  <2>2. ASSUME NEW v \in Workers, HandlerSucceeds(v), worker'[v].pc = "succeeded"
        PROVE  FALSE
    <3>1. ASSUME NEW w \in Workers, NEW j \in JobIds, ClaimJob(w, j) PROVE FALSE
      BY <1>0, <2>2, <3>1 DEF ClaimJob, MayClaim, HandlerSucceeds
    <3>2. ASSUME NEW w \in Workers, WorkerReturns(w) PROVE FALSE
      BY <1>0, <2>2, <3>2 DEF WorkerReturns, HandlerSucceeds
    <3>3. ASSUME NEW p \in Procs, Start(p) PROVE FALSE
      BY <1>0, <2>2, <3>3 DEF Start, SetWorkers, Idle, HandlerSucceeds
    <3> QED BY <1>8, <2>2, <3>1, <3>2, <3>3, Zenon DEF OtherStep, Submit, ClaimAnswerLost,
               Sigterm, Exit, Reap, TimePasses, queueVars, HandlerSucceeds
  <2> QED BY <1>0, <2>1, <2>2, SucceededStep
<1>9. ASSUME UNCHANGED evars PROVE Same
  BY <1>9 DEF evars
<1> HIDE DEF Same
<1> QED BY <1>1, <1>2, <1>3, <1>4, <1>5, <1>6, <1>7, <1>8, <1>9 DEF EffectsNext

\* The invariant of the side effects holds initially.
LEMMA EffectsInvInit == EffectsInit => EffectsInv
<1> SUFFICES ASSUME EffectsInit PROVE EffectsInv
  OBVIOUS
<1>1. TimelyInv /\ TypeOK
  BY TimelyInvInit DEF EffectsInit, TimelyInv, AnyInv
<1>2. \A w \in Workers : worker[w].pc = "polling" /\ proc[ProcOf(w)] = "up"
  BY DEF EffectsInit, Init, Idle, Workers, ProcOf
<1>3. \A j \in JobIds : jobs[j].status = "absent"
  BY DEF EffectsInit, Init, StoreInit, NoRow
<1> QED BY <1>1, <1>2, <1>3 DEF EffectsInit, EffectsInv, EffectsTypeOK, FileStates,
           DownIsIdle, SucceededWrote, CompletedFileIsWhole

-----------------------------------------------------------------------------

\* Everything that is proved of the queue is proved of the queue with its
\* side effects.
THEOREM EffectsImplementQueue == EffectsSpec => Spec
BY EffectsStepIsNext, PTL DEF EffectsSpec, EffectsInit, Spec

\* The inductive invariant of the side effects.
THEOREM EffectsInvariance ==
    ASSUME HandlersMeetLease
    PROVE  EffectsSpec => []EffectsInv
<1>1. ASSUME EffectsInv, [EffectsNext]_evars PROVE EffectsInv'
  <2>1. TimelyInv' /\ [Next]_vars
    BY <1>1, EffectsStepIsNext, TimelyInvStep DEF EffectsInv
  <2>2. TypeOK /\ TypeOK'
    BY <1>1, <2>1 DEF EffectsInv, TimelyInv, AnyInv
  <2>3. DownIsIdle'
    BY <1>1, <2>1, <2>2, DownStep DEF EffectsInv
  <2>4. EffectsTypeOK'
    BY <1>1, <2>2, EffectsTypeStep DEF EffectsInv
  <2> QED BY <1>1, <2>1, <2>3, <2>4, FileStep DEF EffectsInv
<1> QED BY <1>1, EffectsInvInit, PTL DEF EffectsSpec

\* The state of the queue and of its side effects keeps its type.
THEOREM EffectsTypeCorrect ==
    ASSUME HandlersMeetLease
    PROVE  EffectsSpec => []EffectsTypeOK
BY EffectsInvariance, PTL DEF EffectsInv

\* The file of a completed job has its content, and keeps it.
THEOREM WrittenForGood ==
    ASSUME HandlersMeetLease
    PROVE  EffectsSpec => []CompletedFileIsWhole
BY EffectsInvariance, PTL DEF EffectsInv

-----------------------------------------------------------------------------
(***************************************************************************)
(* The counters.  Both sides of CountersFollowEvents are counts of sets that *)
(* a step changes by an element or leaves alone, but for a crash, which    *)
(* takes the workers of a process.                                         *)
(***************************************************************************)

Retried == EventsOfTypes({"retried"})

Failed == EventsOfTypes({"failed"})

\* A step that writes no event of some types does not change their count.
LEMMA EventsKept ==
    ASSUME NEW types, job_events \in [JobIds -> Seq(Event)],
           \A j \in JobIds :
              \/ job_events'[j] = job_events[j]
              \/ \E e \in Event : /\ e.event_type \notin types
                                  /\ job_events'[j] = Append(job_events[j], e)
    PROVE  EventsOfTypes(types)' = EventsOfTypes(types)
<1>1. ASSUME NEW j \in JobIds
      PROVE  {i \in DOMAIN job_events'[j] : job_events'[j][i].event_type \in types}
               = {i \in DOMAIN job_events[j] : job_events[j][i].event_type \in types}
  <2>1. CASE job_events'[j] = job_events[j]
    BY <2>1
  <2>2. ASSUME NEW e \in Event, e.event_type \notin types,
               job_events'[j] = Append(job_events[j], e)
        PROVE  {i \in DOMAIN job_events'[j] : job_events'[j][i].event_type \in types}
                 = {i \in DOMAIN job_events[j] : job_events[j][i].event_type \in types}
    <3>1. job_events[j] \in Seq(Event)
      OBVIOUS
    <3> QED BY <2>2, <3>1, AppendedLog
  <2> QED BY <2>1, <2>2
<1> QED BY <1>1 DEF EventsOfTypes

\* One event of some types adds one to their count.
LEMMA EventAdded ==
    ASSUME NEW types, job_events \in [JobIds -> Seq(Event)],
           NEW j \in JobIds, NEW e \in Event, e.event_type \in types,
           job_events' = [job_events EXCEPT ![j] = Append(@, e)]
    PROVE  /\ EventsOfTypes(types)'
                = EventsOfTypes(types) \cup {<<j, Len(job_events[j]) + 1>>}
           /\ <<j, Len(job_events[j]) + 1>> \notin EventsOfTypes(types)
<1> DEFINE n == Len(job_events[j]) + 1
           At(log) == {i \in DOMAIN log : log[i].event_type \in types}
<1>1. At(job_events'[j]) = At(job_events[j]) \cup {n} /\ n \notin At(job_events[j])
  <2>1. job_events[j] \in Seq(Event) /\ job_events'[j] = Append(job_events[j], e)
    OBVIOUS
  <2> QED BY <2>1, AppendedLog
<1>2. \A k \in JobIds \ {j} : job_events'[k] = job_events[k]
  OBVIOUS
<1>3. /\ EventsOfTypes(types) = UNION {{k} \X At(job_events[k]) : k \in JobIds}
      /\ EventsOfTypes(types)' = UNION {{k} \X At(job_events'[k]) : k \in JobIds}
  BY DEF EventsOfTypes
<1> HIDE DEF At, n
<1>4. <<j, n>> \notin EventsOfTypes(types)
  BY <1>1, <1>3
<1>5. EventsOfTypes(types)' = EventsOfTypes(types) \cup {<<j, n>>}
  BY <1>1, <1>2, <1>3
<1> QED BY <1>4, <1>5 DEF n

\* Only the report of an error writes an event that is counted.
LEMMA Uncounted ==
    ASSUME TypeOK,
           \/ UNCHANGED storeVars
           \/ \E j \in JobIds : Enqueue(j)
           \/ \E w \in Workers, j \in JobIds : Claim(IdOf(w), {j})
           \/ \E j \in JobIds : Complete(j)
           \/ \E S \in SUBSET JobIds : ReapExpiredLeases(S)
           \/ Tick
    PROVE  Retried' = Retried /\ Failed' = Failed
<1> DEFINE Quiet(j) == \/ job_events'[j] = job_events[j]
                       \/ \E e \in Event :
                            /\ e.event_type \notin {"retried", "failed"}
                            /\ job_events'[j] = Append(job_events[j], e)
<1>0. /\ jobs \in [JobIds -> JobRow] /\ job_events \in [JobIds -> Seq(Event)]
  BY DEF TypeOK, StoreTypeOK
<1>1. ASSUME NEW j \in JobIds PROVE Quiet(j)
  <2>0. /\ jobs[j].attempts \in Nat
        /\ \A t \in EventTypes, w \in WorkerNames \cup {NULL} :
             /\ EventOf(t, jobs[j], w) \in Event
             /\ EventOf(t, jobs[j], w).event_type = t
             /\ EventOf(t, NewRow, w) \in Event
             /\ EventOf(t, NewRow, w).event_type = t
             /\ EventOf(t, ClaimedRow(jobs[j], w), w) \in Event
             /\ EventOf(t, ClaimedRow(jobs[j], w), w).event_type = t
    BY <1>0 DEF JobRow, EventOf, Event, NewRow, ClaimedRow
  <2>1. ASSUME NEW i \in JobIds, Enqueue(i) PROVE Quiet(j)
    BY <1>0, <2>0, <2>1 DEF Enqueue, EventTypes
  <2>2. ASSUME NEW w \in Workers, NEW i \in JobIds, Claim(IdOf(w), {i}) PROVE Quiet(j)
    <3>1. IdOf(w) \in WorkerNames
      BY DEF Workers, IdOf
    <3> QED BY <1>0, <2>0, <2>2, <3>1 DEF Claim, ClaimRows, EventTypes
  <2>3. ASSUME NEW i \in JobIds, Complete(i) PROVE Quiet(j)
    BY <1>0, <2>0, <2>3 DEF Complete, EventTypes
  <2>4. ASSUME NEW S \in SUBSET JobIds, ReapExpiredLeases(S) PROVE Quiet(j)
    <3>1. ReapedEventType(jobs[j]) \in EventTypes \ {"retried", "failed"}
      BY DEF ReapedEventType, EventTypes
    <3> QED BY <1>0, <2>0, <2>4, <3>1 DEF ReapExpiredLeases, ReapRows
  <2>5. CASE Tick \/ UNCHANGED storeVars
    BY <2>5 DEF Tick, storeVars
  <2> QED BY <2>1, <2>2, <2>3, <2>4, <2>5, Zenon
<1>2. \A j \in JobIds :
         \/ job_events'[j] = job_events[j]
         \/ \E e \in Event : /\ e.event_type \notin {"retried"}
                             /\ job_events'[j] = Append(job_events[j], e)
  BY <1>1
<1>3. \A j \in JobIds :
         \/ job_events'[j] = job_events[j]
         \/ \E e \in Event : /\ e.event_type \notin {"failed"}
                             /\ job_events'[j] = Append(job_events[j], e)
  BY <1>1
<1>4. EventsOfTypes({"retried"})' = EventsOfTypes({"retried"})
  BY <1>0, <1>2, EventsKept, Zenon
<1>5. EventsOfTypes({"failed"})' = EventsOfTypes({"failed"})
  BY <1>0, <1>3, EventsKept
<1> QED BY <1>4, <1>5 DEF Retried, Failed

\* The report of an error writes the one event that was counted.
LEMMA CountedEvent ==
    ASSUME TypeOK, NEW j \in JobIds
    PROVE  /\ Fail(j) => /\ Retried' = Retried
                         /\ \E x : x \notin Failed /\ Failed' = Failed \cup {x}
           /\ \A delay \in RetryDelays : Retry(j, delay) =>
                /\ Failed' = Failed
                /\ \E x : x \notin Retried /\ Retried' = Retried \cup {x}
<1>0. /\ jobs[j] \in JobRow /\ jobs[j].attempts \in Nat
      /\ job_events \in [JobIds -> Seq(Event)]
  BY DEF TypeOK, StoreTypeOK, JobRow
<1>1. ASSUME NEW t \in {"retried", "failed"}
      PROVE  /\ EventOf(t, jobs[j], NULL) \in Event
             /\ EventOf(t, jobs[j], NULL).event_type = t
  BY <1>0 DEF EventOf, Event, EventTypes
<1>2. ASSUME NEW t \in {"retried", "failed"}, NEW u \in {"retried", "failed"}, t # u,
             job_events' = [job_events EXCEPT ![j] = Append(@, EventOf(t, jobs[j], NULL))]
      PROVE  /\ EventsOfTypes({u})' = EventsOfTypes({u})
             /\ \E x : /\ x \notin EventsOfTypes({t})
                       /\ EventsOfTypes({t})' = EventsOfTypes({t}) \cup {x}
  <2>1. \A i \in JobIds :
           \/ job_events'[i] = job_events[i]
           \/ \E e \in Event : /\ e.event_type \notin {u}
                               /\ job_events'[i] = Append(job_events[i], e)
    BY <1>0, <1>1, <1>2
  <2>2. EventsOfTypes({u})' = EventsOfTypes({u})
    BY <1>0, <2>1, EventsKept, Zenon
  <2>3. EventOf(t, jobs[j], NULL).event_type \in {t} /\ EventOf(t, jobs[j], NULL) \in Event
    BY <1>1
  <2>4. \E x : /\ x \notin EventsOfTypes({t})
               /\ EventsOfTypes({t})' = EventsOfTypes({t}) \cup {x}
    BY <1>0, <1>2, <2>3, EventAdded, Zenon
  <2> QED BY <2>2, <2>4
<1>3. ASSUME Fail(j)
      PROVE  /\ Retried' = Retried
             /\ \E x : x \notin Failed /\ Failed' = Failed \cup {x}
  BY <1>2, <1>3 DEF Fail, Retried, Failed
<1>4. ASSUME NEW delay \in RetryDelays, Retry(j, delay)
      PROVE  /\ Failed' = Failed
             /\ \E x : x \notin Retried /\ Retried' = Retried \cup {x}
  BY <1>2, <1>4 DEF Retry, Retried, Failed
<1> QED BY <1>3, <1>4

\* The workers that counted an outcome and have not recorded it yet.
OwedRetries == {w \in midway : worker[w].pc = "errored" /\ ~GivesUp(w)}

OwedFailures == {w \in midway : worker[w].pc = "errored" /\ GivesUp(w)}

Slack == faults * Cardinality(WorkerNames)

\* CountersFollowEvents, in these terms.
Balance ==
    /\ retries_total >= Cardinality(Retried) + Cardinality(OwedRetries)
    /\ dead_letters_total >= Cardinality(Failed) + Cardinality(OwedFailures)
    /\ retries_total + dead_letters_total <=
           Cardinality(Retried) + Cardinality(OwedRetries)
               + Cardinality(Failed) + Cardinality(OwedFailures) + Slack

CountersInv ==
    /\ IsFiniteSet(midway)
    /\ IsFiniteSet(Retried)
    /\ IsFiniteSet(Failed)
    /\ Balance

\* Balance is the property.
LEMMA BalanceIsFollowing == Balance => CountersFollowEvents
<1>1. /\ \A w \in midway : GivesUp(w) = FALSE <=> ~GivesUp(w)
      /\ \A w \in midway : GivesUp(w) = TRUE <=> GivesUp(w)
  BY DEF GivesUp
<1>2. Pending(FALSE) = Cardinality(OwedRetries) /\ Pending(TRUE) = Cardinality(OwedFailures)
  BY <1>1 DEF Pending, OwedRetries, OwedFailures
<1> QED BY <1>2, Zenon DEF Balance, CountersFollowEvents, countIf, Retried, Failed, Slack

\* Everything that is counted is finite.
LEMMA CountsTyped ==
    ASSUME IsFiniteSet(midway), IsFiniteSet(Retried), IsFiniteSet(Failed), faults \in Nat
    PROVE  /\ IsFiniteSet(OwedRetries) /\ IsFiniteSet(OwedFailures)
           /\ Cardinality(Retried) \in Nat /\ Cardinality(Failed) \in Nat
           /\ Cardinality(OwedRetries) \in Nat /\ Cardinality(OwedFailures) \in Nat
           /\ Cardinality(WorkerNames) \in Nat /\ Slack \in Nat
<1>1. OwedRetries \subseteq midway /\ OwedFailures \subseteq midway
  BY DEF OwedRetries, OwedFailures
<1>2. IsFiniteSet(OwedRetries) /\ IsFiniteSet(OwedFailures)
  BY <1>1, FS_Subset
<1>3. Cardinality(WorkerNames) \in Nat
  BY FS_CardinalityType, EffectsAssumption
<1>4. Slack \in Nat
  BY <1>3 DEF Slack
<1> QED BY <1>2, <1>3, <1>4, FS_CardinalityType

\* A fault makes room for one more lost count of each worker of a process.
LEMMA SlackGrows ==
    ASSUME faults \in Nat, Fault
    PROVE  Slack' = Slack + Cardinality(WorkerNames)
<1>1. Cardinality(WorkerNames) \in Nat
  BY FS_CardinalityType, EffectsAssumption
<1>2. faults' = faults + 1
  BY DEF Fault
<1>3. \A k \in Nat : (faults + 1) * k = faults * k + k
  OBVIOUS
<1> QED BY <1>1, <1>2, <1>3 DEF Slack

\* A step that writes no counted event, counts nothing and changes nothing
\* that is owed keeps the balance, fault or not.
LEMMA NothingCounted ==
    ASSUME EffectsTypeOK, CountersInv,
           Retried' = Retried, Failed' = Failed,
           OwedRetries' = OwedRetries, OwedFailures' = OwedFailures,
           UNCHANGED <<retries_total, dead_letters_total>>,
           IsFiniteSet(midway'),
           faults' = faults \/ Fault
    PROVE  CountersInv'
<1>0. retries_total \in Nat /\ dead_letters_total \in Nat /\ faults \in Nat
  BY QueueAssumption DEF EffectsTypeOK, TypeOK
<1>1. /\ Cardinality(Retried) \in Nat /\ Cardinality(Failed) \in Nat
      /\ Cardinality(OwedRetries) \in Nat /\ Cardinality(OwedFailures) \in Nat
      /\ Cardinality(WorkerNames) \in Nat /\ Slack \in Nat
  BY <1>0, CountsTyped DEF CountersInv
<1>2. CASE faults' = faults
  <2>1. Slack' = Slack
    BY <1>2 DEF Slack
  <2> QED BY <2>1 DEF CountersInv, Balance
<1>3. CASE Fault
  <2>1. Slack' = Slack + Cardinality(WorkerNames)
    BY <1>0, <1>3, SlackGrows
  <2>2. Balance
    BY DEF CountersInv
  <2>3. Balance'
    BY <1>0, <1>1, <2>1, <2>2 DEF Balance
  <2> QED BY <2>3 DEF CountersInv
<1> QED BY <1>2, <1>3

\* Counting an outcome makes it owed.
LEMMA CountOutcomeStep ==
    ASSUME EffectsTypeOK, CountersInv, NEW w \in Workers, CountOutcome(w)
    PROVE  CountersInv'
<1>0. retries_total \in Nat /\ dead_letters_total \in Nat /\ faults \in Nat
  BY QueueAssumption DEF EffectsTypeOK, TypeOK
<1>1. /\ Cardinality(Retried) \in Nat /\ Cardinality(Failed) \in Nat
      /\ Cardinality(OwedRetries) \in Nat /\ Cardinality(OwedFailures) \in Nat
      /\ IsFiniteSet(OwedRetries) /\ IsFiniteSet(OwedFailures)
      /\ Slack \in Nat
  BY <1>0, CountsTyped DEF CountersInv
<1>2. /\ Retried' = Retried /\ Failed' = Failed /\ Slack' = Slack
      /\ worker' = worker
  BY DEF CountOutcome, vars, Retried, Failed, EventsOfTypes, Inserted, Slack
<1>3. IsFiniteSet(midway')
  BY FS_AddElement DEF CountersInv, CountOutcome
<1>4. w \notin OwedRetries /\ w \notin OwedFailures
  BY DEF CountOutcome, OwedRetries, OwedFailures
<1>5. CASE GivesUp(w)
  <2>1. OwedRetries' = OwedRetries /\ OwedFailures' = OwedFailures \cup {w}
    BY <1>2, <1>5 DEF CountOutcome, OwedRetries, OwedFailures, GivesUp
  <2>2. Cardinality(OwedFailures') = Cardinality(OwedFailures) + 1
    BY <1>1, <1>4, <2>1, FS_AddElement, Zenon
  <2>3. retries_total' = retries_total /\ dead_letters_total' = dead_letters_total + 1
    BY <1>0, <1>5 DEF CountOutcome
  <2>4. Balance'
    BY <1>0, <1>1, <1>2, <2>1, <2>2, <2>3 DEF CountersInv, Balance
  <2> QED BY <1>2, <1>3, <2>4 DEF CountersInv
<1>6. CASE ~GivesUp(w)
  <2>1. OwedFailures' = OwedFailures /\ OwedRetries' = OwedRetries \cup {w}
    BY <1>2, <1>6 DEF CountOutcome, OwedRetries, OwedFailures, GivesUp
  <2>2. Cardinality(OwedRetries') = Cardinality(OwedRetries) + 1
    BY <1>1, <1>4, <2>1, FS_AddElement, Zenon
  <2>3. retries_total' = retries_total + 1 /\ dead_letters_total' = dead_letters_total
    BY <1>0, <1>6 DEF CountOutcome
  <2>4. Balance'
    BY <1>0, <1>1, <1>2, <2>1, <2>2, <2>3 DEF CountersInv, Balance
  <2> QED BY <1>2, <1>3, <2>4 DEF CountersInv
<1> QED BY <1>5, <1>6

\* The workers midway that erred, and what becomes of w when it is done.
LEMMA OwedDone ==
    ASSUME EffectsTypeOK, NEW w \in Workers,
           worker' = [worker EXCEPT ![w] = Idle("polling")],
           midway' = midway \ {w}
    PROVE  /\ OwedRetries' = OwedRetries \ {w}
           /\ OwedFailures' = OwedFailures \ {w}
<1>1. \A v \in midway \ {w} : worker'[v] = worker[v]
  BY DEF EffectsTypeOK, TypeOK
<1> QED BY <1>1 DEF OwedRetries, OwedFailures, GivesUp

\* A report pays what its worker owes with the event it writes; a lost one
\* leaves a count without an event, and is a fault.
LEMMA RecordCountedStep ==
    ASSUME EffectsInv, CountersInv, NEW w \in Workers, RecordCounted(w)
    PROVE  CountersInv'
<1>0. /\ retries_total \in Nat /\ dead_letters_total \in Nat /\ faults \in Nat
      /\ EffectsTypeOK /\ TypeOK /\ StoreTypeOK
      /\ worker \in [Workers -> WorkerState]
      /\ Busy(w) /\ worker[w].job \in JobIds
  <2>1. EffectsTypeOK /\ TypeOK
    BY DEF EffectsInv, EffectsTypeOK
  <2>2. Finished(w)
    BY DEF RecordCounted, Report, ReportLost
  <2> QED BY <2>1, <2>2, QueueAssumption DEF EffectsTypeOK, TypeOK, Busy, Finished, WorkerState
<1>1. /\ Cardinality(Retried) \in Nat /\ Cardinality(Failed) \in Nat
      /\ Cardinality(OwedRetries) \in Nat /\ Cardinality(OwedFailures) \in Nat
      /\ IsFiniteSet(OwedRetries) /\ IsFiniteSet(OwedFailures)
      /\ Cardinality(WorkerNames) \in Nat /\ Slack \in Nat
  BY <1>0, CountsTyped DEF CountersInv
<1>2. OwedRetries' = OwedRetries \ {w} /\ OwedFailures' = OwedFailures \ {w}
  BY <1>0, OwedDone DEF RecordCounted, Report, ReportLost
<1>3. retries_total' = retries_total /\ dead_letters_total' = dead_letters_total
  BY DEF RecordCounted
<1>4. /\ retries_total \in Nat /\ dead_letters_total \in Nat
      /\ Balance
  BY <1>0 DEF CountersInv
<1>5. IsFiniteSet(midway')
  BY FS_RemoveElement, FS_Subset DEF CountersInv, RecordCounted
<1>6. CASE worker[w].pc = "succeeded"
  <2>1. OwedRetries' = OwedRetries /\ OwedFailures' = OwedFailures
    BY <1>2, <1>6 DEF OwedRetries, OwedFailures
  <2>2. Complete(worker[w].job) \/ UNCHANGED storeVars
    BY <1>6 DEF RecordCounted, Report, RecordOutcome, ReportLost, storeVars
  <2>3. Retried' = Retried /\ Failed' = Failed
    BY <1>0, <2>2, Uncounted
  <2>4. faults' = faults \/ Fault
    BY DEF RecordCounted, Report, ReportLost
  <2> QED BY <1>0, <1>2, <1>5, <1>3, <2>1, <2>3, <2>4, NothingCounted
<1>7. CASE worker[w].pc = "errored" /\ GivesUp(w)
  <2>1. w \in OwedFailures /\ w \notin OwedRetries
    BY <1>7 DEF RecordCounted, MayRecord, OwedRetries, OwedFailures
  <2>2. /\ OwedRetries' = OwedRetries
        /\ Cardinality(OwedFailures') = Cardinality(OwedFailures) - 1
    <3>1. Cardinality(OwedFailures \ {w}) = Cardinality(OwedFailures) - 1
      BY <1>1, <2>1, FS_RemoveElement, Zenon
    <3> QED BY <1>2, <2>1, <3>1
  <2>3. CASE ReportLost(w)
    <3>1. Retried' = Retried /\ Failed' = Failed
      BY <2>3 DEF ReportLost, Retried, Failed, EventsOfTypes, Inserted
    <3>2. Slack' = Slack + Cardinality(WorkerNames)
      BY <1>0, <2>3, SlackGrows DEF ReportLost
    <3>3. Cardinality(WorkerNames) >= 1
      BY <1>1, FS_EmptySet, EffectsAssumption DEF Workers
    <3>4. Balance'
      BY <1>1, <1>4, <1>3, <2>2, <3>1, <3>2, <3>3 DEF Balance
    <3> QED BY <1>5, <3>1, <3>4 DEF CountersInv
  <2>4. CASE Report(w)
    <3>1. MayBury({worker[w].job})
      BY <1>0 DEF EffectsInv, TimelyInv, ExclusiveOwnership, LettersAreFailures, MayBury
    <3>2. Fail(worker[w].job)
      BY <1>7, <2>4, <3>1 DEF Report, RecordOutcome
    <3>3. /\ Retried' = Retried
          /\ \E x : x \notin Failed /\ Failed' = Failed \cup {x}
      BY <1>0, <3>2, CountedEvent
    <3>4. IsFiniteSet(Failed') /\ Cardinality(Failed') = Cardinality(Failed) + 1
      BY <3>3, FS_AddElement DEF CountersInv
    <3>5. Slack' = Slack
      BY <2>4 DEF Report, Slack
    <3>6. Balance'
      BY <1>1, <1>4, <1>3, <2>2, <3>3, <3>4, <3>5 DEF Balance
    <3> QED BY <1>5, <3>3, <3>4, <3>6 DEF CountersInv
  <2> QED BY <2>3, <2>4 DEF RecordCounted
<1>8. CASE worker[w].pc = "errored" /\ ~GivesUp(w)
  <2>1. w \in OwedRetries /\ w \notin OwedFailures
    BY <1>8 DEF RecordCounted, MayRecord, OwedRetries, OwedFailures
  <2>2. /\ OwedFailures' = OwedFailures
        /\ Cardinality(OwedRetries') = Cardinality(OwedRetries) - 1
    <3>1. Cardinality(OwedRetries \ {w}) = Cardinality(OwedRetries) - 1
      BY <1>1, <2>1, FS_RemoveElement, Zenon
    <3> QED BY <1>2, <2>1, <3>1
  <2>3. CASE ReportLost(w)
    <3>1. Retried' = Retried /\ Failed' = Failed
      BY <2>3 DEF ReportLost, Retried, Failed, EventsOfTypes, Inserted
    <3>2. Slack' = Slack + Cardinality(WorkerNames)
      BY <1>0, <2>3, SlackGrows DEF ReportLost
    <3>3. Cardinality(WorkerNames) >= 1
      BY <1>1, FS_EmptySet, EffectsAssumption DEF Workers
    <3>4. Balance'
      BY <1>1, <1>4, <1>3, <2>2, <3>1, <3>2, <3>3 DEF Balance
    <3> QED BY <1>5, <3>1, <3>4 DEF CountersInv
  <2>4. CASE Report(w)
    <3>1. \E delay \in RetryDelays : Retry(worker[w].job, delay)
      BY <1>8, <2>4 DEF Report, RecordOutcome
    <3>2. /\ Failed' = Failed
          /\ \E x : x \notin Retried /\ Retried' = Retried \cup {x}
      BY <1>0, <3>1, CountedEvent
    <3>3. IsFiniteSet(Retried') /\ Cardinality(Retried') = Cardinality(Retried) + 1
      BY <3>2, FS_AddElement DEF CountersInv
    <3>4. Slack' = Slack
      BY <2>4 DEF Report, Slack
    <3>5. Balance'
      BY <1>1, <1>4, <1>3, <2>2, <3>2, <3>3, <3>4 DEF Balance
    <3> QED BY <1>5, <3>2, <3>3, <3>5 DEF CountersInv
  <2> QED BY <2>3, <2>4 DEF RecordCounted
<1> QED BY <1>6, <1>7, <1>8 DEF RecordCounted, Report, ReportLost, Finished

\* The workers of one process are no more than the names.
LEMMA OfOneProcess ==
    ASSUME NEW S \in SUBSET Workers, NEW p, \A w \in S : ProcOf(w) = p
    PROVE  IsFiniteSet(S) /\ Cardinality(S) <= Cardinality(WorkerNames)
<1> DEFINE f == [w \in S |-> IdOf(w)]
<1>1. f \in Injection(S, WorkerNames)
  <2>1. f \in [S -> WorkerNames]
    BY DEF Workers, IdOf
  <2>2. ASSUME NEW v \in S, NEW w \in S, f[v] = f[w] PROVE v = w
    BY <2>2 DEF Workers, IdOf, ProcOf
  <2> HIDE DEF f
  <2> QED BY <2>1, <2>2 DEF Injection, IsInjective
<1> HIDE DEF f
<1> QED BY <1>1, FS_Injection, EffectsAssumption

\* A crash loses the counts owed by the workers of the process.
LEMMA CrashMidwayStep ==
    ASSUME EffectsTypeOK, CountersInv, NEW p \in Procs, CrashMidway(p)
    PROVE  CountersInv'
<1> DEFINE KR == {w \in OwedRetries : ProcOf(w) # p}
           KF == {w \in OwedFailures : ProcOf(w) # p}
           LR == {w \in OwedRetries : ProcOf(w) = p}
           LF == {w \in OwedFailures : ProcOf(w) = p}
<1>0. /\ retries_total \in Nat /\ dead_letters_total \in Nat /\ faults \in Nat
      /\ worker \in [Workers -> WorkerState] /\ midway \subseteq Workers
  BY QueueAssumption DEF EffectsTypeOK, TypeOK
<1>1. /\ Cardinality(Retried) \in Nat /\ Cardinality(Failed) \in Nat
      /\ IsFiniteSet(OwedRetries) /\ IsFiniteSet(OwedFailures)
      /\ Cardinality(WorkerNames) \in Nat /\ Slack \in Nat
  BY <1>0, CountsTyped DEF CountersInv
<1>2. /\ Retried' = Retried /\ Failed' = Failed
      /\ retries_total' = retries_total /\ dead_letters_total' = dead_letters_total
  BY DEF CrashMidway, Crash, Retried, Failed, EventsOfTypes, Inserted
<1>3. Slack' = Slack + Cardinality(WorkerNames)
  BY <1>0, SlackGrows DEF CrashMidway, Crash
<1>4. midway' \subseteq midway
  BY DEF CrashMidway
<1>5. IsFiniteSet(midway')
  BY <1>4, FS_Subset DEF CountersInv
<1>6. OwedRetries' = KR /\ OwedFailures' = KF
  <2>1. \A w \in midway' : worker'[w] = worker[w]
    BY <1>0 DEF CrashMidway, Crash, SetWorkers
  <2> QED BY <2>1 DEF CrashMidway, OwedRetries, OwedFailures, GivesUp
<1>7. /\ OwedRetries = KR \cup LR /\ KR \cap LR = {}
      /\ OwedFailures = KF \cup LF /\ KF \cap LF = {}
      /\ LR \cap LF = {}
  BY DEF OwedRetries, OwedFailures
<1>8. /\ LR \cup LF \in SUBSET Workers
      /\ \A w \in LR \cup LF : ProcOf(w) = p
  BY <1>0 DEF OwedRetries, OwedFailures
<1>9. /\ KR \subseteq OwedRetries /\ LR \subseteq OwedRetries
      /\ KF \subseteq OwedFailures /\ LF \subseteq OwedFailures
  OBVIOUS
<1> HIDE DEF KR, KF, LR, LF
<1>10. IsFiniteSet(KR) /\ IsFiniteSet(KF) /\ IsFiniteSet(LR) /\ IsFiniteSet(LF)
  BY <1>1, <1>9, FS_Subset
<1>11. /\ Cardinality(KR) \in Nat /\ Cardinality(LR) \in Nat
       /\ Cardinality(OwedRetries) = Cardinality(KR) + Cardinality(LR)
  BY <1>7, <1>10, DisjointUnion, Zenon
<1>12. /\ Cardinality(KF) \in Nat /\ Cardinality(LF) \in Nat
       /\ Cardinality(OwedFailures) = Cardinality(KF) + Cardinality(LF)
  BY <1>7, <1>10, DisjointUnion
<1>13. Cardinality(LR) + Cardinality(LF) <= Cardinality(WorkerNames)
  <2>1. Cardinality(LR \cup LF) <= Cardinality(WorkerNames)
    BY <1>8, OfOneProcess
  <2>2. Cardinality(LR \cup LF) = Cardinality(LR) + Cardinality(LF)
    BY <1>7, <1>10, DisjointUnion, Zenon
  <2> QED BY <2>1, <2>2
<1>14. Balance'
  <2>1. Balance
    BY DEF CountersInv
  <2>2. /\ Cardinality(OwedRetries') = Cardinality(KR)
        /\ Cardinality(OwedFailures') = Cardinality(KF)
    BY <1>6
  <2> QED BY <1>0, <1>1, <1>2, <1>3, <1>11, <1>12, <1>13, <2>1, <2>2 DEF Balance
<1> QED BY <1>2, <1>5, <1>14 DEF CountersInv

\* Every step keeps the balance.
LEMMA CountersStep ==
    ASSUME EffectsInv, CountersInv, [EffectsNext]_evars
    PROVE  CountersInv'
<1>0. /\ EffectsTypeOK /\ TypeOK /\ DownIsIdle
      /\ midway \subseteq {w \in Workers : worker[w].pc \in {"executing", "errored"}}
      /\ worker \in [Workers -> WorkerState]
      /\ IsFiniteSet(midway)
  BY DEF EffectsInv, EffectsTypeOK, TypeOK, CountersInv
<1> DEFINE Same == /\ OwedRetries' = OwedRetries /\ OwedFailures' = OwedFailures
                   /\ IsFiniteSet(midway')
                   /\ retries_total' = retries_total
                   /\ dead_letters_total' = dead_letters_total
           Quiet == Retried' = Retried /\ Failed' = Failed
<1>1. ASSUME NEW w \in Workers, OpenFile(w) PROVE Same /\ UNCHANGED vars
  <2>1. OwedRetries' = OwedRetries /\ OwedFailures' = OwedFailures
    BY <1>0, <1>1 DEF OpenFile, vars, OwedRetries, OwedFailures, GivesUp
  <2> QED BY <1>0, <1>1, <2>1, FS_AddElement DEF OpenFile
<1>2. ASSUME NEW w \in Workers, WriteFile(w) \/ WriteFileErrs(w)
      PROVE  Same /\ UNCHANGED <<storeVars, faults>>
  <2>1. /\ worker[w].pc = "executing" /\ midway' = midway \ {w}
        /\ \A v \in midway \ {w} : worker'[v] = worker[v]
    BY <1>0, <1>2 DEF WriteFile, WriteFileErrs, HandlerSucceeds, HandlerErrs
  <2>2. OwedRetries' = OwedRetries /\ OwedFailures' = OwedFailures
    BY <2>1 DEF OwedRetries, OwedFailures, GivesUp
  <2>3. IsFiniteSet(midway')
    BY <1>0, <2>1, FS_RemoveElement
  <2> QED BY <1>2, <2>2, <2>3 DEF WriteFile, WriteFileErrs, HandlerSucceeds,
             HandlerErrs, storeVars
<1>3. ASSUME OtherStep PROVE Same /\ (faults' = faults \/ Fault)
  <2>1. \A v \in midway : worker'[v] = worker[v]
    BY <1>0, <1>3, OthersKeepMidway
  <2>2. UNCHANGED effectVars
    BY <1>3 DEF OtherStep
  <2>3. OwedRetries' = OwedRetries /\ OwedFailures' = OwedFailures
    BY <2>1, <2>2 DEF effectVars, OwedRetries, OwedFailures, GivesUp
  <2>4. faults' = faults \/ Fault
    BY <1>3, Zenon DEF OtherStep, Submit, ClaimJob, ClaimAnswerLost, WorkerReturns,
       Sigterm, Exit, Start, Reap, TimePasses, queueVars
  <2> QED BY <1>0, <2>2, <2>3, <2>4 DEF effectVars
<1>4. ASSUME OtherStep PROVE Quiet
  <2>1. \/ UNCHANGED storeVars
        \/ \E j \in JobIds : Enqueue(j)
        \/ \E w \in Workers, j \in JobIds : Claim(IdOf(w), {j})
        \/ \E S \in SUBSET JobIds : ReapExpiredLeases(S)
        \/ Tick
    BY <1>4, Zenon DEF OtherStep, Submit, ClaimJob, ClaimAnswerLost, WorkerReturns,
       Sigterm, Exit, Start, Reap, TimePasses, storeVars
  <2> QED BY <1>0, <2>1, Uncounted, Zenon
<1>5. ASSUME UNCHANGED evars PROVE Same /\ UNCHANGED vars
  BY <1>0, <1>5 DEF evars, vars, OwedRetries, OwedFailures, GivesUp
<1>6. UNCHANGED storeVars => Quiet
  BY <1>0, Uncounted
<1>7. UNCHANGED vars => UNCHANGED <<storeVars, faults>>
  BY DEF vars, storeVars
<1>8. ASSUME Same, Quiet, faults' = faults \/ Fault PROVE CountersInv'
  BY <1>0, <1>8, NothingCounted
<1>9. ASSUME NEW w \in Workers, CountOutcome(w) PROVE CountersInv'
  BY <1>0, <1>9, CountOutcomeStep
<1>10. ASSUME NEW w \in Workers, RecordCounted(w) PROVE CountersInv'
  BY <1>10, RecordCountedStep
<1>11. ASSUME NEW p \in Procs, CrashMidway(p) PROVE CountersInv'
  BY <1>0, <1>11, CrashMidwayStep
<1> HIDE DEF Same, Quiet
<1> QED BY <1>1, <1>2, <1>3, <1>4, <1>5, <1>6, <1>7, <1>8, <1>9, <1>10, <1>11
        DEF EffectsNext

\* Nothing is counted and nothing is owed initially.
LEMMA CountersInit == EffectsInit => CountersInv
<1> SUFFICES ASSUME EffectsInit PROVE CountersInv
  OBVIOUS
<1>1. Retried = {} /\ Failed = {}
  BY DEF EffectsInit, Init, StoreInit, Retried, Failed, EventsOfTypes
<1>2. midway = {} /\ OwedRetries = {} /\ OwedFailures = {}
  BY DEF EffectsInit, OwedRetries, OwedFailures
<1>3. IsFiniteSet({}) /\ Cardinality({}) = 0
  BY FS_EmptySet
<1>4. Slack = 0
  BY FS_CardinalityType, EffectsAssumption DEF EffectsInit, Init, Slack
<1> QED BY <1>1, <1>2, <1>3, <1>4 DEF EffectsInit, CountersInv, Balance

\* Through lost reports and crashes between the count and the statement,
\* every retry and failure a worker recorded was counted once, and what was
\* counted too much is bounded by the faults.
THEOREM CountersCorrect ==
    ASSUME HandlersMeetLease
    PROVE  EffectsSpec => []CountersFollowEvents
<1>1. ASSUME EffectsInv, CountersInv, [EffectsNext]_evars PROVE CountersInv'
  BY <1>1, CountersStep
<1>2. CountersInv => CountersFollowEvents
  BY BalanceIsFollowing DEF CountersInv
<1> QED BY <1>1, <1>2, CountersInit, EffectsInvariance, PTL DEF EffectsSpec
=============================================================================
