---------------------------- MODULE SideEffects -----------------------------
(***************************************************************************)
(* What running a job leaves behind outside the tables: the file that the  *)
(* handler write_file writes, and the counters retries_total and           *)
(* dead_letters_total.  Neither is part of the statement that records the  *)
(* outcome, so that crashes, lost reports and other workers come between.  *)
(*                                                                         *)
(* All jobs are of the type write_file, each with a file name of its own,  *)
(* and the processes share WRITE_FILE_DIR.  A counter stands for all that  *)
(* the processes have ever added to it.                                    *)
(***************************************************************************)
EXTENDS Reports

\* WORKER_CONCURRENCY workers to a process.
ASSUME EffectsAssumption == IsFiniteSet(WorkerNames)

VARIABLES
    file,                \* the file of each job
    midway,              \* workers between the two halves of what they do
    retries_total,       \* Metrics.Retries
    dead_letters_total   \* Metrics.DeadLetters

effectVars == <<file, midway, retries_total, dead_letters_total>>

evars == <<jobs, dead_letters, job_events, proc, worker, executed, faults,
           file, midway, retries_total, dead_letters_total>>

\* "partial": truncated, and less than the content written since.
FileStates == {"absent", "partial", "whole"}

EffectsTypeOK ==
    /\ TypeOK
    /\ file \in [JobIds -> FileStates]
    /\ midway \subseteq {w \in Workers : worker[w].pc \in {"executing", "errored"}}
    /\ retries_total \in Nat
    /\ dead_letters_total \in Nat

EffectsInit ==
    /\ Init
    /\ file = [j \in JobIds |-> "absent"]
    /\ midway = {}
    /\ retries_total = 0
    /\ dead_letters_total = 0

-----------------------------------------------------------------------------
(* os.WriteFile *)

\* It opens the file with O_TRUNC,
OpenFile(w) ==
    /\ worker[w].pc = "executing"
    /\ w \notin midway
    /\ file' = [file EXCEPT ![worker[w].job] = "partial"]
    /\ midway' = midway \cup {w}
    /\ UNCHANGED <<vars, retries_total, dead_letters_total>>

\* and writes the content.  Runs of one job write the same bytes at the same
\* place, so that one complete write makes the file whole.
WriteFile(w) ==
    /\ w \in midway
    /\ HandlerSucceeds(w)
    /\ file' = [file EXCEPT ![worker[w].job] = "whole"]
    /\ midway' = midway \ {w}
    /\ UNCHANGED <<retries_total, dead_letters_total>>

\* Mistake: the error of os.WriteFile is dropped.
WriteFileErrorDropped(w) ==
    /\ \/ HandlerErrs(w)
       \/ w \in midway /\ HandlerSucceeds(w)
    /\ midway' = midway \ {w}
    /\ UNCHANGED <<file, retries_total, dead_letters_total>>

\* The payload or the name is refused, the directory or the file cannot be
\* opened, or the write fails.
WriteFileErrs(w) ==
    /\ HandlerErrs(w)
    /\ midway' = midway \ {w}
    /\ UNCHANGED <<file, retries_total, dead_letters_total>>

-----------------------------------------------------------------------------
(* Recording the outcome *)

\* process counts the outcome of a handler that erred,
CountOutcome(w) ==
    /\ worker[w].pc = "errored"
    /\ w \notin midway
    /\ midway' = midway \cup {w}
    /\ dead_letters_total' = dead_letters_total + (IF GivesUp(w) THEN 1 ELSE 0)
    /\ retries_total' = retries_total + (IF GivesUp(w) THEN 0 ELSE 1)
    /\ UNCHANGED <<vars, file>>

\* Mistake: an outcome is recorded whether or not it was counted.
MayRecordUncounted(w) == TRUE

MayRecord(w) == worker[w].pc = "errored" => w \in midway

\* and then issues the statement.
RecordCounted(w) ==
    /\ MayRecord(w)
    /\ Report(w) \/ ReportLost(w)
    /\ midway' = midway \ {w}
    /\ UNCHANGED <<file, retries_total, dead_letters_total>>

\* A crash leaves the file and what was counted as they are.
CrashMidway(p) ==
    /\ Crash(p)
    /\ midway' = {w \in midway : ProcOf(w) # p}
    /\ UNCHANGED <<file, retries_total, dead_letters_total>>

\* The steps without such an effect.
OtherStep ==
    /\ \/ \E j \in JobIds : Submit(j)
       \/ \E w \in Workers, j \in JobIds : ClaimJob(w, j) \/ ClaimAnswerLost(w, j)
       \/ \E w \in Workers : WorkerReturns(w)
       \/ \E p \in Procs : Sigterm(p) \/ Exit(p) \/ Start(p) \/ Reap(p)
       \/ TimePasses
    /\ UNCHANGED effectVars

EffectsNext ==
    \/ \E w \in Workers : \/ OpenFile(w) \/ WriteFile(w) \/ WriteFileErrs(w)
                          \/ CountOutcome(w) \/ RecordCounted(w)
    \/ \E p \in Procs : CrashMidway(p)
    \/ OtherStep

EffectsSpec == EffectsInit /\ [][EffectsNext]_evars

-----------------------------------------------------------------------------
(* Properties that need HandlersMeetLease *)

\* "running it more than once has the same observable result as running it
\* once": through crashes between truncation and write, lost reports and
\* repeated runs, the file of a completed job has its content, for good.
CompletedFileIsWhole ==
    \A j \in JobIds : jobs[j].status = "completed" => file[j] = "whole"

\* What is counted but not recorded yet.
Pending(gaveUp) ==
    Cardinality({w \in midway : worker[w].pc = "errored" /\ GivesUp(w) = gaveUp})

\* The counters against the outbox.  Every retry and every failure that a
\* worker records was counted before, once; a count without its event is
\* owed to a report still under way, to a lost one, or to a crash, which
\* takes at most one count from each worker of the process.  (Failures by
\* the reaper are in neither.)
CountersFollowEvents ==
    /\ retries_total >= countIf({"retried"}) + Pending(FALSE)
    /\ dead_letters_total >= countIf({"failed"}) + Pending(TRUE)
    /\ retries_total + dead_letters_total <=
           countIf({"retried"}) + Pending(FALSE) + countIf({"failed"}) + Pending(TRUE)
               + faults * Cardinality(WorkerNames)
=============================================================================
