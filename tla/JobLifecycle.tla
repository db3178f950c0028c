---------------------------- MODULE JobLifecycle ----------------------------
(***************************************************************************)
(* What the queue promises of each job, without workers, leases or time:   *)
(* a job is attempted at most MaxAttempts times, ends at most once, as     *)
(* completed or, when its attempts are spent, as failed, and the failed    *)
(* jobs are exactly the dead-lettered ones.                                *)
(***************************************************************************)
EXTENDS Naturals

CONSTANTS JobIds, MaxAttempts

VARIABLES
    status,    \* of each job
    attempts,  \* made at each job
    letters    \* the dead-lettered jobs

Init ==
    /\ status = [j \in JobIds |-> "absent"]
    /\ attempts = [j \in JobIds |-> 0]
    /\ letters = {}

Move(j, from, to) == status[j] = from /\ status'[j] = to

Attempt(j) ==
    /\ Move(j, "queued", "running")
    /\ attempts[j] < MaxAttempts
    /\ attempts'[j] = attempts[j] + 1

Settle(j) ==
    /\ \/ Move(j, "absent", "queued")
       \/ Move(j, "running", "completed")
       \/ Move(j, "running", "queued") /\ attempts[j] < MaxAttempts
       \/ Move(j, "running", "failed") /\ attempts[j] = MaxAttempts
    /\ attempts'[j] = attempts[j]

Stay(j) == status'[j] = status[j] /\ attempts'[j] = attempts[j]

\* Several jobs may move in one step.
Next ==
    /\ \A j \in JobIds : Attempt(j) \/ Settle(j) \/ Stay(j)
    /\ letters' = {j \in JobIds : status'[j] = "failed"}

Spec == Init /\ [][Next]_<<status, attempts, letters>>
=============================================================================
