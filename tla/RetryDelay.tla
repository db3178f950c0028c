----------------------------- MODULE RetryDelay -----------------------------
(***************************************************************************)
(* calculateRetryDelay of internal/worker, one iteration of its loop per   *)
(* step.  A time.Duration is a signed integer of fixed width, and delay    *)
(* *= 2 wraps around.  The two settings come from the environment          *)
(* (RETRY_BASE_DELAY, MAX_RETRY_DELAY) and are not validated: any value of *)
(* the type is possible.                                                   *)
(***************************************************************************)
EXTENDS Integers

CONSTANTS
    Half,        \* 2^63: a Duration is in -Half .. Half - 1
    MaxAttempts  \* the attempts after which a job is not retried

ASSUME DelayAssumption ==
    /\ Half \in Nat \ {0}
    /\ MaxAttempts \in Nat \ {0}

Duration == -Half .. Half - 1

VARIABLES
    retryBaseDelay,
    maxRetryDelay,
    attempts,  \* of the job
    i,         \* the loop variable
    delay,
    pc,
    result     \* the delay returned

delayVars == <<retryBaseDelay, maxRetryDelay, attempts, i, delay, pc, result>>

\* 2 * d as the hardware has it.
Doubled(d) ==
    IF 2 * d >= Half THEN 2 * d - 2 * Half
    ELSE IF 2 * d < -Half THEN 2 * d + 2 * Half
    ELSE 2 * d

TypeOK ==
    /\ retryBaseDelay \in Duration
    /\ maxRetryDelay \in Duration
    /\ attempts \in 1 .. MaxAttempts
    /\ i \in 1 .. attempts
    /\ delay \in Duration
    /\ pc \in {"loop", "draw", "done"}
    /\ result \in Duration

Init ==
    /\ retryBaseDelay \in Duration
    /\ maxRetryDelay \in Duration
    /\ attempts \in 1 .. MaxAttempts
    /\ i = 1
    /\ delay = retryBaseDelay
    /\ pc = "loop"
    /\ result = 0

\* Mistake: an overflow is not looked for.
OverCapUnchecked(d) == d > maxRetryDelay

OverCap(d) == d > maxRetryDelay \/ d <= 0

Iterate ==
    /\ pc = "loop"
    /\ i < attempts
    /\ IF OverCap(Doubled(delay))
       THEN delay' = maxRetryDelay /\ pc' = "draw" /\ UNCHANGED i
       ELSE delay' = Doubled(delay) /\ i' = i + 1 /\ UNCHANGED pc
    /\ UNCHANGED <<retryBaseDelay, maxRetryDelay, attempts, result>>

LoopEnds ==
    /\ pc = "loop"
    /\ i >= attempts
    /\ pc' = "draw"
    /\ UNCHANGED <<retryBaseDelay, maxRetryDelay, attempts, i, delay, result>>

\* Mistake: the bound itself can be drawn.
DrawnInclusive == IF delay <= 0 THEN {0} ELSE 0 .. delay

\* rand.Int64N panics on a bound that is not positive.
Drawn == IF delay <= 0 THEN {0} ELSE 0 .. delay - 1

Draw ==
    /\ pc = "draw"
    /\ result' \in Drawn
    /\ pc' = "done"
    /\ UNCHANGED <<retryBaseDelay, maxRetryDelay, attempts, i, delay>>

Next == Iterate \/ LoopEnds \/ Draw

Spec == Init /\ [][Next]_delayVars
-----------------------------------------------------------------------------
(* Properties *)

Smaller(a, b) == IF a < b THEN a ELSE b

\* 2 ^ n
Power[n \in Nat] == IF n = 0 THEN 1 ELSE 2 * Power[n - 1]

\* With sensible settings the bound of the delay is the base doubled for
\* every attempt after the first, or the cap if that is less, also where
\* the doubling overflows.
DelayIsCappedBackoff ==
    /\ pc # "loop"
    /\ 0 < retryBaseDelay
    /\ retryBaseDelay <= maxRetryDelay
    => delay = Smaller(retryBaseDelay * Power[attempts - 1], maxRetryDelay)

\* Whatever the settings, a retry is never put before now, and from the
\* second attempt on never as far ahead as the cap.  The first attempt does
\* not enter the loop that compares with the cap: its bound is the base,
\* also where that is above the cap.
DelayWithinSettings ==
    pc = "done" =>
        /\ result >= 0
        /\ result > 0 => result < (IF attempts = 1 THEN retryBaseDelay ELSE maxRetryDelay)

=============================================================================
