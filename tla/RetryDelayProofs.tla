-------------------------- MODULE RetryDelayProofs --------------------------
(***************************************************************************)
(* The bounds of the retry delay, proved for every width of a Duration and *)
(* all settings.  JobStore assumes RetryDelays \subseteq Nat on the        *)
(* strength of this.                                                       *)
(***************************************************************************)
EXTENDS RetryDelay, WellFoundedInduction, TLAPS

\* In the first iteration delay is the base, and from then on it is between 0
\* and the cap: doubling wraps around to a negative number at worst, which the
\* loop notices.  The first attempt leaves the loop with the base, a later one
\* with the cap at most.
DelayInv ==
    /\ TypeOK
    /\ pc = "loop" => IF i = 1 THEN delay = retryBaseDelay
                               ELSE 0 < delay /\ delay <= maxRetryDelay
    /\ pc # "loop" => IF attempts = 1 THEN delay = retryBaseDelay
                                      ELSE delay <= maxRetryDelay
    /\ pc = "done" => DelayWithinSettings

\* Init establishes the invariant.
LEMMA DelayInitInv == Init => DelayInv
BY DelayAssumption DEF Init, DelayInv, TypeOK, Duration, DelayWithinSettings

\* Every step preserves it.
LEMMA DelayNextInv == DelayInv /\ [Next]_delayVars => DelayInv'
<1> SUFFICES ASSUME DelayInv, [Next]_delayVars PROVE DelayInv'
  OBVIOUS
<1> USE DelayAssumption DEF DelayInv, TypeOK, Duration
<1>1. CASE Iterate
  <2>1. CASE OverCap(Doubled(delay))
    BY <1>1, <2>1 DEF Iterate
  <2>2. CASE ~OverCap(Doubled(delay))
    <3>1. Doubled(delay) \in Int /\ 0 < Doubled(delay) /\ Doubled(delay) <= maxRetryDelay
      BY <2>2 DEF OverCap, Doubled
    <3>2. /\ delay' = Doubled(delay) /\ i' = i + 1 /\ i < attempts /\ pc' = "loop"
          /\ UNCHANGED <<retryBaseDelay, maxRetryDelay, attempts, result>>
      BY <1>1, <2>2 DEF Iterate
    <3> QED BY <3>1, <3>2
  <2> QED BY <2>1, <2>2
<1>2. CASE LoopEnds
  BY <1>2 DEF LoopEnds
<1>3. CASE Draw
  <2>1. /\ result' \in 0 .. (Half - 1)
        /\ result' > 0 => result' < delay
    BY <1>3 DEF Draw, Drawn
  <2> QED BY <1>3, <2>1 DEF Draw, DelayWithinSettings
<1>4. CASE UNCHANGED delayVars
  BY <1>4 DEF delayVars, DelayWithinSettings
<1> QED BY <1>1, <1>2, <1>3, <1>4 DEF Next

\* Every value calculateRetryDelay computes with is a Duration, the wrapped
\* double included.
THEOREM DelayTypeCorrect == Spec => []TypeOK
<1>1. DelayInv => TypeOK
  BY DEF DelayInv
<1> QED BY <1>1, DelayInitInv, DelayNextInv, PTL DEF Spec

\* A retry is never put before now, nor as far ahead as the base after the
\* first attempt and the cap after a later one, whatever the settings and
\* however the doubling overflows.
THEOREM DelayBounded == Spec => []DelayWithinSettings
<1>1. DelayInv => DelayWithinSettings
  BY DEF DelayInv, DelayWithinSettings
<1> QED BY <1>1, DelayInitInv, DelayNextInv, PTL DEF Spec

-----------------------------------------------------------------------------
(***************************************************************************)
(* The loop computes the capped exponential backoff.                       *)
(***************************************************************************)

\* A set of naturals has a least element.  Induction over the naturals is done
\* below by looking at the least counterexample.
LEMMA Least ==
    ASSUME NEW T \in SUBSET Nat, T # {}
    PROVE  \E x \in T : \A y \in T : x <= y
<1>1. PICK x \in T : \A y \in T : ~ (<<y, x>> \in OpToRel(<, Nat))
  BY WFMin, NatLessThanWellFounded, Zenon
<1>2. \A y \in T : ~ (y < x)
  BY <1>1 DEF OpToRel
<1> HIDE <1>1
<1> QED BY <1>2

\* g is Power, as far as m.
Powers(m, g) ==
    /\ g \in [0 .. m -> Nat]
    /\ g[0] = 1
    /\ \A k \in 1 .. m : g[k] = 2 * g[k - 1]

\* Every initial part of Power exists,
LEMMA PowersExist == \A m \in Nat : \E g : Powers(m, g)
<1> DEFINE T == {m \in Nat : ~ \E g : Powers(m, g)}
<1> SUFFICES ASSUME T # {} PROVE FALSE
  OBVIOUS
<1>1. PICK m \in T : \A k \in T : m <= k
  BY Least
<1>2. m # 0
  <2>1. Powers(0, [k \in 0 .. 0 |-> 1])
    BY DEF Powers
  <2> QED BY <1>1, <2>1
<1>3. PICK g : Powers(m - 1, g)
  BY <1>1, <1>2
<1>4. Powers(m, [k \in 0 .. m |-> IF k = m THEN 2 * g[m - 1] ELSE g[k]])
  BY <1>1, <1>2, <1>3 DEF Powers
<1> QED BY <1>1, <1>4

\* and two of them agree as far as they both go,
LEMMA PowersAgree ==
    ASSUME NEW m \in Nat, NEW g, Powers(m, g), NEW n \in Nat, NEW h, Powers(n, h), m <= n
    PROVE  \A k \in 0 .. m : g[k] = h[k]
<1> DEFINE T == {k \in 0 .. m : g[k] # h[k]}
<1> SUFFICES ASSUME T # {} PROVE FALSE
  OBVIOUS
<1>1. PICK k \in T : \A l \in T : k <= l
  <2>1. T \in SUBSET Nat
    OBVIOUS
  <2> HIDE DEF T
  <2> QED BY <2>1, Least
<1>2. k # 0
  BY DEF Powers
<1>3. g[k - 1] = h[k - 1]
  BY <1>1, <1>2
<1> QED BY <1>1, <1>2, <1>3 DEF Powers

\* so that the recursive definition of Power defines a function,
LEMMA PowerDef == Power = [n \in Nat |-> IF n = 0 THEN 1 ELSE 2 * Power[n - 1]]
<1> DEFINE C(n) == CHOOSE g : Powers(n, g)
           G == [n \in Nat |-> C(n)[n]]
<1>1. \A n \in Nat : Powers(n, C(n))
  BY PowersExist
<1> HIDE DEF C
<1>2. ASSUME NEW n \in Nat PROVE G[n] = IF n = 0 THEN 1 ELSE 2 * G[n - 1]
  <2>1. CASE n = 0
    BY <1>1, <2>1 DEF Powers
  <2>2. CASE n # 0
    <3>1. C(n - 1)[n - 1] = C(n)[n - 1]
      BY <1>1, <2>2, PowersAgree
    <3>2. C(n)[n] = 2 * C(n)[n - 1]
      BY <1>1, <2>2 DEF Powers
    <3> QED BY <2>2, <3>1, <3>2
  <2> QED BY <2>1, <2>2
<1>3. G = [n \in Nat |-> IF n = 0 THEN 1 ELSE 2 * G[n - 1]]
  BY <1>2
<1> HIDE DEF G
<1> QED BY <1>3 DEF Power

\* with these two equations.
LEMMA PowerRec ==
    /\ Power[0] = 1
    /\ \A n \in Nat : Power[n + 1] = 2 * Power[n]
<1>1. \A n \in Nat : Power[n] = IF n = 0 THEN 1 ELSE 2 * Power[n - 1]
  BY PowerDef, Zenon
<1> QED BY <1>1

\* More doublings never make a delay shorter.
LEMMA PowerGrows ==
    ASSUME NEW m \in Nat, NEW n \in Nat, m <= n
    PROVE  Power[m] \in Nat /\ Power[n] \in Nat /\ Power[m] <= Power[n]
<1>1. \A k \in Nat : Power[k] \in Nat
  <2> DEFINE T == {k \in Nat : Power[k] \notin Nat}
  <2> SUFFICES ASSUME T # {} PROVE FALSE
    OBVIOUS
  <2>1. PICK k \in T : \A l \in T : k <= l
    BY Least
  <2>2. k # 0
    BY PowerRec
  <2>3. Power[k - 1] \in Nat /\ k - 1 \in Nat
    BY <2>1, <2>2
  <2> QED BY <2>3, PowerRec
<1> DEFINE T == {k \in Nat : m <= k /\ Power[k] < Power[m]}
<1> SUFFICES ASSUME T # {} PROVE FALSE
  BY <1>1
<1>2. PICK k \in T : \A l \in T : k <= l
  BY Least
<1>3. k # m
  BY <1>1
<1>4. k - 1 \in Nat /\ m <= k - 1 /\ k - 1 \notin T
  BY <1>2, <1>3
<1>5. Power[k] = 2 * Power[k - 1]
  BY <1>4, PowerRec
<1> QED BY <1>1, <1>4, <1>5

\* While the loop runs, delay is the base doubled i - 1 times and has not
\* passed the cap; the loop leaves it early only if the remaining doublings
\* would all be past the cap.
BackoffInv ==
    0 < retryBaseDelay /\ retryBaseDelay <= maxRetryDelay =>
        /\ pc = "loop" => /\ delay = retryBaseDelay * Power[i - 1]
                          /\ 0 < delay /\ delay <= maxRetryDelay
        /\ pc # "loop" => delay = Smaller(retryBaseDelay * Power[attempts - 1],
                                          maxRetryDelay)

\* An iteration multiplies by two, or finds a double past the cap.
LEMMA DoublingIsExact ==
    ASSUME TypeOK, 0 < delay, delay <= maxRetryDelay
    PROVE  /\ OverCap(Doubled(delay)) => 2 * delay > maxRetryDelay
           /\ ~OverCap(Doubled(delay)) => Doubled(delay) = 2 * delay
BY DelayAssumption DEF TypeOK, Duration, OverCap, Doubled

\* Multiplication by a natural number is monotonic.
LEMMA TimesGrows ==
    ASSUME NEW b \in Nat, NEW x \in Nat, NEW y \in Nat, x <= y
    PROVE  b * x \in Nat /\ b * y \in Nat /\ b * x <= b * y
<1>1. b * y = b * x + b * (y - x) /\ b * (y - x) >= 0
  OBVIOUS
<1> QED BY <1>1

\* Every step keeps the delay on the backoff curve.
LEMMA BackoffStep ==
    ASSUME DelayInv, BackoffInv, [Next]_delayVars
    PROVE  BackoffInv'
<1> SUFFICES ASSUME 0 < retryBaseDelay, retryBaseDelay <= maxRetryDelay,
                    UNCHANGED <<retryBaseDelay, maxRetryDelay, attempts>>
             PROVE  /\ pc' = "loop" => /\ delay' = retryBaseDelay * Power[i' - 1]
                                       /\ 0 < delay' /\ delay' <= maxRetryDelay
                    /\ pc' # "loop" => delay' = Smaller(retryBaseDelay * Power[attempts - 1],
                                                        maxRetryDelay)
  BY DEF BackoffInv, Next, Iterate, LoopEnds, Draw, delayVars, Smaller
<1>0. /\ TypeOK /\ retryBaseDelay \in Nat /\ maxRetryDelay \in Nat
      /\ i \in Nat /\ attempts \in Nat /\ 1 <= i /\ i <= attempts /\ delay \in Int
  BY DelayAssumption DEF DelayInv, TypeOK, Duration
<1>1. CASE Iterate
  <2>1. /\ delay = retryBaseDelay * Power[i - 1]
        /\ 0 < delay /\ delay <= maxRetryDelay /\ pc = "loop" /\ i < attempts
    BY <1>1 DEF BackoffInv, Iterate
  <2>2. 2 * delay = retryBaseDelay * Power[i]
    <3>1. Power[i - 1] \in Nat /\ Power[i] = 2 * Power[i - 1]
      BY <1>0, PowerRec, PowerGrows
    <3> QED BY <1>0, <2>1, <3>1
  <2>3. CASE OverCap(Doubled(delay))
    <3>1. delay' = maxRetryDelay /\ pc' = "draw"
      BY <1>1, <2>3 DEF Iterate
    <3>2. /\ retryBaseDelay * Power[i] <= retryBaseDelay * Power[attempts - 1]
          /\ retryBaseDelay * Power[attempts - 1] \in Nat
      <4>1. Power[i] \in Nat /\ Power[attempts - 1] \in Nat /\ Power[i] <= Power[attempts - 1]
        BY <1>0, <2>1, PowerGrows
      <4> QED BY <1>0, <4>1, TimesGrows
    <3>3. 2 * delay > maxRetryDelay
      BY <1>0, <2>1, <2>3, DoublingIsExact
    <3> QED BY <1>0, <2>2, <3>1, <3>2, <3>3 DEF Smaller
  <2>4. CASE ~OverCap(Doubled(delay))
    <3>1. delay' = Doubled(delay) /\ pc' = "loop" /\ i' = i + 1
      BY <1>1, <2>1, <2>4 DEF Iterate
    <3>2. Doubled(delay) = 2 * delay
      BY <1>0, <2>1, <2>4, DoublingIsExact
    <3>3. 0 < delay' /\ delay' <= maxRetryDelay
      BY <1>0, <2>1, <2>4, <3>1, <3>2 DEF OverCap
    <3> QED BY <1>0, <2>2, <3>1, <3>2, <3>3
  <2> QED BY <2>3, <2>4
<1>2. CASE LoopEnds
  <2>1. /\ i = attempts /\ delay' = delay /\ pc = "loop" /\ pc' = "draw"
    BY <1>0, <1>2 DEF LoopEnds
  <2> QED BY <1>0, <2>1 DEF BackoffInv, Smaller
<1>3. CASE Draw \/ UNCHANGED delayVars
  BY <1>3 DEF Draw, delayVars, BackoffInv
<1> QED BY <1>1, <1>2, <1>3 DEF Next

\* With sensible settings calculateRetryDelay draws below the base doubled
\* for every attempt after the first, or below the cap if that is less, also
\* where the doubling overflows.
THEOREM BackoffIsCapped == Spec => []DelayIsCappedBackoff
<1>1. Init => BackoffInv
  <2> SUFFICES ASSUME Init, 0 < retryBaseDelay, retryBaseDelay <= maxRetryDelay
               PROVE  /\ delay = retryBaseDelay * Power[i - 1]
                      /\ 0 < delay /\ delay <= maxRetryDelay
    BY DEF Init, BackoffInv
  <2>1. delay = retryBaseDelay /\ i - 1 = 0 /\ retryBaseDelay \in Int
    BY DelayAssumption DEF Init, Duration
  <2> QED BY <2>1, PowerRec
<1>2. BackoffInv => DelayIsCappedBackoff
  BY DEF BackoffInv, DelayIsCappedBackoff
<1> QED BY <1>1, <1>2, DelayInitInv, DelayNextInv, BackoffStep, PTL DEF Spec
=============================================================================
