-------------------------------- MODULE Retry --------------------------------
(***************************************************************************)
(* internal/retry.Do: call fn up to MaxAttempts times, with a wait between *)
(* two calls that doubles up to MaxDelay, until it succeeds or the context *)
(* is cancelled.  One behaviour is one call of Do.                         *)
(*                                                                         *)
(* A time.Duration has Width bits: the doubled delay wraps around, and the *)
(* power of two itself no longer fits from attempt Width on.               *)
(***************************************************************************)
EXTENDS Integers

CONSTANTS
    Width,    \* bits of a time.Duration
    Attempts, \* values of Config.MaxAttempts
    Delays    \* values of Config.BaseDelay and Config.MaxDelay

MaxInt == 2 ^ (Width - 1) - 1
MinInt == -(2 ^ (Width - 1))

ASSUME ConstantsAssumption ==
    /\ Width \in Nat \ {0}
    /\ Attempts \subseteq Nat
    /\ Delays \subseteq 0 .. MaxInt

VARIABLES
    cfg,       \* the Config
    pc,        \* "call" while fn runs, "wait" in the select, "done"
    attempt,   \* the loop counter
    left,      \* the time left until the timer of the select fires
    waited,    \* the time waited so far
    cancelled, \* ctx is cancelled
    late,      \* calls of fn begun after that
    result     \* what Do returned

vars == <<cfg, pc, attempt, left, waited, cancelled, late, result>>

Configs == [MaxAttempts : Attempts, BaseDelay : Delays, MaxDelay : Delays]

TypeOK ==
    /\ cfg \in Configs
    /\ pc \in {"call", "wait", "done"}
    /\ attempt \in {1} \cup 1 .. cfg.MaxAttempts
    /\ left \in 0 .. cfg.MaxDelay
    /\ waited \in Nat
    /\ cancelled \in BOOLEAN
    /\ late \in Nat
    /\ result \in {"none", "nil", "exhausted", "cancelled"}

\* Without an attempt fn is not called at all.
Init ==
    /\ cfg \in Configs
    /\ pc = IF cfg.MaxAttempts = 0 THEN "done" ELSE "call"
    /\ result = IF cfg.MaxAttempts = 0 THEN "exhausted" ELSE "none"
    /\ attempt = 1
    /\ left = 0
    /\ waited = 0
    /\ cancelled = FALSE
    /\ late = 0

-----------------------------------------------------------------------------
(* Durations.                                                              *)

Wrap(x) == ((x - MinInt) % 2 ^ Width) + MinInt

\* time.Duration(math.Pow(2, i)).  The conversion of a float that is out of
\* range gives the least or the greatest integer, by architecture.
PowersOfTwo(i) == IF 2 ^ i <= MaxInt THEN {2 ^ i} ELSE {MinInt, MaxInt}

\* Faulty variant: the first wait is already doubled.
BackoffsFromTwo(i) ==
    {LET d == Wrap(power * cfg.BaseDelay)
     IN  IF d > cfg.MaxDelay THEN cfg.MaxDelay ELSE d : power \in PowersOfTwo(i)}

\* Faulty variant: the delay is not capped.
BackoffsUncapped(i) == {Wrap(power * cfg.BaseDelay) : power \in PowersOfTwo(i - 1)}

\* The delays the loop may compute after attempt i.
Backoffs(i) ==
    {LET d == Wrap(power * cfg.BaseDelay)
     IN  IF d > cfg.MaxDelay THEN cfg.MaxDelay ELSE d : power \in PowersOfTwo(i - 1)}

-----------------------------------------------------------------------------
(* Do.                                                                     *)

Return(r) == pc' = "done" /\ result' = r

Succeeds ==
    /\ pc = "call"
    /\ Return("nil")
    /\ UNCHANGED <<cfg, attempt, left, waited, cancelled, late>>

\* The last failed attempt is not waited for.
FailsLast ==
    /\ pc = "call"
    /\ attempt = cfg.MaxAttempts
    /\ Return("exhausted")
    /\ UNCHANGED <<cfg, attempt, left, waited, cancelled, late>>

NextAttempt ==
    /\ pc' = "call"
    /\ attempt' = attempt + 1
    /\ late' = IF cancelled THEN late + 1 ELSE late

\* Faulty variant: the next attempt is made at once.
FailsAndRepeats ==
    /\ pc = "call"
    /\ attempt < cfg.MaxAttempts
    /\ NextAttempt
    /\ UNCHANGED <<cfg, left, waited, cancelled, result>>

\* A timer that is not set to the future fires at once.
Fails ==
    /\ pc = "call"
    /\ attempt < cfg.MaxAttempts
    /\ \E d \in Backoffs(attempt) : left' = IF d > 0 THEN d ELSE 0
    /\ pc' = "wait"
    /\ UNCHANGED <<cfg, attempt, waited, cancelled, late, result>>

\* Faulty variant: the attempt is not counted.
ElapsesUncounted ==
    /\ pc = "wait"
    /\ left = 0
    /\ pc' = "call"
    /\ late' = IF cancelled THEN late + 1 ELSE late
    /\ UNCHANGED <<cfg, attempt, left, waited, cancelled, result>>

\* When both cases of the select are ready, either may be taken.
Elapses ==
    /\ pc = "wait"
    /\ left = 0
    /\ NextAttempt
    /\ UNCHANGED <<cfg, left, waited, cancelled, result>>

Cancelled ==
    /\ pc = "wait"
    /\ cancelled
    /\ Return("cancelled")
    /\ UNCHANGED <<cfg, attempt, left, waited, cancelled, late>>

\* Time.  A select with a ready case is left before time goes on.
Tick ==
    /\ pc = "wait"
    /\ left > 0
    /\ ~cancelled
    /\ left' = left - 1
    /\ waited' = waited + 1
    /\ UNCHANGED <<cfg, pc, attempt, cancelled, late, result>>

\* The worker process is told to stop, at any moment.
Cancel ==
    /\ pc # "done"
    /\ ~cancelled
    /\ cancelled' = TRUE
    /\ UNCHANGED <<cfg, pc, attempt, left, waited, late, result>>

Finished == pc = "done" /\ UNCHANGED vars

-----------------------------------------------------------------------------

Do == Succeeds \/ FailsLast \/ Fails \/ Elapses \/ Cancelled

Next == Do \/ Tick \/ Cancel \/ Finished

Spec == Init /\ [][Next]_vars

\* fn returns (the senders make no call that may block), the goroutine runs,
\* and time passes.
FairSpec == Spec /\ WF_vars(Do) /\ WF_vars(Tick)

-----------------------------------------------------------------------------

\* The documented schedule, in unbounded integers: the time waited before
\* attempt n under the Config c.
Least(a, b) == IF a < b THEN a ELSE b
Schedule(c) ==
    LET before[n \in Nat] ==
            IF n <= 1 THEN 0
            ELSE before[n - 1] + Least(2 ^ (n - 2) * c.BaseDelay, c.MaxDelay)
    IN  before

\* The last delay computed so far is the exact one.
Exact == attempt = 1 \/ 2 ^ (attempt - 2) * cfg.BaseDelay <= MaxInt

\* "attempt 1 fails -> wait 100ms -> attempt 2 fails -> wait 200ms -> attempt
\* 3 fails -> return error": the waits add up to the schedule, none of it
\* after the last attempt.  When the doubling overflows they are shorter than
\* the schedule, never longer: the cap holds for every delay.
WaitsAddUp ==
    /\ pc = "call" \/ result \in {"nil", "exhausted"} =>
           /\ waited <= Schedule(cfg)[attempt]
           /\ Exact => waited = Schedule(cfg)[attempt]
    /\ waited + left <= Schedule(cfg)[attempt + 1]

\* "Stops early if ctx is cancelled": at most one more call is begun after
\* the cancellation, the one the select may still choose when its timer has
\* just fired; as long as there is a delay that does not overflow to nothing.
StopsEarly ==
    0 \notin {cfg.BaseDelay, cfg.MaxDelay} /\ Exact => late <= 1

\* Do returns, however often fn fails.
Returns == <>(pc = "done")
=============================================================================
