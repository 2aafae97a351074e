---------------------------- MODULE AuthThrottle ----------------------------
(***************************************************************************)
(* The throttle on password attempts of a locked session                   *)
(* (daemon/src/domain/auth.rs) with everything that drives it: submissions *)
(* (app/runtime/auth.rs), verdicts handled by the loop                     *)
(* (app/events/auth.rs), new locks and reloads (app/helpers.rs).           *)
(*                                                                         *)
(* Daemon.tla keeps one bit of this; here the delays are numbers and time  *)
(* passes.  Instants are relative: auth.retryLeft is retry_after minus     *)
(* now, zero when it is None or past.  One unit of time is a millisecond;  *)
(* a run chooses the amounts that may pass in one step.                    *)
(***************************************************************************)
EXTENDS Naturals, Sequences

CONSTANTS
    Configs,        \* (auth_backoff_base_ms, auth_backoff_max_seconds) pairs
    MaxFailed,      \* u8::MAX, where failed_attempts saturates
    MaxShift,       \* the largest exponent of failure_delay
    Elapses,        \* the amounts of time that may pass in one step
    Horizon         \* where the ghost count of failures stops counting

ASSUME ConfigsAssumption == Configs \subseteq Nat \X Nat
ASSUME LimitsAssumption ==
    /\ MaxFailed \in Nat
    /\ MaxShift \in 0..16
    /\ MaxShift < MaxFailed
    /\ Horizon \in Nat
    /\ MaxFailed < Horizon
ASSUME ElapsesAssumption == Elapses \subseteq Nat \ {0}

VARIABLES
    locked,         \* state.is_active(), as this component sees it
    authPolicy,     \* the policy of the loaded configuration
    auth,           \* the daemon's AuthState
    attempt,        \* the worker of the attempt in flight, and its message
    told,           \* the count of failures in the last reply of this streak
    failures,       \* ghost: failures handled since the lock or an acceptance
    due,            \* ghost: the delay the last of them deserves
    debt            \* ghost: how much of all those delays is still to pass

vars == <<locked, authPolicy, auth, attempt, told, failures, due, debt>>

Lesser(a, b) == IF a < b THEN a ELSE b
Greater(a, b) == IF a > b THEN a ELSE b

-----------------------------------------------------------------------------
(* domain/auth.rs *)

Policies == [base: Nat \ {0}, max: Nat \ {0}]

NewPolicy(c) ==
    LET base == Greater(c[1], 1)
    IN  [base |-> base, max |-> Greater(c[2], base)]

\* 1u32 << exponent, for the exponents 0..16
Shifted == <<1, 2, 4, 8, 16, 32, 64, 128, 256, 512, 1024, 2048, 4096, 8192,
             16384, 32768, 65536>>

Exponent(failed) == Lesser(IF failed = 0 THEN 0 ELSE failed - 1, MaxShift)

\* Mutation: the exponent wraps where it should stop.
WrappingDelay(p, failed) ==
    Lesser(p.base * Shifted[(IF failed = 0 THEN 0 ELSE (failed - 1) % (MaxShift + 1)) + 1],
           p.max)

FailureDelay(p, failed) ==
    Lesser(p.base * Shifted[Exponent(failed) + 1], p.max)

\* Mutation: u8 arithmetic that wraps, or a wider counter that never stops.
WrappingNext(failed) == (failed + 1) % (MaxFailed + 1)
NextFailed(failed) == Lesser(failed + 1, MaxFailed)

NewAuth(p) == [failed |-> 0, retryLeft |-> 0, inFlight |-> FALSE, policy |-> p]

FinishSuccess(a) == [a EXCEPT !.inFlight = FALSE, !.failed = 0, !.retryLeft = 0]

FinishFailure(a) ==
    LET failed == NextFailed(a.failed)
    IN  [a EXCEPT !.inFlight = FALSE,
                  !.failed = failed,
                  !.retryLeft = FailureDelay(a.policy, failed)]

-----------------------------------------------------------------------------
\* run_auth_attempt: PAM is working, or has spoken and the result is queued
NoAttempt == [phase |-> "none", told |-> 0]
Phases == {"none", "pam", "rejected", "succeeded"}

NewStreak == /\ told' = 0 /\ failures' = 0 /\ due' = 0 /\ debt' = 0

Init ==
    /\ locked = FALSE
    /\ authPolicy \in {NewPolicy(c) : c \in Configs}
    /\ auth = NewAuth(authPolicy)
    /\ attempt = NoAttempt
    /\ told = 0 /\ failures = 0 /\ due = 0 /\ debt = 0

\* activate_and_install, from a lock request or after the curtain ended: the
\* new channel has no sender in the workers of earlier locks.
Lock ==
    /\ locked' = TRUE
    /\ auth' = NewAuth(authPolicy)
    /\ attempt' = NoAttempt
    /\ NewStreak
    /\ UNCHANGED authPolicy

\* An unlock signal: reset_runtime drops the channel and the AuthState.  One
\* that cannot stop the curtain returns before it, and changes nothing here.
Unlock ==
    /\ locked
    /\ locked' = FALSE
    /\ auth' = NewAuth(authPolicy)
    /\ attempt' = NoAttempt
    /\ NewStreak
    /\ UNCHANGED authPolicy

\* handle_client_message: SubmitPassword, as admit answers it.
SubmitAllowed ==
    /\ locked
    /\ ~auth.inFlight
    /\ auth.retryLeft = 0
    /\ auth' = [auth EXCEPT !.inFlight = TRUE]
    /\ attempt' = [phase |-> "pam", told |-> NextFailed(auth.failed)]
    /\ UNCHANGED <<locked, authPolicy, told, failures, due, debt>>

\* Mutation: a submission that comes early starts the delay anew.
SubmitPutsOff ==
    /\ locked
    /\ ~auth.inFlight
    /\ auth.retryLeft > 0
    /\ told' = auth.failed
    /\ auth' = [auth EXCEPT !.retryLeft = FailureDelay(auth.policy, auth.failed)]
    /\ UNCHANGED <<locked, authPolicy, attempt, failures, due, debt>>

SubmitRateLimited ==
    /\ locked
    /\ ~auth.inFlight
    /\ auth.retryLeft > 0
    /\ told' = auth.failed
    /\ UNCHANGED <<locked, authPolicy, auth, attempt, failures, due, debt>>

\* The worker answers the curtain and then queues its result.
PamRejects ==
    /\ attempt.phase = "pam"
    /\ told' = attempt.told
    /\ attempt' = [attempt EXCEPT !.phase = "rejected"]
    /\ UNCHANGED <<locked, authPolicy, auth, failures, due, debt>>

PamAccepts ==
    /\ attempt.phase = "pam"
    /\ attempt' = [attempt EXCEPT !.phase = "succeeded"]
    /\ UNCHANGED <<locked, authPolicy, auth, told, failures, due, debt>>

\* The delay a failure deserves: the base delay for the first, twice the one
\* before for every other, never above the maximum nor above base << MaxShift.
DueNext ==
    LET p == auth.policy
    IN  IF due = 0 THEN Lesser(p.base, p.max)
        ELSE Lesser(Lesser(2 * due, p.base * Shifted[MaxShift + 1]), p.max)

HandleRejected ==
    /\ attempt.phase = "rejected"
    /\ auth' = FinishFailure(auth)
    /\ attempt' = NoAttempt
    /\ failures' = Lesser(failures + 1, Horizon)
    /\ due' = DueNext
    /\ debt' = debt + DueNext
    /\ UNCHANGED <<locked, authPolicy, told>>

\* finish_success, and deactivate_lock: it ends in reset_runtime, or fails to
\* stop the curtain and leaves the lock engaged.
HandleSucceeded ==
    /\ attempt.phase = "succeeded"
    /\ \/ locked' = FALSE /\ auth' = NewAuth(authPolicy)
       \/ locked' = locked /\ auth' = FinishSuccess(auth)
    /\ attempt' = NoAttempt
    /\ NewStreak
    /\ UNCHANGED authPolicy

\* apply_loaded_config: a lock that is up keeps the policy it began with.
Reload ==
    \E c \in Configs :
        /\ authPolicy' = NewPolicy(c)
        /\ auth' = IF locked THEN auth ELSE NewAuth(NewPolicy(c))
        /\ UNCHANGED <<locked, attempt, told, failures, due, debt>>

Elapse ==
    \E d \in Elapses :
        /\ auth.retryLeft > 0 \/ debt > 0
        /\ auth' = [auth EXCEPT !.retryLeft = IF d < @ THEN @ - d ELSE 0]
        /\ debt' = IF d < debt THEN debt - d ELSE 0
        /\ UNCHANGED <<locked, authPolicy, attempt, told, failures, due>>

Next ==
    \/ Lock \/ Unlock \/ Reload \/ Elapse
    \/ SubmitAllowed \/ SubmitRateLimited
    \/ PamRejects \/ PamAccepts
    \/ HandleRejected \/ HandleSucceeded

Spec == Init /\ [][Next]_vars

\* A user who keeps trying, PAM that answers, the loop that handles results.
FairSpec ==
    /\ Spec
    /\ WF_vars(Elapse)
    /\ WF_vars(SubmitAllowed)
    /\ WF_vars(PamRejects \/ PamAccepts)
    /\ WF_vars(HandleRejected \/ HandleSucceeded)

-----------------------------------------------------------------------------
TypeOK ==
    /\ locked \in BOOLEAN
    /\ authPolicy \in Policies
    /\ auth \in [failed: 0..MaxFailed, retryLeft: Nat,
                 inFlight: BOOLEAN, policy: Policies]
    /\ attempt \in [phase: Phases, told: 0..MaxFailed]
    /\ told \in 0..MaxFailed
    /\ failures \in 0..Horizon
    /\ due \in Nat
    /\ debt \in Nat

\* At one lock, attempts are spaced by the whole back-off: one starts only when
\* the sum of the delays all failures before it deserve has passed, however the
\* submissions, the late verdicts, the reloads and the saturating counter of
\* domain/auth.rs fall together.
NoEarlyAttempt == [][SubmitAllowed => debt = 0]_vars

\* The count of failures the user reads is the one the throttle works with: the
\* worker was told its number when it started, and it is still the right one
\* when the loop records the failure (app/runtime/auth.rs:70 and :98).
CountsAgree ==
    /\ attempt.phase = "rejected" => told = NextFailed(auth.failed)
    /\ locked /\ attempt.phase # "rejected" =>
           told = auth.failed /\ told = Lesser(failures, MaxFailed)

\* Within one lock the delays imposed never shrink, not at the limit of the u8
\* counter either, and none exceeds the maximum of the policy the lock began
\* with, whatever is reloaded meanwhile.
DelaysNeverShrink ==
    [][HandleRejected =>
          /\ auth'.retryLeft >= due
          /\ auth'.retryLeft <= auth.policy.max]_vars

\* A user who keeps trying gets another attempt: rejections for being early do
\* not put it off.
TriesAgain == (locked /\ ~auth.inFlight) ~> (auth.inFlight \/ ~locked)
=============================================================================
