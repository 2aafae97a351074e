------------------------- MODULE AuthThrottleProofs -------------------------
(***************************************************************************)
(* Proofs about AuthThrottle for every policy, every limit of the counters *)
(* and every amount of time that passes in a step.  The inductive          *)
(* invariant ties the daemon's AuthState to the ghosts: the failures it    *)
(* counts are those that happened, and the delay it waits for is never     *)
(* less than what is still owed.                                           *)
(***************************************************************************)
EXTENDS AuthThrottle, TLAPS

-----------------------------------------------------------------------------
(* The arithmetic of failure_delay. *)

LEMMA LesserIsNat == ASSUME NEW a \in Nat, NEW b \in Nat
                     PROVE  Lesser(a, b) \in Nat /\ Lesser(a, b) <= a /\ Lesser(a, b) <= b
BY DEF Lesser

\* Each multiplier is twice the one before.
LEMMA ShiftedDoubles ==
    /\ \A i \in 1..17 : Shifted[i] \in Nat \ {0}
    /\ \A i \in 1..16 : Shifted[i + 1] = 2 * Shifted[i]
    /\ \A i \in 1..17 : \A j \in 1..17 : i <= j => Shifted[i] <= Shifted[j]
<1>1. \A i \in 1..17 : Shifted[i] \in Nat \ {0}
  BY DEF Shifted
<1>2. \A i \in 1..16 : Shifted[i + 1] = 2 * Shifted[i]
  BY DEF Shifted
<1>3. \A i \in 1..17 : \A j \in 1..17 : i <= j => Shifted[i] <= Shifted[j]
  BY SMTT(60) DEF Shifted
<1>4. QED
  BY <1>1, <1>2, <1>3

LEMMA ProductIsMonotone ==
    ASSUME NEW b \in Nat \ {0}, NEW m \in Nat \ {0}, NEW n \in Nat \ {0}, m <= n
    PROVE  b * m \in Nat \ {0} /\ b * n \in Nat \ {0} /\ b * m <= b * n
           /\ b * (2 * m) = 2 * (b * m)
OBVIOUS

LEMMA NewPolicyType == ASSUME NEW c \in Configs PROVE NewPolicy(c) \in Policies
<1>1. c[1] \in Nat /\ c[2] \in Nat
  BY ConfigsAssumption
<1>2. QED
  BY <1>1 DEF NewPolicy, Policies, Greater

LEMMA NextFailedType ==
    ASSUME NEW n \in 0..MaxFailed
    PROVE  NextFailed(n) \in 0..MaxFailed /\ NextFailed(n) > 0
BY LimitsAssumption DEF NextFailed, Lesser

LEMMA ExponentType ==
    ASSUME NEW n \in 0..MaxFailed
    PROVE  Exponent(n) \in 0..MaxShift /\ Exponent(n) + 1 \in 1..17
BY LimitsAssumption DEF Exponent, Lesser

LEMMA DelayType ==
    ASSUME NEW p \in Policies, NEW n \in 0..MaxFailed
    PROVE  /\ FailureDelay(p, n) \in Nat
           /\ FailureDelay(p, n) > 0
           /\ FailureDelay(p, n) <= p.max
<1> DEFINE m == Shifted[Exponent(n) + 1]
<1>1. m \in Nat \ {0}
  BY ExponentType, ShiftedDoubles
<1>2. p.base \in Nat \ {0} /\ p.max \in Nat \ {0}
  BY DEF Policies
<1>3. p.base * m \in Nat \ {0}
  BY <1>1, <1>2, ProductIsMonotone
<1>4. QED
  BY <1>2, <1>3 DEF FailureDelay, Lesser

-----------------------------------------------------------------------------
(* Type correctness. *)

AuthStates == [failed: 0..MaxFailed, retryLeft: Nat, inFlight: BOOLEAN, policy: Policies]

LEMMA NoAttemptType == NoAttempt \in [phase: Phases, told: 0..MaxFailed]
BY LimitsAssumption DEF NoAttempt, Phases

LEMMA NewAuthType == ASSUME NEW p \in Policies PROVE NewAuth(p) \in AuthStates
BY LimitsAssumption DEF NewAuth, AuthStates

LEMMA FinishSuccessType == ASSUME NEW a \in AuthStates PROVE FinishSuccess(a) \in AuthStates
<1>1. 0 \in 0..MaxFailed
  BY LimitsAssumption
<1>2. QED
  BY <1>1 DEF FinishSuccess, AuthStates

LEMMA InitTypes == Init => TypeOK
<1> SUFFICES ASSUME Init PROVE TypeOK
  OBVIOUS
<1>1. authPolicy \in Policies
  BY NewPolicyType DEF Init
<1>2. QED
  <2>1. auth \in AuthStates
    BY <1>1, NewAuthType DEF Init
  <2>2. 0 \in 0..MaxFailed /\ 0 \in 0..Horizon
    BY LimitsAssumption
  <2>3. QED
    BY <1>1, <2>1, <2>2, NoAttemptType DEF Init, TypeOK, AuthStates

LEMMA DueNextType == TypeOK => DueNext \in Nat
<1> SUFFICES ASSUME TypeOK PROVE DueNext \in Nat
  OBVIOUS
<1>1. auth.policy.base \in Nat \ {0} /\ auth.policy.max \in Nat \ {0} /\ due \in Nat
  BY DEF TypeOK, Policies
<1>2. Shifted[MaxShift + 1] \in Nat \ {0}
  BY LimitsAssumption, ShiftedDoubles
<1>3. auth.policy.base * Shifted[MaxShift + 1] \in Nat
  BY <1>1, <1>2, ProductIsMonotone
<1>4. QED
  BY <1>1, <1>3 DEF DueNext, Lesser

LEMMA NextTypes == TypeOK /\ [Next]_vars => TypeOK'
<1> SUFFICES ASSUME TypeOK, [Next]_vars PROVE TypeOK'
  OBVIOUS
<1> USE LimitsAssumption
<1>1. CASE Lock
  BY <1>1, NoAttemptType, NewAuthType DEF Lock, NewStreak, TypeOK, AuthStates
<1>2. CASE Unlock
  <2>1. auth' \in AuthStates
    <3>1. authPolicy \in Policies /\ auth' = NewAuth(authPolicy)
      BY <1>2 DEF Unlock, TypeOK
    <3>2. QED
      BY <3>1, NewAuthType
  <2>2. locked' \in BOOLEAN /\ authPolicy' \in Policies
        /\ attempt' \in [phase: Phases, told: 0..MaxFailed]
    BY <1>2, NoAttemptType DEF Unlock, TypeOK
  <2>3. told' = 0 /\ failures' = 0 /\ due' = 0 /\ debt' = 0
    BY <1>2 DEF Unlock, NewStreak
  <2>4. QED
    BY <2>1, <2>2, <2>3 DEF TypeOK, AuthStates
<1>3. CASE Reload
  BY <1>3, NewPolicyType, NewAuthType DEF Reload, TypeOK, AuthStates
<1>4. CASE Elapse
  BY <1>4, ElapsesAssumption DEF Elapse, TypeOK
<1>5. CASE SubmitAllowed
  BY <1>5, NextFailedType DEF SubmitAllowed, TypeOK, Phases
<1>6. CASE SubmitRateLimited
  BY <1>6 DEF SubmitRateLimited, TypeOK
<1>7. CASE PamRejects
  BY <1>7 DEF PamRejects, TypeOK, Phases
<1>8. CASE PamAccepts
  BY <1>8 DEF PamAccepts, TypeOK, Phases
<1>9. CASE HandleRejected
  <2>1. NextFailed(auth.failed) \in 0..MaxFailed
    BY NextFailedType DEF TypeOK
  <2>2. FailureDelay(auth.policy, NextFailed(auth.failed)) \in Nat
    BY <2>1, DelayType DEF TypeOK
  <2>3. auth' \in [failed: 0..MaxFailed, retryLeft: Nat,
                   inFlight: BOOLEAN, policy: Policies]
    BY <1>9, <2>1, <2>2 DEF HandleRejected, FinishFailure, TypeOK
  <2>4. failures' \in 0..Horizon
    BY <1>9 DEF HandleRejected, Lesser, TypeOK
  <2>5. QED
    BY <1>9, <2>3, <2>4, DueNextType, NoAttemptType DEF HandleRejected, TypeOK
<1>10. CASE HandleSucceeded
  <2>1. auth' \in AuthStates
    <3>1. auth \in AuthStates /\ authPolicy \in Policies
      BY DEF TypeOK, AuthStates
    <3>2. auth' = NewAuth(authPolicy) \/ auth' = FinishSuccess(auth)
      BY <1>10 DEF HandleSucceeded
    <3>3. QED
      BY <3>1, <3>2, NewAuthType, FinishSuccessType
  <2>2. locked' \in BOOLEAN
    BY <1>10 DEF HandleSucceeded, TypeOK
  <2>3. QED
    BY <1>10, <2>1, <2>2, NoAttemptType DEF HandleSucceeded, NewStreak, TypeOK, AuthStates
<1>11. CASE UNCHANGED vars
  BY <1>11 DEF vars, TypeOK
<1>12. QED
  BY <1>1, <1>2, <1>3, <1>4, <1>5, <1>6, <1>7, <1>8, <1>9, <1>10, <1>11 DEF Next

\* Every variable keeps its type: in particular the failure counter stays within
\* the u8, and the remaining delay never goes below zero (domain/auth.rs).
THEOREM ThrottleTypes == Spec => []TypeOK
<1>1. QED
  BY InitTypes, NextTypes, PTL DEF Spec

-----------------------------------------------------------------------------
(* The inductive invariant. *)

\* An attempt belongs to the lock that is up, and none is delayed.
AttemptInv ==
    /\ attempt.phase # "none" => locked /\ auth.inFlight
    /\ locked /\ auth.inFlight => auth.retryLeft = 0
    /\ attempt.phase = "pam" => attempt.told = NextFailed(auth.failed)

\* The daemon counts the failures that happened, until the u8 is full.
CountInv == locked => auth.failed = Lesser(failures, MaxFailed)

\* What is owed is what the last failure deserves, or less.
DebtInv ==
    locked => /\ debt <= auth.retryLeft
              /\ due = IF auth.failed = 0 THEN 0
                       ELSE FailureDelay(auth.policy, auth.failed)

ThrottleInv == AttemptInv /\ CountInv /\ DebtInv /\ CountsAgree

LEMMA InitInv == Init => ThrottleInv
BY LimitsAssumption
   DEF Init, ThrottleInv, AttemptInv, CountInv, DebtInv, CountsAgree,
       NewAuth, NoAttempt, Lesser

\* Doubling the last delay is what failure_delay does with one more failure.
LEMMA DoublingIsFailureDelay ==
    ASSUME NEW p \in Policies, NEW n \in 0..MaxFailed, n > 0
    PROVE  Lesser(Lesser(2 * FailureDelay(p, n), p.base * Shifted[MaxShift + 1]), p.max)
             = FailureDelay(p, NextFailed(n))
<1> DEFINE e == Exponent(n)
           f == Exponent(NextFailed(n))
           top == p.base * Shifted[MaxShift + 1]
<1>0. p.base \in Nat \ {0} /\ p.max \in Nat \ {0}
  BY DEF Policies
<1>1. e \in 0..MaxShift /\ e + 1 \in 1..17
  BY ExponentType
<1>2. MaxShift + 1 \in 1..17
  BY LimitsAssumption
<1>3. CASE e < MaxShift
  <2>1. f = e + 1
    BY <1>3, LimitsAssumption DEF Exponent, NextFailed, Lesser
  <2>2. Shifted[e + 2] = 2 * Shifted[e + 1] /\ Shifted[e + 1] \in Nat \ {0}
    <3>1. e + 1 \in 1..16 /\ (e + 1) + 1 = e + 2
      BY <1>1, <1>3, LimitsAssumption
    <3>2. QED
      BY <3>1, ShiftedDoubles
  <2>3. Shifted[e + 2] <= Shifted[MaxShift + 1]
        /\ Shifted[e + 2] \in Nat \ {0} /\ Shifted[MaxShift + 1] \in Nat \ {0}
    <3>1. e + 2 \in 1..17 /\ e + 2 <= MaxShift + 1
      BY <1>1, <1>3, LimitsAssumption
    <3>2. QED
      BY <3>1, <1>2, ShiftedDoubles
  <2> DEFINE a == p.base * Shifted[e + 1]
             b == p.base * Shifted[e + 2]
  <2>4. a \in Nat /\ b \in Nat /\ top \in Nat /\ b <= top
    BY <1>0, <2>2, <2>3, ProductIsMonotone
  <2>5. b = 2 * a
    BY <1>0, <2>2, ProductIsMonotone
  <2>6. FailureDelay(p, n) = Lesser(a, p.max)
    BY DEF FailureDelay
  <2>7. FailureDelay(p, NextFailed(n)) = Lesser(b, p.max)
    <3>1. f + 1 = e + 2
      BY <2>1, <1>1
    <3>2. QED
      BY <3>1 DEF FailureDelay
  <2> HIDE DEF a, b, top
  <2>8. QED
    BY <1>0, <2>4, <2>5, <2>6, <2>7 DEF Lesser, top
<1>4. CASE e = MaxShift
  <2>1. f = e
    BY <1>4, LimitsAssumption DEF Exponent, NextFailed, Lesser
  <2>2. Shifted[MaxShift + 1] \in Nat \ {0}
    BY <1>2, ShiftedDoubles
  <2>3. top \in Nat
    BY <1>0, <2>2, ProductIsMonotone
  <2>4. FailureDelay(p, n) = Lesser(top, p.max)
    BY <1>4 DEF FailureDelay
  <2>5. FailureDelay(p, NextFailed(n)) = Lesser(top, p.max)
    BY <1>4, <2>1 DEF FailureDelay
  <2> HIDE DEF top
  <2>6. QED
    BY <1>0, <2>3, <2>4, <2>5 DEF Lesser, top
<1>5. QED
  <2>1. e < MaxShift \/ e = MaxShift
    BY <1>1, LimitsAssumption
  <2>2. QED
    BY <2>1, <1>3, <1>4

LEMMA FirstDelay ==
    ASSUME NEW p \in Policies
    PROVE  FailureDelay(p, NextFailed(0)) = Lesser(p.base, p.max)
<1>1. NextFailed(0) = 1
  BY LimitsAssumption DEF NextFailed, Lesser
<1>2. Exponent(1) = 0
  BY LimitsAssumption DEF Exponent, Lesser
<1>3. Shifted[0 + 1] = 1
  BY DEF Shifted
<1>4. p.base * 1 = p.base
  BY DEF Policies
<1>5. QED
  BY <1>1, <1>2, <1>3, <1>4 DEF FailureDelay

LEMMA RejectionKeepsInv ==
    TypeOK /\ ThrottleInv /\ HandleRejected => ThrottleInv'
<1> SUFFICES ASSUME TypeOK, ThrottleInv, HandleRejected PROVE ThrottleInv'
  OBVIOUS
<1> DEFINE n == auth.failed
           p == auth.policy
<1>1. locked /\ auth.inFlight /\ auth.retryLeft = 0 /\ debt <= 0
  BY DEF HandleRejected, ThrottleInv, AttemptInv, DebtInv
<1>2. debt = 0
  BY <1>1 DEF TypeOK
<1>3. n \in 0..MaxFailed /\ p \in Policies
  BY DEF TypeOK
<1>4. auth' = [auth EXCEPT !.inFlight = FALSE, !.failed = NextFailed(n),
                           !.retryLeft = FailureDelay(p, NextFailed(n))]
  BY DEF HandleRejected, FinishFailure
<1>5. /\ auth'.failed = NextFailed(n) /\ auth'.policy = p /\ auth'.inFlight = FALSE
      /\ auth'.retryLeft = FailureDelay(p, NextFailed(n))
  BY <1>4 DEF TypeOK
<1>6. attempt' = NoAttempt /\ locked' = locked /\ told' = told /\ attempt.phase = "rejected"
  BY DEF HandleRejected
<1>7. DueNext = FailureDelay(p, NextFailed(n))
  <2>1. due = IF n = 0 THEN 0 ELSE FailureDelay(p, n)
    BY <1>1 DEF ThrottleInv, DebtInv
  <2>2. CASE n = 0
    BY <2>1, <2>2, <1>3, FirstDelay DEF DueNext
  <2>3. CASE n # 0
    <3>1. due = FailureDelay(p, n) /\ n > 0 /\ due # 0
      BY <2>1, <2>3, <1>3, DelayType
    <3>2. DueNext = Lesser(Lesser(2 * FailureDelay(p, n), p.base * Shifted[MaxShift + 1]), p.max)
      BY <3>1 DEF DueNext
    <3>3. QED
      BY <3>1, <3>2, <1>3, DoublingIsFailureDelay
  <2>4. QED
    BY <2>2, <2>3
<1>8. NextFailed(n) \in 0..MaxFailed /\ NextFailed(n) > 0
  BY <1>3, NextFailedType
<1>9. AttemptInv'
  BY <1>5, <1>6 DEF AttemptInv, NoAttempt
<1>10. NextFailed(n) = Lesser(failures', MaxFailed)
  <2>1. n = Lesser(failures, MaxFailed)
    BY <1>1 DEF ThrottleInv, CountInv
  <2>2. failures \in 0..Horizon /\ failures' = Lesser(failures + 1, Horizon)
    BY DEF TypeOK, HandleRejected
  <2>3. QED
    BY <2>1, <2>2, LimitsAssumption DEF NextFailed, Lesser
<1>11. CountInv'
  BY <1>5, <1>10 DEF CountInv
<1>12. DebtInv'
  <2>1. due' = FailureDelay(p, NextFailed(n)) /\ debt' = FailureDelay(p, NextFailed(n))
    <3>1. FailureDelay(p, NextFailed(n)) \in Nat
      BY <1>3, <1>8, DelayType
    <3>2. QED
      BY <1>2, <1>7, <3>1 DEF HandleRejected
  <2>2. FailureDelay(p, NextFailed(n)) \in Nat
    BY <1>3, <1>8, DelayType
  <2>3. debt' <= auth'.retryLeft
    BY <2>1, <2>2, <1>5
  <2>4. auth'.failed # 0 /\ due' = FailureDelay(auth'.policy, auth'.failed)
    BY <2>1, <1>5, <1>8
  <2>5. QED
    BY <2>3, <2>4 DEF DebtInv
<1>13. CountsAgree'
  <2>1. told = NextFailed(n)
    BY <1>6 DEF ThrottleInv, CountsAgree
  <2>2. QED
    BY <2>1, <1>5, <1>6, <1>10 DEF CountsAgree, NoAttempt
<1>14. QED
  BY <1>9, <1>11, <1>12, <1>13 DEF ThrottleInv

LEMMA NextInv == TypeOK /\ ThrottleInv /\ [Next]_vars => ThrottleInv'
<1> SUFFICES ASSUME TypeOK, ThrottleInv, [Next]_vars PROVE ThrottleInv'
  OBVIOUS
<1> USE LimitsAssumption DEF ThrottleInv, AttemptInv, CountInv, DebtInv, CountsAgree
<1>1. CASE Lock
  BY <1>1 DEF Lock, NewStreak, NewAuth, NoAttempt, Lesser
<1>2. CASE Unlock
  BY <1>2 DEF Unlock, NewStreak, NoAttempt
<1>3. CASE Reload
  BY <1>3 DEF Reload
<1>4. CASE Elapse
  <2>1. PICK d \in Elapses :
          /\ auth' = [auth EXCEPT !.retryLeft = IF d < @ THEN @ - d ELSE 0]
          /\ debt' = IF d < debt THEN debt - d ELSE 0
          /\ UNCHANGED <<locked, authPolicy, attempt, told, failures, due>>
    BY <1>4 DEF Elapse
  <2>2. /\ auth'.failed = auth.failed /\ auth'.policy = auth.policy
        /\ auth'.inFlight = auth.inFlight
        /\ auth'.retryLeft = IF d < auth.retryLeft THEN auth.retryLeft - d ELSE 0
    BY <2>1 DEF TypeOK
  <2>3. d \in Nat /\ debt \in Nat /\ auth.retryLeft \in Nat
    BY ElapsesAssumption DEF TypeOK
  <2>4. AttemptInv' /\ CountInv' /\ CountsAgree'
    BY <2>1, <2>2, <2>3
  <2>5. DebtInv'
    BY <2>1, <2>2, <2>3
  <2>6. QED
    BY <2>4, <2>5
<1>5. CASE SubmitAllowed
  BY <1>5 DEF SubmitAllowed, TypeOK
<1>6. CASE SubmitRateLimited
  BY <1>6 DEF SubmitRateLimited
<1>7. CASE PamRejects
  BY <1>7 DEF PamRejects, TypeOK
<1>8. CASE PamAccepts
  BY <1>8 DEF PamAccepts, TypeOK
<1>9. CASE HandleRejected
  BY <1>9, RejectionKeepsInv
<1>10. CASE HandleSucceeded
  <2>1. CASE locked' = FALSE
    BY <1>10, <2>1 DEF HandleSucceeded, NewStreak, NoAttempt
  <2>2. CASE auth' = FinishSuccess(auth)
    BY <1>10, <2>2 DEF HandleSucceeded, NewStreak, FinishSuccess, NoAttempt, TypeOK, Lesser
  <2>3. QED
    BY <1>10, <2>1, <2>2 DEF HandleSucceeded
<1>11. CASE UNCHANGED vars
  BY <1>11 DEF vars
<1>12. QED
  BY <1>1, <1>2, <1>3, <1>4, <1>5, <1>6, <1>7, <1>8, <1>9, <1>10, <1>11 DEF Next

\* The invariant holds throughout, whatever is reloaded, relocked or delayed.
THEOREM ThrottleHolds == Spec => []ThrottleInv
<1>1. QED
  BY InitTypes, NextTypes, InitInv, NextInv, PTL DEF Spec

-----------------------------------------------------------------------------
\* The count the user reads is the one the throttle works with
\* (app/runtime/auth.rs:70, :98 and events/auth.rs:127).
THEOREM CountsAreTrue == Spec => []CountsAgree
<1>1. ThrottleInv => CountsAgree
  BY DEF ThrottleInv
<1>2. QED
  BY <1>1, ThrottleHolds, PTL

\* No attempt of a lock starts before the delays of all failures before it have
\* passed (AuthState::admit and finish_failure in domain/auth.rs).
THEOREM AttemptsAreSpaced == Spec => NoEarlyAttempt
<1>1. TypeOK /\ ThrottleInv /\ [Next]_vars => [SubmitAllowed => debt = 0]_vars
  <2> SUFFICES ASSUME TypeOK, ThrottleInv, SubmitAllowed PROVE debt = 0
    OBVIOUS
  <2>1. debt <= auth.retryLeft /\ auth.retryLeft = 0
    BY DEF SubmitAllowed, ThrottleInv, DebtInv
  <2>2. QED
    BY <2>1 DEF TypeOK
<1>2. QED
  BY <1>1, ThrottleTypes, ThrottleHolds, PTL DEF Spec, NoEarlyAttempt

\* The delays imposed at one lock never shrink and never pass the maximum of the
\* policy the lock began with (AuthPolicy::failure_delay).
THEOREM DelaysGrow == Spec => DelaysNeverShrink
<1> DEFINE Kept == /\ auth'.retryLeft >= due
                   /\ auth'.retryLeft <= auth.policy.max
<1>1. TypeOK /\ ThrottleInv /\ [Next]_vars => [HandleRejected => Kept]_vars
  <2> SUFFICES ASSUME TypeOK, ThrottleInv, HandleRejected PROVE Kept
    OBVIOUS
  <2> DEFINE n == auth.failed
             p == auth.policy
  <2>1. n \in 0..MaxFailed /\ p \in Policies /\ locked
    BY DEF TypeOK, HandleRejected, ThrottleInv, AttemptInv
  <2>2. auth'.retryLeft = FailureDelay(p, NextFailed(n))
    BY DEF HandleRejected, FinishFailure, TypeOK
  <2>3. NextFailed(n) \in 0..MaxFailed
    BY <2>1, NextFailedType
  <2>4. FailureDelay(p, NextFailed(n)) \in Nat /\ FailureDelay(p, NextFailed(n)) <= p.max
    BY <2>1, <2>3, DelayType
  <2>5. due = IF n = 0 THEN 0 ELSE FailureDelay(p, n)
    BY <2>1 DEF ThrottleInv, DebtInv
  <2>6. CASE n = 0
    BY <2>2, <2>4, <2>5, <2>6
  <2>7. CASE n # 0
    <3> DEFINE d == FailureDelay(p, n)
               top == p.base * Shifted[MaxShift + 1]
    <3>1. d \in Nat /\ d <= p.max /\ p.max \in Nat
      BY <2>1, DelayType DEF Policies
    <3>2. top \in Nat /\ d <= top
      <4>1. Exponent(n) + 1 \in 1..17 /\ Exponent(n) + 1 <= MaxShift + 1 /\ MaxShift + 1 \in 1..17
        BY <2>1, ExponentType, LimitsAssumption
      <4>2. /\ Shifted[Exponent(n) + 1] \in Nat \ {0} /\ Shifted[MaxShift + 1] \in Nat \ {0}
            /\ Shifted[Exponent(n) + 1] <= Shifted[MaxShift + 1]
        BY <4>1, ShiftedDoubles
      <4>3. p.base \in Nat \ {0}
        BY <2>1 DEF Policies
      <4>4. p.base * Shifted[Exponent(n) + 1] <= top /\ top \in Nat
            /\ p.base * Shifted[Exponent(n) + 1] \in Nat
        BY <4>2, <4>3, ProductIsMonotone
      <4>5. QED
        BY <4>4, <3>1 DEF FailureDelay, Lesser
    <3>3. Lesser(Lesser(2 * d, top), p.max) = FailureDelay(p, NextFailed(n))
      BY <2>1, <2>7, DoublingIsFailureDelay
    <3> HIDE DEF d, top
    <3>4. Lesser(Lesser(2 * d, top), p.max) >= d
      BY <3>1, <3>2 DEF Lesser
    <3>5. due = d
      BY <2>5, <2>7 DEF d
    <3>6. QED
      BY <2>2, <2>4, <3>3, <3>4, <3>5
  <2>8. QED
    BY <2>6, <2>7
<1>2. QED
  BY <1>1, ThrottleTypes, ThrottleHolds, PTL DEF Spec, DelaysNeverShrink, Kept
=============================================================================
