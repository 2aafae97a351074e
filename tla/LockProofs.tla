----------------------------- MODULE LockProofs -----------------------------
(***************************************************************************)
(* Theorems about the lock protocol, for every number of generations and   *)
(* of attempts and for every set of faults, in four parts: type            *)
(* correctness; who may open the session; whether what the daemon says of  *)
(* the session is so; and that the protocol implements LockPromise.        *)
(***************************************************************************)
EXTENDS LockRefinement, SequenceTheorems, TLAPS

USE DEF Gen, NoGen, MaybeGen, daemonVars, ipcVars, compositorVars, historyVars

LEMMA AppTypes ==
    /\ \A phase \in {"none", "starting", "acquired", "running", "reporting", "exited"} :
           NewCurtain(phase) \in CurtainApps
    /\ FreshAuth \in AuthStates
    /\ IdleFingerprint \in FingerprintHandles
  BY BoundsAssumption DEF NewCurtain, CurtainApps, FreshAuth, AuthStates, IdleFingerprint, FingerprintHandles

LEMMA InitTypes == Init => TypeOK
  <1> SUFFICES ASSUME Init PROVE TypeOK
    OBVIOUS
  <1>1. /\ dpc \in DaemonPcs /\ handler \in Handlers /\ child \in MaybeGen
        /\ lockState \in LockStates /\ curtain \in MaybeGen /\ runtime \in MaybeGen
        /\ lastGen \in 0 .. MaxGen
    BY BoundsAssumption DEF Init, DaemonPcs, Handlers, LockStates
  <1>2. results \in [Gen -> Seq(AuthResults)]
    BY DEF Init
  <1>3. cur \in [Gen -> CurtainApps]
    BY AppTypes DEF Init
  <1>4. auth \in AuthStates /\ fp \in FingerprintHandles
    BY AppTypes DEF Init
  <1> QED
    BY <1>1, <1>2, <1>3, <1>4 DEF Init, TypeOK, WorkerStates, Replies

-----------------------------------------------------------------------------
(* The helpers that both programs' actions are made of.                    *)

LEMMA ProcessEndsTypes ==
    ASSUME TypeOK, NEW g \in Gen, ProcessEnds(g)
    PROVE  /\ cur' \in [Gen -> CurtainApps]
           /\ wl' \in [Gen -> SUBSET {"locked", "finished"}]
           /\ reply' \in [Gen -> Replies]
           /\ unlockMsg' \subseteq Gen
           /\ sigterm' \subseteq Gen
  <1>1. NewCurtain("exited") \in CurtainApps
    BY AppTypes
  <1>2. cur' \in [Gen -> CurtainApps]
    BY <1>1 DEF TypeOK, ProcessEnds
  <1> QED
    BY <1>2 DEF TypeOK, ProcessEnds, Replies

LEMMA DropSocketsTypes ==
    ASSUME TypeOK, NEW g, DropSockets(g)
    PROVE  /\ conns' \subseteq Gen /\ lines' \subseteq conns'
           /\ reply' \in [Gen -> Replies]
           /\ results' \in [Gen -> Seq(AuthResults)]
  <1>1. <<>> \in Seq(AuthResults)
    OBVIOUS
  <1>2. results' \in [Gen -> Seq(AuthResults)]
    BY <1>1 DEF TypeOK, DropSockets
  <1> QED
    BY <1>2 DEF TypeOK, DropSockets, Replies

LEMMA BeginActivationTypes ==
    ASSUME TypeOK, NEW trigger \in Handlers, SpareGen, BeginActivation(trigger)
    PROVE  /\ dpc' \in DaemonPcs
           /\ handler' \in Handlers
           /\ child' \in MaybeGen
           /\ lockState' \in LockStates
           /\ lastGen' \in 0 .. MaxGen
           /\ cur' \in [Gen -> CurtainApps]
  <1>1. NewCurtain("starting") \in CurtainApps
    BY AppTypes
  <1>2. lastGen + 1 \in Gen
    BY BoundsAssumption DEF TypeOK, SpareGen
  <1>3. cur' \in [Gen -> CurtainApps]
    BY <1>1, <1>2 DEF TypeOK, BeginActivation
  <1> QED
    BY <1>2, <1>3 DEF TypeOK, BeginActivation, AfterFailure, DaemonPcs, Handlers, LockStates

-----------------------------------------------------------------------------
(* One step per action of the daemon.                                      *)

LEMMA ActivationTypes ==
    ASSUME TypeOK
    PROVE  /\ \A trigger \in Handlers : LockRequested(trigger) => TypeOK'
           /\ ReadyAccepted \/ ReportAwaited \/ ReportRead \/ ReadyTimeout => TypeOK'
           /\ ActivationChildExited \/ AbandonWaitError \/ ReadyWaitError => TypeOK'
           /\ CurtainExit => TypeOK'
  <1>1. ASSUME NEW trigger \in Handlers, LockRequested(trigger) PROVE TypeOK'
    <2>1. SpareGen /\ BeginActivation(trigger)
      BY <1>1 DEF LockRequested
    <2> QED
      BY <1>1, <2>1, BeginActivationTypes DEF TypeOK, LockRequested
  <1>2. ASSUME ReadyAccepted \/ ReportRead PROVE TypeOK'
    <2>1. LockEstablished /\ child \in Gen
      BY <1>2 DEF TypeOK, ReadyAccepted, ReportRead, Running, Exited, Phase
    <2>2. hint' \in BOOLEAN /\ fp' \in FingerprintHandles /\ auth' \in AuthStates
      BY <2>1, AppTypes DEF TypeOK, LockEstablished, SetLockedHint
    <2>3. reported' \subseteq Gen
      BY <2>1 DEF TypeOK, LockEstablished
    <2> QED
      BY <2>1, <2>2, <2>3
         DEF TypeOK, LockEstablished, ActivationReturns, KeepSockets, DaemonPcs, Handlers, LockStates
  <1>3. ASSUME ReadyTimeout PROVE TypeOK'
    BY <1>3 DEF TypeOK, ReadyTimeout, DaemonPcs, LockStates, Alive, Phase
  <1>4. ASSUME ActivationFails, hint' \in BOOLEAN PROVE TypeOK'
    <2>1. DropSockets(child)
      BY <1>4 DEF ActivationFails
    <2>2. fp' \in FingerprintHandles
      BY <1>4 DEF TypeOK, ActivationFails, StopFingerprint, FingerprintHandles
    <2> QED
      BY <1>4, <2>1, <2>2, DropSocketsTypes
         DEF TypeOK, ActivationFails, ActivationReturns, AfterFailure, DaemonPcs, Handlers,
             LockStates
  <1>5. ASSUME ActivationChildExited PROVE TypeOK'
    BY <1>4, <1>5 DEF ActivationChildExited, SetLockedHint, TypeOK
  <1>6. ASSUME AbandonWaitError PROVE TypeOK'
    BY <1>4, <1>6 DEF AbandonWaitError, TypeOK
  <1>7. ASSUME ReadyWaitError PROVE TypeOK'
    <2>1. DropSockets(child)
      BY <1>7 DEF ReadyWaitError
    <2> QED
      BY <1>7, <2>1, DropSocketsTypes, AppTypes
         DEF TypeOK, ReadyWaitError, ActivationReturns, AfterFailure, DaemonPcs, Handlers
  <1>8. ASSUME CurtainExit PROVE TypeOK'
    <2>1. SpareGen /\ BeginActivation("restart") /\ "restart" \in Handlers
      BY <1>8 DEF CurtainExit, Handlers
    <2>2. DropSockets(runtime) /\ runtime' = NoGen /\ auth' = FreshAuth
      BY <1>8 DEF CurtainExit, ResetRuntime
    <2>3. fp' \in FingerprintHandles
      BY <1>8 DEF TypeOK, CurtainExit, StopFingerprint, FingerprintHandles
    <2> QED
      BY <1>8, <2>1, <2>2, <2>3, BeginActivationTypes, DropSocketsTypes, AppTypes
         DEF TypeOK, CurtainExit, SetLockedHint
  <1>9. ASSUME ReportAwaited PROVE TypeOK'
    BY <1>9 DEF TypeOK, ReportAwaited, DaemonPcs
  <1> QED
    BY <1>1, <1>2, <1>3, <1>5, <1>6, <1>7, <1>8, <1>9

LEMMA DeactivateTypes ==
    ASSUME TypeOK, NEW why \in {"unlock", "auth", "shutdown"}, Deactivate(why),
           why = "auth" => runtime # NoGen /\ results[runtime] # <<>>,
           authorised' \subseteq Gen
    PROVE  TypeOK'
  <1>1. CASE DeactivateWithoutCurtain(why)
    <2>1. DropSockets(runtime) /\ runtime' = NoGen /\ auth' = FreshAuth
      BY <1>1 DEF DeactivateWithoutCurtain, ResetRuntime
    <2>2. fp' \in FingerprintHandles
      BY <1>1 DEF TypeOK, DeactivateWithoutCurtain, StopFingerprint, FingerprintHandles
    <2> QED
      BY <1>1, <2>1, <2>2, DropSocketsTypes, AppTypes
         DEF TypeOK, Deactivate, DeactivateWithoutCurtain, SetLockedHint, DaemonPcs, LockStates
  <1>2. CASE DeactivateCurtain(why)
    <2>1. results' \in [Gen -> Seq(AuthResults)]
      <3>1. ASSUME why = "auth" PROVE Tail(results[runtime]) \in Seq(AuthResults)
        BY <3>1 DEF TypeOK
      <3> QED
        BY <1>2, <3>1 DEF TypeOK, DeactivateCurtain, Consume
    <2>2. fp' \in FingerprintHandles
      BY <1>2 DEF TypeOK, DeactivateCurtain, StopFingerprint, FingerprintHandles
    <2> QED
      BY <1>2, <2>1, <2>2, AppTypes
         DEF TypeOK, Deactivate, DeactivateCurtain, DaemonPcs, LockStates, Handlers
  <1> QED
    BY <1>1, <1>2 DEF Deactivate

LEMMA DeactivationTypes ==
    ASSUME TypeOK
    PROVE  /\ UnlockSignal \/ Shutdown \/ AuthSucceeded => TypeOK'
           /\ CurtainStopped \/ GracefulTimeout \/ KillCurtain => TypeOK'
           /\ DeactivateWaitError \/ DaemonFails => TypeOK'
  <1>1. ASSUME UnlockSignal \/ Shutdown PROVE TypeOK'
    <2>1. authorised' \subseteq Gen
      BY <1>1 DEF TypeOK, UnlockSignal, Shutdown, Authorise
    <2> QED
      BY <1>1, <2>1, DeactivateTypes DEF UnlockSignal, Shutdown
  <1>2. ASSUME AuthSucceeded PROVE TypeOK'
    <2>1. authorised' \subseteq Gen
      BY <1>2 DEF TypeOK, AuthSucceeded
    <2> QED
      BY <1>2, <2>1, DeactivateTypes DEF AuthSucceeded
  <1>3. ASSUME CurtainStopped PROVE TypeOK'
    <2>1. DropSockets(runtime) /\ runtime' = NoGen /\ auth' = FreshAuth
      BY <1>3 DEF CurtainStopped, ResetRuntime
    <2>2. fp' \in FingerprintHandles
      BY <1>3 DEF TypeOK, CurtainStopped, StopFingerprint, FingerprintHandles
    <2> QED
      BY <1>3, <2>1, <2>2, DropSocketsTypes, AppTypes
         DEF TypeOK, CurtainStopped, HandlerReturns, SetLockedHint, DaemonPcs, Handlers, LockStates
  <1>4. ASSUME GracefulTimeout PROVE TypeOK'
    <2>1. child \in Gen
      BY <1>4 DEF TypeOK, GracefulTimeout, Alive, Phase
    <2> QED
      BY <1>4, <2>1 DEF TypeOK, GracefulTimeout, DaemonPcs
  <1>5. ASSUME KillCurtain PROVE TypeOK'
    <2>1. child \in Gen /\ ProcessEnds(child)
      BY <1>5 DEF TypeOK, KillCurtain, Alive, Phase
    <2> QED
      BY <1>5, <2>1, ProcessEndsTypes DEF TypeOK, KillCurtain
  <1>6. ASSUME DeactivateWaitError PROVE TypeOK'
    BY <1>6 DEF TypeOK, DeactivateWaitError, HandlerReturns, DaemonPcs, Handlers
  <1>7. ASSUME DaemonFails PROVE TypeOK'
    <2>1. <<>> \in Seq(AuthResults)
      OBVIOUS
    <2>2. results' \in [Gen -> Seq(AuthResults)]
      BY <1>7, <2>1 DEF DaemonFails
    <2> QED
      BY <1>7, <2>2, AppTypes DEF TypeOK, DaemonFails, DaemonPcs, Replies, WorkerStates
  <1> QED
    BY <1>1, <1>2, <1>3, <1>4, <1>5, <1>6, <1>7

LEMMA SendResultTypes ==
    ASSUME TypeOK, NEW g \in Gen, NEW outcome \in {"Succeeded", "Rejected", "Matched"},
           SendResult(g, outcome)
    PROVE  results' \in [Gen -> Seq(AuthResults)]
  <1> DEFINE r == [outcome |-> outcome, gen |-> g]
  <1>1. r \in AuthResults
    BY DEF AuthResults
  <1>2. \A h \in Gen : Append(results[h], r) \in Seq(AuthResults)
    BY <1>1 DEF TypeOK
  <1> QED
    BY <1>2 DEF TypeOK, SendResult

LEMMA AuthenticationTypes ==
    ASSUME TypeOK
    PROVE  /\ AcceptConnection \/ ReadsNothing \/ AcceptSubmission => TypeOK'
           /\ AuthRejected \/ ThrottleExpires => TypeOK'
           /\ \A g \in Gen : TaskStep(g) => TypeOK'
           /\ Tick \/ FingerprintStep => TypeOK'
  <1>1. ASSUME AcceptSubmission PROVE TypeOK'
    <2>1. runtime \in Gen /\ dpc' \in DaemonPcs /\ lines' \subseteq conns'
      BY <1>1 DEF TypeOK, AcceptSubmission, DaemonPcs
    <2>2. auth' \in AuthStates
      BY <1>1 DEF TypeOK, AcceptSubmission, Admission, AuthStates
    <2>3. worker' \in [Gen -> WorkerStates] /\ reply' \in [Gen -> Replies]
      BY <1>1, <2>1
         DEF TypeOK, AcceptSubmission, Admission, WriteReply, WorkerStates, Replies
    <2> QED
      BY <1>1, <2>1, <2>2, <2>3 DEF TypeOK, AcceptSubmission
  <1>2. ASSUME AuthRejected PROVE TypeOK'
    <2>1. Tail(results[runtime]) \in Seq(AuthResults)
      BY <1>2 DEF TypeOK, AuthRejected
    <2>2. results' \in [Gen -> Seq(AuthResults)]
      BY <1>2, <2>1 DEF TypeOK, AuthRejected
    <2> QED
      BY <1>2, <2>2 DEF TypeOK, AuthRejected, AuthStates
  <1>3. ASSUME ThrottleExpires PROVE TypeOK'
    BY <1>3 DEF TypeOK, ThrottleExpires, AuthStates
  <1>4. ASSUME NEW g \in Gen, PamVerdict(g) PROVE TypeOK'
    BY <1>4, ZenonT(60) DEF TypeOK, PamVerdict, WriteReply, Authorise, WorkerStates, Replies
  <1>5. ASSUME NEW g \in Gen, WorkerReports(g) PROVE TypeOK'
    <2>1. results' \in [Gen -> Seq(AuthResults)]
      BY <1>5, SendResultTypes DEF WorkerReports
    <2> QED
      BY <1>5, <2>1 DEF TypeOK, WorkerReports, WorkerStates
  <1>6. ASSUME Tick PROVE TypeOK'
    BY <1>6, AppTypes DEF TypeOK, Tick, FingerprintUpdate, FingerprintHandles
  <1>7. ASSUME FingerprintMatched PROVE TypeOK'
    <2>1. fp.task \in Gen
      BY <1>7 DEF TypeOK, FingerprintMatched, FingerprintHandles
    <2>2. results' \in [Gen -> Seq(AuthResults)]
      BY <1>7, <2>1, SendResultTypes DEF FingerprintMatched
    <2> QED
      BY <1>7, <2>1, <2>2
         DEF TypeOK, FingerprintMatched, StopFingerprint, Authorise, FingerprintHandles
  <1>8. ASSUME FingerprintUnavailable PROVE TypeOK'
    BY <1>8 DEF TypeOK, FingerprintUnavailable, StopFingerprint, FingerprintHandles
  <1>9. ASSUME AcceptConnection \/ ReadsNothing PROVE TypeOK'
    BY <1>9 DEF TypeOK, AcceptConnection, ReadsNothing, DaemonPcs
  <1> QED
    BY <1>1, <1>2, <1>3, <1>4, <1>5, <1>6, <1>7, <1>8, <1>9 DEF TaskStep, FingerprintStep

-----------------------------------------------------------------------------
(* One step per action of the curtains and of the compositor.              *)

LEMMA AppFieldTypes ==
    ASSUME NEW c \in CurtainApps
    PROVE  /\ \A p \in {"none", "starting", "acquired", "running", "reporting", "exited"} :
                  [c EXCEPT !.proc = p] \in CurtainApps
           /\ [c EXCEPT !.exit_requested = TRUE] \in CurtainApps
           /\ [c EXCEPT !.configured = TRUE] \in CurtainApps
           /\ [c EXCEPT !.session_locked = TRUE] \in CurtainApps
           /\ [c EXCEPT !.ready_notified = TRUE] \in CurtainApps
           /\ [c EXCEPT !.session_finished = TRUE, !.failure = TRUE] \in CurtainApps
           /\ [c EXCEPT !.failure = TRUE, !.exit_requested = TRUE] \in CurtainApps
           /\ \A b \in BOOLEAN : [c EXCEPT !.auth_in_flight = b] \in CurtainApps
           /\ c.attempts < MaxAttempts =>
                  [c EXCEPT !.auth_in_flight = TRUE, !.attempts = @ + 1] \in CurtainApps
  <1>1. \A p \in {"none", "starting", "acquired", "running", "reporting", "exited"} :
            [c EXCEPT !.proc = p] \in CurtainApps
    BY DEF CurtainApps
  <1>2. /\ [c EXCEPT !.exit_requested = TRUE] \in CurtainApps
        /\ [c EXCEPT !.configured = TRUE] \in CurtainApps
        /\ [c EXCEPT !.session_locked = TRUE] \in CurtainApps
        /\ [c EXCEPT !.ready_notified = TRUE] \in CurtainApps
    BY DEF CurtainApps
  <1>3. /\ [c EXCEPT !.session_finished = TRUE, !.failure = TRUE] \in CurtainApps
        /\ [c EXCEPT !.failure = TRUE, !.exit_requested = TRUE] \in CurtainApps
    BY DEF CurtainApps
  <1>4. \A b \in BOOLEAN : [c EXCEPT !.auth_in_flight = b] \in CurtainApps
    BY DEF CurtainApps
  <1>5. ASSUME c.attempts < MaxAttempts
        PROVE  [c EXCEPT !.auth_in_flight = TRUE, !.attempts = @ + 1] \in CurtainApps
    <2>1. c.attempts + 1 \in 0 .. MaxAttempts
      BY <1>5, BoundsAssumption DEF CurtainApps
    <2> QED
      BY <2>1 DEF CurtainApps
  <1> QED
    BY <1>1, <1>2, <1>3, <1>4, <1>5

(* The curtain that maybe_notify_ready leaves differs only in what it has  *)
(* announced and whether it still has a report to write.                   *)
LEMMA ReadyChange ==
    ASSUME NEW g \in Gen, NEW d \in CurtainApps, MaybeNotifyReady(g, d)
    PROVE  \E c \in CurtainApps :
               /\ cur' = [cur EXCEPT ![g] = c]
               /\ c.exit_requested = d.exit_requested /\ c.failure = d.failure
               /\ c.session_locked = d.session_locked
               /\ c.session_finished = d.session_finished
  <1>1. CASE ~ReadyToNotify(d)
    BY <1>1 DEF MaybeNotifyReady
  <1>2. CASE ReadyToNotify(d)
    <2>1. PICK p \in {d.proc, "reporting"} :
              cur' = [cur EXCEPT ![g] = [d EXCEPT !.ready_notified = TRUE, !.proc = p]]
      BY <1>2 DEF MaybeNotifyReady
    <2> DEFINE c == [d EXCEPT !.ready_notified = TRUE, !.proc = p]
    <2>2. c \in CurtainApps
      BY <2>1 DEF CurtainApps
    <2>3. /\ c.exit_requested = d.exit_requested /\ c.failure = d.failure
          /\ c.session_locked = d.session_locked /\ c.session_finished = d.session_finished
      BY DEF CurtainApps
    <2>4. cur' = [cur EXCEPT ![g] = c]
      BY <2>1
    <2> HIDE DEF c
    <2> QED
      BY <2>2, <2>3, <2>4
  <1> QED
    BY <1>1, <1>2

LEMMA MaybeNotifyReadyTypes ==
    ASSUME TypeOK, NEW g \in Gen, NEW c \in CurtainApps, MaybeNotifyReady(g, c)
    PROVE  cur' \in [Gen -> CurtainApps] /\ notified' \subseteq Gen
  <1>1. cur' \in [Gen -> CurtainApps]
    BY ReadyChange DEF TypeOK
  <1> QED
    BY <1>1 DEF TypeOK, MaybeNotifyReady

LEMMA CurtainTypes ==
    ASSUME TypeOK, NEW g \in Gen
    PROVE  /\ CurtainStep(g) \/ SubmitPassword(g) => TypeOK'
           /\ RenderFailure(g) \/ Crash(g) => TypeOK'
  <1>0. cur[g] \in CurtainApps
    BY DEF TypeOK
  <1>1. ASSUME AcquireLock(g) PROVE TypeOK'
    <2>1. [cur[g] EXCEPT !.proc = "acquired"] \in CurtainApps
      BY <1>0, AppFieldTypes
    <2> QED
      BY <1>1, <2>1 DEF TypeOK, AcquireLock
  <1>2. ASSUME RegisterSignals(g) \/ WriteReport(g) PROVE TypeOK'
    <2>1. [cur[g] EXCEPT !.proc = "running"] \in CurtainApps
      BY <1>0, AppFieldTypes
    <2> QED
      BY <1>2, <2>1 DEF TypeOK, RegisterSignals, WriteReport
  <1>3. ASSUME DieBySigterm(g) \/ LockDeadline(g) \/ Crash(g) PROVE TypeOK'
    <2>1. ProcessEnds(g)
      BY <1>3 DEF DieBySigterm, LockDeadline, Crash
    <2> QED
      BY <1>3, <2>1, ProcessEndsTypes DEF TypeOK, DieBySigterm, LockDeadline, Crash
  <1>4. ASSUME HandleSigterm(g) \/ HandleUnlock(g) PROVE TypeOK'
    <2>1. [cur[g] EXCEPT !.exit_requested = TRUE] \in CurtainApps
      BY <1>0, AppFieldTypes
    <2> QED
      BY <1>4, <2>1 DEF TypeOK, HandleSigterm, HandleUnlock
  <1>5. ASSUME HandleConfigure(g) PROVE TypeOK'
    <2>1. [cur[g] EXCEPT !.configured = TRUE] \in CurtainApps
      BY <1>0, AppFieldTypes
    <2> QED
      BY <1>5, <2>1, MaybeNotifyReadyTypes DEF TypeOK, HandleConfigure
  <1>6. ASSUME HandleLocked(g) PROVE TypeOK'
    <2>1. [cur[g] EXCEPT !.session_locked = TRUE] \in CurtainApps
      BY <1>0, AppFieldTypes
    <2> QED
      BY <1>6, <2>1, MaybeNotifyReadyTypes DEF TypeOK, HandleLocked
  <1>7. ASSUME HandleFinished(g) PROVE TypeOK'
    <2>1. [cur[g] EXCEPT !.session_finished = TRUE, !.failure = TRUE] \in CurtainApps
      BY <1>0, AppFieldTypes
    <2>2. cur' = [cur EXCEPT ![g] = [cur[g] EXCEPT !.session_finished = TRUE, !.failure = TRUE]]
      BY <1>0, <1>7 DEF HandleFinished, TypeOK, CurtainApps
    <2> QED
      BY <1>7, <2>1, <2>2 DEF TypeOK, HandleFinished
  <1>8. ASSUME HandleReply(g) PROVE TypeOK'
    <2>1. (cur[g].auth_in_flight /\ ~Reopens(reply[g])) \in BOOLEAN
      BY <1>0 DEF CurtainApps
    <2>2. [cur[g] EXCEPT !.auth_in_flight = @ /\ ~Reopens(reply[g])] \in CurtainApps
      BY <1>0, <2>1, AppFieldTypes, ZenonT(60) DEF CurtainApps
    <2> QED
      BY <1>8, <2>2 DEF TypeOK, HandleReply, Replies
  <1>9. ASSUME Stop(g) PROVE TypeOK'
    <2>1. ProcessEnds(g)
      BY <1>9 DEF Stop
    <2> QED
      BY <1>9, <2>1, ProcessEndsTypes DEF TypeOK, Stop
  <1>10. ASSUME SubmitPassword(g) PROVE TypeOK'
    <2>1. [cur[g] EXCEPT !.auth_in_flight = TRUE, !.attempts = @ + 1] \in CurtainApps
      BY <1>0, <1>10, AppFieldTypes DEF SubmitPassword
    <2>2. cur' = [cur EXCEPT ![g] = [cur[g] EXCEPT !.auth_in_flight = TRUE, !.attempts = @ + 1]]
      BY <1>0, <1>10 DEF SubmitPassword, TypeOK, CurtainApps
    <2> QED
      BY <1>10, <2>1, <2>2 DEF TypeOK, SubmitPassword
  <1>11. ASSUME RenderFailure(g) PROVE TypeOK'
    <2>1. [cur[g] EXCEPT !.failure = TRUE, !.exit_requested = TRUE] \in CurtainApps
      BY <1>0, AppFieldTypes
    <2>2. cur' = [cur EXCEPT ![g] = [cur[g] EXCEPT !.failure = TRUE, !.exit_requested = TRUE]]
      BY <1>0, <1>11 DEF RenderFailure, TypeOK, CurtainApps
    <2> QED
      BY <1>11, <2>1, <2>2 DEF TypeOK, RenderFailure
  <1>12. ASSUME WriteLine(g) PROVE TypeOK'
    BY <1>12 DEF TypeOK, WriteLine
  <1> QED
    BY <1>1, <1>2, <1>3, <1>4, <1>5, <1>6, <1>7, <1>8, <1>9, <1>10, <1>11, <1>12 DEF CurtainStep

LEMMA CompositorTypes ==
    ASSUME TypeOK, NEW g \in Gen, CompositorStep(g) \/ RevokeLock(g)
    PROVE  TypeOK'
  <1>1. CASE GrantLock(g)
    BY <1>1 DEF TypeOK, GrantLock
  <1>2. CASE DenyLock(g)
    BY <1>2 DEF TypeOK, DenyLock
  <1>3. CASE RevokeLock(g)
    BY <1>3 DEF TypeOK, RevokeLock
  <1>4. CASE ForgetRequest(g)
    BY <1>4 DEF TypeOK, ForgetRequest
  <1> QED
    BY <1>1, <1>2, <1>3, <1>4 DEF CompositorStep

LEMMA StepTypes == TypeOK /\ [Next]_vars => TypeOK'
  <1> SUFFICES ASSUME TypeOK, [Next]_vars PROVE TypeOK'
    OBVIOUS
  <1>1. CASE DaemonStep \/ FingerprintStep \/ ThrottleExpires
    BY <1>1, ActivationTypes, DeactivationTypes, AuthenticationTypes
       DEF DaemonStep, HandlerStep, LoopStep
  <1>2. CASE \E g \in Gen : TaskStep(g) \/ CurtainStep(g) \/ CompositorStep(g)
    BY <1>2, AuthenticationTypes, CurtainTypes, CompositorTypes
  <1>3. CASE Request
    <2>1. \A trigger \in {"manual", "logind", "forwarded"} : LockRequested(trigger) => TypeOK'
      BY ActivationTypes DEF Handlers
    <2> QED
      BY <1>3, <2>1, DeactivationTypes, CurtainTypes DEF Request
  <1>4. CASE Failure
    BY <1>4, ActivationTypes, DeactivationTypes, CurtainTypes, CompositorTypes DEF Failure
  <1>5. CASE UNCHANGED vars
    BY <1>5 DEF TypeOK, vars
  <1> QED
    BY <1>1, <1>2, <1>3, <1>4, <1>5 DEF Next, Terminated

(* Types are kept by every step of daemon, curtains, compositor and        *)
(* environment, however many generations and faults there are.             *)
THEOREM TypesHold == Spec => []TypeOK
  <1> QED
    BY InitTypes, StepTypes, PTL DEF Spec

-----------------------------------------------------------------------------
(* At the select!, or in the one handler that leaves the lock as it is.    *)
AtLoop == dpc \in {"select", "reading"}

Read == AcceptConnection \/ ReadsNothing \/ AcceptSubmission

LEMMA ReadingLeavesTheLock ==
    ASSUME Read
    PROVE  /\ AtLoop /\ AtLoop'
           /\ UNCHANGED <<handler, child, lockState, curtain, runtime, lastGen, notified, results,
                          unlockMsg, sigterm, cur, compositorVars, hint, historyVars>>
  BY DEF Read, AtLoop, Select, AcceptConnection, ReadsNothing, AcceptSubmission

-----------------------------------------------------------------------------
(***************************************************************************)
(* Who may open the session: a verdict only counts for the lock it was     *)
(* given to, and a lock that was reported is not released by a curtain     *)
(* that nobody told to.                                                    *)
(***************************************************************************)

(* What the three parts of AuthorityInv depend on.                         *)
Slots == <<dpc, handler, child, curtain, runtime>>

(* Nothing is ever unauthorised: a part whose variables a step leaves      *)
(* alone still holds after it.                                             *)
LEMMA FrameAuthority ==
    ASSUME AuthorityInv, authorised \subseteq authorised'
    PROVE  /\ worker' = worker => AcceptedAreAuthorised'
           /\ results' = results => SuccessesAreAuthorised'
           /\ Slots' = Slots => StopsAreAuthorised'
  <1>1. worker' = worker => AcceptedAreAuthorised'
    BY DEF AuthorityInv, AcceptedAreAuthorised
  <1>2. results' = results => SuccessesAreAuthorised'
    BY DEF AuthorityInv, SuccessesAreAuthorised
  <1>3. Slots' = Slots => StopsAreAuthorised'
    BY DEF AuthorityInv, StopsAreAuthorised, Slots
  <1> QED
    BY <1>1, <1>2, <1>3

LEMMA AuthorityInit == Init => AuthorityInv
  <1> SUFFICES ASSUME Init PROVE AuthorityInv
    OBVIOUS
  <1>1. AcceptedAreAuthorised
    BY DEF Init, AcceptedAreAuthorised
  <1>2. SuccessesAreAuthorised
    BY DEF Init, SuccessesAreAuthorised
  <1>3. StopsAreAuthorised
    BY DEF Init, StopsAreAuthorised
  <1> QED
    BY <1>1, <1>2, <1>3 DEF AuthorityInv

-----------------------------------------------------------------------------
(* What a send, a drop and a receive do to the verdicts of a channel.      *)

LEMMA SendKeepsAuthority ==
    ASSUME TypeOK, AuthorityInv, NEW g \in Gen, NEW outcome \in {"Succeeded", "Rejected", "Matched"},
           SendResult(g, outcome), authorised \subseteq authorised',
           outcome # "Rejected" => g \in authorised'
    PROVE  SuccessesAreAuthorised'
  <1> DEFINE r == [outcome |-> outcome, gen |-> g]
  <1> SUFFICES ASSUME NEW h \in Gen, NEW i \in 1 .. Len(results'[h]),
                      results'[h][i].outcome # "Rejected"
               PROVE  h \in authorised'
    BY DEF SuccessesAreAuthorised
  <1>1. results[h] \in Seq(AuthResults) /\ r \in AuthResults
    BY DEF TypeOK, AuthResults
  <1>2. CASE results'[h] = results[h]
    BY <1>2 DEF AuthorityInv, SuccessesAreAuthorised
  <1>3. CASE h = g /\ results'[h] = Append(results[h], r)
    <2>1. CASE i \in 1 .. Len(results[h])
      <3>1. results'[h][i] = results[h][i]
        BY <1>1, <1>3, <2>1
      <3> QED
        BY <2>1, <3>1 DEF AuthorityInv, SuccessesAreAuthorised
    <2>2. CASE i = Len(results[h]) + 1
      <3>1. results'[h][i] = r
        BY <1>1, <1>3, <2>2
      <3> QED
        BY <1>3, <3>1
    <2> QED
      BY <1>1, <1>3, <2>1, <2>2
  <1> QED
    BY <1>2, <1>3 DEF SendResult, ResultChannel, TypeOK

LEMMA DropKeepsAuthority ==
    ASSUME AuthorityInv, NEW g, DropSockets(g), authorised \subseteq authorised'
    PROVE  SuccessesAreAuthorised'
  <1> SUFFICES ASSUME NEW h \in Gen, NEW i \in 1 .. Len(results'[h]),
                      results'[h][i].outcome # "Rejected"
               PROVE  h \in authorised'
    BY DEF SuccessesAreAuthorised
  <1>1. results'[h] = <<>> \/ results'[h] = results[h]
    BY DEF DropSockets
  <1>2. CASE results'[h] = <<>>
    <2>1. Len(results'[h]) = 0
      BY <1>2
    <2> QED
      BY <2>1
  <1>3. CASE results'[h] = results[h]
    BY <1>3 DEF AuthorityInv, SuccessesAreAuthorised
  <1> QED
    BY <1>1, <1>2, <1>3

(* The entries of a tail are entries of the sequence, one place later.     *)
LEMMA TailEntries ==
    ASSUME NEW S, NEW s \in Seq(S), s # <<>>, NEW i \in 1 .. Len(Tail(s))
    PROVE  i + 1 \in 1 .. Len(s) /\ Tail(s)[i] = s[i + 1]
  <1>1. /\ Len(Tail(s)) = Len(s) - 1
        /\ \A j \in 1 .. Len(Tail(s)) : Tail(s)[j] = s[j + 1]
    BY HeadTailProperties
  <1>2. Len(s) \in Nat
    OBVIOUS
  <1>3. i + 1 \in 1 .. Len(s)
    BY <1>1, <1>2
  <1> QED
    BY <1>1, <1>3

LEMMA ReceiveKeepsAuthority ==
    ASSUME TypeOK, AuthorityInv, NEW g \in Gen, results[g] # <<>>,
           results' = [results EXCEPT ![g] = Tail(@)], authorised \subseteq authorised'
    PROVE  SuccessesAreAuthorised'
  <1> SUFFICES ASSUME NEW h \in Gen, NEW i \in 1 .. Len(results'[h]),
                      results'[h][i].outcome # "Rejected"
               PROVE  h \in authorised'
    BY DEF SuccessesAreAuthorised
  <1>1. results[h] \in Seq(AuthResults)
    BY DEF TypeOK
  <1>2. CASE h # g
    <2>1. results'[h] = results[h]
      BY <1>2 DEF TypeOK
    <2> QED
      BY <2>1 DEF AuthorityInv, SuccessesAreAuthorised
  <1>3. CASE h = g
    <2>1. results'[h] = Tail(results[h])
      BY <1>3 DEF TypeOK
    <2>2. results[h] # <<>> /\ i \in 1 .. Len(Tail(results[h]))
      BY <1>3, <2>1
    <2>3. i + 1 \in 1 .. Len(results[h]) /\ Tail(results[h])[i] = results[h][i + 1]
      BY <1>1, <2>2, TailEntries
    <2> QED
      BY <2>1, <2>3 DEF AuthorityInv, SuccessesAreAuthorised
  <1> QED
    BY <1>2, <1>3

-----------------------------------------------------------------------------
(* One step per action of the daemon.                                      *)

LEMMA ActivationAuthority ==
    ASSUME TypeOK, AuthorityInv
    PROVE  /\ \A trigger \in {"manual", "logind", "forwarded"} : LockRequested(trigger) => AuthorityInv'
           /\ ReadyAccepted \/ ReportAwaited \/ ReportRead \/ ReadyTimeout => AuthorityInv'
           /\ ActivationChildExited \/ AbandonWaitError \/ ReadyWaitError => AuthorityInv'
           /\ CurtainExit => AuthorityInv'
  <1> USE DEF AuthorityInv
  <1>1. ASSUME NEW trigger \in {"manual", "logind", "forwarded"}, LockRequested(trigger)
        PROVE  AuthorityInv'
    <2>1. AcceptedAreAuthorised' /\ SuccessesAreAuthorised'
      BY <1>1, FrameAuthority DEF LockRequested
    <2>2. StopsAreAuthorised'
      BY <1>1 DEF StopsAreAuthorised, LockRequested, BeginActivation, AfterFailure
    <2> QED
      BY <2>1, <2>2
  <1>2. ASSUME ReadyAccepted \/ ReportRead PROVE AuthorityInv'
    <2>0. LockEstablished
      BY <1>2 DEF ReadyAccepted, ReportRead
    <2>1. AcceptedAreAuthorised' /\ SuccessesAreAuthorised'
      BY <2>0, FrameAuthority DEF LockEstablished, KeepSockets
    <2>2. StopsAreAuthorised'
      BY <2>0 DEF StopsAreAuthorised, LockEstablished, ActivationReturns
    <2> QED
      BY <2>1, <2>2
  <1>3. ASSUME ReportAwaited \/ ReadyTimeout PROVE AuthorityInv'
    <2>1. AcceptedAreAuthorised' /\ SuccessesAreAuthorised'
      BY <1>3, FrameAuthority DEF ReportAwaited, ReadyTimeout
    <2>2. StopsAreAuthorised'
      BY <1>3 DEF StopsAreAuthorised, ReportAwaited, ReadyTimeout
    <2> QED
      BY <2>1, <2>2
  <1>4. ASSUME ActivationFails PROVE AuthorityInv'
    <2>1. DropSockets(child) /\ authorised' = authorised /\ worker' = worker
      BY <1>4 DEF ActivationFails
    <2>2. StopsAreAuthorised'
      BY <1>4 DEF StopsAreAuthorised, ActivationFails, ActivationReturns, AfterFailure
    <2> QED
      BY <2>1, <2>2, FrameAuthority, DropKeepsAuthority
  <1>5. ASSUME ReadyWaitError PROVE AuthorityInv'
    <2>1. DropSockets(child) /\ authorised' = authorised /\ worker' = worker
      BY <1>5 DEF ReadyWaitError
    <2>2. StopsAreAuthorised'
      BY <1>5 DEF StopsAreAuthorised, ReadyWaitError, ActivationReturns, AfterFailure
    <2> QED
      BY <2>1, <2>2, FrameAuthority, DropKeepsAuthority
  <1>6. ASSUME CurtainExit PROVE AuthorityInv'
    <2>1. DropSockets(runtime) /\ authorised' = authorised /\ worker' = worker
      BY <1>6 DEF CurtainExit, ResetRuntime
    <2>2. StopsAreAuthorised'
      BY <1>6 DEF StopsAreAuthorised, CurtainExit, ResetRuntime, BeginActivation, AfterFailure, Select
    <2> QED
      BY <2>1, <2>2, FrameAuthority, DropKeepsAuthority
  <1> QED
    BY <1>1, <1>2, <1>3, <1>4, <1>5, <1>6 DEF ActivationChildExited, AbandonWaitError

LEMMA DeactivateAuthority ==
    ASSUME TypeOK, AuthorityInv, NEW why \in {"unlock", "auth", "shutdown"}, Select, Deactivate(why),
           why = "auth" => runtime # NoGen /\ results[runtime] # <<>>,
           authorised \subseteq authorised', curtain # NoGen => curtain \in authorised'
    PROVE  AuthorityInv'
  <1>0. AcceptedAreAuthorised'
    BY FrameAuthority DEF Deactivate
  <1>1. CASE DeactivateWithoutCurtain(why)
    <2>1. DropSockets(runtime)
      BY <1>1 DEF DeactivateWithoutCurtain, ResetRuntime
    <2>2. StopsAreAuthorised'
      BY <1>1 DEF AuthorityInv, StopsAreAuthorised, DeactivateWithoutCurtain, ResetRuntime, Select
    <2> QED
      BY <1>0, <2>1, <2>2, DropKeepsAuthority DEF AuthorityInv
  <1>2. CASE DeactivateCurtain(why)
    <2>1. StopsAreAuthorised'
      BY <1>2 DEF AuthorityInv, StopsAreAuthorised, DeactivateCurtain
    <2>2. SuccessesAreAuthorised'
      <3>1. CASE why = "auth"
        <4>1. runtime \in Gen /\ results[runtime] # <<>>
              /\ results' = [results EXCEPT ![runtime] = Tail(@)]
          BY <1>2, <3>1 DEF TypeOK, DeactivateCurtain, Consume
        <4> QED
          BY <4>1, ReceiveKeepsAuthority
      <3>2. CASE why # "auth"
        BY <1>2, <3>2, FrameAuthority DEF DeactivateCurtain
      <3> QED
        BY <3>1, <3>2
    <2> QED
      BY <1>0, <2>1, <2>2 DEF AuthorityInv
  <1> QED
    BY <1>1, <1>2 DEF Deactivate

(* A success read from the channel was given for the lock it was read at.  *)
LEMMA HeadOfSuccess ==
    ASSUME TypeOK, AuthorityInv, AuthSucceeded
    PROVE  runtime \in Gen /\ results[runtime] # <<>> /\ runtime \in authorised
  <1>1. /\ runtime \in Gen /\ results[runtime] # <<>>
        /\ Head(results[runtime]).outcome \in {"Succeeded", "Matched"}
    BY DEF TypeOK, AuthSucceeded
  <1>2. results[runtime] \in Seq(AuthResults)
    BY <1>1 DEF TypeOK
  <1>3. 1 \in 1 .. Len(results[runtime]) /\ results[runtime][1] = Head(results[runtime])
    BY <1>1, <1>2
  <1>4. results[runtime][1].outcome # "Rejected"
    BY <1>1, <1>3
  <1> QED
    BY <1>1, <1>3, <1>4 DEF AuthorityInv, SuccessesAreAuthorised

LEMMA DeactivationAuthority ==
    ASSUME TypeOK, AuthorityInv
    PROVE  /\ UnlockSignal \/ Shutdown \/ AuthSucceeded => AuthorityInv'
           /\ CurtainStopped \/ GracefulTimeout \/ KillCurtain => AuthorityInv'
           /\ DeactivateWaitError \/ DaemonFails => AuthorityInv'
  <1>1. ASSUME UnlockSignal \/ Shutdown PROVE AuthorityInv'
    <2>1. /\ authorised \subseteq authorised' /\ Select
          /\ curtain # NoGen => curtain \in authorised'
      BY <1>1 DEF TypeOK, UnlockSignal, Shutdown, Authorise
    <2> QED
      BY <1>1, <2>1, DeactivateAuthority DEF UnlockSignal, Shutdown
  <1>2. ASSUME AuthSucceeded PROVE AuthorityInv'
    <2>1. authorised' = authorised /\ Select /\ Deactivate("auth")
      BY <1>2 DEF AuthSucceeded
    <2>2. curtain # NoGen => curtain \in authorised'
      BY <1>2, <2>1, HeadOfSuccess DEF AuthorityInv, StopsAreAuthorised
    <2>3. runtime # NoGen /\ results[runtime] # <<>>
      BY <1>2, HeadOfSuccess
    <2> QED
      BY <2>1, <2>2, <2>3, DeactivateAuthority
  <1> USE DEF AuthorityInv
  <1>3. ASSUME CurtainStopped PROVE AuthorityInv'
    <2>1. DropSockets(runtime) /\ authorised' = authorised /\ worker' = worker
      BY <1>3 DEF CurtainStopped, ResetRuntime
    <2>2. StopsAreAuthorised'
      BY <1>3 DEF StopsAreAuthorised, CurtainStopped, HandlerReturns, ResetRuntime
    <2> QED
      BY <2>1, <2>2, FrameAuthority, DropKeepsAuthority
  <1>4. ASSUME GracefulTimeout PROVE AuthorityInv'
    <2>1. StopsAreAuthorised'
      BY <1>4 DEF StopsAreAuthorised, GracefulTimeout
    <2> QED
      BY <1>4, <2>1, FrameAuthority DEF GracefulTimeout
  <1>5. ASSUME KillCurtain PROVE AuthorityInv'
    BY <1>5, FrameAuthority DEF KillCurtain, Slots
  <1>6. ASSUME DeactivateWaitError PROVE AuthorityInv'
    <2>1. StopsAreAuthorised'
      BY <1>6 DEF StopsAreAuthorised, DeactivateWaitError, HandlerReturns
    <2> QED
      BY <1>6, <2>1, FrameAuthority DEF DeactivateWaitError
  <1>7. ASSUME DaemonFails PROVE AuthorityInv'
    <2>1. \A g \in Gen : worker'[g] = "none" /\ Len(results'[g]) = 0
      BY <1>7 DEF DaemonFails
    <2>2. AcceptedAreAuthorised'
      BY <2>1 DEF AcceptedAreAuthorised
    <2>3. SuccessesAreAuthorised'
      BY <2>1 DEF SuccessesAreAuthorised
    <2>4. StopsAreAuthorised'
      BY <1>7 DEF StopsAreAuthorised, DaemonFails, Select
    <2> QED
      BY <2>2, <2>3, <2>4
  <1> QED
    BY <1>1, <1>2, <1>3, <1>4, <1>5, <1>6, <1>7

LEMMA AuthenticationAuthority ==
    ASSUME TypeOK, AuthorityInv
    PROVE  /\ Read \/ AuthRejected \/ ThrottleExpires => AuthorityInv'
           /\ \A g \in Gen : TaskStep(g) => AuthorityInv'
           /\ Tick \/ FingerprintStep => AuthorityInv'
  <1> USE DEF AuthorityInv
  <1>1. ASSUME Read PROVE AuthorityInv'
    <2>1. AcceptedAreAuthorised'
      BY <1>1 DEF TypeOK, AcceptedAreAuthorised, Read, AcceptConnection, ReadsNothing,
         AcceptSubmission
    <2>2. StopsAreAuthorised'
      BY <1>1, ReadingLeavesTheLock DEF StopsAreAuthorised, AtLoop
    <2> QED
      BY <1>1, <2>1, <2>2, ReadingLeavesTheLock, FrameAuthority
  <1>2. ASSUME AuthRejected PROVE AuthorityInv'
    <2>1. /\ runtime \in Gen /\ results[runtime] # <<>> /\ authorised' = authorised
          /\ results' = [results EXCEPT ![runtime] = Tail(@)]
          /\ worker' = worker /\ Slots' = Slots
      BY <1>2 DEF TypeOK, AuthRejected, Slots
    <2> QED
      BY <2>1, FrameAuthority, ReceiveKeepsAuthority
  <1>3. ASSUME ThrottleExpires PROVE AuthorityInv'
    BY <1>3, FrameAuthority DEF ThrottleExpires, Slots
  <1>4. ASSUME NEW g \in Gen, PamVerdict(g) PROVE AuthorityInv'
    <2>1. authorised \subseteq authorised' /\ results' = results /\ Slots' = Slots
      BY <1>4 DEF PamVerdict, Authorise, Slots
    <2>2. AcceptedAreAuthorised'
      BY <1>4 DEF TypeOK, AcceptedAreAuthorised, PamVerdict, Authorise
    <2> QED
      BY <2>1, <2>2, FrameAuthority
  <1>5. ASSUME NEW g \in Gen, WorkerReports(g) PROVE AuthorityInv'
    <2> DEFINE outcome == IF worker[g] = "accepted" THEN "Succeeded" ELSE "Rejected"
    <2>1. /\ outcome \in {"Succeeded", "Rejected", "Matched"} /\ authorised' = authorised
          /\ SendResult(g, outcome) /\ Slots' = Slots
      BY <1>5 DEF WorkerReports, Slots
    <2>2. outcome # "Rejected" => g \in authorised'
      BY <2>1 DEF AcceptedAreAuthorised
    <2> HIDE DEF outcome
    <2>3. SuccessesAreAuthorised'
      BY <2>1, <2>2, SendKeepsAuthority
    <2>4. AcceptedAreAuthorised'
      BY <1>5 DEF TypeOK, AcceptedAreAuthorised, WorkerReports
    <2> QED
      BY <2>1, <2>3, <2>4, FrameAuthority
  <1>6. ASSUME Tick PROVE AuthorityInv'
    BY <1>6, FrameAuthority DEF Tick, Slots
  <1>7. ASSUME FingerprintMatched PROVE AuthorityInv'
    <2>1. /\ fp.task \in Gen /\ SendResult(fp.task, "Matched")
          /\ authorised \subseteq authorised' /\ fp.task \in authorised'
          /\ worker' = worker /\ Slots' = Slots
      BY <1>7 DEF TypeOK, FingerprintMatched, FingerprintHandles, Authorise, Slots
    <2>2. SuccessesAreAuthorised'
      BY <2>1, SendKeepsAuthority
    <2> QED
      BY <2>1, <2>2, FrameAuthority
  <1>8. ASSUME FingerprintUnavailable PROVE AuthorityInv'
    BY <1>8, FrameAuthority DEF FingerprintUnavailable, Slots
  <1> QED
    BY <1>1, <1>2, <1>3, <1>4, <1>5, <1>6, <1>7, <1>8 DEF TaskStep, FingerprintStep

(* Curtains and compositor do not touch what the invariant is about.       *)
LEMMA OthersAuthority ==
    ASSUME AuthorityInv, UNCHANGED <<worker, results, authorised, Slots>>
    PROVE  AuthorityInv'
  BY FrameAuthority DEF AuthorityInv

LEMMA OthersLeaveAuthority ==
    ASSUME NEW g \in Gen,
           \/ CurtainStep(g) \/ CompositorStep(g) \/ SubmitPassword(g)
           \/ RenderFailure(g) \/ Crash(g) \/ RevokeLock(g)
    PROVE  UNCHANGED <<worker, results, authorised, Slots>>
  <1> USE DEF Slots
  <1>1. CASE CurtainStep(g)
    BY <1>1 DEF CurtainStep, AcquireLock, RegisterSignals, DieBySigterm, HandleSigterm,
                HandleUnlock, HandleConfigure, HandleLocked, HandleFinished, HandleReply,
                WriteReport, WriteLine, LockDeadline, Stop
  <1>2. CASE CompositorStep(g) \/ RevokeLock(g)
    BY <1>2 DEF CompositorStep, GrantLock, DenyLock, ForgetRequest, RevokeLock
  <1>3. CASE SubmitPassword(g) \/ RenderFailure(g) \/ Crash(g)
    BY <1>3 DEF SubmitPassword, RenderFailure, Crash
  <1> QED
    BY <1>1, <1>2, <1>3

LEMMA AuthorityStep == TypeOK /\ AuthorityInv /\ [Next]_vars => AuthorityInv'
  <1> SUFFICES ASSUME TypeOK, AuthorityInv, [Next]_vars PROVE AuthorityInv'
    OBVIOUS
  <1>1. CASE DaemonStep \/ FingerprintStep \/ ThrottleExpires
    BY <1>1, ActivationAuthority, DeactivationAuthority, AuthenticationAuthority
       DEF DaemonStep, HandlerStep, LoopStep, Read
  <1>2. CASE \E g \in Gen : TaskStep(g) \/ CurtainStep(g) \/ CompositorStep(g)
    BY <1>2, AuthenticationAuthority, OthersLeaveAuthority, OthersAuthority
  <1>3. CASE Request
    BY <1>3, ActivationAuthority, DeactivationAuthority, OthersLeaveAuthority, OthersAuthority
       DEF Request
  <1>4. CASE Failure
    BY <1>4, ActivationAuthority, DeactivationAuthority, OthersLeaveAuthority, OthersAuthority
       DEF Failure
  <1>5. CASE UNCHANGED vars
    BY <1>5, OthersAuthority DEF vars, Slots
  <1> QED
    BY <1>1, <1>2, <1>3, <1>4, <1>5 DEF Next, Terminated

(* AuthorityInv is an invariant.                                           *)
THEOREM AuthorityHolds == Spec => []AuthorityInv
  BY TypesHold, AuthorityInit, AuthorityStep, PTL DEF Spec

(* A success unlocks only the lock it was given to, however late the       *)
(* verdict of an earlier lock arrives and whatever fails: for every number *)
(* of locks and every set of faults.                                       *)
THEOREM SuccessUnlocksItsOwnLock == Spec => []AuthUnlocksOwnLock
  <1>1. AuthorityInv => AuthUnlocksOwnLock
    BY DEF AuthorityInv, StopsAreAuthorised, AuthUnlocksOwnLock
  <1> QED
    BY <1>1, AuthorityHolds, PTL

-----------------------------------------------------------------------------
(* ReleaseInv, when frames can be drawn and the compositor keeps a lock.   *)

LEMMA ReleaseInit == Init => ReleaseInv
  <1> SUFFICES ASSUME Init PROVE ReleaseInv
    OBVIOUS
  <1>1. GenerationsAreUsed /\ StartingIsUntold /\ ToldAreAuthorised
    BY DEF Init, GenerationsAreUsed, StartingIsUntold, ToldAreAuthorised
  <1>2. FailuresAreFinished
    BY DEF Init, NewCurtain, FailuresAreFinished
  <1> QED
    BY <1>1, <1>2 DEF ReleaseInv

(* What a step of the daemon may do that tells no curtain anything.        *)
LEMMA QuietDaemon ==
    ASSUME TypeOK, ReleaseInv, UNCHANGED <<cur, unlockMsg, sigterm, reported, lastGen>>,
           authorised \subseteq authorised',
           child' \in {child, NoGen}, curtain' \in {curtain, NoGen},
           dpc' \in {"starting", "reporting"} => dpc \in {"starting", "reporting"},
           dpc' = "abandoning" => dpc = "abandoning",
           dpc' \in {"starting", "reporting", "abandoning"} => child' = child
    PROVE  ReleaseInv'
  <1>1. GenerationsAreUsed'
    BY DEF TypeOK, ReleaseInv, GenerationsAreUsed
  <1>2. StartingIsUntold'
    BY DEF ReleaseInv, StartingIsUntold, ToldToExit
  <1>3. ToldAreAuthorised'
    BY DEF ReleaseInv, ToldAreAuthorised, ToldToExit
  <1>4. FailuresAreFinished'
    BY DEF ReleaseInv, FailuresAreFinished
  <1> QED
    BY <1>1, <1>2, <1>3, <1>4 DEF ReleaseInv

(* What a step of a curtain or of the compositor may do.                   *)
DaemonSide == <<dpc, child, curtain, reported, lastGen, authorised>>

LEMMA QuietCurtain ==
    ASSUME TypeOK, ReleaseInv, UNCHANGED DaemonSide,
           unlockMsg' \subseteq unlockMsg, sigterm' \subseteq sigterm,
           \A h \in Gen : ToldToExit(h)' => ToldToExit(h),
           FailuresAreFinished'
    PROVE  ReleaseInv'
  <1>1. GenerationsAreUsed'
    BY DEF ReleaseInv, GenerationsAreUsed, DaemonSide
  <1>2. StartingIsUntold'
    BY DEF ReleaseInv, StartingIsUntold, DaemonSide
  <1>3. ToldAreAuthorised'
    BY DEF TypeOK, ReleaseInv, ToldAreAuthorised, DaemonSide
  <1> QED
    BY <1>1, <1>2, <1>3 DEF ReleaseInv

(* Only cur, or less, changes, and in one curtain.                         *)
LEMMA QuietCurtains ==
    ASSUME TypeOK, ReleaseInv, UNCHANGED DaemonSide, NEW g \in Gen, NEW c \in CurtainApps,
           unlockMsg' \subseteq unlockMsg, sigterm' \subseteq sigterm,
           cur' = [cur EXCEPT ![g] = c],
           c.exit_requested => ToldToExit(g), c.failure => c.session_finished
    PROVE  ReleaseInv'
  <1>1. \A h \in Gen : cur'[h] = IF h = g THEN c ELSE cur[h]
    BY DEF TypeOK
  <1>2. \A h \in Gen : ToldToExit(h)' => ToldToExit(h)
    BY <1>1 DEF ToldToExit
  <1>3. FailuresAreFinished'
    BY <1>1 DEF ReleaseInv, FailuresAreFinished
  <1> QED
    BY <1>2, <1>3, QuietCurtain

LEMMA ProcessEndsRelease ==
    ASSUME TypeOK, ReleaseInv, NEW g \in Gen, ProcessEnds(g), UNCHANGED DaemonSide
    PROVE  ReleaseInv'
  <1>1. NewCurtain("exited") \in CurtainApps
    BY AppTypes
  <1>2. ~NewCurtain("exited").exit_requested /\ ~NewCurtain("exited").failure
    BY DEF NewCurtain
  <1> QED
    BY <1>1, <1>2, QuietCurtains DEF ProcessEnds

LEMMA CurtainRelease ==
    ASSUME TypeOK, ReleaseInv, Faults \cap {"render", "deny"} = {}, NEW g \in Gen,
           \/ CurtainStep(g) \/ CompositorStep(g) \/ SubmitPassword(g)
           \/ RenderFailure(g) \/ Crash(g) \/ RevokeLock(g)
    PROVE  ReleaseInv'
  <1> USE DEF DaemonSide
  <1>0. /\ cur[g] \in CurtainApps
        /\ cur[g].exit_requested => ToldToExit(g)
        /\ cur[g].failure => cur[g].session_finished
    BY DEF TypeOK, ToldToExit, ReleaseInv, FailuresAreFinished
  <1>1. ASSUME NEW c \in CurtainApps, cur' = [cur EXCEPT ![g] = c], UNCHANGED DaemonSide,
               unlockMsg' \subseteq unlockMsg, sigterm' \subseteq sigterm,
               c.exit_requested = cur[g].exit_requested, c.failure = cur[g].failure,
               c.session_finished = cur[g].session_finished
        PROVE  ReleaseInv'
    BY <1>0, <1>1, QuietCurtains
  <1>2. ASSUME AcquireLock(g) \/ RegisterSignals(g) \/ WriteReport(g) PROVE ReleaseInv'
    <2>1. PICK p \in {"acquired", "running"} : cur' = [cur EXCEPT ![g] = [cur[g] EXCEPT !.proc = p]]
      BY <1>2 DEF AcquireLock, RegisterSignals, WriteReport
    <2> DEFINE c == [cur[g] EXCEPT !.proc = p]
    <2>2. /\ c \in CurtainApps /\ c.exit_requested = cur[g].exit_requested
          /\ c.failure = cur[g].failure /\ c.session_finished = cur[g].session_finished
      BY <1>0 DEF CurtainApps
    <2> HIDE DEF c
    <2> QED
      BY <1>1, <1>2, <2>1, <2>2 DEF c, AcquireLock, RegisterSignals, WriteReport
  <1>3. ASSUME HandleSigterm(g) \/ HandleUnlock(g) PROVE ReleaseInv'
    <2> DEFINE c == [cur[g] EXCEPT !.exit_requested = TRUE]
    <2>1. /\ c \in CurtainApps /\ c.failure = cur[g].failure
          /\ c.session_finished = cur[g].session_finished
      BY <1>0 DEF CurtainApps
    <2>2. ToldToExit(g)
      BY <1>3 DEF HandleSigterm, HandleUnlock, ToldToExit
    <2>3. UNCHANGED DaemonSide /\ cur' = [cur EXCEPT ![g] = c]
          /\ unlockMsg' \subseteq unlockMsg /\ sigterm' \subseteq sigterm
      BY <1>3 DEF HandleSigterm, HandleUnlock
    <2> HIDE DEF c
    <2> QED
      BY <1>0, <2>1, <2>2, <2>3, QuietCurtains
  <1>4. ASSUME NEW d \in CurtainApps, MaybeNotifyReady(g, d), UNCHANGED <<DaemonSide, unlockMsg, sigterm>>,
               d.exit_requested = cur[g].exit_requested, d.failure = cur[g].failure,
               d.session_finished = cur[g].session_finished
        PROVE  ReleaseInv'
    <2>1. PICK c \in CurtainApps : /\ cur' = [cur EXCEPT ![g] = c]
                                   /\ c.exit_requested = d.exit_requested
                                   /\ c.failure = d.failure
                                   /\ c.session_finished = d.session_finished
      BY <1>4, ReadyChange
    <2> QED
      BY <1>1, <1>4, <2>1
  <1>5. ASSUME HandleConfigure(g) PROVE ReleaseInv'
    <2> DEFINE d == [cur[g] EXCEPT !.configured = TRUE]
    <2>1. /\ d \in CurtainApps /\ d.exit_requested = cur[g].exit_requested
          /\ d.failure = cur[g].failure /\ d.session_finished = cur[g].session_finished
      BY <1>0 DEF CurtainApps
    <2>2. MaybeNotifyReady(g, d) /\ UNCHANGED <<DaemonSide, unlockMsg, sigterm>>
      BY <1>5 DEF HandleConfigure
    <2> HIDE DEF d
    <2> QED
      BY <1>4, <2>1, <2>2
  <1>6. ASSUME HandleLocked(g) PROVE ReleaseInv'
    <2> DEFINE d == [cur[g] EXCEPT !.session_locked = TRUE]
    <2>1. /\ d \in CurtainApps /\ d.exit_requested = cur[g].exit_requested
          /\ d.failure = cur[g].failure /\ d.session_finished = cur[g].session_finished
      BY <1>0 DEF CurtainApps
    <2>2. MaybeNotifyReady(g, d) /\ UNCHANGED <<DaemonSide, unlockMsg, sigterm>>
      BY <1>6 DEF HandleLocked
    <2> HIDE DEF d
    <2> QED
      BY <1>4, <2>1, <2>2
  <1>7. ASSUME HandleFinished(g) PROVE ReleaseInv'
    <2> DEFINE c == [cur[g] EXCEPT !.session_finished = TRUE, !.failure = TRUE]
    <2>1. /\ c \in CurtainApps /\ c.exit_requested = cur[g].exit_requested
          /\ c.session_finished
      BY <1>0 DEF CurtainApps
    <2>2. UNCHANGED <<DaemonSide, unlockMsg, sigterm>> /\ cur' = [cur EXCEPT ![g] = c]
      BY <1>7 DEF HandleFinished
    <2> HIDE DEF c
    <2> QED
      BY <1>0, <2>1, <2>2, QuietCurtains
  <1>8. ASSUME HandleReply(g) \/ SubmitPassword(g) PROVE ReleaseInv'
    <2>1. PICK b \in BOOLEAN, n \in 0 .. MaxAttempts :
              cur' = [cur EXCEPT ![g] = [cur[g] EXCEPT !.auth_in_flight = b, !.attempts = n]]
      <3>1. CASE HandleReply(g)
        <4> DEFINE b == cur[g].auth_in_flight /\ ~Reopens(reply[g])
        <4>1. b \in BOOLEAN /\ cur[g].attempts \in 0 .. MaxAttempts
          BY <1>0 DEF CurtainApps
        <4>2. [cur[g] EXCEPT !.auth_in_flight = b]
                  = [cur[g] EXCEPT !.auth_in_flight = b, !.attempts = cur[g].attempts]
          BY <1>0, <4>1 DEF CurtainApps
        <4>3. cur' = [cur EXCEPT ![g] = [cur[g] EXCEPT !.auth_in_flight = b]]
          BY <3>1 DEF HandleReply
        <4> QED
          BY <4>1, <4>2, <4>3
      <3>2. CASE SubmitPassword(g)
        <4>1. cur[g].attempts + 1 \in 0 .. MaxAttempts
          BY <1>0, <3>2, BoundsAssumption DEF SubmitPassword, CurtainApps
        <4> QED
          BY <3>2, <4>1 DEF SubmitPassword
      <3> QED
        BY <1>8, <3>1, <3>2
    <2> DEFINE c == [cur[g] EXCEPT !.auth_in_flight = b, !.attempts = n]
    <2>2. /\ c \in CurtainApps /\ c.exit_requested = cur[g].exit_requested
          /\ c.failure = cur[g].failure /\ c.session_finished = cur[g].session_finished
      BY <1>0, BoundsAssumption DEF CurtainApps
    <2>3. UNCHANGED <<DaemonSide, unlockMsg, sigterm>>
      BY <1>8 DEF HandleReply, SubmitPassword
    <2> HIDE DEF c
    <2> QED
      BY <1>1, <2>1, <2>2, <2>3 DEF c
  <1>9. ASSUME DieBySigterm(g) \/ Stop(g) \/ LockDeadline(g) \/ Crash(g) PROVE ReleaseInv'
    BY <1>9, ProcessEndsRelease DEF DieBySigterm, Stop, LockDeadline, Crash
  <1>10. ASSUME CompositorStep(g) \/ WriteLine(g) PROVE ReleaseInv'
    <2>1. UNCHANGED <<cur, DaemonSide, unlockMsg, sigterm>>
      BY <1>10 DEF CompositorStep, GrantLock, DenyLock, ForgetRequest, WriteLine
    <2>2. cur' = [cur EXCEPT ![g] = cur[g]]
      BY <2>1 DEF TypeOK
    <2> QED
      BY <1>0, <1>1, <2>1, <2>2
  <1>11. ~RenderFailure(g) /\ ~RevokeLock(g)
    BY DEF RenderFailure, RevokeLock
  <1> QED
    BY <1>2, <1>3, <1>5, <1>6, <1>7, <1>8, <1>9, <1>10, <1>11 DEF CurtainStep

LEMMA BeginActivationRelease ==
    ASSUME TypeOK, ReleaseInv, SpareGen, NEW trigger, BeginActivation(trigger),
           UNCHANGED <<unlockMsg, sigterm, reported, authorised>>,
           curtain' \in {curtain, NoGen}
    PROVE  ReleaseInv'
  <1>0. PICK h \in Gen : h = lastGen + 1
    BY BoundsAssumption DEF TypeOK, SpareGen
  <1>1. CASE dpc' = "starting"
    <2>1. /\ lastGen' = h /\ child' = h
          /\ cur' = [cur EXCEPT ![h] = NewCurtain("starting")]
      BY <1>0, <1>1 DEF BeginActivation, AfterFailure
    <2>2. /\ cur'[h] = NewCurtain("starting")
          /\ \A g \in Gen : g # h => cur'[g] = cur[g]
      BY <2>1 DEF TypeOK
    <2>3. GenerationsAreUsed'
      BY <1>0, <2>1 DEF TypeOK, ReleaseInv, GenerationsAreUsed
    <2>4. h \notin reported \cup unlockMsg \cup sigterm
      BY <1>0 DEF TypeOK, ReleaseInv, GenerationsAreUsed
    <2>5. ~ToldToExit(h)'
      BY <2>2, <2>4 DEF ToldToExit, NewCurtain
    <2>6. StartingIsUntold'
      BY <1>1, <2>1, <2>4, <2>5 DEF StartingIsUntold
    <2>7. ToldAreAuthorised'
      BY <2>2, <2>4 DEF TypeOK, ReleaseInv, ToldAreAuthorised, ToldToExit
    <2>8. FailuresAreFinished'
      BY <2>1, <2>2 DEF ReleaseInv, FailuresAreFinished, NewCurtain
    <2> QED
      BY <2>3, <2>6, <2>7, <2>8 DEF ReleaseInv
  <1>2. CASE dpc' # "starting"
    <2>1. /\ UNCHANGED <<cur, lastGen, child>>
          /\ dpc' \notin {"starting", "reporting", "abandoning"}
      BY <1>2 DEF BeginActivation, AfterFailure
    <2> QED
      BY <2>1, QuietDaemon
  <1> QED
    BY <1>1, <1>2

LEMMA ActivationRelease ==
    ASSUME TypeOK, ReleaseInv
    PROVE  /\ \A trigger \in {"manual", "logind", "forwarded"} : LockRequested(trigger) => ReleaseInv'
           /\ ReadyAccepted \/ ReportAwaited \/ ReportRead \/ ReadyTimeout => ReleaseInv'
           /\ ActivationChildExited \/ AbandonWaitError \/ ReadyWaitError => ReleaseInv'
           /\ CurtainExit => ReleaseInv'
  <1>1. ASSUME NEW trigger \in {"manual", "logind", "forwarded"}, LockRequested(trigger)
        PROVE  ReleaseInv'
    BY <1>1, BeginActivationRelease DEF LockRequested
  <1>2. ASSUME ReadyAccepted \/ ReportRead PROVE ReleaseInv'
    <2>1. child \in Gen \ reported /\ ~ToldToExit(child) /\ LockEstablished
      BY <1>2 DEF ReleaseInv, StartingIsUntold, ReadyAccepted, ReportRead
    <2>2. /\ UNCHANGED <<cur, unlockMsg, sigterm, lastGen, authorised>> /\ dpc' = "select"
          /\ reported' = reported \cup {child} /\ curtain' = child /\ child' = NoGen
      BY <2>1 DEF LockEstablished, ActivationReturns
    <2>3. GenerationsAreUsed'
      BY <2>1, <2>2 DEF TypeOK, ReleaseInv, GenerationsAreUsed
    <2>4. ToldAreAuthorised'
      BY <2>1, <2>2 DEF ReleaseInv, ToldAreAuthorised, ToldToExit
    <2> QED
      BY <2>2, <2>3, <2>4 DEF ReleaseInv, StartingIsUntold, FailuresAreFinished
  <1>3. ASSUME ReadyTimeout PROVE ReleaseInv'
    <2>1. child \in Gen \ reported /\ child <= lastGen
      BY <1>3 DEF ReleaseInv, GenerationsAreUsed, StartingIsUntold, ReadyTimeout
    <2>2. /\ UNCHANGED <<cur, child, curtain, reported, unlockMsg, lastGen, authorised>>
          /\ dpc' = "abandoning" /\ sigterm' \subseteq sigterm \cup {child}
      BY <1>3 DEF ReadyTimeout
    <2>3. GenerationsAreUsed'
      BY <2>1, <2>2 DEF TypeOK, ReleaseInv, GenerationsAreUsed
    <2>4. ToldAreAuthorised'
      BY <2>1, <2>2 DEF ReleaseInv, ToldAreAuthorised, ToldToExit
    <2> QED
      BY <2>1, <2>2, <2>3, <2>4 DEF ReleaseInv, StartingIsUntold, FailuresAreFinished
  <1>4. ASSUME ActivationFails PROVE ReleaseInv'
    <2>1. /\ UNCHANGED <<cur, unlockMsg, sigterm, reported, lastGen, curtain, authorised>>
          /\ child' = NoGen /\ dpc' \notin {"starting", "reporting", "abandoning"}
      BY <1>4 DEF ActivationFails, ActivationReturns, AfterFailure
    <2> QED
      BY <2>1, QuietDaemon
  <1>5. ASSUME ReadyWaitError PROVE ReleaseInv'
    <2>1. /\ UNCHANGED <<cur, unlockMsg, sigterm, reported, lastGen, curtain, authorised>>
          /\ child' = NoGen /\ dpc' \notin {"starting", "reporting", "abandoning"}
      BY <1>5 DEF ReadyWaitError, ActivationReturns, AfterFailure
    <2> QED
      BY <2>1, QuietDaemon
  <1>6. ASSUME CurtainExit PROVE ReleaseInv'
    BY <1>6, BeginActivationRelease DEF CurtainExit
  <1>7. ASSUME ReportAwaited PROVE ReleaseInv'
    <2>1. /\ UNCHANGED <<cur, unlockMsg, sigterm, reported, lastGen, child, curtain, authorised>>
          /\ dpc = "starting" /\ dpc' = "reporting"
      BY <1>7 DEF ReportAwaited
    <2> QED
      BY <2>1, QuietDaemon
  <1> QED
    BY <1>1, <1>2, <1>3, <1>4, <1>5, <1>6, <1>7 DEF ActivationChildExited, AbandonWaitError

(* Only a curtain for which somebody was let in is told to exit.           *)
LEMMA DeactivateRelease ==
    ASSUME TypeOK, ReleaseInv, NEW why, Deactivate(why),
           authorised \subseteq authorised', curtain # NoGen => curtain \in authorised'
    PROVE  ReleaseInv'
  <1>1. CASE DeactivateWithoutCurtain(why)
    <2>1. /\ UNCHANGED <<cur, unlockMsg, sigterm, reported, lastGen, child, curtain>>
          /\ dpc' \notin {"starting", "reporting", "abandoning"}
      BY <1>1 DEF Deactivate, DeactivateWithoutCurtain
    <2> QED
      BY <2>1, QuietDaemon
  <1>2. CASE DeactivateCurtain(why)
    <2>1. /\ UNCHANGED <<cur, sigterm, reported, lastGen>>
          /\ child' = curtain /\ curtain' = NoGen /\ curtain # NoGen
          /\ dpc' \in {"graceful", "terminating"} /\ unlockMsg' \subseteq unlockMsg \cup {curtain}
      BY <1>2 DEF Deactivate, DeactivateCurtain
    <2>2. GenerationsAreUsed'
      BY <2>1 DEF TypeOK, ReleaseInv, GenerationsAreUsed
    <2>3. StartingIsUntold' /\ FailuresAreFinished'
      BY <2>1 DEF ReleaseInv, StartingIsUntold, FailuresAreFinished
    <2>4. ToldAreAuthorised'
      BY <2>1 DEF ReleaseInv, ToldAreAuthorised, ToldToExit
    <2> QED
      BY <2>2, <2>3, <2>4 DEF ReleaseInv
  <1> QED
    BY <1>1, <1>2 DEF Deactivate

LEMMA DeactivationRelease ==
    ASSUME TypeOK, AuthorityInv, ReleaseInv
    PROVE  /\ UnlockSignal \/ Shutdown \/ AuthSucceeded => ReleaseInv'
           /\ CurtainStopped \/ GracefulTimeout \/ KillCurtain => ReleaseInv'
           /\ DeactivateWaitError \/ DaemonFails => ReleaseInv'
  <1>1. ASSUME UnlockSignal \/ Shutdown PROVE ReleaseInv'
    <2>1. /\ authorised \subseteq authorised'
          /\ curtain # NoGen => curtain \in authorised'
      BY <1>1 DEF TypeOK, UnlockSignal, Shutdown, Authorise
    <2> QED
      BY <1>1, <2>1, DeactivateRelease DEF UnlockSignal, Shutdown
  <1>2. ASSUME AuthSucceeded PROVE ReleaseInv'
    <2>1. authorised' = authorised /\ Deactivate("auth")
      BY <1>2 DEF AuthSucceeded
    <2>2. curtain # NoGen => curtain \in authorised'
      BY <1>2, <2>1, HeadOfSuccess DEF AuthorityInv, StopsAreAuthorised
    <2> QED
      BY <2>1, <2>2, DeactivateRelease
  <1>3. ASSUME CurtainStopped \/ DeactivateWaitError PROVE ReleaseInv'
    <2>1. /\ UNCHANGED <<cur, unlockMsg, sigterm, reported, lastGen, curtain, authorised>>
          /\ child' = NoGen /\ dpc' \notin {"starting", "reporting", "abandoning"}
      BY <1>3 DEF CurtainStopped, DeactivateWaitError, HandlerReturns
    <2> QED
      BY <2>1, QuietDaemon
  <1>4. ASSUME GracefulTimeout PROVE ReleaseInv'
    <2>1. /\ UNCHANGED <<cur, child, curtain, reported, unlockMsg, lastGen, authorised>>
          /\ dpc' = "terminating" /\ sigterm' = sigterm \cup {child}
      BY <1>4 DEF GracefulTimeout
    <2>2. child \in authorised /\ child \in Gen
      BY <1>4 DEF GracefulTimeout, AuthorityInv, StopsAreAuthorised, TypeOK
    <2>3. GenerationsAreUsed'
      BY <2>1, <2>2 DEF TypeOK, ReleaseInv, GenerationsAreUsed
    <2>4. StartingIsUntold' /\ FailuresAreFinished'
      BY <2>1 DEF ReleaseInv, StartingIsUntold, FailuresAreFinished
    <2>5. ToldAreAuthorised'
      BY <2>1, <2>2 DEF ReleaseInv, ToldAreAuthorised, ToldToExit
    <2> QED
      BY <2>3, <2>4, <2>5 DEF ReleaseInv
  <1>5. ASSUME KillCurtain PROVE ReleaseInv'
    <2>1. child \in Gen /\ ProcessEnds(child) /\ UNCHANGED DaemonSide
      BY <1>5 DEF TypeOK, KillCurtain, Alive, Phase, DaemonSide
    <2> QED
      BY <2>1, ProcessEndsRelease
  <1>6. ASSUME DaemonFails PROVE ReleaseInv'
    <2>1. /\ UNCHANGED <<cur, unlockMsg, sigterm, reported, lastGen, child, authorised>>
          /\ curtain' = NoGen /\ dpc' = "failed"
      BY <1>6 DEF DaemonFails
    <2> QED
      BY <2>1, QuietDaemon
  <1> QED
    BY <1>1, <1>2, <1>3, <1>4, <1>5, <1>6

LEMMA AuthenticationRelease ==
    ASSUME TypeOK, ReleaseInv,
           \/ Read \/ AuthRejected \/ ThrottleExpires \/ Tick \/ FingerprintStep
           \/ \E g \in Gen : TaskStep(g)
    PROVE  ReleaseInv'
  <1>1. CASE Read
    BY <1>1, ReadingLeavesTheLock, QuietDaemon DEF AtLoop
  <1>2. CASE ~Read
    <2>1. /\ UNCHANGED <<cur, unlockMsg, sigterm, reported, lastGen, dpc, child, curtain>>
          /\ authorised \subseteq authorised'
      BY <1>2 DEF AuthRejected, ThrottleExpires, Tick, FingerprintStep, FingerprintMatched,
         FingerprintUnavailable, TaskStep, PamVerdict, WorkerReports, Authorise
    <2> QED
      BY <2>1, QuietDaemon
  <1> QED
    BY <1>1, <1>2

LEMMA ReleaseStep ==
    ASSUME Faults \cap {"render", "deny"} = {}
    PROVE  TypeOK /\ AuthorityInv /\ ReleaseInv /\ [Next]_vars => ReleaseInv'
  <1> SUFFICES ASSUME TypeOK, AuthorityInv, ReleaseInv, [Next]_vars PROVE ReleaseInv'
    OBVIOUS
  <1>1. CASE DaemonStep \/ FingerprintStep \/ ThrottleExpires
    BY <1>1, ActivationRelease, DeactivationRelease, AuthenticationRelease
       DEF DaemonStep, HandlerStep, LoopStep, Read
  <1>2. CASE \E g \in Gen : TaskStep(g) \/ CurtainStep(g) \/ CompositorStep(g)
    BY <1>2, AuthenticationRelease, CurtainRelease
  <1>3. CASE Request
    BY <1>3, ActivationRelease, DeactivationRelease, CurtainRelease DEF Request
  <1>4. CASE Failure
    BY <1>4, ActivationRelease, DeactivationRelease, CurtainRelease DEF Failure
  <1>5. CASE UNCHANGED vars
    <2>1. UNCHANGED <<cur, unlockMsg, sigterm, reported, lastGen, dpc, child, curtain, authorised>>
      BY <1>5 DEF vars
    <2> QED
      BY <2>1, QuietDaemon
  <1> QED
    BY <1>1, <1>2, <1>3, <1>4, <1>5 DEF Next, Terminated

(* Only a curtain gives a lock back, in shutdown().                        *)
LEMMA OnlyStopReleases ==
    ASSUME Faults \cap {"render", "deny"} = {}, [Next]_vars, lockOwner # NoGen, lockOwner' = NoGen
    PROVE  \E g \in Gen : Stop(g) /\ ReleasesLock(g) /\ lockOwner = g
  <1>1. ASSUME NEW g \in Gen, CurtainStep(g)
        PROVE  Stop(g) /\ ReleasesLock(g) /\ lockOwner = g
    BY <1>1 DEF CurtainStep, AcquireLock, RegisterSignals, DieBySigterm, HandleSigterm,
                HandleUnlock, HandleConfigure, HandleLocked, HandleFinished, HandleReply,
                WriteReport, WriteLine, LockDeadline, Stop
  <1>2. ASSUME NEW g \in Gen
        PROVE  /\ ~CompositorStep(g)
               /\ ~RevokeLock(g)
               /\ SubmitPassword(g) \/ RenderFailure(g) \/ Crash(g) \/ TaskStep(g)
                      => lockOwner' = lockOwner
    <2>1. ~CompositorStep(g)
      BY DEF CompositorStep, GrantLock, DenyLock, ForgetRequest
    <2>2. ~RevokeLock(g)
      BY DEF RevokeLock
    <2> QED
      BY <2>1, <2>2 DEF SubmitPassword, RenderFailure, Crash, TaskStep, PamVerdict, WorkerReports
  <1>3. DaemonStep \/ FingerprintStep \/ ThrottleExpires => lockOwner' = lockOwner
    BY DEF DaemonStep, HandlerStep, LoopStep, ReadyAccepted, ReportAwaited, ReportRead,
           LockEstablished, ReadyTimeout, ActivationChildExited, ActivationFails, CurtainStopped,
           GracefulTimeout, KillCurtain, ReadsNothing, AcceptSubmission, ProcessEnds, CurtainExit,
           AcceptConnection, AuthSucceeded, Deactivate, AuthRejected, Tick, ThrottleExpires,
           FingerprintStep, FingerprintMatched, FingerprintUnavailable
  <1>4. Request \/ Failure => lockOwner' = lockOwner
    BY <1>2 DEF Request, Failure, LockRequested, UnlockSignal, Shutdown, Deactivate,
           AbandonWaitError, ActivationFails, ReadyWaitError, DeactivateWaitError, DaemonFails
  <1> QED
    BY <1>1, <1>2, <1>3, <1>4 DEF Next, Terminated, vars

(* A lock that veilad has reported is only given back after somebody was   *)
(* let in at it: for every number of locks, and whatever crashes, hangs or *)
(* fails, so long as frames can be drawn and the compositor keeps the lock *)
(* it granted.                                                             *)
THEOREM ReleasesAreAuthorised ==
    ASSUME Faults \cap {"render", "deny"} = {}
    PROVE  Spec => ReleaseIsAuthorised
  <1>1. Spec => []ReleaseInv
    <2>1. TypeOK /\ AuthorityInv /\ ReleaseInv /\ [Next]_vars => ReleaseInv'
      BY ReleaseStep
    <2> QED
      BY <2>1, TypesHold, AuthorityHolds, ReleaseInit, PTL DEF Spec
  <1>2. TypeOK /\ ReleaseInv /\ [Next]_vars
            => [lockOwner # NoGen /\ lockOwner' = NoGen /\ lockOwner \in reported
                    => lockOwner \in authorised]_vars
    <2> SUFFICES ASSUME TypeOK, ReleaseInv, [Next]_vars, lockOwner # NoGen, lockOwner' = NoGen,
                        lockOwner \in reported
                 PROVE  lockOwner \in authorised
      OBVIOUS
    <2>1. PICK g \in Gen : Stop(g) /\ ReleasesLock(g) /\ lockOwner = g
      BY OnlyStopReleases
    <2>2. ~cur[g].failure
      BY <2>1 DEF ReleaseInv, FailuresAreFinished, ReleasesLock
    <2>3. ToldToExit(g)
      BY <2>1, <2>2 DEF Stop, CanStop, ToldToExit
    <2> QED
      BY <2>1, <2>3 DEF ReleaseInv, ToldAreAuthorised
  <1> QED
    BY <1>1, <1>2, TypesHold, PTL DEF Spec, ReleaseIsAuthorised

-----------------------------------------------------------------------------
(***************************************************************************)
(* What the daemon says of the session is so: when it is Locked, the       *)
(* compositor has given the lock to its curtain; between two handlers its  *)
(* own state, its runtime and logind's hint agree; and it is busy with a   *)
(* password exactly while an attempt of this lock is under way.            *)
(***************************************************************************)

(* The daemon has, or will read, the word of this curtain that it is ready.*)
Announced(g) == g \in notified \cup {curtain} \/ (dpc = "reporting" /\ g = child)

(* A curtain that was never spawned has asked for nothing.                 *)
UnspawnedAreSilent ==
    \A g \in Gen : g > lastGen =>
        ~Alive(g) /\ wl[g] = {} /\ g \notin lockRequests /\ ~Announced(g)

(* Readiness is only announced once locked was received.                   *)
AnnouncedAreLocked == \A g \in Gen : Alive(g) /\ Announced(g) => cur[g].session_locked

(* A curtain that was told locked, or is about to be, holds the lock until *)
(* the compositor says that it is finished.                                *)
LockedAreOwners ==
    \A g \in Gen : Alive(g) /\ (cur[g].session_locked \/ "locked" \in wl[g]) =>
        lockOwner = g \/ "finished" \in wl[g] \/ cur[g].session_finished

SecureInv == UnspawnedAreSilent /\ AnnouncedAreLocked /\ LockedAreOwners

LEMMA SecureInit == Init => SecureInv
  <1> SUFFICES ASSUME Init PROVE SecureInv
    OBVIOUS
  <1>1. \A g \in Gen : ~Alive(g)
    BY DEF Init, NewCurtain, Alive, Phase
  <1> QED
    BY <1>1 DEF Init, SecureInv, UnspawnedAreSilent, AnnouncedAreLocked, LockedAreOwners, Announced

(* The daemon looks at its curtains and leaves them alone.                 *)
LEMMA DaemonLooksOn ==
    ASSUME TypeOK, SecureInv, UNCHANGED <<cur, wl, lockOwner, lockRequests, lastGen>>,
           \A g \in Gen : Announced(g)' => Announced(g)
    PROVE  SecureInv'
  <1>1. \A g \in Gen : Alive(g)' <=> Alive(g)
    BY DEF Alive, Phase
  <1>2. UnspawnedAreSilent' /\ AnnouncedAreLocked'
    BY <1>1 DEF TypeOK, SecureInv, UnspawnedAreSilent, AnnouncedAreLocked
  <1>3. LockedAreOwners'
    BY <1>1 DEF SecureInv, LockedAreOwners
  <1> QED
    BY <1>2, <1>3 DEF SecureInv

(* One curtain moves, or the compositor speaks to it.                      *)
LEMMA OneCurtainMoves ==
    ASSUME TypeOK, SecureInv, NEW g \in Gen, g <= lastGen,
           UNCHANGED <<dpc, child, curtain, lastGen>>,
           \A h \in Gen \ {g} : cur'[h] = cur[h] /\ wl'[h] = wl[h],
           notified' \subseteq notified \cup {g}, lockRequests' \subseteq lockRequests \cup {g},
           \A h \in Gen \ {g} : lockOwner = h /\ Alive(h) => lockOwner' = h,
           Alive(g)' /\ Announced(g)' => cur'[g].session_locked,
           Alive(g)' /\ (cur'[g].session_locked \/ "locked" \in wl'[g]) =>
               lockOwner' = g \/ "finished" \in wl'[g] \/ cur'[g].session_finished
    PROVE  SecureInv'
  <1>1. \A h \in Gen \ {g} : (Alive(h)' <=> Alive(h)) /\ (Announced(h)' => Announced(h))
    BY DEF Alive, Phase, Announced
  <1>2. UnspawnedAreSilent'
    BY <1>1 DEF TypeOK, SecureInv, UnspawnedAreSilent
  <1>3. AnnouncedAreLocked'
    BY <1>1 DEF SecureInv, AnnouncedAreLocked
  <1>4. LockedAreOwners'
    BY <1>1 DEF SecureInv, LockedAreOwners
  <1> QED
    BY <1>2, <1>3, <1>4 DEF SecureInv

(* A process that ends is told nothing more.                               *)
LEMMA ProcessEndsSecure ==
    ASSUME TypeOK, SecureInv, NEW g \in Gen, Alive(g), ProcessEnds(g),
           UNCHANGED <<dpc, child, curtain, lastGen, notified, lockRequests>>,
           \A h \in Gen \ {g} : lockOwner = h => lockOwner' = h
    PROVE  SecureInv'
  <1>1. g <= lastGen
    BY DEF TypeOK, SecureInv, UnspawnedAreSilent
  <1>2. \A h \in Gen \ {g} : cur'[h] = cur[h] /\ wl'[h] = wl[h]
    BY DEF TypeOK, ProcessEnds
  <1>3. ~(Alive(g)')
    BY DEF TypeOK, ProcessEnds, NewCurtain, Alive, Phase
  <1> QED
    BY <1>1, <1>2, <1>3, OneCurtainMoves

LEMMA CurtainSecure ==
    ASSUME TypeOK, SecureInv, NEW g \in Gen,
           CurtainStep(g) \/ SubmitPassword(g) \/ RenderFailure(g) \/ Crash(g)
    PROVE  SecureInv'
  <1>0. /\ cur[g] \in CurtainApps /\ cur \in [Gen -> CurtainApps]
        /\ wl \in [Gen -> SUBSET {"locked", "finished"}]
    BY DEF TypeOK
  <1>1. Running(g) => Alive(g)
    BY DEF Running, Alive
  <1>2. Alive(g) => g <= lastGen
    BY DEF TypeOK, SecureInv, UnspawnedAreSilent
  <1>3. ASSUME NEW c, cur' = [cur EXCEPT ![g] = c], Alive(g),
               c.session_locked = cur[g].session_locked,
               c.session_finished = cur[g].session_finished,
               UNCHANGED <<dpc, child, curtain, lastGen, notified, lockOwner, wl>>,
               lockRequests' \subseteq lockRequests \cup {g}
        PROVE  SecureInv'
    <2>1. cur'[g] = c /\ \A h \in Gen \ {g} : cur'[h] = cur[h]
      BY <1>0, <1>3
    <2>2. Alive(g) /\ Announced(g)' => c.session_locked
      BY <1>3 DEF SecureInv, AnnouncedAreLocked, Announced
    <2>3. Alive(g) /\ (c.session_locked \/ "locked" \in wl[g]) =>
              lockOwner = g \/ "finished" \in wl[g] \/ c.session_finished
      BY <1>3 DEF SecureInv, LockedAreOwners
    <2> QED
      BY <1>2, <1>3, <2>1, <2>2, <2>3, OneCurtainMoves
  <1>4. ASSUME AcquireLock(g) \/ RegisterSignals(g) \/ WriteReport(g) PROVE SecureInv'
    <2>1. PICK p \in {"acquired", "running"} : cur' = [cur EXCEPT ![g] = [cur[g] EXCEPT !.proc = p]]
      BY <1>4 DEF AcquireLock, RegisterSignals, WriteReport
    <2> DEFINE c == [cur[g] EXCEPT !.proc = p]
    <2>2. /\ c.session_locked = cur[g].session_locked
          /\ c.session_finished = cur[g].session_finished
      BY <1>0 DEF CurtainApps
    <2>3. cur' = [cur EXCEPT ![g] = c]
      BY <2>1
    <2>4. Alive(g)
      BY <1>4 DEF AcquireLock, RegisterSignals, WriteReport, Alive, Phase
    <2>5. /\ UNCHANGED <<dpc, child, curtain, lastGen, notified, lockOwner, wl>>
          /\ lockRequests' \subseteq lockRequests \cup {g}
      BY <1>4 DEF AcquireLock, RegisterSignals, WriteReport
    <2> HIDE DEF c
    <2> QED
      BY <1>3, <2>2, <2>3, <2>4, <2>5
  <1>5. ASSUME HandleSigterm(g) \/ HandleUnlock(g) PROVE SecureInv'
    <2> DEFINE c == [cur[g] EXCEPT !.exit_requested = TRUE]
    <2>1. /\ c.session_locked = cur[g].session_locked
          /\ c.session_finished = cur[g].session_finished
      BY <1>0 DEF CurtainApps
    <2>2. cur' = [cur EXCEPT ![g] = c] /\ Running(g)
      BY <1>5 DEF HandleSigterm, HandleUnlock
    <2>3. UNCHANGED <<dpc, child, curtain, lastGen, notified, lockOwner, wl, lockRequests>>
      BY <1>5 DEF HandleSigterm, HandleUnlock
    <2> HIDE DEF c
    <2> QED
      BY <1>1, <1>3, <2>1, <2>2, <2>3
  <1>6. ASSUME HandleReply(g) PROVE SecureInv'
    <2> DEFINE c == [cur[g] EXCEPT !.auth_in_flight = @ /\ ~Reopens(reply[g])]
    <2>1. /\ c.session_locked = cur[g].session_locked
          /\ c.session_finished = cur[g].session_finished
      BY <1>0 DEF CurtainApps
    <2>2. cur' = [cur EXCEPT ![g] = c] /\ Running(g)
      BY <1>6 DEF HandleReply
    <2>3. UNCHANGED <<dpc, child, curtain, lastGen, notified, lockOwner, wl, lockRequests>>
      BY <1>6 DEF HandleReply
    <2> HIDE DEF c
    <2> QED
      BY <1>1, <1>3, <2>1, <2>2, <2>3
  <1>7. ASSUME SubmitPassword(g) PROVE SecureInv'
    <2> DEFINE c == [cur[g] EXCEPT !.auth_in_flight = TRUE, !.attempts = @ + 1]
    <2>1. /\ c.session_locked = cur[g].session_locked
          /\ c.session_finished = cur[g].session_finished
      BY <1>0 DEF CurtainApps
    <2>2. cur' = [cur EXCEPT ![g] = c] /\ Running(g)
      BY <1>7 DEF SubmitPassword
    <2>3. UNCHANGED <<dpc, child, curtain, lastGen, notified, lockOwner, wl, lockRequests>>
      BY <1>7 DEF SubmitPassword
    <2> HIDE DEF c
    <2> QED
      BY <1>1, <1>3, <2>1, <2>2, <2>3
  <1>8. ASSUME RenderFailure(g) PROVE SecureInv'
    <2> DEFINE c == [cur[g] EXCEPT !.failure = TRUE, !.exit_requested = TRUE]
    <2>1. /\ c.session_locked = cur[g].session_locked
          /\ c.session_finished = cur[g].session_finished
      BY <1>0 DEF CurtainApps
    <2>2. cur' = [cur EXCEPT ![g] = c] /\ Running(g)
      BY <1>8 DEF RenderFailure
    <2>3. UNCHANGED <<dpc, child, curtain, lastGen, notified, lockOwner, wl, lockRequests>>
      BY <1>8 DEF RenderFailure
    <2> HIDE DEF c
    <2> QED
      BY <1>1, <1>3, <2>1, <2>2, <2>3
  <1>9. ASSUME HandleConfigure(g) PROVE SecureInv'
    <2> DEFINE d == [cur[g] EXCEPT !.configured = TRUE]
    <2>1. d \in CurtainApps /\ d.session_locked = cur[g].session_locked
          /\ d.session_finished = cur[g].session_finished
      BY <1>0 DEF CurtainApps
    <2>2. /\ MaybeNotifyReady(g, d) /\ Running(g)
          /\ UNCHANGED <<dpc, child, curtain, lastGen, lockOwner, wl, lockRequests>>
      BY <1>9 DEF HandleConfigure
    <2> HIDE DEF d
    <2>3. /\ cur'[g].session_locked = cur[g].session_locked
          /\ cur'[g].session_finished = cur[g].session_finished
          /\ \A h \in Gen \ {g} : cur'[h] = cur[h]
      BY <1>0, <2>1, <2>2, ReadyChange
    <2>4. notified' \subseteq notified \cup {g} /\ (g \in notified' \ notified => d.session_locked)
      BY <2>2 DEF MaybeNotifyReady, ReadyToNotify
    <2>5. Alive(g) /\ Announced(g)' => cur'[g].session_locked
      BY <2>1, <2>2, <2>3, <2>4 DEF SecureInv, AnnouncedAreLocked, Announced
    <2>6. Alive(g) /\ (cur'[g].session_locked \/ "locked" \in wl[g]) =>
              lockOwner = g \/ "finished" \in wl[g] \/ cur'[g].session_finished
      BY <2>3 DEF SecureInv, LockedAreOwners
    <2> QED
      BY <1>1, <1>2, <2>2, <2>3, <2>4, <2>5, <2>6, OneCurtainMoves
  <1>10. ASSUME HandleLocked(g) PROVE SecureInv'
    <2> DEFINE d == [cur[g] EXCEPT !.session_locked = TRUE]
    <2>1. d \in CurtainApps /\ d.session_locked
          /\ d.session_finished = cur[g].session_finished
      BY <1>0 DEF CurtainApps
    <2>2. /\ MaybeNotifyReady(g, d) /\ Running(g) /\ "locked" \in wl[g]
          /\ wl' = [wl EXCEPT ![g] = @ \ {"locked"}]
          /\ UNCHANGED <<dpc, child, curtain, lastGen, lockOwner, lockRequests>>
      BY <1>10 DEF HandleLocked
    <2> HIDE DEF d
    <2>3. PICK c \in CurtainApps : /\ cur' = [cur EXCEPT ![g] = c]
                                   /\ c.session_locked = d.session_locked
                                   /\ c.session_finished = d.session_finished
      BY <2>1, <2>2, ReadyChange
    <2>4. /\ cur'[g].session_locked
          /\ cur'[g].session_finished = cur[g].session_finished
          /\ \A h \in Gen \ {g} : cur'[h] = cur[h] /\ wl'[h] = wl[h]
          /\ "finished" \in wl[g] => "finished" \in wl'[g]
      BY <1>0, <2>1, <2>2, <2>3
    <2>5. notified' \subseteq notified \cup {g}
      BY <2>2 DEF MaybeNotifyReady
    <2>6. lockOwner = g \/ "finished" \in wl'[g] \/ cur'[g].session_finished
      BY <1>1, <2>2, <2>4 DEF SecureInv, LockedAreOwners
    <2> QED
      BY <1>1, <1>2, <2>2, <2>4, <2>5, <2>6, OneCurtainMoves
  <1>11. ASSUME HandleFinished(g) PROVE SecureInv'
    <2>1. /\ cur'[g].session_locked = cur[g].session_locked /\ cur'[g].session_finished
          /\ \A h \in Gen \ {g} : cur'[h] = cur[h] /\ wl'[h] = wl[h]
      BY <1>0, <1>11 DEF HandleFinished, CurtainApps
    <2>2. Running(g) /\ UNCHANGED <<dpc, child, curtain, lastGen, notified, lockOwner, lockRequests>>
      BY <1>11 DEF HandleFinished
    <2>3. Announced(g)' => cur'[g].session_locked
      BY <1>1, <2>1, <2>2 DEF SecureInv, AnnouncedAreLocked, Announced
    <2> QED
      BY <1>1, <1>2, <2>1, <2>2, <2>3, OneCurtainMoves
  <1>12. ASSUME DieBySigterm(g) \/ Stop(g) \/ LockDeadline(g) \/ Crash(g) PROVE SecureInv'
    <2>1. /\ Alive(g) /\ ProcessEnds(g) /\ UNCHANGED <<dpc, child, curtain, lastGen, notified, lockRequests>>
          /\ \A h \in Gen \ {g} : lockOwner = h => lockOwner' = h
      BY <1>1, <1>12 DEF DieBySigterm, Stop, LockDeadline, Crash, Alive, Phase
    <2> QED
      BY <2>1, ProcessEndsSecure
  <1>13. ASSUME WriteLine(g) PROVE SecureInv'
    <2>1. /\ Alive(g) /\ cur' = [cur EXCEPT ![g] = cur[g]]
          /\ UNCHANGED <<dpc, child, curtain, lastGen, notified, lockOwner, wl, lockRequests>>
      BY <1>0, <1>13 DEF WriteLine
    <2> QED
      BY <1>3, <2>1
  <1> QED
    BY <1>4, <1>5, <1>6, <1>7, <1>8, <1>9, <1>10, <1>11, <1>12, <1>13 DEF CurtainStep

(* A lock is granted when no living curtain holds one.                     *)
LEMMA CompositorSecure ==
    ASSUME TypeOK, SecureInv, NEW g \in Gen, CompositorStep(g) \/ RevokeLock(g)
    PROVE  SecureInv'
  <1>0. g <= lastGen
    BY DEF TypeOK, SecureInv, UnspawnedAreSilent, CompositorStep, GrantLock, DenyLock,
           ForgetRequest, RevokeLock
  <1>1. /\ UNCHANGED <<cur, dpc, child, curtain, lastGen, notified>>
        /\ \A h \in Gen \ {g} : wl'[h] = wl[h]
        /\ lockRequests' \subseteq lockRequests
    BY DEF TypeOK, CompositorStep, GrantLock, DenyLock, ForgetRequest, RevokeLock
  <1>2. \A h \in Gen \ {g} : lockOwner = h /\ Alive(h) => lockOwner' = h
    BY DEF CompositorStep, GrantLock, DenyLock, ForgetRequest, RevokeLock, Grantable
  <1>3. Alive(g) /\ (cur[g].session_locked \/ "locked" \in wl'[g]) =>
            lockOwner' = g \/ "finished" \in wl'[g] \/ cur[g].session_finished
    BY ZenonT(60) DEF TypeOK, SecureInv, LockedAreOwners, CompositorStep, GrantLock, DenyLock,
           ForgetRequest, RevokeLock
  <1>4. Alive(g) /\ Announced(g)' => cur[g].session_locked
    BY <1>1 DEF SecureInv, AnnouncedAreLocked, Announced
  <1>5. Alive(g)' <=> Alive(g)
    BY <1>1 DEF Alive, Phase
  <1> QED
    BY <1>0, <1>1, <1>2, <1>3, <1>4, <1>5, OneCurtainMoves

(* A new curtain knows nothing yet.                                        *)
LEMMA BeginActivationSecure ==
    ASSUME TypeOK, SecureInv, SpareGen, NEW trigger, BeginActivation(trigger),
           UNCHANGED <<notified, compositorVars>>, curtain' \in {curtain, NoGen},
           dpc # "reporting"
    PROVE  SecureInv'
  <1>0. dpc' # "reporting"
    BY DEF BeginActivation, AfterFailure
  <1>1. CASE UNCHANGED <<lastGen, cur>>
    BY <1>0, <1>1, DaemonLooksOn DEF Announced
  <1>2. CASE lastGen' = lastGen + 1 /\ cur' = [cur EXCEPT ![lastGen + 1] = NewCurtain("starting")]
    <2>1. PICK h \in Gen : h = lastGen + 1
      BY BoundsAssumption DEF TypeOK, SpareGen
    <2>2. cur'[h] = NewCurtain("starting") /\ \A g \in Gen \ {h} : cur'[g] = cur[g]
      BY <1>2, <2>1 DEF TypeOK
    <2>3. wl[h] = {} /\ ~Announced(h)'
      BY <1>0, <2>1 DEF TypeOK, SecureInv, UnspawnedAreSilent, Announced
    <2>4. \A g \in Gen \ {h} : (Alive(g)' <=> Alive(g)) /\ (Announced(g)' => Announced(g))
      BY <1>0, <2>2 DEF Alive, Phase, Announced
    <2>5. UnspawnedAreSilent'
      BY <1>2, <2>1, <2>4 DEF TypeOK, SecureInv, UnspawnedAreSilent
    <2>6. AnnouncedAreLocked'
      BY <2>2, <2>3, <2>4 DEF SecureInv, AnnouncedAreLocked
    <2>7. ~cur'[h].session_locked
      BY <2>2 DEF NewCurtain
    <2>8. LockedAreOwners'
      BY <2>2, <2>3, <2>4, <2>7 DEF SecureInv, LockedAreOwners
    <2> QED
      BY <2>5, <2>6, <2>8 DEF SecureInv
  <1> QED
    BY <1>1, <1>2 DEF BeginActivation

LEMMA DaemonSecure ==
    ASSUME TypeOK, SecureInv,
           \/ DaemonStep \/ FingerprintStep \/ ThrottleExpires \/ UnlockSignal \/ Shutdown
           \/ AbandonWaitError \/ ReadyWaitError \/ DeactivateWaitError \/ DaemonFails
           \/ \E g \in Gen : TaskStep(g)
           \/ \E trigger \in {"manual", "logind", "forwarded"} : LockRequested(trigger)
    PROVE  SecureInv'
  <1>1. ASSUME NEW trigger \in {"manual", "logind", "forwarded"}, LockRequested(trigger)
        PROVE  SecureInv'
    BY <1>1, BeginActivationSecure DEF LockRequested
  <1>2. ASSUME CurtainExit PROVE SecureInv'
    BY <1>2, BeginActivationSecure DEF CurtainExit, Select
  <1>3. ASSUME KillCurtain PROVE SecureInv'
    <2>1. /\ child \in Gen /\ Alive(child) /\ ProcessEnds(child)
          /\ UNCHANGED <<dpc, child, curtain, lastGen, notified, lockRequests, lockOwner>>
      BY <1>3 DEF TypeOK, KillCurtain, Alive, Phase
    <2> QED
      BY <2>1, ProcessEndsSecure
  <1>4. ASSUME ReadyAccepted \/ ReportAwaited \/ ReportRead PROVE SecureInv'
    <2>1. UNCHANGED <<cur, wl, lockOwner, lockRequests, lastGen>>
      BY <1>4 DEF ReadyAccepted, ReportAwaited, ReportRead, LockEstablished
    <2>2. \A g \in Gen : Announced(g)' => Announced(g)
      BY <1>4 DEF ReadyAccepted, ReportAwaited, ReportRead, LockEstablished, ActivationReturns,
         Announced
    <2> QED
      BY <2>1, <2>2, DaemonLooksOn
  <1>5. ASSUME \/ ReadyTimeout \/ ActivationChildExited \/ AbandonWaitError \/ ReadyWaitError
               \/ CurtainStopped \/ GracefulTimeout \/ DeactivateWaitError \/ DaemonFails
               \/ UnlockSignal \/ Shutdown \/ AuthSucceeded
        PROVE  SecureInv'
    <2>1. UNCHANGED <<cur, wl, lockOwner, lockRequests, lastGen>>
      BY <1>5 DEF ReadyTimeout, ActivationChildExited, AbandonWaitError, ReadyWaitError,
         ActivationFails, CurtainStopped, GracefulTimeout, DeactivateWaitError, DaemonFails,
         UnlockSignal, Shutdown, AuthSucceeded, Deactivate
    <2>2. notified' \subseteq notified /\ curtain' \in {curtain, NoGen}
      BY <1>5 DEF ReadyTimeout, ActivationChildExited, AbandonWaitError, ReadyWaitError,
         ActivationFails, ActivationReturns, CurtainStopped, GracefulTimeout, DeactivateWaitError,
         DaemonFails, UnlockSignal, Shutdown, AuthSucceeded, Deactivate, DeactivateWithoutCurtain,
         DeactivateCurtain
    <2>3. dpc' # "reporting"
      BY <1>5 DEF ReadyTimeout, ActivationChildExited, AbandonWaitError, ReadyWaitError,
         ActivationFails, AfterFailure, CurtainStopped, GracefulTimeout, DeactivateWaitError,
         HandlerReturns, DaemonFails, UnlockSignal, Shutdown, AuthSucceeded, Deactivate,
         DeactivateWithoutCurtain, DeactivateCurtain
    <2> QED
      BY <2>1, <2>2, <2>3, DaemonLooksOn DEF TypeOK, Announced
  <1>6. ASSUME \/ AuthRejected \/ Tick \/ FingerprintStep \/ ThrottleExpires
               \/ \E g \in Gen : TaskStep(g)
        PROVE  SecureInv'
    BY <1>6, DaemonLooksOn DEF Announced, AuthRejected, Tick, FingerprintStep,
       FingerprintMatched, FingerprintUnavailable, ThrottleExpires, TaskStep, PamVerdict,
       WorkerReports
  <1>7. ASSUME Read PROVE SecureInv'
    BY <1>7, ReadingLeavesTheLock, DaemonLooksOn DEF Announced, AtLoop
  <1> QED
    BY <1>1, <1>2, <1>3, <1>4, <1>5, <1>6, <1>7 DEF DaemonStep, HandlerStep, LoopStep, Read

(* Whatever fails, the daemon calls the session locked only while its      *)
(* curtain holds the compositor's lock, or has been told that it is over.  *)
THEOREM LockedIsSecured == Spec => []LockedMeansSecured
  <1>1. SecureInv => LockedMeansSecured
    BY DEF SecureInv, AnnouncedAreLocked, LockedAreOwners, LockedMeansSecured, Announced, Alive,
       Phase
  <1>2. TypeOK /\ SecureInv /\ [Next]_vars => SecureInv'
    <2> SUFFICES ASSUME TypeOK, SecureInv, [Next]_vars PROVE SecureInv'
      OBVIOUS
    <2>1. CASE UNCHANGED vars
      BY <2>1, DaemonLooksOn DEF vars, Announced
    <2>2. CASE DaemonStep \/ FingerprintStep \/ ThrottleExpires
      BY <2>2, DaemonSecure
    <2>3. CASE \E g \in Gen : TaskStep(g) \/ CurtainStep(g) \/ CompositorStep(g)
      BY <2>3, DaemonSecure, CurtainSecure, CompositorSecure
    <2>4. CASE Request \/ Failure
      BY <2>4, DaemonSecure, CurtainSecure, CompositorSecure DEF Request, Failure
    <2> QED
      BY <2>1, <2>2, <2>3, <2>4 DEF Next, Terminated
  <1> QED
    BY <1>1, <1>2, SecureInit, TypesHold, PTL DEF Spec

-----------------------------------------------------------------------------
(* What a handler will find when it returns to the loop.                   *)
SettledInv ==
    /\ SettledBetweenHandlers
    /\ dpc = "reading" => /\ child = NoGen /\ curtain = runtime
                          /\ lockState = (IF curtain = NoGen THEN "Unlocked" ELSE "Locked")
                          /\ hint = (lockState = "Locked")
    /\ dpc \in {"booting", "starting", "reporting", "abandoning"} =>
           curtain = NoGen /\ runtime = NoGen /\ hint = FALSE
    /\ dpc = "booting" => child = NoGen /\ lockState = "Unlocked"
    /\ dpc = "reporting" => child # NoGen
    /\ dpc \in {"graceful", "terminating"} => curtain = NoGen

LEMMA QuietSettledInv ==
    ASSUME SettledInv, UNCHANGED <<dpc, child, lockState, curtain, runtime, hint>>
    PROVE  SettledInv'
  BY DEF SettledInv, SettledBetweenHandlers, Select

LEMMA HandlersSettle ==
    ASSUME TypeOK, SettledInv, Faults \cap {"wait", "hint"} = {}
    PROVE  /\ \A trigger \in {"manual", "logind", "forwarded"} :
                  LockRequested(trigger) => SettledInv'
           /\ ReadyAccepted \/ ReportAwaited \/ ReportRead => SettledInv'
           /\ ReadyTimeout \/ ActivationChildExited => SettledInv'
           /\ CurtainExit => SettledInv'
           /\ UnlockSignal \/ Shutdown \/ AuthSucceeded => SettledInv'
           /\ CurtainStopped \/ GracefulTimeout \/ KillCurtain \/ DaemonFails => SettledInv'
           /\ ~AbandonWaitError /\ ~ReadyWaitError /\ ~DeactivateWaitError
  <1> USE DEF SettledInv, SettledBetweenHandlers, Select
  <1>0. \A locked \in BOOLEAN : SetLockedHint(locked) => hint' = locked
    BY DEF SetLockedHint, Fault
  <1>1. ASSUME NEW trigger \in {"manual", "logind", "forwarded"}, LockRequested(trigger)
        PROVE  SettledInv'
    BY <1>1 DEF LockRequested, IsActive, BeginActivation, AfterFailure
  <1>2. ASSUME ReadyAccepted \/ ReportRead PROVE SettledInv'
    <2>0. LockEstablished /\ child # NoGen
      BY <1>2 DEF TypeOK, ReadyAccepted, ReportRead
    <2>1. dpc' = "select" /\ lockState' = "Locked" /\ child' = NoGen
          /\ curtain' = child /\ runtime' = child
      BY <2>0 DEF LockEstablished, ActivationReturns
    <2>2. hint' = TRUE
      BY <1>0, <2>0 DEF LockEstablished
    <2> QED
      BY <2>0, <2>1, <2>2
  <1>3. ASSUME ReportAwaited \/ ReadyTimeout PROVE SettledInv'
    BY <1>3 DEF TypeOK, ReportAwaited, ReadyTimeout
  <1>4. ASSUME ActivationChildExited PROVE SettledInv'
    BY <1>0, <1>4 DEF ActivationChildExited, ActivationFails, ActivationReturns, AfterFailure
  <1>5. ASSUME CurtainExit PROVE SettledInv'
    BY <1>0, <1>5 DEF CurtainExit, ResetRuntime, BeginActivation, AfterFailure
  <1>6. ASSUME NEW why \in {"unlock", "shutdown", "auth"}, Select, Deactivate(why) PROVE SettledInv'
    BY <1>0, <1>6 DEF Deactivate, DeactivateWithoutCurtain, DeactivateCurtain, ResetRuntime
  <1>7. ASSUME CurtainStopped PROVE SettledInv'
    BY <1>0, <1>7 DEF CurtainStopped, HandlerReturns, ResetRuntime
  <1>8. ASSUME GracefulTimeout \/ KillCurtain \/ DaemonFails PROVE SettledInv'
    BY <1>8 DEF GracefulTimeout, KillCurtain, DaemonFails
  <1>9. ~AbandonWaitError /\ ~ReadyWaitError /\ ~DeactivateWaitError
    BY DEF AbandonWaitError, ReadyWaitError, DeactivateWaitError, Fault
  <1> QED
    BY <1>1, <1>2, <1>3, <1>4, <1>5, <1>6, <1>7, <1>8, <1>9
       DEF UnlockSignal, Shutdown, AuthSucceeded

LEMMA OthersSettle ==
    ASSUME SettledInv,
           \/ Read \/ AuthRejected \/ Tick \/ FingerprintStep \/ ThrottleExpires
           \/ \E g \in Gen : TaskStep(g) \/ CurtainStep(g) \/ CompositorStep(g)
           \/ \E g \in Gen : SubmitPassword(g) \/ RenderFailure(g) \/ Crash(g) \/ RevokeLock(g)
    PROVE  SettledInv'
  <1>1. ASSUME NEW g \in Gen, CurtainStep(g)
        PROVE  UNCHANGED <<dpc, child, lockState, curtain, runtime, hint>>
    BY <1>1 DEF CurtainStep, AcquireLock, RegisterSignals, DieBySigterm, HandleSigterm,
       HandleUnlock, HandleConfigure, HandleLocked, HandleFinished, HandleReply, WriteReport,
       WriteLine, LockDeadline, Stop
  <1>2. ASSUME NEW g \in Gen, \/ CompositorStep(g) \/ SubmitPassword(g) \/ RenderFailure(g)
                              \/ Crash(g) \/ RevokeLock(g) \/ TaskStep(g)
        PROVE  UNCHANGED <<dpc, child, lockState, curtain, runtime, hint>>
    BY <1>2 DEF CompositorStep, GrantLock, DenyLock, ForgetRequest, SubmitPassword, RenderFailure,
       Crash, RevokeLock, TaskStep, PamVerdict, WorkerReports
  <1>3. AuthRejected \/ Tick \/ FingerprintStep \/ ThrottleExpires
            => UNCHANGED <<dpc, child, lockState, curtain, runtime, hint>>
    BY DEF AuthRejected, Tick, FingerprintStep, FingerprintMatched,
       FingerprintUnavailable, ThrottleExpires
  <1>4. Read => SettledInv'
    BY ReadingLeavesTheLock DEF SettledInv, SettledBetweenHandlers, Select, AtLoop
  <1> QED
    BY <1>1, <1>2, <1>3, <1>4, QuietSettledInv

(* Between two handlers nothing is half done, after any number of locks,   *)
(* crashes and timeouts, so long as Child::wait and logind do not fail.    *)
THEOREM NothingIsHalfDone ==
    ASSUME Faults \cap {"wait", "hint"} = {}
    PROVE  Spec => []SettledBetweenHandlers
  <1>1. Init => SettledInv
    BY DEF Init, SettledInv, SettledBetweenHandlers, Select
  <1>2. TypeOK /\ SettledInv /\ [Next]_vars => SettledInv'
    <2> SUFFICES ASSUME TypeOK, SettledInv, [Next]_vars PROVE SettledInv'
      OBVIOUS
    <2>1. CASE UNCHANGED vars
      BY <2>1, QuietSettledInv DEF vars
    <2>2. CASE DaemonStep \/ FingerprintStep \/ ThrottleExpires
      BY <2>2, HandlersSettle, OthersSettle DEF DaemonStep, HandlerStep, LoopStep, Read
    <2>3. CASE \E g \in Gen : TaskStep(g) \/ CurtainStep(g) \/ CompositorStep(g)
      BY <2>3, OthersSettle
    <2>4. CASE Request \/ Failure
      BY <2>4, HandlersSettle, OthersSettle DEF Request, Failure
    <2> QED
      BY <2>1, <2>2, <2>3, <2>4 DEF Next, Terminated
  <1>3. SettledInv => SettledBetweenHandlers
    BY DEF SettledInv
  <1> QED
    BY <1>1, <1>2, <1>3, TypesHold, PTL DEF Spec

-----------------------------------------------------------------------------
(* The results of a lock that end a password attempt.                      *)
Verdicts(g) ==
    {i \in 1 .. Len(results[g]) : results[g][i].outcome \in {"Succeeded", "Rejected"}}

(* A lock starts without attempts: no worker and no result of an earlier   *)
(* lock is taken for one of its own.                                       *)
LocksStartFresh ==
    /\ runtime <= lastGen /\ (dpc \in {"starting", "reporting"} => child <= lastGen)
    /\ \A g \in Gen : /\ g > lastGen => worker[g] = "none"
                      /\ g = child /\ dpc \in {"starting", "reporting"} => worker[g] = "none"
                      /\ g # runtime => results[g] = <<>>
    /\ dpc \in {"booting", "starting", "reporting", "abandoning"} => runtime = NoGen

(* A lock has one attempt at a time, and it is in one place.               *)
OneAttempt ==
    AtLoop /\ runtime # NoGen =>
        /\ lockState # "Unlocked"
        /\ auth.in_flight <=> worker[runtime] # "none" \/ Verdicts(runtime) # {}
        /\ worker[runtime] # "none" => Verdicts(runtime) = {}
        /\ \A i, j \in Verdicts(runtime) : i = j

InFlightInv == LocksStartFresh /\ OneAttempt

LEMMA InFlightInit == Init => InFlightInv
  BY DEF Init, InFlightInv, LocksStartFresh, OneAttempt, AtLoop

LEMMA NothingAttempted ==
    ASSUME NEW g \in Gen, results[g] = <<>>
    PROVE  Verdicts(g) = {}
  <1>1. Len(results[g]) = 0
    OBVIOUS
  <1> QED
    BY <1>1 DEF Verdicts

LEMMA QuietAttempts ==
    ASSUME InFlightInv, UNCHANGED <<child, lockState, runtime, lastGen, worker, results>>,
           dpc' = dpc \/ (AtLoop /\ AtLoop'), auth'.in_flight = auth.in_flight
    PROVE  InFlightInv'
  BY DEF InFlightInv, LocksStartFresh, OneAttempt, AtLoop, Verdicts

(* A result that is sent is appended to the channel of the runtime.        *)
LEMMA SendAddsVerdict ==
    ASSUME TypeOK, NEW g \in Gen, NEW outcome \in {"Succeeded", "Rejected", "Matched"},
           SendResult(g, outcome), runtime \in Gen, runtime' = runtime
    PROVE  Verdicts(runtime)' = IF g = runtime /\ outcome # "Matched"
                                THEN Verdicts(runtime) \cup {Len(results[runtime]) + 1}
                                ELSE Verdicts(runtime)
  <1> DEFINE r == [outcome |-> outcome, gen |-> g]
  <1>1. results[runtime] \in Seq(AuthResults) /\ r \in AuthResults
    BY DEF TypeOK, AuthResults
  <1>2. CASE g # runtime
    <2>1. results'[runtime] = results[runtime]
      BY <1>2 DEF SendResult, ResultChannel
    <2> QED
      BY <1>2, <2>1 DEF Verdicts
  <1>3. CASE g = runtime
    <2>1. results'[runtime] = Append(results[runtime], r)
      BY <1>3 DEF SendResult, ResultChannel
    <2>2. /\ Len(results'[runtime]) = Len(results[runtime]) + 1
          /\ \A i \in 1 .. Len(results[runtime]) : results'[runtime][i] = results[runtime][i]
          /\ results'[runtime][Len(results[runtime]) + 1] = r
          /\ Len(results[runtime]) \in Nat
      BY <1>1, <2>1
    <2>3. r.outcome = outcome
      OBVIOUS
    <2> HIDE DEF r
    <2>4. 1 .. Len(results[runtime]) + 1 =
              (1 .. Len(results[runtime])) \cup {Len(results[runtime]) + 1}
      BY <2>2
    <2> QED
      BY <1>3, <2>2, <2>3, <2>4 DEF Verdicts
  <1> QED
    BY <1>2, <1>3

LEMMA AttemptsKept ==
    ASSUME TypeOK, InFlightInv,
           \/ Read \/ AuthRejected \/ Tick \/ FingerprintStep \/ ThrottleExpires
           \/ \E g \in Gen : TaskStep(g) \/ CurtainStep(g) \/ CompositorStep(g)
           \/ \E g \in Gen : SubmitPassword(g) \/ RenderFailure(g) \/ Crash(g) \/ RevokeLock(g)
    PROVE  InFlightInv'
  <1>1. ASSUME NEW g \in Gen, CurtainStep(g) PROVE InFlightInv'
    <2>1. UNCHANGED <<dpc, child, lockState, runtime, lastGen, worker, results, auth>>
      BY <1>1 DEF CurtainStep, AcquireLock, RegisterSignals, DieBySigterm, HandleSigterm,
         HandleUnlock, HandleConfigure, HandleLocked, HandleFinished, HandleReply,
         WriteReport, WriteLine, LockDeadline, Stop
    <2> QED
      BY <2>1, QuietAttempts
  <1>2. ASSUME NEW g \in Gen, \/ CompositorStep(g) \/ SubmitPassword(g) \/ RenderFailure(g)
                              \/ Crash(g) \/ RevokeLock(g)
        PROVE  InFlightInv'
    <2>1. UNCHANGED <<dpc, child, lockState, runtime, lastGen, worker, results, auth>>
      BY <1>2 DEF CompositorStep, GrantLock, DenyLock, ForgetRequest, SubmitPassword,
         RenderFailure, Crash, RevokeLock
    <2> QED
      BY <2>1, QuietAttempts
  <1>3. ASSUME Tick \/ FingerprintUnavailable \/ ThrottleExpires PROVE InFlightInv'
    <2>1. /\ UNCHANGED <<dpc, child, lockState, runtime, lastGen, worker, results>>
          /\ auth'.in_flight = auth.in_flight
      BY <1>3 DEF Tick, FingerprintUnavailable, ThrottleExpires, TypeOK, AuthStates
    <2> QED
      BY <2>1, QuietAttempts
  <1>4. ASSUME Read PROVE InFlightInv'
    <2>1. /\ AtLoop /\ AtLoop'
          /\ UNCHANGED <<child, lockState, runtime, lastGen, results>>
      BY <1>4, ReadingLeavesTheLock
    <2>2. CASE UNCHANGED <<auth, worker>>
      BY <2>1, <2>2, QuietAttempts
    <2>3. CASE Admission = "Allowed" /\ auth' = [auth EXCEPT !.in_flight = TRUE]
                 /\ worker' = [worker EXCEPT ![runtime] = "pam"] /\ runtime \in lines
      <3>1. ~auth.in_flight /\ auth'.in_flight /\ runtime \in Gen
        BY <2>1, <2>3 DEF Admission, TypeOK, AuthStates
      <3>2. worker'[runtime] = "pam" /\ \A g \in Gen : g # runtime => worker'[g] = worker[g]
        BY <2>3, <3>1 DEF TypeOK
      <3>3. LocksStartFresh'
        BY <2>1, <3>1, <3>2 DEF TypeOK, InFlightInv, LocksStartFresh, AtLoop
      <3>4. OneAttempt'
        BY <2>1, <3>1, <3>2 DEF InFlightInv, OneAttempt, AtLoop, Verdicts
      <3> QED
        BY <3>3, <3>4 DEF InFlightInv
    <2> QED
      BY <1>4, <2>2, <2>3 DEF Read, AcceptConnection, ReadsNothing, AcceptSubmission
  <1>5. ASSUME AuthRejected PROVE InFlightInv'
    <2>1. /\ AtLoop /\ runtime \in Gen /\ results[runtime] # <<>>
          /\ Head(results[runtime]).outcome = "Rejected" /\ ~auth'.in_flight
          /\ results' = [results EXCEPT ![runtime] = Tail(@)]
          /\ UNCHANGED <<dpc, child, lockState, runtime, lastGen, worker>>
      BY <1>5 DEF TypeOK, AuthRejected, Select, AtLoop
    <2>2. /\ results[runtime] \in Seq(AuthResults)
          /\ results'[runtime] = Tail(results[runtime])
          /\ \A g \in Gen : g # runtime => results'[g] = results[g]
      BY <2>1 DEF TypeOK
    <2>3. 1 \in Verdicts(runtime)
      <3>1. 1 \in 1 .. Len(results[runtime]) /\ results[runtime][1] = Head(results[runtime])
        BY <2>1, <2>2
      <3> QED
        BY <2>1, <3>1 DEF Verdicts
    <2>4. \A i \in Verdicts(runtime) : i = 1
      BY <2>1, <2>3 DEF InFlightInv, OneAttempt
    <2>5. Verdicts(runtime)' = {}
      <3> SUFFICES ASSUME NEW i \in Verdicts(runtime)' PROVE FALSE
        OBVIOUS
      <3>1. /\ i \in 1 .. Len(Tail(results[runtime]))
            /\ Tail(results[runtime])[i].outcome \in {"Succeeded", "Rejected"}
        BY <2>1, <2>2 DEF Verdicts
      <3>2. /\ i + 1 \in 1 .. Len(results[runtime])
            /\ Tail(results[runtime])[i] = results[runtime][i + 1]
        BY <2>1, <2>2, <3>1, TailEntries
      <3>3. i + 1 \in Verdicts(runtime)
        BY <3>1, <3>2 DEF Verdicts
      <3> QED
        BY <2>4, <3>1, <3>3
    <2>6. worker[runtime] = "none"
      BY <2>1, <2>3 DEF InFlightInv, OneAttempt
    <2>7. LocksStartFresh'
      BY <2>1, <2>2 DEF InFlightInv, LocksStartFresh
    <2>8. OneAttempt'
      BY <2>1, <2>5, <2>6 DEF InFlightInv, OneAttempt, AtLoop
    <2> QED
      BY <2>7, <2>8 DEF InFlightInv
  <1>6. ASSUME NEW g \in Gen, PamVerdict(g) PROVE InFlightInv'
    <2>1. /\ worker[g] = "pam"
          /\ worker'[g] \in {"accepted", "rejected"}
          /\ \A h \in Gen : h # g => worker'[h] = worker[h]
          /\ UNCHANGED <<dpc, child, lockState, runtime, lastGen, results, auth>>
      BY <1>6 DEF TypeOK, PamVerdict
    <2>2. LocksStartFresh'
      BY <2>1 DEF InFlightInv, LocksStartFresh
    <2>3. \A h \in Gen : worker'[h] = "none" <=> worker[h] = "none"
      BY <2>1
    <2>4. OneAttempt'
      BY <2>1, <2>3 DEF TypeOK, InFlightInv, OneAttempt, AtLoop, Verdicts
    <2> QED
      BY <2>2, <2>4 DEF InFlightInv
  <1>7. ASSUME NEW g \in Gen, WorkerReports(g) PROVE InFlightInv'
    <2>1. PICK outcome \in {"Succeeded", "Rejected"} : SendResult(g, outcome)
      BY <1>7 DEF WorkerReports
    <2>2. /\ worker[g] # "none" /\ worker'[g] = "none"
          /\ \A h \in Gen : h # g => worker'[h] = worker[h]
          /\ UNCHANGED <<dpc, child, lockState, runtime, lastGen, auth>>
      BY <1>7 DEF TypeOK, WorkerReports
    <2>3. \A h \in Gen : h # runtime => results'[h] = results[h]
      BY <2>1 DEF SendResult
    <2>4. LocksStartFresh'
      BY <2>2, <2>3 DEF InFlightInv, LocksStartFresh
    <2>5. OneAttempt'
      <3> SUFFICES ASSUME AtLoop, runtime \in Gen PROVE OneAttempt'
        BY <2>2 DEF TypeOK, OneAttempt, AtLoop
      <3>1. Verdicts(runtime)' = IF g = runtime
                                 THEN Verdicts(runtime) \cup {Len(results[runtime]) + 1}
                                 ELSE Verdicts(runtime)
        BY <2>1, <2>2, SendAddsVerdict
      <3>2. g = runtime => Verdicts(runtime) = {} /\ auth.in_flight
        BY <2>2 DEF InFlightInv, OneAttempt
      <3> QED
        BY <2>2, <3>1, <3>2 DEF InFlightInv, OneAttempt, AtLoop
    <2> QED
      BY <2>4, <2>5 DEF InFlightInv
  <1>8. ASSUME FingerprintMatched PROVE InFlightInv'
    <2>1. /\ fp.task \in Gen /\ SendResult(fp.task, "Matched")
          /\ UNCHANGED <<dpc, child, lockState, runtime, lastGen, auth, worker>>
      BY <1>8 DEF TypeOK, FingerprintHandles, FingerprintMatched
    <2>2. \A h \in Gen : h # runtime => results'[h] = results[h]
      BY <2>1 DEF SendResult
    <2>3. LocksStartFresh'
      BY <2>1, <2>2 DEF InFlightInv, LocksStartFresh
    <2>4. OneAttempt'
      <3> SUFFICES ASSUME AtLoop, runtime \in Gen PROVE OneAttempt'
        BY <2>1 DEF TypeOK, OneAttempt, AtLoop
      <3>1. Verdicts(runtime)' = Verdicts(runtime)
        BY <2>1, SendAddsVerdict
      <3> QED
        BY <2>1, <3>1 DEF InFlightInv, OneAttempt, AtLoop
    <2> QED
      BY <2>3, <2>4 DEF InFlightInv
  <1> QED
    BY <1>1, <1>2, <1>3, <1>4, <1>5, <1>6, <1>7, <1>8 DEF FingerprintStep, TaskStep

(* No lock is installed afterwards, or the loop is left for a handler.     *)
LEMMA NothingInstalled ==
    ASSUME LocksStartFresh', runtime' = NoGen \/ dpc' \notin {"select", "reading"}
    PROVE  InFlightInv'
  BY DEF InFlightInv, OneAttempt, AtLoop

LEMMA AttemptsAndHandlers ==
    ASSUME TypeOK, InFlightInv, Faults \cap {"wait"} = {}
    PROVE  /\ \A trigger \in {"manual", "logind", "forwarded"} :
                  LockRequested(trigger) => InFlightInv'
           /\ ReadyAccepted \/ ReportAwaited \/ ReportRead => InFlightInv'
           /\ ReadyTimeout \/ ActivationChildExited => InFlightInv'
           /\ CurtainExit => InFlightInv'
           /\ UnlockSignal \/ Shutdown \/ AuthSucceeded => InFlightInv'
           /\ CurtainStopped \/ GracefulTimeout \/ KillCurtain \/ DaemonFails => InFlightInv'
           /\ ~AbandonWaitError /\ ~ReadyWaitError /\ ~DeactivateWaitError
  <1> USE DEF InFlightInv
  <1>0. lastGen \in Nat /\ child \in Nat /\ runtime \in Nat
    BY DEF TypeOK
  <1>1. ASSUME NEW trigger \in {"manual", "logind", "forwarded"}, LockRequested(trigger)
        PROVE  InFlightInv'
    <2>1. runtime = NoGen
      BY <1>1 DEF LockRequested, IsActive, LocksStartFresh, OneAttempt, AtLoop
    <2>2. UNCHANGED <<runtime, worker, results>> /\ BeginActivation(trigger)
      BY <1>1 DEF LockRequested
    <2>3. LocksStartFresh'
      BY <1>0, <2>1, <2>2 DEF LocksStartFresh, BeginActivation, AfterFailure
    <2> QED
      BY <2>1, <2>2, <2>3, NothingInstalled
  <1>2. ASSUME ReadyAccepted \/ ReportRead PROVE InFlightInv'
    <2>0. LockEstablished /\ dpc \in {"starting", "reporting"}
      BY <1>2 DEF ReadyAccepted, ReportRead
    <2>1. /\ dpc' = "select" /\ lockState' = "Locked"
          /\ runtime' = child /\ child' = NoGen /\ auth' = FreshAuth
          /\ UNCHANGED <<lastGen, worker, results>>
      BY <2>0 DEF LockEstablished, ActivationReturns, KeepSockets
    <2>2. runtime = NoGen /\ \A g \in Gen : results[g] = <<>>
      BY <2>0 DEF LocksStartFresh
    <2>3. LocksStartFresh'
      BY <1>0, <2>0, <2>1, <2>2 DEF LocksStartFresh
    <2>4. CASE child \in Gen
      <3>1. worker[child] = "none" /\ Verdicts(child) = {}
        BY <2>0, <2>2, <2>4, NothingAttempted DEF LocksStartFresh
      <3>2. (Verdicts(runtime))' = Verdicts(child)
        BY <2>1 DEF Verdicts
      <3>3. OneAttempt'
        BY <2>1, <3>1, <3>2 DEF OneAttempt, FreshAuth
      <3> QED
        BY <2>3, <3>3
    <2>5. CASE child = NoGen
      BY <2>1, <2>3, <2>5, NothingInstalled
    <2> QED
      BY <2>4, <2>5 DEF TypeOK
  <1>3. ASSUME ReportAwaited \/ ReadyTimeout PROVE InFlightInv'
    <2>1. LocksStartFresh' /\ dpc' \notin {"select", "reading"}
      BY <1>3 DEF LocksStartFresh, ReportAwaited, ReadyTimeout
    <2> QED
      BY <2>1, NothingInstalled
  <1>4. ASSUME ActivationChildExited PROVE InFlightInv'
    <2>1. /\ child' = NoGen /\ runtime' = runtime /\ runtime = NoGen
          /\ UNCHANGED <<lastGen, worker>> /\ DropSockets(child)
          /\ dpc' \in {"failed", "select"}
      BY <1>4 DEF LocksStartFresh, ActivationChildExited, ActivationFails, ActivationReturns,
         AfterFailure
    <2>2. LocksStartFresh'
      BY <1>0, <2>1 DEF LocksStartFresh, DropSockets
    <2> QED
      BY <2>1, <2>2, NothingInstalled
  <1>5. ASSUME CurtainExit PROVE InFlightInv'
    <2>1. /\ runtime' = NoGen /\ worker' = worker /\ DropSockets(runtime)
          /\ BeginActivation("restart")
      BY <1>5 DEF CurtainExit, ResetRuntime
    <2>2. LocksStartFresh'
      BY <1>0, <2>1 DEF LocksStartFresh, DropSockets, BeginActivation, AfterFailure
    <2> QED
      BY <2>1, <2>2, NothingInstalled
  <1>6. ASSUME NEW why \in {"unlock", "shutdown", "auth"}, Select, Deactivate(why),
               why = "auth" => runtime \in Gen
        PROVE  InFlightInv'
    <2>1. CASE DeactivateWithoutCurtain(why)
      <3>1. /\ runtime' = NoGen /\ child' = child /\ DropSockets(runtime)
            /\ dpc' \in {"stopped", "select"} /\ UNCHANGED <<lastGen, worker>>
        BY <1>6, <2>1 DEF Deactivate, DeactivateWithoutCurtain, ResetRuntime
      <3>2. LocksStartFresh'
        BY <1>0, <3>1 DEF LocksStartFresh, DropSockets
      <3> QED
        BY <3>1, <3>2, NothingInstalled
    <2>2. CASE DeactivateCurtain(why)
      <3>1. /\ runtime' = runtime /\ child' = curtain /\ dpc' \in {"graceful", "terminating"}
            /\ UNCHANGED <<lastGen, worker>>
        BY <1>6, <2>2 DEF Deactivate, DeactivateCurtain
      <3>2. \A g \in Gen : g # runtime => results'[g] = results[g]
        BY <1>6, <2>2 DEF TypeOK, DeactivateCurtain, Consume
      <3>3. LocksStartFresh'
        BY <3>1, <3>2 DEF LocksStartFresh
      <3> QED
        BY <3>1, <3>3, NothingInstalled
    <2> QED
      BY <1>6, <2>1, <2>2 DEF Deactivate
  <1>7. ASSUME CurtainStopped PROVE InFlightInv'
    <2>1. /\ runtime' = NoGen /\ child' = NoGen /\ DropSockets(runtime)
          /\ dpc' \in {"stopped", "select"} /\ UNCHANGED <<lastGen, worker>>
      BY <1>7 DEF CurtainStopped, HandlerReturns, ResetRuntime
    <2>2. LocksStartFresh'
      BY <1>0, <2>1 DEF LocksStartFresh, DropSockets
    <2> QED
      BY <2>1, <2>2, NothingInstalled
  <1>8. ASSUME GracefulTimeout \/ KillCurtain PROVE InFlightInv'
    <2>1. UNCHANGED <<child, runtime, lastGen, worker, results>>
          /\ dpc' \in {"abandoning", "terminating"} /\ dpc' \in {dpc, "terminating"}
      BY <1>8 DEF GracefulTimeout, KillCurtain
    <2>2. LocksStartFresh'
      BY <2>1 DEF LocksStartFresh
    <2> QED
      BY <2>1, <2>2, NothingInstalled
  <1>9. ASSUME DaemonFails PROVE InFlightInv'
    <2>1. /\ runtime' = NoGen /\ dpc' = "failed" /\ UNCHANGED <<child, lastGen>>
          /\ \A g \in Gen : worker'[g] = "none" /\ results'[g] = <<>>
      BY <1>9 DEF DaemonFails
    <2>2. LocksStartFresh'
      BY <1>0, <2>1 DEF LocksStartFresh
    <2> QED
      BY <2>1, <2>2, NothingInstalled
  <1>10. ~AbandonWaitError /\ ~ReadyWaitError /\ ~DeactivateWaitError
    BY DEF AbandonWaitError, ReadyWaitError, DeactivateWaitError, Fault
  <1> QED
    BY <1>1, <1>2, <1>3, <1>4, <1>5, <1>6, <1>7, <1>8, <1>9, <1>10
       DEF UnlockSignal, Shutdown, AuthSucceeded, TypeOK

(* The daemon answers Busy exactly while an attempt of this lock is under  *)
(* way, whatever becomes of the attempts of earlier locks, so long as      *)
(* Child::wait does not fail.                                              *)
THEOREM InFlightIsTrue ==
    ASSUME Faults \cap {"wait"} = {}
    PROVE  Spec => []InFlightAccountedFor
  <1>1. TypeOK /\ InFlightInv /\ [Next]_vars => InFlightInv'
    <2> SUFFICES ASSUME TypeOK, InFlightInv, [Next]_vars PROVE InFlightInv'
      OBVIOUS
    <2>1. CASE UNCHANGED vars
      BY <2>1, QuietAttempts DEF vars
    <2>2. CASE DaemonStep \/ FingerprintStep \/ ThrottleExpires
      BY <2>2, AttemptsKept, AttemptsAndHandlers DEF DaemonStep, HandlerStep, LoopStep, Read
    <2>3. CASE \E g \in Gen : TaskStep(g) \/ CurtainStep(g) \/ CompositorStep(g)
      BY <2>3, AttemptsKept
    <2>4. CASE Request \/ Failure
      BY <2>4, AttemptsKept, AttemptsAndHandlers DEF Request, Failure
    <2> QED
      BY <2>1, <2>2, <2>3, <2>4 DEF Next, Terminated
  <1>2. TypeOK /\ InFlightInv => InFlightAccountedFor
    BY DEF TypeOK, InFlightInv, OneAttempt, AtLoop, Select, Verdicts, InFlightAccountedFor
  <1> QED
    BY <1>1, <1>2, InFlightInit, TypesHold, PTL DEF Spec

-----------------------------------------------------------------------------
(***************************************************************************)
(* LockSession implements LockPromise, for every number of locks and       *)
(* attempts, so long as frames can be drawn, the compositor keeps the lock *)
(* it granted, and Child::wait does not fail.                              *)
(*                                                                         *)
(* Of the steps of LockPromise only Release has a guard that the protocol  *)
(* could break.  A lock is released by a curtain that was told to exit;    *)
(* what has to be shown is that nothing is owed then: the curtain is the   *)
(* last one, and either somebody was let in at it or it is being given up. *)
(***************************************************************************)

(* Somebody still has to be let in at a lock that was reported.            *)
Unsettled == \E g \in reported : \A h \in authorised : h < g

(* The daemon deals with one curtain, the last: either it is in the slot,  *)
(* between handlers, or a handler waits for it.                            *)
OneCurtain ==
    /\ curtain \in {NoGen, lastGen} /\ child \in {NoGen, lastGen}
    /\ curtain # NoGen => AtLoop /\ lockState = "Locked"
    /\ child # NoGen =>
           dpc \in {"starting", "reporting", "abandoning", "graceful", "terminating"}

(* A live curtain that was told to exit may let go of the lock.            *)
ToldAreSettled ==
    \A g \in Gen : Alive(g) /\ ToldToExit(g) =>
        (dpc = "abandoning" /\ child = g) \/ ~Unsettled

OrderInv == OneCurtain /\ NoOrphanCurtain /\ ToldAreSettled

-----------------------------------------------------------------------------
LEMMA OrderInit == Init => OrderInv
  <1> SUFFICES ASSUME Init PROVE OrderInv
    OBVIOUS
  <1>1. OneCurtain
    BY DEF Init, OneCurtain
  <1>2. \A g \in Gen : ~Alive(g)
    BY DEF Init, NewCurtain, Alive, Phase
  <1> QED
    BY <1>1, <1>2 DEF OrderInv, NoOrphanCurtain, ToldAreSettled

(* What the daemon does to its curtains is left alone, and no curtain      *)
(* comes to life or is told anything.                                      *)
LockSlots == <<dpc, child, curtain, lockState, lastGen, reported>>

NobodyIsTold ==
    \A g \in Gen : /\ Alive(g)' => Alive(g)
                   /\ Alive(g)' /\ ToldToExit(g)' => ToldToExit(g)

LEMMA QuietSettled ==
    ASSUME TypeOK, authorised \subseteq authorised', reported' = reported
    PROVE  ~Unsettled => ~Unsettled'
  BY DEF TypeOK, Unsettled

LEMMA QuietOrder ==
    ASSUME TypeOK, OrderInv, UNCHANGED LockSlots, authorised \subseteq authorised', NobodyIsTold
    PROVE  OrderInv'
  <1>1. OneCurtain'
    BY DEF OrderInv, OneCurtain, AtLoop, LockSlots
  <1>2. NoOrphanCurtain'
    BY DEF OrderInv, NoOrphanCurtain, LockSlots, NobodyIsTold
  <1>3. ToldAreSettled'
    BY QuietSettled DEF OrderInv, ToldAreSettled, LockSlots, NobodyIsTold
  <1> QED
    BY <1>1, <1>2, <1>3 DEF OrderInv

(* One curtain changes, and neither its life nor what it was told grows.   *)
LEMMA QuietChange ==
    ASSUME TypeOK, OrderInv, UNCHANGED LockSlots, authorised' = authorised, NEW g \in Gen, NEW c,
           unlockMsg' \subseteq unlockMsg, sigterm' \subseteq sigterm,
           cur' = [cur EXCEPT ![g] = c],
           c.proc \in {"starting", "acquired", "running", "reporting"} =>
               Alive(g) /\ (c.exit_requested => ToldToExit(g))
    PROVE  OrderInv'
  <1>1. \A h \in Gen : cur'[h] = IF h = g THEN c ELSE cur[h]
    BY DEF TypeOK
  <1>2. NobodyIsTold
    BY <1>1 DEF NobodyIsTold, Alive, Phase, ToldToExit
  <1> QED
    BY <1>2, QuietOrder

LEMMA ProcessEndsOrder ==
    ASSUME TypeOK, OrderInv, NEW g \in Gen, ProcessEnds(g), UNCHANGED LockSlots,
           authorised' = authorised
    PROVE  OrderInv'
  BY QuietChange DEF ProcessEnds, NewCurtain

LEMMA CurtainOrder ==
    ASSUME TypeOK, OrderInv, NEW g \in Gen, Faults \cap {"render", "deny"} = {},
           \/ CurtainStep(g) \/ CompositorStep(g) \/ SubmitPassword(g)
           \/ RenderFailure(g) \/ Crash(g) \/ RevokeLock(g)
    PROVE  OrderInv'
  <1> USE DEF LockSlots
  <1>0. cur[g] \in CurtainApps /\ (cur[g].exit_requested => ToldToExit(g))
    BY DEF TypeOK, ToldToExit
  <1>1. ASSUME AcquireLock(g) \/ RegisterSignals(g) \/ WriteReport(g) PROVE OrderInv'
    <2>1. PICK p \in {"acquired", "running"} : cur' = [cur EXCEPT ![g] = [cur[g] EXCEPT !.proc = p]]
      BY <1>1 DEF AcquireLock, RegisterSignals, WriteReport
    <2> DEFINE c == [cur[g] EXCEPT !.proc = p]
    <2>2. c.exit_requested = cur[g].exit_requested
      BY <1>0 DEF CurtainApps
    <2>3. Alive(g)
      BY <1>1 DEF AcquireLock, RegisterSignals, WriteReport, Alive, Phase
    <2>4. UNCHANGED LockSlots /\ UNCHANGED <<authorised, unlockMsg, sigterm>>
      BY <1>1 DEF AcquireLock, RegisterSignals, WriteReport
    <2>5. cur' = [cur EXCEPT ![g] = c]
      BY <2>1
    <2> HIDE DEF c
    <2> QED
      BY <1>0, <2>2, <2>3, <2>4, <2>5, QuietChange
  <1>2. ASSUME HandleSigterm(g) \/ HandleUnlock(g) PROVE OrderInv'
    <2> DEFINE c == [cur[g] EXCEPT !.exit_requested = TRUE]
    <2>1. ToldToExit(g) /\ Alive(g)
      BY <1>2 DEF HandleSigterm, HandleUnlock, ToldToExit, Running, Alive
    <2>2. UNCHANGED LockSlots /\ authorised' = authorised
          /\ unlockMsg' \subseteq unlockMsg /\ sigterm' \subseteq sigterm
      BY <1>2 DEF HandleSigterm, HandleUnlock
    <2>3. cur' = [cur EXCEPT ![g] = c]
      BY <1>2 DEF HandleSigterm, HandleUnlock
    <2> HIDE DEF c
    <2> QED
      BY <2>1, <2>2, <2>3, QuietChange
  <1>3. ASSUME NEW c, cur' = [cur EXCEPT ![g] = c], Running(g),
               c.exit_requested = cur[g].exit_requested,
               UNCHANGED LockSlots, UNCHANGED <<authorised, unlockMsg, sigterm>>
        PROVE  OrderInv'
    <2>1. Alive(g)
      BY <1>3 DEF Running, Alive
    <2> QED
      BY <1>0, <1>3, <2>1, QuietChange
  <1>5. ASSUME NEW d \in CurtainApps, MaybeNotifyReady(g, d), Running(g),
               d.exit_requested = cur[g].exit_requested,
               UNCHANGED LockSlots, UNCHANGED <<authorised, unlockMsg, sigterm>>
        PROVE  OrderInv'
    <2>1. PICK c \in CurtainApps : /\ cur' = [cur EXCEPT ![g] = c]
                                   /\ c.exit_requested = d.exit_requested
      BY <1>5, ReadyChange
    <2> QED
      BY <1>3, <1>5, <2>1
  <1>6. ASSUME HandleConfigure(g) PROVE OrderInv'
    <2> DEFINE d == [cur[g] EXCEPT !.configured = TRUE]
    <2>1. d \in CurtainApps /\ d.exit_requested = cur[g].exit_requested
      BY <1>0 DEF CurtainApps
    <2>2. MaybeNotifyReady(g, d) /\ Running(g)
      BY <1>6 DEF HandleConfigure
    <2>3. UNCHANGED LockSlots /\ UNCHANGED <<authorised, unlockMsg, sigterm>>
      BY <1>6 DEF HandleConfigure
    <2> HIDE DEF d
    <2> QED
      BY <1>5, <2>1, <2>2, <2>3
  <1>7. ASSUME HandleLocked(g) PROVE OrderInv'
    <2> DEFINE d == [cur[g] EXCEPT !.session_locked = TRUE]
    <2>1. d \in CurtainApps /\ d.exit_requested = cur[g].exit_requested
      BY <1>0 DEF CurtainApps
    <2>2. MaybeNotifyReady(g, d) /\ Running(g)
      BY <1>7 DEF HandleLocked
    <2>3. UNCHANGED LockSlots /\ UNCHANGED <<authorised, unlockMsg, sigterm>>
      BY <1>7 DEF HandleLocked
    <2> HIDE DEF d
    <2> QED
      BY <1>5, <2>1, <2>2, <2>3
  <1>8. ASSUME HandleFinished(g) PROVE OrderInv'
    <2> DEFINE c == [cur[g] EXCEPT !.session_finished = TRUE, !.failure = TRUE]
    <2>1. c.exit_requested = cur[g].exit_requested
      BY <1>0 DEF CurtainApps
    <2>2. cur' = [cur EXCEPT ![g] = c] /\ Running(g)
      BY <1>8 DEF HandleFinished
    <2>3. UNCHANGED LockSlots /\ UNCHANGED <<authorised, unlockMsg, sigterm>>
      BY <1>8 DEF HandleFinished
    <2> HIDE DEF c
    <2> QED
      BY <1>3, <2>1, <2>2, <2>3
  <1>9. ASSUME HandleReply(g) PROVE OrderInv'
    <2> DEFINE c == [cur[g] EXCEPT !.auth_in_flight = @ /\ ~Reopens(reply[g])]
    <2>1. c.exit_requested = cur[g].exit_requested
      BY <1>0 DEF CurtainApps
    <2>2. cur' = [cur EXCEPT ![g] = c] /\ Running(g)
      BY <1>9 DEF HandleReply
    <2>3. UNCHANGED LockSlots /\ UNCHANGED <<authorised, unlockMsg, sigterm>>
      BY <1>9 DEF HandleReply
    <2> HIDE DEF c
    <2> QED
      BY <1>3, <2>1, <2>2, <2>3
  <1>10. ASSUME SubmitPassword(g) PROVE OrderInv'
    <2> DEFINE c == [cur[g] EXCEPT !.auth_in_flight = TRUE, !.attempts = @ + 1]
    <2>1. c.exit_requested = cur[g].exit_requested
      BY <1>0 DEF CurtainApps
    <2>2. cur' = [cur EXCEPT ![g] = c] /\ Running(g)
      BY <1>10 DEF SubmitPassword
    <2>3. UNCHANGED LockSlots /\ UNCHANGED <<authorised, unlockMsg, sigterm>>
      BY <1>10 DEF SubmitPassword
    <2> HIDE DEF c
    <2> QED
      BY <1>3, <2>1, <2>2, <2>3
  <1>11. ASSUME DieBySigterm(g) \/ Stop(g) \/ LockDeadline(g) \/ Crash(g) PROVE OrderInv'
    <2>1. ProcessEnds(g) /\ UNCHANGED LockSlots /\ authorised' = authorised
      BY <1>11 DEF DieBySigterm, Stop, LockDeadline, Crash
    <2> QED
      BY <2>1, ProcessEndsOrder
  <1>12. ASSUME CompositorStep(g) \/ WriteLine(g) PROVE OrderInv'
    <2>1. UNCHANGED <<cur, LockSlots, authorised, unlockMsg, sigterm>>
      BY <1>12 DEF CompositorStep, GrantLock, DenyLock, ForgetRequest, WriteLine
    <2>2. NobodyIsTold
      BY <2>1 DEF NobodyIsTold, Alive, Phase, ToldToExit
    <2> QED
      BY <2>1, <2>2, QuietOrder
  <1>13. ~RenderFailure(g) /\ ~RevokeLock(g)
    BY DEF RenderFailure, RevokeLock
  <1> QED
    BY <1>1, <1>2, <1>6, <1>7, <1>8, <1>9, <1>10, <1>11, <1>12, <1>13
       DEF CurtainStep

-----------------------------------------------------------------------------
(* No curtain is alive: nothing is left to settle.                         *)
LEMMA NobodyLeft ==
    ASSUME OneCurtain', \A g \in Gen : ~Alive(g)'
    PROVE  OrderInv'
  BY DEF OrderInv, NoOrphanCurtain, ToldAreSettled

LEMMA BeginActivationOrder ==
    ASSUME TypeOK, ReleaseInv, OneCurtain, SpareGen, NEW trigger, BeginActivation(trigger),
           UNCHANGED <<unlockMsg, sigterm, reported, authorised>>,
           curtain' = NoGen, child = NoGen, \A g \in Gen : ~Alive(g)
    PROVE  OrderInv'
  <1>0. PICK h \in Gen : h = lastGen + 1
    BY BoundsAssumption DEF TypeOK, SpareGen
  <1>1. CASE dpc' = "starting"
    <2>1. /\ lastGen' = h /\ child' = h
          /\ cur' = [cur EXCEPT ![h] = NewCurtain("starting")]
      BY <1>0, <1>1 DEF BeginActivation, AfterFailure
    <2>2. /\ cur'[h] = NewCurtain("starting")
          /\ \A g \in Gen : g # h => cur'[g] = cur[g]
      BY <2>1 DEF TypeOK
    <2>3. \A g \in Gen : g # h => ~Alive(g)'
      BY <2>2 DEF Alive, Phase
    <2>4. h \notin unlockMsg \cup sigterm
      BY <1>0 DEF TypeOK, ReleaseInv, GenerationsAreUsed
    <2>5. ~ToldToExit(h)'
      BY <2>2, <2>4 DEF ToldToExit, NewCurtain
    <2>6. OneCurtain'
      BY <1>1, <2>1 DEF OneCurtain
    <2>7. NoOrphanCurtain' /\ ToldAreSettled'
      BY <2>1, <2>3, <2>5 DEF NoOrphanCurtain, ToldAreSettled
    <2> QED
      BY <2>6, <2>7 DEF OrderInv
  <1>2. CASE dpc' # "starting"
    <2>1. UNCHANGED <<cur, lastGen, child>>
      BY <1>2 DEF BeginActivation
    <2>2. OneCurtain'
      BY <2>1 DEF OneCurtain
    <2>3. \A g \in Gen : ~Alive(g)'
      BY <2>1 DEF Alive, Phase
    <2> QED
      BY <2>2, <2>3, NobodyLeft
  <1> QED
    BY <1>1, <1>2

LEMMA ActivationOrder ==
    ASSUME TypeOK, ReleaseInv, OrderInv, Faults \cap {"wait"} = {}
    PROVE  /\ \A trigger \in {"manual", "logind", "forwarded"} : LockRequested(trigger) => OrderInv'
           /\ ReadyAccepted \/ ReportAwaited \/ ReportRead \/ ReadyTimeout => OrderInv'
           /\ ActivationChildExited \/ AbandonWaitError \/ ReadyWaitError => OrderInv'
           /\ CurtainExit => OrderInv'
  <1> USE DEF OrderInv
  <1>1. ASSUME NEW trigger \in {"manual", "logind", "forwarded"}, LockRequested(trigger)
        PROVE  OrderInv'
    <2>1. /\ dpc \in {"booting", "select"} /\ lockState = "Unlocked" /\ SpareGen
          /\ BeginActivation(trigger)
          /\ UNCHANGED <<curtain, unlockMsg, sigterm, reported, authorised>>
      BY <1>1 DEF LockRequested, IsActive
    <2>2. curtain = NoGen /\ child = NoGen
      BY <2>1 DEF OneCurtain, AtLoop
    <2>3. \A g \in Gen : ~Alive(g)
      BY <2>1, <2>2 DEF NoOrphanCurtain
    <2> QED
      BY <2>1, <2>2, <2>3, BeginActivationOrder
  <1>2. ASSUME ReadyAccepted \/ ReportRead PROVE OrderInv'
    <2>1. /\ child \in Gen /\ ~ToldToExit(child) /\ dpc \in {"starting", "reporting"}
          /\ LockEstablished
      BY <1>2 DEF ReleaseInv, StartingIsUntold, ReadyAccepted, ReportRead
    <2>2. /\ UNCHANGED <<cur, unlockMsg, sigterm, lastGen>> /\ dpc' = "select"
          /\ lockState' = "Locked" /\ curtain' = child /\ child' = NoGen
      BY <2>1 DEF LockEstablished, ActivationReturns
    <2>3. OneCurtain'
      BY <2>2 DEF OneCurtain, AtLoop
    <2>4. \A g \in Gen : Alive(g)' => g = child
      BY <2>1, <2>2 DEF OneCurtain, NoOrphanCurtain, AtLoop, Alive, Phase
    <2>5. \A g \in Gen : g = child => ~(ToldToExit(g)')
      BY <2>1, <2>2 DEF ToldToExit
    <2> QED
      BY <2>2, <2>3, <2>4, <2>5 DEF NoOrphanCurtain, ToldAreSettled
  <1>3. ASSUME ReadyTimeout PROVE OrderInv'
    <2>1. /\ child \in Gen /\ dpc = "starting"
      BY <1>3 DEF ReleaseInv, StartingIsUntold, ReadyTimeout
    <2>2. /\ UNCHANGED <<cur, child, curtain, lastGen>> /\ dpc' = "abandoning"
      BY <1>3 DEF ReadyTimeout
    <2>3. OneCurtain'
      BY <2>1, <2>2 DEF OneCurtain, AtLoop
    <2>4. \A g \in Gen : Alive(g)' => g = child
      BY <2>1, <2>2 DEF OneCurtain, NoOrphanCurtain, AtLoop, Alive, Phase
    <2> QED
      BY <2>2, <2>3, <2>4 DEF NoOrphanCurtain, ToldAreSettled
  <1>4. ASSUME ActivationChildExited PROVE OrderInv'
    <2>1. /\ dpc \in {"starting", "abandoning"} /\ Exited(child)
          /\ UNCHANGED <<cur, curtain, lastGen>> /\ child' = NoGen
      BY <1>4 DEF ActivationChildExited, ActivationFails, ActivationReturns
    <2>2. curtain = NoGen /\ OneCurtain'
      BY <2>1 DEF OneCurtain, AtLoop
    <2>3. \A g \in Gen : ~Alive(g)'
      BY <2>1, <2>2 DEF NoOrphanCurtain, Exited, Alive, Phase
    <2> QED
      BY <2>2, <2>3, NobodyLeft
  <1>5. ~AbandonWaitError /\ ~ReadyWaitError
    BY DEF AbandonWaitError, ReadyWaitError, Fault
  <1>6. ASSUME CurtainExit PROVE OrderInv'
    <2>1. /\ dpc = "select" /\ Exited(curtain) /\ SpareGen /\ curtain' = NoGen
          /\ BeginActivation("restart")
          /\ UNCHANGED <<unlockMsg, sigterm, reported, authorised>>
      BY <1>6 DEF CurtainExit, Select
    <2>2. child = NoGen
      BY <2>1 DEF OneCurtain
    <2>3. \A g \in Gen : ~Alive(g)
      BY <2>1, <2>2 DEF NoOrphanCurtain, Exited, Alive, Phase
    <2> QED
      BY <2>1, <2>2, <2>3, BeginActivationOrder
  <1>7. ASSUME ReportAwaited PROVE OrderInv'
    <2>1. /\ UNCHANGED <<cur, unlockMsg, sigterm, child, curtain, lockState, lastGen, reported,
                         authorised>>
          /\ dpc = "starting" /\ dpc' = "reporting"
      BY <1>7 DEF ReportAwaited
    <2>2. OneCurtain' /\ NoOrphanCurtain'
      BY <2>1 DEF OneCurtain, NoOrphanCurtain, AtLoop, Alive, Phase
    <2>3. ToldAreSettled'
      BY <2>1 DEF ToldAreSettled, ToldToExit, Alive, Phase, Unsettled
    <2> QED
      BY <2>2, <2>3
  <1> QED
    BY <1>1, <1>2, <1>3, <1>4, <1>5, <1>6, <1>7

-----------------------------------------------------------------------------
(* Once somebody is let in at the last lock, every report is settled.      *)
LEMMA LastSettles ==
    ASSUME TypeOK, ReleaseInv, NEW A, lastGen \in A
    PROVE  ~(\E g \in reported : \A h \in A : h < g)
  BY DEF TypeOK, ReleaseInv, GenerationsAreUsed

LEMMA DeactivateOrder ==
    ASSUME TypeOK, ReleaseInv, OrderInv, NEW why, Select, Deactivate(why),
           authorised \subseteq authorised', curtain # NoGen => curtain \in authorised'
    PROVE  OrderInv'
  <1> USE DEF OrderInv
  <1>0. child = NoGen /\ UNCHANGED <<cur, sigterm, reported, lastGen>>
    BY DEF OneCurtain, Select, Deactivate
  <1>1. CASE DeactivateWithoutCurtain(why)
    <2>1. UNCHANGED <<child, curtain>> /\ curtain = NoGen
      BY <1>1 DEF DeactivateWithoutCurtain
    <2>2. OneCurtain'
      BY <1>0, <2>1 DEF OneCurtain
    <2>3. \A g \in Gen : ~Alive(g)'
      BY <1>0, <2>1 DEF NoOrphanCurtain, Select, Alive, Phase
    <2> QED
      BY <2>2, <2>3, NobodyLeft
  <1>2. CASE DeactivateCurtain(why)
    <2>1. /\ child' = curtain /\ curtain' = NoGen /\ curtain # NoGen
          /\ dpc' \in {"graceful", "terminating"}
      BY <1>2 DEF DeactivateCurtain
    <2>2. curtain = lastGen /\ OneCurtain'
      BY <1>0, <2>1 DEF OneCurtain
    <2>3. NoOrphanCurtain'
      BY <1>0, <2>1 DEF NoOrphanCurtain, Select, Alive, Phase
    <2>4. ~Unsettled'
      BY <1>0, <2>1, <2>2, LastSettles DEF Unsettled
    <2> QED
      BY <2>2, <2>3, <2>4 DEF ToldAreSettled
  <1> QED
    BY <1>1, <1>2 DEF Deactivate

LEMMA DeactivationOrder ==
    ASSUME TypeOK, AuthorityInv, ReleaseInv, OrderInv, Faults \cap {"wait"} = {}
    PROVE  /\ UnlockSignal \/ Shutdown \/ AuthSucceeded => OrderInv'
           /\ CurtainStopped \/ GracefulTimeout \/ KillCurtain => OrderInv'
           /\ DeactivateWaitError \/ DaemonFails => OrderInv'
  <1>1. ASSUME UnlockSignal \/ Shutdown PROVE OrderInv'
    <2>1. /\ authorised \subseteq authorised'
          /\ curtain # NoGen => curtain \in authorised'
      BY <1>1 DEF TypeOK, UnlockSignal, Shutdown, Authorise
    <2> QED
      BY <1>1, <2>1, DeactivateOrder DEF UnlockSignal, Shutdown
  <1>2. ASSUME AuthSucceeded PROVE OrderInv'
    <2>1. Select /\ authorised' = authorised /\ Deactivate("auth")
      BY <1>2 DEF AuthSucceeded
    <2>2. curtain # NoGen => curtain \in authorised'
      BY <1>2, <2>1, HeadOfSuccess DEF AuthorityInv, StopsAreAuthorised
    <2> QED
      BY <2>1, <2>2, DeactivateOrder
  <1>3. ASSUME CurtainStopped PROVE OrderInv'
    <2>1. /\ dpc \in {"graceful", "terminating"} /\ Exited(child)
          /\ UNCHANGED <<cur, curtain, lastGen>> /\ child' = NoGen
      BY <1>3 DEF CurtainStopped, HandlerReturns
    <2>2. curtain = NoGen /\ OneCurtain'
      BY <2>1 DEF OrderInv, OneCurtain, AtLoop
    <2>3. \A g \in Gen : ~Alive(g)'
      BY <2>1, <2>2 DEF OrderInv, NoOrphanCurtain, Exited, Alive, Phase
    <2> QED
      BY <2>2, <2>3, NobodyLeft
  <1>4. ASSUME GracefulTimeout PROVE OrderInv'
    <2>1. /\ UNCHANGED <<cur, child, curtain, reported, lastGen, authorised>>
          /\ dpc = "graceful" /\ dpc' = "terminating" /\ Alive(child)
      BY <1>4 DEF GracefulTimeout
    <2>2. child \in authorised /\ curtain = NoGen /\ child # NoGen
      BY <2>1 DEF AuthorityInv, StopsAreAuthorised, TypeOK
    <2>3. child = lastGen /\ OneCurtain'
      BY <2>1, <2>2 DEF OrderInv, OneCurtain
    <2>4. NoOrphanCurtain'
      BY <2>1 DEF OrderInv, NoOrphanCurtain, Alive, Phase
    <2>5. ~Unsettled'
      BY <2>1, <2>2, <2>3, LastSettles DEF Unsettled
    <2> QED
      BY <2>3, <2>4, <2>5 DEF OrderInv, ToldAreSettled
  <1>5. ASSUME KillCurtain PROVE OrderInv'
    <2>1. /\ child \in Gen /\ ProcessEnds(child)
          /\ UNCHANGED LockSlots /\ authorised' = authorised
      BY <1>5 DEF TypeOK, KillCurtain, Alive, Phase, LockSlots
    <2> QED
      BY <2>1, ProcessEndsOrder
  <1>6. ASSUME DaemonFails PROVE OrderInv'
    <2>1. /\ UNCHANGED <<cur, unlockMsg, sigterm, reported, lastGen, child, authorised>>
          /\ curtain' = NoGen /\ dpc' = "failed" /\ AtLoop
      BY <1>6 DEF DaemonFails, Select, AtLoop
    <2>2. OneCurtain' /\ NoOrphanCurtain'
      BY <2>1 DEF OrderInv, OneCurtain, NoOrphanCurtain, AtLoop
    <2>3. ToldAreSettled'
      BY <2>1 DEF OrderInv, ToldAreSettled, ToldToExit, Alive, Phase, Unsettled, AtLoop
    <2> QED
      BY <2>2, <2>3 DEF OrderInv
  <1>7. ~DeactivateWaitError
    BY DEF DeactivateWaitError, Fault
  <1> QED
    BY <1>1, <1>2, <1>3, <1>4, <1>5, <1>6, <1>7

LEMMA AuthenticationOrder ==
    ASSUME TypeOK, OrderInv,
           \/ Read \/ AuthRejected \/ ThrottleExpires \/ Tick \/ FingerprintStep
           \/ \E g \in Gen : TaskStep(g)
    PROVE  OrderInv'
  <1>1. CASE Read
    <2>1. OneCurtain' /\ NoOrphanCurtain'
      BY <1>1, ReadingLeavesTheLock
         DEF OrderInv, OneCurtain, NoOrphanCurtain, AtLoop, Alive, Phase
    <2>2. ToldAreSettled'
      BY <1>1, ReadingLeavesTheLock
         DEF OrderInv, ToldAreSettled, ToldToExit, Unsettled, AtLoop, Alive, Phase
    <2> QED
      BY <2>1, <2>2 DEF OrderInv
  <1>2. CASE ~Read
    <2>1. /\ UNCHANGED <<LockSlots, cur, unlockMsg, sigterm>>
          /\ authorised \subseteq authorised'
      BY <1>2 DEF AuthRejected, ThrottleExpires, Tick, FingerprintStep, LockSlots,
         FingerprintMatched, FingerprintUnavailable, TaskStep, PamVerdict, WorkerReports, Authorise
    <2>2. NobodyIsTold
      BY <2>1 DEF NobodyIsTold, Alive, Phase, ToldToExit
    <2> QED
      BY <2>1, <2>2, QuietOrder
  <1> QED
    BY <1>1, <1>2

LEMMA OrderStep ==
    ASSUME Faults \cap {"render", "deny", "wait"} = {}
    PROVE  TypeOK /\ AuthorityInv /\ ReleaseInv /\ OrderInv /\ [Next]_vars => OrderInv'
  <1> SUFFICES ASSUME TypeOK, AuthorityInv, ReleaseInv, OrderInv, [Next]_vars PROVE OrderInv'
    OBVIOUS
  <1>0. Faults \cap {"render", "deny"} = {} /\ Faults \cap {"wait"} = {}
    OBVIOUS
  <1>1. CASE DaemonStep \/ FingerprintStep \/ ThrottleExpires
    BY <1>0, <1>1, ActivationOrder, DeactivationOrder, AuthenticationOrder
       DEF DaemonStep, HandlerStep, LoopStep, Read
  <1>2. CASE \E g \in Gen : TaskStep(g) \/ CurtainStep(g) \/ CompositorStep(g)
    BY <1>0, <1>2, AuthenticationOrder, CurtainOrder
  <1>3. CASE Request
    BY <1>0, <1>3, ActivationOrder, DeactivationOrder, CurtainOrder DEF Request
  <1>4. CASE Failure
    BY <1>0, <1>4, ActivationOrder, DeactivationOrder, CurtainOrder DEF Failure
  <1>5. CASE UNCHANGED vars
    <2>1. UNCHANGED <<LockSlots, cur, unlockMsg, sigterm, authorised>>
      BY <1>5 DEF vars, LockSlots
    <2>2. NobodyIsTold
      BY <2>1 DEF NobodyIsTold, Alive, Phase, ToldToExit
    <2> QED
      BY <2>1, <2>2, QuietOrder
  <1> QED
    BY <1>1, <1>2, <1>3, <1>4, <1>5 DEF Next, Terminated

LEMMA OrderHolds ==
    ASSUME Faults \cap {"render", "deny", "wait"} = {}
    PROVE  Spec => [](TypeOK /\ ReleaseInv /\ OrderInv)
  <1>1. TypeOK /\ AuthorityInv /\ ReleaseInv /\ [Next]_vars => ReleaseInv'
    <2>1. Faults \cap {"render", "deny"} = {}
      OBVIOUS
    <2> QED
      BY <2>1, ReleaseStep
  <1>2. TypeOK /\ AuthorityInv /\ ReleaseInv /\ OrderInv /\ [Next]_vars => OrderInv'
    BY OrderStep
  <1> QED
    BY <1>1, <1>2, TypesHold, AuthorityHolds, ReleaseInit, OrderInit, PTL DEF Spec

(* Every living curtain is the daemon's: however many locks come and go,   *)
(* none is left behind to hold or to ask for the session lock, so long as  *)
(* run() does not end in an error.                                         *)
THEOREM NoCurtainIsOrphaned ==
    ASSUME Faults \cap {"render", "deny", "wait"} = {}
    PROVE  Spec => []NoOrphanCurtain
  <1>1. OrderInv => NoOrphanCurtain
    BY DEF OrderInv
  <1> QED
    BY <1>1, OrderHolds, PTL

-----------------------------------------------------------------------------
(* Nothing is owed when the compositor's lock is released.                 *)
LEMMA ReleasedIsSettled ==
    ASSUME Faults \cap {"render", "deny"} = {}, TypeOK, ReleaseInv, OrderInv, [Next]_vars,
           lockOwner # NoGen, lockOwner' = NoGen
    PROVE  ~Owed
  <1>1. PICK g \in Gen : Stop(g) /\ ReleasesLock(g) /\ lockOwner = g
    BY OnlyStopReleases
  <1>2. ~cur[g].failure
    BY <1>1 DEF ReleaseInv, FailuresAreFinished, ReleasesLock
  <1>3. ToldToExit(g) /\ Alive(g)
    BY <1>1, <1>2 DEF Stop, CanStop, ToldToExit, Running, Alive
  <1> QED
    BY <1>3 DEF OrderInv, ToldAreSettled, Unsettled, Owed

LEMMA PromiseStep ==
    ASSUME Faults \cap {"render", "deny"} = {}
    PROVE  TypeOK /\ ReleaseInv /\ OrderInv /\ [Next]_vars
               => [Promise!Next]_<<lockOwner # NoGen, Owed>>
  <1> SUFFICES ASSUME TypeOK, ReleaseInv, OrderInv, [Next]_vars
               PROVE  [Promise!Next]_<<lockOwner # NoGen, Owed>>
    OBVIOUS
  <1>1. Owed \in BOOLEAN /\ Owed' \in BOOLEAN
    BY DEF Owed
  <1>2. Owed => lockOwner # NoGen
    BY DEF Owed
  <1>3. Owed' => lockOwner' # NoGen
    BY DEF Owed
  <1>4. CASE lockOwner = NoGen /\ lockOwner' # NoGen
    BY <1>1, <1>4 DEF Promise!Next, Promise!Secure
  <1>5. CASE lockOwner # NoGen /\ lockOwner' # NoGen
    BY <1>1, <1>5 DEF Promise!Next, Promise!Report, Promise!Settle
  <1>6. CASE lockOwner # NoGen /\ lockOwner' = NoGen
    <2>1. ~Owed
      BY <1>6, ReleasedIsSettled
    <2> QED
      BY <1>1, <1>3, <1>6, <2>1 DEF Promise!Next, Promise!Release
  <1>7. CASE lockOwner = NoGen /\ lockOwner' = NoGen
    BY <1>1, <1>2, <1>3, <1>7
  <1> QED
    BY <1>4, <1>5, <1>6, <1>7

(* The detailed protocol implements the promise: a session that veilad has *)
(* reported as locked stays locked in the compositor until somebody is let *)
(* in, across crashed, slow and unspawnable curtains, failing sockets and  *)
(* a logind that does not answer, but for a replacement being given up.    *)
THEOREM PromiseIsKept ==
    ASSUME Faults \cap {"render", "deny", "wait"} = {}
    PROVE  Spec => KeepsLockPromise
  <1>0. Faults \cap {"render", "deny"} = {}
    OBVIOUS
  <1>1. Init => Promise!Init
    BY DEF Init, Promise!Init, Owed
  <1>2. TypeOK /\ ReleaseInv /\ OrderInv /\ [Next]_vars
            => [Promise!Next]_<<lockOwner # NoGen, Owed>>
    BY <1>0, PromiseStep
  <1> QED
    BY <1>1, <1>2, OrderHolds, PTL DEF Spec, KeepsLockPromise, Promise!Spec
=============================================================================
