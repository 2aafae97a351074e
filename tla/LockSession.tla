----------------------------- MODULE LockSession ----------------------------
(***************************************************************************)
(* The lock protocol as a whole: veilad, the curtain of every generation,  *)
(* the compositor and logind, with the user and the environment free to    *)
(* ask for a lock or an unlock, type passwords and make things fail.       *)
(***************************************************************************)
EXTENDS Daemon, Curtain

(* What the daemon does by itself, in a handler or at the select!.         *)
HandlerStep ==
    \/ ReadyAccepted \/ ReportAwaited \/ ReportRead
    \/ ReadyTimeout \/ ActivationChildExited
    \/ ReadsNothing \/ AcceptSubmission
    \/ CurtainStopped \/ GracefulTimeout \/ KillCurtain

LoopStep ==
    \/ CurtainExit \/ AcceptConnection \/ AuthSucceeded \/ AuthRejected \/ Tick

DaemonStep == HandlerStep \/ LoopStep

TaskStep(g) == PamVerdict(g) \/ WorkerReports(g)

FingerprintStep == FingerprintMatched \/ FingerprintUnavailable

(* What a curtain process does by itself.                                  *)
CurtainStep(g) ==
    \/ AcquireLock(g) \/ RegisterSignals(g) \/ DieBySigterm(g)
    \/ HandleSigterm(g) \/ HandleUnlock(g)
    \/ HandleConfigure(g) \/ HandleLocked(g) \/ HandleFinished(g)
    \/ WriteReport(g) \/ WriteLine(g) \/ HandleReply(g) \/ LockDeadline(g) \/ Stop(g)

CompositorStep(g) == GrantLock(g) \/ DenyLock(g) \/ ForgetRequest(g)

(* What the user, loginctl and the service manager may ask for.            *)
Request ==
    \/ \E trigger \in {"manual", "logind", "forwarded"} : LockRequested(trigger)
    \/ UnlockSignal
    \/ Shutdown
    \/ \E g \in Gen : SubmitPassword(g)

Failure ==
    \/ AbandonWaitError \/ ReadyWaitError \/ DeactivateWaitError \/ DaemonFails
    \/ \E g \in Gen : RenderFailure(g) \/ Crash(g) \/ RevokeLock(g)

(* run() has returned; whatever processes remain may go on.                *)
Terminated ==
    /\ dpc \in {"stopped", "failed"}
    /\ UNCHANGED vars

Next ==
    \/ DaemonStep
    \/ FingerprintStep
    \/ ThrottleExpires
    \/ \E g \in Gen : TaskStep(g) \/ CurtainStep(g) \/ CompositorStep(g)
    \/ Request
    \/ Failure
    \/ Terminated

(***************************************************************************)
(* Tokio polls every ready branch of the select! and every timer fires;    *)
(* PAM returns; a process that is not stopped keeps running its loop; the  *)
(* compositor answers every lock request.  It is enough that one of them   *)
(* moves as long as one of them can, since none of them runs for ever by   *)
(* itself.  Requests, failures and the fingerprint reader are under no     *)
(* obligation.                                                             *)
(***************************************************************************)
SystemStep ==
    \/ DaemonStep
    \/ ThrottleExpires
    \/ \E g \in Gen : TaskStep(g) \/ CurtainStep(g) \/ CompositorStep(g)

Fairness == WF_vars(SystemStep)

Spec == Init /\ [][Next]_vars
FairSpec == Spec /\ Fairness

(* Only the daemon and its timers are relied upon.                         *)
DaemonFairSpec == Spec /\ WF_vars(HandlerStep)

-----------------------------------------------------------------------------
(* Every variable holds a value of the type its Rust counterpart has.      *)
TypeOK ==
    /\ dpc \in DaemonPcs
    /\ handler \in Handlers
    /\ child \in MaybeGen
    /\ lockState \in LockStates
    /\ curtain \in MaybeGen
    /\ runtime \in MaybeGen
    /\ auth \in AuthStates
    /\ fp \in FingerprintHandles
    /\ lastGen \in 0 .. MaxGen
    /\ notified \subseteq Gen
    /\ conns \subseteq Gen
    /\ lines \subseteq conns
    /\ worker \in [Gen -> WorkerStates]
    /\ results \in [Gen -> Seq(AuthResults)]
    /\ reply \in [Gen -> Replies]
    /\ unlockMsg \subseteq Gen
    /\ sigterm \subseteq Gen
    /\ cur \in [Gen -> CurtainApps]
    /\ lockOwner \in MaybeGen
    /\ lockRequests \subseteq Gen
    /\ wl \in [Gen -> SUBSET {"locked", "finished"}]
    /\ hint \in BOOLEAN
    /\ reported \subseteq Gen
    /\ authorised \subseteq Gen

(* Between two handlers the daemon is either locked, with a curtain and    *)
(* its whole runtime installed, or unlocked with neither, and logind's     *)
(* LockedHint says the same: no path through activate_lock,                *)
(* deactivate_lock, reset_runtime and restarts leaves half of it behind.   *)
SettledBetweenHandlers ==
    Select => /\ child = NoGen
              /\ curtain = runtime
              /\ lockState = (IF curtain = NoGen THEN "Unlocked" ELSE "Locked")
              /\ hint = (lockState = "Locked")

(* The daemon calls the session locked only on the word of a curtain that  *)
(* the compositor has given the lock to; as long as that curtain lives and *)
(* the compositor has not ended the lock, the session is really locked by  *)
(* it (maybe_notify_ready, the notify socket, handle_curtain_exit).        *)
LockedMeansSecured ==
    curtain # NoGen /\ Alive(curtain) =>
        \/ lockOwner = curtain
        \/ "finished" \in wl[curtain]
        \/ cur[curtain].session_finished

(* in_flight is set exactly while a PAM worker of this lock runs or its    *)
(* verdict waits in the channel: otherwise every later password would be   *)
(* answered Busy, or two PAM conversations would run (start_attempt,       *)
(* run_auth_attempt, finish_failure).                                      *)
InFlightAccountedFor ==
    Select /\ runtime # NoGen =>
        (auth.in_flight <=>
            \/ worker[runtime] # "none"
            \/ \E i \in 1 .. Len(results[runtime]) :
                   results[runtime][i].outcome \in {"Succeeded", "Rejected"})

(* A success can only unlock the lock it was given to: when                *)
(* handle_auth_result deactivates, the curtain it stops is one for which   *)
(* PAM or the fingerprint reader accepted a credential, however late the   *)
(* result of an earlier lock arrives.                                      *)
AuthUnlocksOwnLock == handler = "auth" /\ child # NoGen => child \in authorised

(* Why AuthUnlocksOwnLock holds, by induction: an accepted verdict stays   *)
(* with its lock, in the worker and in the channel, and the runtime that   *)
(* the loop reads results from is the one of the curtain it would stop.    *)
AcceptedAreAuthorised == \A g \in Gen : worker[g] = "accepted" => g \in authorised

SuccessesAreAuthorised ==
    \A g \in Gen : \A i \in 1 .. Len(results[g]) :
        results[g][i].outcome # "Rejected" => g \in authorised

StopsAreAuthorised ==
    /\ curtain \in {NoGen, runtime}
    /\ dpc \in {"graceful", "terminating"} => curtain = NoGen /\ child \in authorised
    /\ handler = "auth" => dpc \in {"graceful", "terminating"}

AuthorityInv == AcceptedAreAuthorised /\ SuccessesAreAuthorised /\ StopsAreAuthorised

(* Why ReleaseIsAuthorised holds, by induction: a curtain is told to exit  *)
(* either before it was ever reported or after somebody was let in.        *)
ToldToExit(g) == g \in unlockMsg \cup sigterm \/ cur[g].exit_requested

GenerationsAreUsed ==
    /\ reported \cup unlockMsg \cup sigterm \subseteq 1 .. lastGen
    /\ child <= lastGen /\ curtain <= lastGen

StartingIsUntold ==
    /\ dpc \in {"starting", "reporting"} => child \in Gen \ reported /\ ~ToldToExit(child)
    /\ dpc = "abandoning" => child \notin reported

ToldAreAuthorised == \A g \in reported : ToldToExit(g) => g \in authorised

FailuresAreFinished == \A g \in Gen : cur[g].failure => cur[g].session_finished

ReleaseInv ==
    GenerationsAreUsed /\ StartingIsUntold /\ ToldAreAuthorised /\ FailuresAreFinished

(* Every curtain process belongs to the daemon's curtain slot or to the    *)
(* handler that is waiting for it; none is left behind to hold or to ask   *)
(* for the session lock (force_stop_curtain, handle_curtain_exit), unless  *)
(* run() ends in an error.                                                 *)
NoOrphanCurtain ==
    dpc # "failed" => \A g \in Gen : Alive(g) => g \in {curtain, child}

(* Once the session has been reported locked it is released by its own     *)
(* curtain only after an accepted credential for that lock, an unlock from *)
(* logind, or the daemon's shutdown: no timeout, retry or crash releases   *)
(* it (shutdown(), can_stop, stop_active_curtain).                         *)
ReleaseIsAuthorised ==
    [][lockOwner # NoGen /\ lockOwner' = NoGen /\ lockOwner \in reported
           => lockOwner \in authorised]_vars

(* The man page's SECURITY NOTES: unlock authority stays with the daemon   *)
(* and logind; a curtain ends its lock only when told to.                  *)
CurtainDoesNotSelfUnlock ==
    [][\A g \in Gen : lockOwner = g /\ lockOwner' = NoGen
           => g \in authorised \/ dpc = "abandoning"]_vars

(* Two handlers read from the curtain without a timeout: the line of a     *)
(* connection to the auth socket, and the latency report.                  *)
AwaitsCurtain ==
    \/ dpc = "reading" /\ runtime \notin lines /\ ~Exited(runtime)
    \/ dpc = "reporting" /\ Phase(child) = "reporting"

(* Every handler of the daemon comes back to the select! or ends run(),    *)
(* whatever the curtain and the compositor do (activate_lock,              *)
(* stop_active_curtain, force_stop_curtain, handle_auth_connection), unless*)
(* the curtain stops for good, alive, between connecting and writing: then *)
(* one of the two reads that have no timeout blocks the loop for ever.     *)
HandlersReturn ==
    \/ []<>(dpc \in {"booting", "select", "stopped", "failed"})
    \/ <>[]AwaitsCurtain

(* A lock for which a credential was accepted ends: its curtain goes away, *)
(* by itself or by SIGTERM and SIGKILL (handle_auth_result,                *)
(* stop_active_curtain, force_stop_curtain), until none is left, unless    *)
(* run() ends in an error.                                                 *)
AuthorisedLockEnds == []<>((\A g \in authorised : ~Alive(g)) \/ dpc = "failed")

(* A submitted password is answered, be it Busy or too early: the keyboard *)
(* comes back, or the curtain goes away, until nobody waits (run_attempt,  *)
(* handle_client_message, drain_auth_events).  A curtain whose socket is   *)
(* closed without an answer keeps a dead keyboard, but it is being         *)
(* stopped, or run() has ended in an error.                                *)
PasswordsAnswered == []<>((\A g \in Gen : ~cur[g].auth_in_flight) \/ dpc = "failed")
=============
