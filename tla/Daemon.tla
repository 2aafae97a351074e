------------------------------- MODULE Daemon -------------------------------
(***************************************************************************)
(* veilad: the select! loop of run(), the handlers it calls, and the tasks *)
(* it spawns.  A handler runs to its next .await in one action; while it   *)
(* waits (dpc # "select") the loop takes no other branch.                  *)
(***************************************************************************)
EXTENDS LockBase

Select == dpc = "select"

Fault(kinds) == kinds \cap Faults # {}

(* update_locked_hint: an error from logind is only logged.                *)
SetLockedHint(locked) ==
    hint' \in {locked} \cup (IF Fault({"hint"}) THEN {hint} ELSE {})

StopFingerprint == [fp EXCEPT !.task = NoGen]

(***************************************************************************)
(* The listener, the result channel and the socket files of generation g   *)
(* go away.  A submission nobody accepted reads end-of-file.               *)
(***************************************************************************)
DropSockets(g) ==
    /\ conns' = conns \ {g} /\ lines' = lines \ {g}
    /\ reply' = [h \in Gen |-> IF h = g /\ h \in conns /\ Alive(h)
                               THEN "eof" ELSE reply[h]]
    /\ results' = [h \in Gen |-> IF h = g THEN <<>> ELSE results[h]]

KeepSockets == UNCHANGED <<conns, lines, reply, results>>

(* Mutation: the runtime of a lock that is gone stays installed.           *)
ResetAuthOnly ==
    /\ DropSockets(runtime)
    /\ runtime' = runtime
    /\ auth' = FreshAuth

(* reset_runtime.                                                          *)
ResetRuntime ==
    /\ DropSockets(runtime)
    /\ runtime' = NoGen
    /\ auth' = FreshAuth

-----------------------------------------------------------------------------
(* A lock that cannot be activated is an error of the handler, which logs  *)
(* it; for --lock-now it is an error of run().                             *)
AfterFailure(trigger) == IF trigger = "manual" THEN "failed" ELSE "select"

(***************************************************************************)
(* activate_lock up to its first wait: sockets bound, curtain spawned.     *)
(***************************************************************************)
BeginActivation(trigger) ==
    \/ /\ lastGen' = lastGen + 1
       /\ child' = lastGen + 1
       /\ cur' = [cur EXCEPT ![lastGen + 1] = NewCurtain("starting")]
       /\ lockState' = "Locking"
       /\ dpc' = "starting"
       /\ handler' = trigger
    \/ /\ Fault({"spawn"})
       /\ lockState' = "Unlocked"
       /\ dpc' = AfterFailure(trigger)
       /\ handler' = "none"
       /\ UNCHANGED <<lastGen, child, cur>>

(* handle_lock_signal, and LockNow on the control socket: both do nothing  *)
(* when a lock is already active.  --lock-now comes before the loop.       *)
LockRequested(trigger) ==
    /\ dpc = IF trigger = "manual" THEN "booting" ELSE "select"
    /\ ~IsActive
    /\ SpareGen
    /\ BeginActivation(trigger)
    /\ UNCHANGED <<curtain, runtime, auth, fp, ipcVars, compositorVars, hint, historyVars>>

ActivationReturns ==
    /\ child' = NoGen
    /\ handler' = "none"
    /\ notified' = notified \ {child}

(* activate_lock has what it waited for, and the lock counts as            *)
(* established.                                                            *)
LockEstablished ==
    /\ dpc' = "select"
    /\ lockState' = "Locked"
    /\ SetLockedHint(TRUE)
    /\ curtain' = child
    /\ runtime' = child
    /\ auth' = FreshAuth
    /\ fp' = IF handler \in {"logind", "manual"} THEN IdleFingerprint ELSE fp
    /\ reported' = reported \cup {child}
    /\ ActivationReturns
    /\ KeepSockets
    /\ UNCHANGED <<lastGen, worker, unlockMsg, sigterm, cur, compositorVars, authorised>>

(* The notify socket is accepted first, and nobody asked for a report.     *)
ReadyAccepted ==
    /\ dpc = "starting"
    /\ child \in notified
    /\ ~LatencyReport
    /\ LockEstablished

(* The report is read from the same stream, without a timeout.             *)
ReportAwaited ==
    /\ dpc = "starting"
    /\ child \in notified
    /\ LatencyReport
    /\ dpc' = "reporting"
    /\ notified' = notified \ {child}
    /\ UNCHANGED <<handler, child, lockState, curtain, runtime, auth, fp, lastGen, conns, lines,
                   worker, results, reply, unlockMsg, sigterm, cur, compositorVars, hint,
                   historyVars>>

(* read_curtain_latency_report returns: the curtain has written its report *)
(* or is gone, and then there is no report.                                *)
ReportRead ==
    /\ dpc = "reporting"
    /\ Running(child) \/ Exited(child)
    /\ LockEstablished

(* The five seconds pass, or accepting the notification fails.             *)
ReadyTimeout ==
    /\ dpc = "starting"
    /\ (Fault({"slow"}) /\ child \notin notified) \/ Fault({"accept"})
    /\ lockState' = "Unlocked"
    /\ dpc' = "abandoning"
    /\ sigterm' = IF Alive(child) THEN sigterm \cup {child} ELSE sigterm
    /\ notified' = notified \ {child}
    /\ UNCHANGED <<handler, child, curtain, runtime, auth, fp, lastGen, conns, lines,
                   worker, results, reply, unlockMsg, cur, compositorVars, hint, historyVars>>

ActivationFails ==
    /\ ActivationReturns
    /\ dpc' = AfterFailure(handler)
    /\ DropSockets(child)
    /\ lockState' = "Unlocked"
    /\ fp' = IF handler = "restart" THEN StopFingerprint ELSE fp
    /\ UNCHANGED <<curtain, runtime, auth, lastGen, worker, unlockMsg, sigterm, cur,
                   compositorVars, historyVars>>

(* Mutation: force_stop_curtain is started but not awaited.                *)
ActivationAbandonsChild ==
    /\ dpc = "abandoning" \/ (dpc = "starting" /\ Exited(child))
    /\ SetLockedHint(FALSE)
    /\ ActivationFails

(* The curtain is reaped before it was ready, or after SIGTERM.            *)
ActivationChildExited ==
    /\ dpc \in {"starting", "abandoning"}
    /\ Exited(child)
    /\ SetLockedHint(FALSE)
    /\ ActivationFails

(* force_stop_curtain(child).await? fails: the hint is not written.        *)
AbandonWaitError ==
    /\ dpc = "abandoning"
    /\ Fault({"wait"})
    /\ hint' = hint
    /\ ActivationFails

(* child.wait() fails in the select!: the ? leaves the state at Locking.   *)
ReadyWaitError ==
    /\ dpc = "starting"
    /\ Fault({"wait"})
    /\ ActivationReturns
    /\ dpc' = AfterFailure(handler)
    /\ DropSockets(child)
    /\ fp' = IF handler = "logind" THEN IdleFingerprint ELSE fp
    /\ UNCHANGED <<lockState, curtain, runtime, auth, lastGen, worker, unlockMsg, sigterm,
                   cur, compositorVars, hint, historyVars>>

-----------------------------------------------------------------------------
(***************************************************************************)
(* deactivate_lock up to its first wait.  With a curtain, the runtime      *)
(* stays installed while the daemon waits for the process to exit.         *)
(***************************************************************************)
DeactivateWithoutCurtain(why) ==
    /\ curtain = NoGen
    /\ lockState' = "Unlocked"
    /\ ResetRuntime
    /\ SetLockedHint(FALSE)
    /\ dpc' = IF why = "shutdown" THEN "stopped" ELSE "select"
    /\ fp' = IF why = "auth" THEN fp ELSE StopFingerprint
    /\ UNCHANGED <<handler, child, curtain, unlockMsg>>

(* handle_auth_result has taken its result off the channel and called      *)
(* finish_success before it deactivates.                                   *)
Consume(g) == [results EXCEPT ![g] = Tail(@)]

DeactivateCurtain(why) ==
    /\ curtain # NoGen
    /\ lockState' = "Unlocking"
    /\ handler' = why
    /\ child' = curtain
    /\ curtain' = NoGen
    /\ IF Running(curtain)
       THEN unlockMsg' = unlockMsg \cup {curtain} /\ dpc' = "graceful"
       ELSE unlockMsg' = unlockMsg /\ dpc' = "terminating"
    /\ fp' = IF why = "shutdown" THEN StopFingerprint ELSE fp
    /\ auth' = IF why = "auth" THEN FreshAuth ELSE auth
    /\ results' = IF why = "auth" THEN Consume(runtime) ELSE results
    /\ UNCHANGED <<runtime, conns, lines, reply, hint>>

Deactivate(why) ==
    /\ \/ DeactivateWithoutCurtain(why)
       \/ DeactivateCurtain(why)
    /\ UNCHANGED <<lastGen, notified, worker, sigterm, cur, compositorVars, reported>>

Authorise(g) == authorised' = authorised \cup ({g} \cap Gen)

(* handle_unlock_signal: loginctl unlock-session.                          *)
UnlockSignal ==
    /\ Select
    /\ IsActive
    /\ Deactivate("unlock")
    /\ Authorise(curtain)

(* SIGINT, SIGTERM or Stop on the control socket: the loop breaks.         *)
Shutdown ==
    /\ Select
    /\ Deactivate("shutdown")
    /\ Authorise(curtain)

HandlerReturns ==
    /\ child' = NoGen
    /\ handler' = "none"
    /\ dpc' = IF handler = "shutdown" THEN "stopped" ELSE "select"

(* The awaited curtain is reaped, whatever its exit status.                *)
CurtainStopped ==
    /\ dpc \in {"graceful", "terminating"}
    /\ Exited(child)
    /\ HandlerReturns
    /\ ResetRuntime
    /\ lockState' = "Unlocked"
    /\ SetLockedHint(FALSE)
    /\ fp' = IF handler = "unlock" THEN StopFingerprint ELSE fp
    /\ UNCHANGED <<curtain, lastGen, notified, worker, unlockMsg, sigterm, cur,
                   compositorVars, historyVars>>

(* wait_for_graceful_curtain_exit gives up after five seconds.             *)
GracefulTimeout ==
    /\ dpc = "graceful"
    /\ Fault({"slow"})
    /\ Alive(child)
    /\ dpc' = "terminating"
    /\ sigterm' = sigterm \cup {child}
    /\ UNCHANGED <<handler, child, lockState, curtain, runtime, auth, fp, lastGen, notified,
                   conns, lines, worker, results, reply, unlockMsg, cur, compositorVars, hint,
                   historyVars>>

(* Mutation: a curtain that has been asked to unlock is never killed.      *)
KillUnreadyCurtain ==
    /\ dpc = "abandoning"
    /\ Fault({"slow"})
    /\ Alive(child)
    /\ ProcessEnds(child)
    /\ UNCHANGED <<daemonVars, notified, conns, lines, worker, results, lockOwner, lockRequests,
                   hint, historyVars>>

(* force_stop_curtain: two seconds after SIGTERM comes SIGKILL.            *)
KillCurtain ==
    /\ dpc \in {"abandoning", "terminating"}
    /\ Fault({"slow"})
    /\ Alive(child)
    /\ ProcessEnds(child)
    /\ UNCHANGED <<daemonVars, notified, conns, lines, worker, results, lockOwner, lockRequests,
                   hint, historyVars>>

(* Waiting fails: deactivate_lock returns with the state at Unlocking and  *)
(* the runtime still installed.                                            *)
DeactivateWaitError ==
    /\ dpc \in {"graceful", "terminating"}
    /\ Fault({"wait"})
    /\ HandlerReturns
    /\ UNCHANGED <<lockState, curtain, runtime, auth, fp, lastGen, ipcVars, cur,
                   compositorVars, hint, historyVars>>

-----------------------------------------------------------------------------
(***************************************************************************)
(* handle_curtain_exit: the lock is dropped and activated again.  A        *)
(* curtain that exits unasked always finds the state active.               *)
(***************************************************************************)
CurtainExit ==
    /\ Select
    /\ curtain # NoGen
    /\ Exited(curtain)
    /\ SpareGen
    /\ curtain' = NoGen
    /\ ResetRuntime
    /\ SetLockedHint(FALSE)
    /\ BeginActivation("restart")
    /\ fp' = IF lockState' = "Unlocked" THEN StopFingerprint ELSE fp
    /\ UNCHANGED <<notified, worker, unlockMsg, sigterm, compositorVars, historyVars>>

(* A ? in run(): the process ends without shutdown_runtime.  Its tasks are *)
(* dropped and its sockets closed; the curtain is left running.            *)
DaemonFails ==
    /\ \/ dpc \in {"select", "reading"} /\ Fault({"accept"})
       \/ Select /\ curtain # NoGen /\ Fault({"wait"})
    /\ dpc' = "failed"
    /\ curtain' = NoGen
    /\ runtime' = NoGen
    /\ fp' = IdleFingerprint
    /\ reply' = [g \in Gen |-> IF Running(g) /\ (g \in conns \/ worker[g] = "pam")
                               THEN "eof" ELSE reply[g]]
    /\ conns' = {} /\ lines' = {}
    /\ worker' = [g \in Gen |-> "none"]
    /\ results' = [g \in Gen |-> <<>>]
    /\ UNCHANGED <<handler, child, lockState, auth, lastGen, notified, unlockMsg, sigterm,
                   cur, compositorVars, hint, historyVars>>

-----------------------------------------------------------------------------
(***************************************************************************)
(* Authentication.                                                         *)
(***************************************************************************)
(* AuthState::admit.  How long throttling lasts is module AuthThrottle's.  *)
Admission ==
    IF auth.in_flight THEN "Busy"
    ELSE IF auth.throttled THEN "RateLimited"
    ELSE "Allowed"

(* The answer reaches the curtain if it still has the stream open.         *)
WriteReply(g, answer) ==
    reply' = IF Running(g) THEN [reply EXCEPT ![g] = answer] ELSE reply

(* handle_auth_connection takes the stream and awaits the line on it,      *)
(* without a timeout.                                                      *)
AcceptConnection ==
    /\ Select
    /\ IsActive
    /\ runtime \in conns
    /\ dpc' = "reading"
    /\ UNCHANGED <<handler, child, lockState, curtain, runtime, auth, fp, lastGen, ipcVars, cur,
                   compositorVars, hint, historyVars>>

(* The stream ends before its line: read_client_message returns None.      *)
ReadsNothing ==
    /\ dpc = "reading"
    /\ runtime \notin lines
    /\ Exited(runtime)
    /\ dpc' = "select"
    /\ conns' = conns \ {runtime}
    /\ UNCHANGED <<handler, child, lockState, curtain, runtime, auth, fp, lastGen, notified,
                   lines, worker, results, reply, unlockMsg, sigterm, cur, compositorVars, hint,
                   historyVars>>

(* handle_client_message with a SubmitPassword message.                    *)
AcceptSubmission ==
    /\ dpc = "reading"
    /\ runtime \in lines
    /\ dpc' = "select"
    /\ conns' = conns \ {runtime} /\ lines' = lines \ {runtime}
    /\ \/ /\ Admission = "Allowed"
          /\ auth' = [auth EXCEPT !.in_flight = TRUE]
          /\ worker' = [worker EXCEPT ![runtime] = "pam"]
          /\ reply' = reply
       \/ /\ Admission = "Busy"
          /\ WriteReply(runtime, "busy")
          /\ UNCHANGED <<auth, worker>>
       \/ /\ Admission = "RateLimited"
          /\ WriteReply(runtime, "rejected")
          /\ UNCHANGED <<auth, worker>>
    /\ UNCHANGED <<handler, child, lockState, curtain, runtime, fp, lastGen, notified, results,
                   unlockMsg, sigterm, cur, compositorVars, hint, historyVars>>

(* run_auth_attempt: PAM decides and the answer is written to the stream.  *)
PamVerdict(g) ==
    /\ dpc # "failed"
    /\ worker[g] = "pam"
    /\ \/ /\ worker' = [worker EXCEPT ![g] = "accepted"]
          /\ WriteReply(g, "accepted")
          /\ Authorise(g)
       \/ /\ worker' = [worker EXCEPT ![g] = "rejected"]
          /\ WriteReply(g, "rejected")
          /\ UNCHANGED authorised
    /\ UNCHANGED <<daemonVars, notified, conns, lines, results, unlockMsg, sigterm, cur,
                   compositorVars, hint, reported>>

(* Mutation: the task looks the sender up when it has its verdict.         *)
CurrentResultChannel(g) == runtime

(* The task holds a clone of the sender that was installed when its        *)
(* attempt was admitted, or when the fingerprint loop was started.         *)
ResultChannel(g) == g

(* Mutation: only a success is worth reporting to the loop.                *)
SendSuccess(g, outcome) ==
    results' = [h \in Gen |->
                  IF h = ResultChannel(g) /\ h = runtime /\ outcome # "Rejected"
                  THEN Append(results[h], [outcome |-> outcome, gen |-> g])
                  ELSE results[h]]

(* Mutation: a match that arrives while a password is in PAM is dropped.   *)
SendIfIdle(g, outcome) ==
    results' = [h \in Gen |->
                  IF h = ResultChannel(g) /\ h = runtime
                        /\ (outcome = "Matched" => ~auth.in_flight)
                  THEN Append(results[h], [outcome |-> outcome, gen |-> g])
                  ELSE results[h]]

(* A send on a channel whose receiver was dropped is ignored.              *)
SendResult(g, outcome) ==
    results' = [h \in Gen |->
                  IF h = ResultChannel(g) /\ h = runtime
                  THEN Append(results[h], [outcome |-> outcome, gen |-> g])
                  ELSE results[h]]

(* run_auth_attempt, last step.                                            *)
WorkerReports(g) ==
    /\ worker[g] \in {"accepted", "rejected"}
    /\ SendResult(g, IF worker[g] = "accepted" THEN "Succeeded" ELSE "Rejected")
    /\ worker' = [worker EXCEPT ![g] = "none"]
    /\ UNCHANGED <<daemonVars, notified, conns, lines, reply, unlockMsg, sigterm, cur,
                   compositorVars, hint, historyVars>>

(* handle_auth_result.                                                     *)
AuthSucceeded ==
    /\ Select
    /\ runtime # NoGen
    /\ results[runtime] # <<>>
    /\ Head(results[runtime]).outcome \in {"Succeeded", "Matched"}
    /\ Deactivate("auth")
    /\ UNCHANGED authorised

AuthRejected ==
    /\ Select
    /\ runtime # NoGen
    /\ results[runtime] # <<>>
    /\ Head(results[runtime]).outcome = "Rejected"
    /\ auth' = [in_flight |-> FALSE, throttled |-> TRUE]
    /\ results' = [results EXCEPT ![runtime] = Tail(@)]
    /\ UNCHANGED <<dpc, handler, child, lockState, curtain, runtime, fp, lastGen, notified,
                   conns, lines, worker, reply, unlockMsg, sigterm, cur, compositorVars, hint,
                   historyVars>>

(* retry_after passes.                                                     *)
ThrottleExpires ==
    /\ auth.throttled
    /\ auth' = [auth EXCEPT !.throttled = FALSE]
    /\ UNCHANGED <<dpc, handler, child, lockState, curtain, runtime, fp, lastGen, ipcVars,
                   cur, compositorVars, hint, historyVars>>

-----------------------------------------------------------------------------
(***************************************************************************)
(* Fingerprint: the 250 ms tick starts one verification task per lock.     *)
(***************************************************************************)
FingerprintUpdate ==
    IF ~IsActive THEN IdleFingerprint
    ELSE IF Fingerprint /\ ~fp.started_for_lock /\ runtime # NoGen
    THEN [started_for_lock |-> TRUE, task |-> runtime]
    ELSE fp

Tick ==
    /\ Select
    /\ fp # FingerprintUpdate
    /\ fp' = FingerprintUpdate
    /\ UNCHANGED <<dpc, handler, child, lockState, curtain, runtime, auth, lastGen, ipcVars,
                   cur, compositorVars, hint, historyVars>>

(* verify_once matched: the task sends Succeeded and ends.                 *)
FingerprintMatched ==
    /\ fp.task # NoGen
    /\ SendResult(fp.task, "Matched")
    /\ fp' = StopFingerprint
    /\ Authorise(fp.task)
    /\ UNCHANGED <<dpc, handler, child, lockState, curtain, runtime, auth, lastGen, notified,
                   conns, lines, worker, reply, unlockMsg, sigterm, cur, compositorVars, hint,
                   reported>>

(* The reader is unavailable or fails: the task ends for good.             *)
FingerprintUnavailable ==
    /\ fp.task # NoGen
    /\ fp' = StopFingerprint
    /\ UNCHANGED <<dpc, handler, child, lockState, curtain, runtime, auth, lastGen, ipcVars,
                   cur, compositorVars, hint, historyVars>>
=============================================================================
