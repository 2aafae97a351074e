------------------------------- MODULE Curtain ------------------------------
(***************************************************************************)
(* veila-curtain: the process of one generation, from its start to its     *)
(* exit, and the compositor's side of ext-session-lock-v1 as the process   *)
(* sees it.  Handlers and drained events are one action each; the check of *)
(* can_stop at the head of the event loop is an action of its own.         *)
(***************************************************************************)
EXTENDS LockBase

(* app.acquire_lock: the control socket is bound and the lock requested.   *)
AcquireLock(g) ==
    /\ cur[g].proc = "starting"
    /\ cur' = [cur EXCEPT ![g].proc = "acquired"]
    /\ lockRequests' = lockRequests \cup {g}
    /\ UNCHANGED <<daemonVars, ipcVars, lockOwner, wl, hint, historyVars>>

(* The signal source is inserted: SIGTERM now asks for an orderly exit.    *)
RegisterSignals(g) ==
    /\ cur[g].proc = "acquired"
    /\ g \notin sigterm
    /\ cur' = [cur EXCEPT ![g].proc = "running"]
    /\ UNCHANGED <<daemonVars, ipcVars, compositorVars, hint, historyVars>>

(* Until then SIGTERM has its default disposition.                         *)
DieBySigterm(g) ==
    /\ cur[g].proc \in {"starting", "acquired"}
    /\ g \in sigterm
    /\ ProcessEnds(g)
    /\ UNCHANGED <<daemonVars, notified, conns, lines, worker, results, lockOwner, lockRequests,
                   hint, historyVars>>

(* request_exit from the signal source.                                    *)
HandleSigterm(g) ==
    /\ Running(g)
    /\ g \in sigterm
    /\ sigterm' = sigterm \ {g}
    /\ cur' = [cur EXCEPT ![g].exit_requested = TRUE]
    /\ UNCHANGED <<daemonVars, notified, conns, lines, worker, results, reply, unlockMsg,
                   compositorVars, hint, historyVars>>

(* drain_control_events: ControlEvent::Unlock.                             *)
HandleUnlock(g) ==
    /\ Running(g)
    /\ g \in unlockMsg
    /\ unlockMsg' = unlockMsg \ {g}
    /\ cur' = [cur EXCEPT ![g].exit_requested = TRUE]
    /\ UNCHANGED <<daemonVars, notified, conns, lines, worker, results, reply, sigterm,
                   compositorVars, hint, historyVars>>

(* Mutation: drawn surfaces are enough to call the session locked.         *)
ReadyWhenDrawn(c) == c.configured /\ ~c.ready_notified

(***************************************************************************)
(* maybe_notify_ready: once, when the session is locked and every surface  *)
(* has a size.  The daemon hears of it only while its notify socket exists;*)
(* ready_notified is set in either case.  A report is written in the same  *)
(* callback, after the stream is connected.                                *)
(***************************************************************************)
ReadyToNotify(c) == c.session_locked /\ c.configured /\ ~c.ready_notified

NotifySocketUp(g) == dpc = "starting" /\ child = g

MaybeNotifyReady(g, c) ==
    /\ cur' = [cur EXCEPT ![g] =
                  IF ~ReadyToNotify(c) THEN c
                  ELSE [c EXCEPT !.ready_notified = TRUE,
                                 !.proc = IF LatencyReport /\ NotifySocketUp(g)
                                          THEN "reporting" ELSE @]]
    /\ notified' = IF ReadyToNotify(c) /\ NotifySocketUp(g)
                   THEN notified \cup {g} ELSE notified

(* notify_ready, after the connect: the report is written to the stream.   *)
WriteReport(g) ==
    /\ Phase(g) = "reporting"
    /\ cur' = [cur EXCEPT ![g].proc = "running"]
    /\ UNCHANGED <<daemonVars, ipcVars, compositorVars, hint, historyVars>>

(* SessionLockHandler::configure, for the last surface without a size.     *)
HandleConfigure(g) ==
    /\ Running(g)
    /\ ~cur[g].configured
    /\ MaybeNotifyReady(g, [cur[g] EXCEPT !.configured = TRUE])
    /\ UNCHANGED <<daemonVars, conns, lines, worker, results, reply, unlockMsg, sigterm,
                   compositorVars, hint, historyVars>>

(* SessionLockHandler::locked.                                             *)
HandleLocked(g) ==
    /\ Running(g)
    /\ "locked" \in wl[g]
    /\ wl' = [wl EXCEPT ![g] = @ \ {"locked"}]
    /\ MaybeNotifyReady(g, [cur[g] EXCEPT !.session_locked = TRUE])
    /\ UNCHANGED <<daemonVars, conns, lines, worker, results, reply, unlockMsg, sigterm,
                   lockOwner, lockRequests, hint, historyVars>>

(* SessionLockHandler::finished.  The compositor sends locked, if at all,  *)
(* before finished.                                                        *)
HandleFinished(g) ==
    /\ Running(g)
    /\ "finished" \in wl[g] /\ "locked" \notin wl[g]
    /\ wl' = [wl EXCEPT ![g] = {}]
    /\ cur' = [cur EXCEPT ![g].session_finished = TRUE, ![g].failure = TRUE]
    /\ UNCHANGED <<daemonVars, ipcVars, lockOwner, lockRequests, hint, historyVars>>

(* configure_surface, render_all_surfaces, scale_factor_changed, new_output*)
(* and new_capability give up on an error the same way.                    *)
RenderFailure(g) ==
    /\ "render" \in Faults
    /\ Running(g)
    /\ SpareGen
    /\ cur' = [cur EXCEPT ![g].failure = TRUE, ![g].exit_requested = TRUE]
    /\ UNCHANGED <<daemonVars, ipcVars, compositorVars, hint, historyVars>>

-----------------------------------------------------------------------------
(* handle_shell_key with Enter, and the thread of submit_password, which   *)
(* connects at once, or its error is logged and nothing else happens.      *)
SubmitPassword(g) ==
    /\ Running(g)
    /\ cur[g].session_locked
    /\ ~cur[g].auth_in_flight
    /\ cur[g].attempts < MaxAttempts
    /\ cur' = [cur EXCEPT ![g].auth_in_flight = TRUE, ![g].attempts = @ + 1]
    /\ conns' = IF AuthSocketUp(g) THEN conns \cup {g} ELSE conns
    /\ UNCHANGED <<daemonVars, notified, lines, worker, results, reply, unlockMsg, sigterm,
                   compositorVars, hint, historyVars>>

(* run_attempt, after the connect: the thread writes its line.             *)
WriteLine(g) ==
    /\ Alive(g)
    /\ g \in conns \ lines
    /\ lines' = lines \cup {g}
    /\ UNCHANGED <<daemonVars, notified, conns, worker, results, reply, unlockMsg, sigterm, cur,
                   compositorVars, hint, historyVars>>

(* Mutation: an attempt that was answered Busy stays open.                 *)
ReopensWhenRejected(answer) == answer = "rejected"

(* The answers that give the keyboard back to the user.                    *)
Reopens(answer) == answer \in {"rejected", "busy"}

(* run_attempt's answer and drain_auth_events.                             *)
HandleReply(g) ==
    /\ Running(g)
    /\ reply[g] # "none"
    /\ reply' = [reply EXCEPT ![g] = "none"]
    /\ cur' = [cur EXCEPT ![g].auth_in_flight = @ /\ ~Reopens(reply[g])]
    /\ UNCHANGED <<daemonVars, notified, conns, lines, worker, results, unlockMsg, sigterm,
                   compositorVars, hint, historyVars>>

-----------------------------------------------------------------------------
(* can_stop.                                                               *)
CanStop(c) == c.failure \/ (c.exit_requested /\ (c.session_locked \/ c.session_finished))

(***************************************************************************)
(* The loop ends and shutdown() runs: a lock the process knows it holds is *)
(* released.  A lock object dropped without it stays with the compositor.  *)
(***************************************************************************)
ReleasesLock(g) == cur[g].session_locked /\ ~cur[g].session_finished

Stop(g) ==
    /\ Running(g)
    /\ CanStop(cur[g])
    /\ ProcessEnds(g)
    /\ lockOwner' = IF ReleasesLock(g) /\ lockOwner = g THEN NoGen ELSE lockOwner
    /\ UNCHANGED <<daemonVars, notified, conns, lines, worker, results, lockRequests, hint, historyVars>>

(* check_lock_deadline: run() returns the error without shutdown().        *)
LockDeadline(g) ==
    /\ "slow" \in Faults
    /\ Running(g)
    /\ ~cur[g].session_locked /\ ~cur[g].session_finished
    /\ ProcessEnds(g)
    /\ UNCHANGED <<daemonVars, notified, conns, lines, worker, results, lockOwner, lockRequests,
                   hint, historyVars>>

(* The process dies at any point.                                          *)
Crash(g) ==
    /\ "crash" \in Faults
    /\ Alive(g)
    /\ SpareGen
    /\ ProcessEnds(g)
    /\ UNCHANGED <<daemonVars, notified, conns, lines, worker, results, lockOwner, lockRequests,
                   hint, historyVars>>

-----------------------------------------------------------------------------
(***************************************************************************)
(* External: the compositor (ext-session-lock-v1).  A lock whose client    *)
(* died stays in force and may be taken over by a new client.              *)
(***************************************************************************)
Grantable == lockOwner = NoGen \/ ~Alive(lockOwner)

GrantLock(g) ==
    /\ g \in lockRequests
    /\ Grantable
    /\ lockOwner' = g
    /\ lockRequests' = lockRequests \ {g}
    /\ wl' = [wl EXCEPT ![g] = IF Alive(g) THEN {"locked"} ELSE @]
    /\ UNCHANGED <<daemonVars, ipcVars, cur, hint, historyVars>>

(* A request is denied because another client holds the lock, or by policy.*)
DenyLock(g) ==
    /\ g \in lockRequests
    /\ Alive(g)
    /\ ~Grantable \/ "deny" \in Faults
    /\ lockRequests' = lockRequests \ {g}
    /\ wl' = [wl EXCEPT ![g] = {"finished"}]
    /\ UNCHANGED <<daemonVars, ipcVars, cur, lockOwner, hint, historyVars>>

(* The compositor ends the lock by itself.                                 *)
RevokeLock(g) ==
    /\ "deny" \in Faults
    /\ lockOwner = g
    /\ Alive(g)
    /\ SpareGen
    /\ lockOwner' = NoGen
    /\ wl' = [wl EXCEPT ![g] = @ \cup {"finished"}]
    /\ UNCHANGED <<daemonVars, ipcVars, cur, lockRequests, hint, historyVars>>

(* The request of a process that is gone is forgotten.                     *)
ForgetRequest(g) ==
    /\ g \in lockRequests
    /\ Exited(g)
    /\ lockRequests' = lockRequests \ {g}
    /\ UNCHANGED <<daemonVars, ipcVars, cur, lockOwner, wl, hint, historyVars>>
=============================================================================
