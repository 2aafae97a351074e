------------------------------ MODULE LockBase ------------------------------
(***************************************************************************)
(* The state shared by veilad (the daemon), veila-curtain (the Wayland     *)
(* lock client) and the compositor, and the operators that both programs   *)
(* use on it.                                                              *)
(*                                                                         *)
(* Every activation of the lock gets a generation: its own curtain         *)
(* process, its own auth socket, control socket and notify socket, its own *)
(* channel of authentication results.  Generations are numbered 1..MaxGen  *)
(* in the order activate_lock creates them; NoGen stands for None.         *)
(***************************************************************************)
EXTENDS Naturals, Sequences, FiniteSets

CONSTANTS
    MaxGen,        \* bound: how many curtains the daemon may spawn
    MaxAttempts,   \* bound: passwords submitted to one curtain
    Fingerprint,   \* config.fingerprint.enabled
    LatencyReport, \* whoever asks for a lock asks for a latency report
    Faults         \* the failures the environment may produce

FaultKinds ==
    { "crash",     \* a curtain process dies without running shutdown()
      "render",    \* a frame cannot be drawn (failure_reason is set)
      "slow",      \* a timer expires before the awaited step happens
      "spawn",     \* spawn_curtain returns an error
      "wait",      \* Child::wait returns an error
      "accept",    \* accepting on, or reading from, a socket fails
      "deny",      \* the compositor refuses or revokes a lock
      "hint" }     \* logind does not take SetLockedHint

ASSUME BoundsAssumption == MaxGen \in Nat \ {0} /\ MaxAttempts \in Nat
ASSUME OptionsAssumption ==
    Fingerprint \in BOOLEAN /\ LatencyReport \in BOOLEAN /\ Faults \subseteq FaultKinds

Gen == 1 .. MaxGen
NoGen == 0
MaybeGen == Gen \cup {NoGen}

VARIABLES
    (* the daemon: AppRuntime and the handler the select! loop is running  *)
    dpc, handler, child, lockState, curtain, runtime, auth, fp, lastGen,
    (* what the daemon's tasks and sockets hold, per generation            *)
    notified, conns, lines, worker, results, reply, unlockMsg, sigterm,
    (* the curtain processes                                               *)
    cur,
    (* the compositor and logind                                           *)
    lockOwner, lockRequests, wl, hint,
    (* history: what has been promised and what has been authorised        *)
    reported, authorised

daemonVars == <<dpc, handler, child, lockState, curtain, runtime, auth, fp, lastGen>>
ipcVars == <<notified, conns, lines, worker, results, reply, unlockMsg, sigterm>>
compositorVars == <<lockOwner, lockRequests, wl>>
historyVars == <<reported, authorised>>
vars == <<daemonVars, ipcVars, cur, compositorVars, hint, historyVars>>

(***************************************************************************)
(* Types.                                                                  *)
(***************************************************************************)
DaemonPcs ==
    { "booting",      \* before the loop, with --lock-now
      "select",       \* at the select! of run()
      "reading",      \* handle_auth_connection, waiting for a line of the curtain
      "starting",     \* activate_lock, waiting for readiness
      "reporting",    \* activate_lock, waiting for the curtain's latency report
      "abandoning",   \* activate_lock, force_stop_curtain after no readiness
      "graceful",     \* deactivate_lock, waiting for the curtain to exit
      "terminating",  \* deactivate_lock, force_stop_curtain
      "stopped",      \* run() returned Ok
      "failed" }      \* run() returned Err

Handlers == {"none", "manual", "logind", "forwarded", "restart", "unlock", "auth", "shutdown"}

LockStates == {"Unlocked", "Locking", "Locked", "Unlocking"}

(* LockState::is_active *)
IsActive == lockState # "Unlocked"

AuthStates == [in_flight : BOOLEAN, throttled : BOOLEAN]
FreshAuth == [in_flight |-> FALSE, throttled |-> FALSE]

(* FingerprintHandle: the started_for_lock flag, and the generation whose  *)
(* auth_sender the running verification task captured.                     *)
FingerprintHandles == [started_for_lock : BOOLEAN, task : MaybeGen]
IdleFingerprint == [started_for_lock |-> FALSE, task |-> NoGen]

(* AuthResult; Matched is a Succeeded with the attempt id of a fingerprint.*)
(* gen is the activation the credential was presented to.                  *)
AuthResults == [outcome : {"Succeeded", "Rejected", "Matched"}, gen : Gen]

(* run_auth_attempt: verifying in PAM, or verdict known and replied but    *)
(* not yet sent to the channel.                                            *)
WorkerStates == {"none", "pam", "accepted", "rejected"}

Replies == {"none", "accepted", "rejected", "busy", "eof"}

(* CurtainApp, as far as the lock protocol goes.  A curtain is reporting   *)
(* between connecting to the notify socket and writing its latency report. *)
CurtainApps ==
    [ proc : {"none", "starting", "acquired", "running", "reporting", "exited"},
      exit_requested : BOOLEAN,
      session_locked : BOOLEAN,
      session_finished : BOOLEAN,
      failure : BOOLEAN,
      configured : BOOLEAN,
      ready_notified : BOOLEAN,
      auth_in_flight : BOOLEAN,
      attempts : 0 .. MaxAttempts ]

NewCurtain(phase) ==
    [ proc |-> phase, exit_requested |-> FALSE, session_locked |-> FALSE,
      session_finished |-> FALSE, failure |-> FALSE, configured |-> FALSE,
      ready_notified |-> FALSE, auth_in_flight |-> FALSE, attempts |-> 0 ]

Phase(g) == IF g \in Gen THEN cur[g].proc ELSE "none"
Running(g) == Phase(g) = "running"
Exited(g) == Phase(g) = "exited"
Alive(g) == Phase(g) \in {"starting", "acquired", "running", "reporting"}

(* A failure that makes the daemon restart the curtain needs a generation  *)
(* that is still free.                                                     *)
SpareGen == lastGen < MaxGen

(***************************************************************************)
(* The curtain process g ends: the kernel closes its sockets and its       *)
(* Wayland connection.  A submission already written to the auth socket    *)
(* stays readable by the daemon; behind it, or instead, is end-of-file.    *)
(***************************************************************************)
ProcessEnds(g) ==
    /\ cur' = [cur EXCEPT ![g] = NewCurtain("exited")]
    /\ wl' = [wl EXCEPT ![g] = {}]
    /\ reply' = [reply EXCEPT ![g] = "none"]
    /\ unlockMsg' = unlockMsg \ {g}
    /\ sigterm' = sigterm \ {g}

(* The auth socket of generation g is bound and its file still exists.     *)
AuthSocketUp(g) == runtime = g \/ (dpc \in {"starting", "reporting"} /\ child = g)

Init ==
    /\ dpc \in {"select", "booting"} /\ handler = "none" /\ child = NoGen
    /\ lockState = "Unlocked" /\ curtain = NoGen /\ runtime = NoGen
    /\ auth = FreshAuth /\ fp = IdleFingerprint /\ lastGen = 0
    /\ notified = {} /\ conns = {} /\ lines = {}
    /\ worker = [g \in Gen |-> "none"]
    /\ results = [g \in Gen |-> <<>>]
    /\ reply = [g \in Gen |-> "none"]
    /\ unlockMsg = {} /\ sigterm = {}
    /\ cur = [g \in Gen |-> NewCurtain("none")]
    /\ lockOwner = NoGen /\ lockRequests = {}
    /\ wl = [g \in Gen |-> {}]
    /\ hint = FALSE
    /\ reported = {} /\ authorised = {}
=============================================================================
