--------------------------- MODULE LockRefinement ---------------------------
(***************************************************************************)
(* The lock protocol implements LockPromise.  The compositor's lock is     *)
(* secured whoever holds it, a dead process included: that is what keeps   *)
(* the promise while a crashed curtain is being replaced.                  *)
(***************************************************************************)
EXTENDS LockSession

(* A report is owed until somebody is let in at that lock or at a lock     *)
(* that came after it.  One thing interrupts it: a replacement that is not *)
(* ready in time is stopped (force_stop_curtain) and lets go of a lock     *)
(* that it may just have been given.                                       *)
Owed ==
    /\ \E g \in reported : \A h \in authorised : h < g
    /\ dpc # "abandoning"
    /\ lockOwner # NoGen

Promise == INSTANCE LockPromise WITH secured <- lockOwner # NoGen, owed <- Owed

(* Every step of daemon, curtains and compositor is a step of the promise  *)
(* or leaves it alone: once veilad has reported the session locked, it     *)
(* stays locked in the compositor until somebody is let in, across crashed *)
(* curtains and failed restarts; the one exception is a replacement that   *)
(* is being given up (activate_lock, handle_curtain_exit, shutdown()).     *)
KeepsLockPromise == Promise!Spec
=============================================================================
