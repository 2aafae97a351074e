---------------------------- MODULE MCWakeInput -----------------------------
(***************************************************************************)
(* WakeInput for TLC, and the order in which the control channel is read:  *)
(* drain_control_events takes one event after the other, which Drained     *)
(* sums up.                                                                *)
(***************************************************************************)
EXTENDS WakeInput, SequencesExt

ControlEvent(g, e) == IF e = "arm" THEN Arm(g) ELSE MarkResumed(g)

Queues == UNION {[1..n -> {"arm", "resumed"}] : n \in 0..6}

ASSUME DrainedTakesThemInOrder ==
    \A g \in Guards, msgs \in Queues : Drained(g, msgs) = FoldLeft(ControlEvent, g, msgs)
=============================================================================
