--------------------------- MODULE MCSuspendTimer ---------------------------
(* Values of the constants of SuspendTimer for TLC. *)
EXTENDS SuspendTimer

P(delay, batteryOnly, skipMedia) ==
    [delay |-> delay, batteryOnly |-> batteryOnly, skipMedia |-> skipMedia]

\* Switched off, a short and a long delay, and both conditions.
SomePolicies == {P(0, FALSE, FALSE), P(1, TRUE, TRUE),
                  P(2, TRUE, FALSE), P(4, FALSE, TRUE)}
=============================================================================
