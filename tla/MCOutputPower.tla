--------------------------- MODULE MCOutputPower ----------------------------
(* Values of the constants of OutputPower for TLC. *)
EXTENDS OutputPower

CONSTANTS o1, o2, o3

C(screenOff, secondary, single, named) ==
    [screenOff |-> screenOff, secondary |-> secondary,
     single |-> single, named |-> named]

\* Every combination of the features, with and without a named output.
AllConfigs == {C(s, d, g, n) : s, d, g \in BOOLEAN, n \in {NoOutput, o1}}
=============================================================================
