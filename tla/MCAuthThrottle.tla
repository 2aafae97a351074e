--------------------------- MODULE MCAuthThrottle ---------------------------
(* Values of the constants of AuthThrottle for TLC. *)
EXTENDS AuthThrottle

\* Zero and inverted values are floored by AuthPolicy::new.
SmallConfigs == {<<0, 0>>, <<1, 7>>, <<3, 2>>, <<2, 5>>}
=============================================================================
