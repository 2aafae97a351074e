----------------------------- MODULE LockPromise ----------------------------
(***************************************************************************)
(* What Veila promises, seen from outside: the compositor's lock and the   *)
(* debt veilad takes on when it reports the session as locked.  While a    *)
(* report is owed nothing may open the session; a credential, an unlock    *)
(* from logind or the end of the daemon settles it.                        *)
(***************************************************************************)
VARIABLES
    secured,  \* the compositor keeps the session locked
    owed      \* the session was reported locked and nobody was let in since

Init == ~secured /\ ~owed

\* A lock is taken, for a new request or to make up for one that was let go.
Secure == ~secured /\ secured' = TRUE /\ owed' \in BOOLEAN

Report == secured /\ owed' = TRUE /\ secured' = secured

Settle == owed /\ owed' = FALSE /\ secured' = secured

Release == secured /\ ~owed /\ secured' = FALSE /\ owed' = owed

Next == Secure \/ Report \/ Settle \/ Release

Spec == Init /\ [][Next]_<<secured, owed>>
=============================================================================
