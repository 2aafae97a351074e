---------------------------- MODULE SuspendTimer ----------------------------
(***************************************************************************)
(* veilad suspends a machine that stays locked and idle                    *)
(* (daemon/src/app/suspend.rs), on a tick of its loop that also tells the  *)
(* curtain how long that will take (app/mod.rs).  Locks, unlocks, crashes, *)
(* activity, reloads and what the battery, media and PAM are doing come in *)
(* between.                                                                *)
(*                                                                         *)
(* Instants are relative: timer.idle is now minus last_activity_at, in     *)
(* ticks.  A handler awaits inside the loop, so during the D-Bus call that *)
(* suspends the machine (`calling`) the daemon does nothing else.  Control *)
(* messages are delivered in order and never overtaken, so the last one    *)
(* that was not lost is what a curtain that is up will show.               *)
(***************************************************************************)
EXTENDS Naturals

CONSTANTS
    Policies,       \* what the configurations say about suspending
    MaxDelay        \* the longest suspend_seconds, in ticks

\* delay is zero if suspend_seconds is unset or zero.
PolicyRecords == [delay: 0..MaxDelay, batteryOnly: BOOLEAN, skipMedia: BOOLEAN]

ASSUME DelayAssumption == MaxDelay \in Nat \ {0}
ASSUME PoliciesAssumption == Policies \subseteq PolicyRecords

VARIABLES
    timer,          \* LockedSuspendState
    active,         \* state.is_active()
    seen,           \* what the tick reads of other components
    status,         \* power_status_sent and last_power_status_snapshot
    curtain,        \* is a curtain up, and which countdown reached it?
    calling,        \* the tick is waiting for logind
    asked           \* ghost: logind was asked, and nothing has happened since

timerVars == <<timer, active, seen, status, curtain, calling, asked>>

Timers == [policy: PolicyRecords,
           running: BOOLEAN, idle: 0..MaxDelay,     \* last_activity_at
           requested: BOOLEAN]
Seen == [inFlight: BOOLEAN, discharging: BOOLEAN, playing: BOOLEAN]

\* A countdown is the number of ticks that remain, zero for no snapshot.
Countdowns == 0..MaxDelay
Statuses == [sent: BOOLEAN, last: Countdowns]
Curtains == [up: BOOLEAN, shows: Countdowns,
             deaf: BOOLEAN]         \* ghost: the last message was lost

-----------------------------------------------------------------------------
(* app/suspend.rs *)

NewTimer(p) == [policy |-> p, running |-> FALSE, idle |-> 0, requested |-> FALSE]

\* arm and note_activity
Restart(t) ==
    IF t.policy.delay = 0 THEN t
    ELSE [t EXCEPT !.running = TRUE, !.idle = 0, !.requested = FALSE]

Clear(t) == NewTimer(t.policy)

\* Mutations: a reload restarts the timer, or runs it without a delay.
SetPolicyAnew(t, p) ==
    [NewTimer(p) EXCEPT !.running = active /\ p.delay > 0]
SetPolicy(t, p) ==
    LET running == active /\ p.delay > 0
    IN  [policy |-> p, running |-> running, requested |-> FALSE,
         idle |-> IF running /\ t.running THEN t.idle ELSE 0]

MarkRequested(t) == [t EXCEPT !.requested = TRUE]

DeadlinePassed(t) ==
    /\ active /\ ~t.requested /\ t.policy.delay > 0
    /\ t.running /\ t.idle >= t.policy.delay

Skipped(t, s) ==
    \/ s.inFlight
    \/ t.policy.batteryOnly /\ ~s.discharging
    \/ t.policy.skipMedia /\ s.playing

\* evaluate
Ready(t, s) == DeadlinePassed(t) /\ ~Skipped(t, s)

\* power_status_snapshot
Countdown(t) ==
    IF active /\ ~t.requested /\ t.running /\ t.idle < t.policy.delay
    THEN t.policy.delay - t.idle ELSE 0

-----------------------------------------------------------------------------
NoStatus == [sent |-> FALSE, last |-> 0]
NoCurtain == [up |-> FALSE, shows |-> 0, deaf |-> FALSE]
NewCurtain == [up |-> TRUE, shows |-> 0, deaf |-> FALSE]

TimerInit ==
    /\ timer \in {NewTimer(p) : p \in Policies}
    /\ active = FALSE
    /\ seen \in Seen /\ ~seen.inFlight
    /\ status = NoStatus /\ curtain = NoCurtain
    /\ calling = FALSE /\ asked = FALSE

\* activate_and_install.  A lock that logind asks for forgets what was sent, one
\* that is forwarded over the control socket does not.
Lock ==
    /\ ~calling /\ ~active
    /\ active' = TRUE
    /\ timer' = Restart(timer)
    /\ seen' = [seen EXCEPT !.inFlight = FALSE]
    /\ status' \in {NoStatus, status}
    /\ curtain' = NewCurtain
    /\ asked' = FALSE
    /\ UNCHANGED calling

\* deactivate_lock succeeds: after an unlock signal what was sent is forgotten,
\* after a success of authentication only by the next tick.
Unlock ==
    /\ ~calling /\ active
    /\ active' = FALSE
    /\ timer' = Clear(timer)
    /\ status' \in {NoStatus, status}
    /\ curtain' = NoCurtain
    /\ asked' = FALSE
    /\ seen' \in {seen, [seen EXCEPT !.inFlight = FALSE]}
    /\ UNCHANGED calling

\* deactivate_lock fails: the session counts as locked, the curtain is gone.
UnlockFails ==
    /\ ~calling /\ active /\ curtain.up
    /\ curtain' = NoCurtain
    /\ seen' \in {seen, [seen EXCEPT !.inFlight = FALSE]}
    /\ UNCHANGED <<timer, active, status, calling, asked>>

\* The curtain dies while the session is locked; messages to it fail.
CurtainDies ==
    /\ active /\ curtain.up
    /\ curtain' = NoCurtain
    /\ UNCHANGED <<timer, active, seen, status, calling, asked>>

\* handle_curtain_exit: it is replaced, or could not be.
ReplaceCurtain ==
    /\ ~calling /\ active /\ ~curtain.up
    /\ seen' = [seen EXCEPT !.inFlight = FALSE]
    /\ \/ /\ timer' = Restart(timer) /\ curtain' = NewCurtain /\ asked' = FALSE
          /\ UNCHANGED <<active, status>>
       \/ /\ active' = FALSE /\ status' = NoStatus
          /\ UNCHANGED <<timer, curtain, asked>>
    /\ UNCHANGED calling

\* handle_client_message: Activity, RequestPowerAction, and SubmitPassword,
\* which may start an attempt.
ClientMessage ==
    /\ ~calling /\ active
    /\ timer' = Restart(timer)
    /\ seen' \in {seen, [seen EXCEPT !.inFlight = TRUE]}
    /\ asked' = FALSE
    /\ UNCHANGED <<active, status, curtain, calling>>

\* A rejection is handled, and what the battery and media workers saw changes.
OthersChange ==
    /\ \E s \in Seen :
          /\ s.inFlight => seen.inFlight
          /\ seen.inFlight /\ ~s.inFlight => ~calling
          /\ s # seen /\ seen' = s
    /\ UNCHANGED <<timer, active, status, curtain, calling, asked>>

\* apply_loaded_config
Reload ==
    /\ ~calling
    /\ \E p \in Policies : timer' = SetPolicy(timer, p)
    /\ asked' = FALSE
    /\ UNCHANGED <<active, seen, status, curtain, calling>>

-----------------------------------------------------------------------------
(* The tick *)

\* A message to a curtain that is up arrives, or is lost: it could not be sent, which
\* leaves the status as it is for the next tick to try again, or nobody reads it.
Tell(now) ==
    \/ /\ curtain' = [curtain EXCEPT !.shows = now, !.deaf = FALSE]
       /\ status' = [sent |-> TRUE, last |-> now]
    \/ /\ curtain' = [curtain EXCEPT !.deaf = TRUE]
       /\ status' \in {status, [sent |-> TRUE, last |-> now]}

\* Mutation: only a countdown is sent, not the end of it.
ReportCountdowns ==
    LET now == Countdown(timer')
    IN  IF ~active THEN status' = NoStatus /\ UNCHANGED curtain
        ELSE IF ~curtain.up \/ now = 0 \/ (status.sent /\ status.last = now)
        THEN UNCHANGED <<status, curtain>>
        ELSE Tell(now)

\* The end of every tick: the countdown is sent if it changed.
Report ==
    LET now == Countdown(timer')
    IN  IF ~active THEN status' = NoStatus /\ UNCHANGED curtain
        ELSE IF ~curtain.up \/ (status.sent /\ status.last = now)
        THEN UNCHANGED <<status, curtain>>
        ELSE Tell(now)

\* Pending or Skipped.  Time has passed since the last tick.
TickWaits ==
    /\ ~calling /\ ~Ready(timer, seen)
    /\ timer' = timer
    /\ Report
    /\ UNCHANGED <<active, seen, calling, asked>>

\* Mutation: the request is marked when logind has accepted it.
TickRequestsUnmarked ==
    /\ ~calling /\ Ready(timer, seen)
    /\ calling' = TRUE /\ asked' = TRUE
    /\ UNCHANGED <<timer, active, seen, status, curtain>>

\* Ready: the guard of the curtain is armed, the request marked, logind called.
TickRequests ==
    /\ ~calling /\ Ready(timer, seen)
    /\ timer' = MarkRequested(timer)
    /\ calling' = TRUE /\ asked' = TRUE
    /\ UNCHANGED <<active, seen, status, curtain>>

\* logind answers, whatever it is, and the tick goes on.
LogindAnswers ==
    /\ calling
    /\ calling' = FALSE
    /\ timer' = timer
    /\ Report
    /\ UNCHANGED <<active, seen, asked>>

TimePasses ==
    /\ timer.running /\ timer.idle < MaxDelay
    /\ timer' = [timer EXCEPT !.idle = @ + 1]
    /\ UNCHANGED <<active, seen, status, curtain, calling, asked>>

Tick == TickWaits \/ TickRequests

TimerNext ==
    \/ Lock \/ Unlock \/ UnlockFails \/ CurtainDies \/ ReplaceCurtain
    \/ ClientMessage \/ OthersChange \/ Reload
    \/ TickWaits \/ TickRequests \/ LogindAnswers \/ TimePasses

TimerSpec == TimerInit /\ [][TimerNext]_timerVars

\* The interval of the loop, the clock, and a bus that answers or times out.
FairTimerSpec == TimerSpec /\ WF_timerVars(Tick) /\ WF_timerVars(TimePasses) /\ WF_timerVars(LogindAnswers)

-----------------------------------------------------------------------------
TypeOK ==
    /\ timer \in Timers /\ (timer.running => timer.policy.delay > 0)
    /\ active \in BOOLEAN
    /\ seen \in Seen
    /\ status \in Statuses
    /\ curtain \in Curtains
    /\ calling \in BOOLEAN /\ asked \in BOOLEAN

\* logind is asked once: not again before somebody was active, the session was
\* locked anew or the configuration reloaded, whatever logind answered and
\* however often the loop has ticked since.
AskedOnce == [][TickRequests => ~asked]_timerVars

\* A machine left alone is suspended: if one day nobody is active any more, a
\* timer that runs leads to a request unless something forbids it.  Reloads that
\* go on do not put it off (set_policy).
SomebodyActive == Lock \/ ReplaceCurtain \/ ClientMessage

IdleMachineSuspends ==
    <>[][~SomebodyActive]_timerVars =>
        ((timer.running /\ active /\ ~timer.requested /\ ~Skipped(timer, seen))
            ~> (asked \/ ~active \/ Skipped(timer, seen) \/ ~timer.running))

\* Once logind has answered a request no curtain shows a countdown, unless the last
\* message to it was lost: not the one that was up, not one that took over, and not
\* after a lock that was forwarded without forgetting what the curtain before it was
\* sent.
CountdownEnds ==
    timer.requested /\ ~calling /\ curtain.up /\ ~curtain.deaf => curtain.shows = 0
=============================================================================
