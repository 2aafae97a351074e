----------------------------- MODULE WakeInput ------------------------------
(***************************************************************************)
(* Which presses of a locked session reach the shell: the guard against    *)
(* the key that wakes the machine (curtain/src/state/resume.rs), the press *)
(* that lights dark screens, held Backspace (state/repeat.rs), and the     *)
(* handlers that consult them (wayland/handlers/input.rs).  The guard is   *)
(* driven by messages that veilad forwards from logind's PrepareForSleep   *)
(* or sends before it suspends the machine (daemon/src/app/mod.rs).        *)
(*                                                                         *)
(* `signals` is on its way from logind to veilad, `wire` from veilad to    *)
(* the curtain's control thread, `events` from that thread to the loop.    *)
(* While the machine sleeps nothing runs.  `guard` and `input` are the     *)
(* parts of CurtainApp concerned, `held` what the user's fingers are on.   *)
(* The session is locked throughout, by one curtain.                       *)
(***************************************************************************)
EXTENDS Naturals, Sequences

CONSTANTS
    MaxSleeps,      \* bound: how often the machine goes to sleep
    MaxDark,        \* bound: how often the idle deadline darkens the screens
    MaxQueue        \* bound: messages between veilad and the curtain's loop

ASSUME BoundsAssumption ==
    MaxSleeps \in Nat /\ MaxDark \in Nat /\ MaxQueue \in Nat \ {0}

Keys == {"Backspace", "other"}
Inputs == Keys \cup {"button"}

VARIABLES
    machine,        \* "up" or "asleep"
    signals,        \* PrepareForSleep: "start" and "end"
    wire,           \* control messages: "arm" and "resumed"
    events,         \* the same, in control_events
    guard,          \* resume_input: the guard of the curtain
    input,          \* the rest of its input state
    held,           \* the keys and buttons held down
    sleeps, darks,  \* how often, for the bounds
    lost,           \* ghost: a message to the curtain failed
    unpressed,      \* ghost: no press since the machine woke up
    swallowed       \* ghost: how often the guard took a press and began its second

daemonVars == <<machine, signals, wire, sleeps, lost, unpressed>>
vars == <<machine, signals, wire, events, guard, input, held, sleeps, darks,
          lost, unpressed, swallowed>>

\* ResumeInputState; grace: swallow_until is in the future
Guards == [armed: BOOLEAN, pending: BOOLEAN, grace: BOOLEAN]

InputStates ==
    [keyRelease: BOOLEAN,                   \* wake_key_release_pending
     pointerRelease: BOOLEAN,               \* wake_pointer_release_pending
     repeat: {"off", "on", "orphan"},       \* backspace_repeat; ghost: "orphan" once the
                                            \* keyboard that it began on is gone
     focus: BOOLEAN,                        \* has_keyboard_focus
     dark: BOOLEAN]                         \* screen_off.outputs_powered_off

-----------------------------------------------------------------------------
(* state/resume.rs *)

Arm(g) == [armed |-> TRUE, pending |-> FALSE, grace |-> FALSE]

MarkResumed(g) ==
    IF g.armed THEN [armed |-> FALSE, pending |-> TRUE, grace |-> FALSE] ELSE g

\* Mutation: the guard forgets that it has taken its press.
SwallowAgain(g) == [g EXCEPT !.grace = TRUE]

Swallow(g) == [g EXCEPT !.pending = FALSE, !.grace = TRUE]

-----------------------------------------------------------------------------
(* The control channel *)

Arms(msgs) == {i \in DOMAIN msgs : msgs[i] = "arm"}
Resumes(msgs) == {i \in DOMAIN msgs : msgs[i] = "resumed"}

\* drain_control_events, called first by every handler of a press: what the waiting
\* messages make of the guard.  Arm makes good whatever came before it, and any
\* number of MarkResumed after it does what one does.
Drained(g, msgs) ==
    LET started == IF Arms(msgs) = {} THEN g ELSE Arm(g)
    IN  IF \E r \in Resumes(msgs) : \A a \in Arms(msgs) : a < r
        THEN MarkResumed(started) ELSE started

\* A message to the curtain; if it fails there is a warning and no retry.
Send(msg) ==
    /\ Len(wire) + Len(events) < MaxQueue
    /\ \/ wire' = Append(wire, msg) /\ UNCHANGED lost
       \/ lost' = TRUE /\ UNCHANGED wire

\* PrepareForSleep reaches veilad, which forwards it while the session is locked.
ForwardSleepSignal ==
    /\ machine = "up" /\ signals # <<>>
    /\ signals' = Tail(signals)
    /\ Send(IF Head(signals) = "start" THEN "arm" ELSE "resumed")
    /\ UNCHANGED <<machine, events, guard, input, held, sleeps, darks, unpressed, swallowed>>

\* The tick finds the suspend deadline passed; logind then accepts or refuses.
RequestSuspend ==
    /\ machine = "up"
    /\ Send("arm")
    /\ unpressed' = FALSE
    /\ UNCHANGED <<machine, signals, events, guard, input, held, sleeps, darks, swallowed>>

Listen ==
    /\ machine = "up" /\ wire # <<>>
    /\ wire' = Tail(wire)
    /\ events' = Append(events, Head(wire))
    /\ UNCHANGED <<machine, signals, guard, input, held, sleeps, darks, lost, unpressed,
                   swallowed>>

\* drain_control_events, after a dispatch of the loop
Drain ==
    /\ machine = "up" /\ events # <<>>
    /\ guard' = Drained(guard, events) /\ events' = <<>>
    /\ UNCHANGED <<daemonVars, input, held, darks, swallowed>>

-----------------------------------------------------------------------------
(* The machine (logind): it announces a sleep before and after. *)

FallAsleep ==
    /\ machine = "up" /\ sleeps < MaxSleeps
    /\ machine' = "asleep" /\ sleeps' = sleeps + 1
    /\ signals' = Append(signals, "start")
    /\ UNCHANGED <<wire, events, guard, input, held, darks, lost, unpressed, swallowed>>

WakeUp ==
    /\ machine = "asleep"
    /\ machine' = "up"
    /\ signals' = Append(signals, "end")
    /\ unpressed' = TRUE
    /\ UNCHANGED <<wire, events, guard, input, held, sleeps, darks, lost, swallowed>>

-----------------------------------------------------------------------------
(* Presses.  g is the guard once the waiting events are drained.           *)

Press(i) ==
    /\ machine = "up" /\ i \notin held
    /\ held' = held \cup {i}
    /\ (i \in Keys => input.focus)
    /\ events' = <<>>
    /\ unpressed' = FALSE
    /\ UNCHANGED <<machine, signals, wire, sleeps, darks, lost>>

ReleasePending(i) == IF i \in Keys THEN input.keyRelease ELSE input.pointerRelease

\* The press is the curtain's own: its release is awaited.
AwaitRelease(i) ==
    IF i \in Keys THEN [input EXCEPT !.keyRelease = TRUE, !.repeat = "off"]
                  ELSE [input EXCEPT !.pointerRelease = TRUE]

\* The release of a press that was swallowed is awaited, or the grace period runs.
PressIgnored(i) ==
    /\ Press(i)
    /\ LET g == Drained(guard, events)
       IN  /\ ReleasePending(i) \/ g.grace
           /\ guard' = g
    /\ UNCHANGED <<input, swallowed>>

\* The press lights the screens (handle_lock_activity).
PressLights(i) ==
    /\ Press(i)
    /\ LET g == Drained(guard, events)
       IN  /\ ~ReleasePending(i) /\ ~g.grace /\ input.dark
           /\ guard' = [g EXCEPT !.pending = FALSE]
    /\ input' = [AwaitRelease(i) EXCEPT !.dark = FALSE]
    /\ UNCHANGED swallowed

PressSwallowed(i) ==
    /\ Press(i)
    /\ LET g == Drained(guard, events)
       IN  /\ ~ReleasePending(i) /\ ~g.grace /\ ~input.dark /\ g.pending
           /\ guard' = Swallow(g)
    /\ input' = AwaitRelease(i)
    /\ swallowed' = swallowed + 1

\* Mutation: the press is judged by the guard as it was before they are drained.
ReachesUndrained(i) ==
    /\ Press(i)
    /\ ~ReleasePending(i) /\ ~guard.grace /\ ~input.dark /\ ~guard.pending
    /\ guard' = Drained(guard, events)
    /\ input' = [input EXCEPT !.repeat = IF i = "Backspace" THEN "on" ELSE @]
    /\ UNCHANGED swallowed

\* handle_key_event, handle_shell_pointer_press
PressReachesShell(i) ==
    /\ Press(i)
    /\ LET g == Drained(guard, events)
       IN  /\ ~ReleasePending(i) /\ ~g.grace /\ ~input.dark /\ ~g.pending
           /\ guard' = g
    /\ input' = [input EXCEPT !.repeat = IF i = "Backspace" THEN "on" ELSE @]
    /\ UNCHANGED swallowed

\* Mutation: the release that was awaited is let through and still awaited.
ReleaseKept(k) ==
    /\ machine = "up" /\ k \in held
    /\ held' = held \ {k}
    /\ IF input.focus
       THEN /\ guard' = Drained(guard, events) /\ events' = <<>>
            /\ input' = [input EXCEPT !.repeat = IF k = "Backspace" THEN "off" ELSE @]
       ELSE UNCHANGED <<events, guard, input>>
    /\ UNCHANGED <<daemonVars, darks, swallowed>>

\* release_key; without the focus the compositor does not tell.
ReleaseKey(k) ==
    /\ machine = "up" /\ k \in held
    /\ held' = held \ {k}
    /\ IF input.focus
       THEN /\ guard' = Drained(guard, events) /\ events' = <<>>
            /\ input' = [input EXCEPT
                  !.repeat = IF input.keyRelease \/ k = "Backspace" THEN "off" ELSE @,
                  !.keyRelease = FALSE]
       ELSE UNCHANGED <<events, guard, input>>
    /\ UNCHANGED <<daemonVars, darks, swallowed>>

\* pointer_frame: Release; while the screens are dark it does nothing else.
ReleaseButton ==
    /\ machine = "up" /\ "button" \in held
    /\ held' = held \ {"button"}
    /\ guard' = Drained(guard, events) /\ events' = <<>>
    /\ input' = [input EXCEPT !.pointerRelease = FALSE]
    /\ UNCHANGED <<daemonVars, darks, swallowed>>

-----------------------------------------------------------------------------
Enter ==
    /\ machine = "up" /\ ~input.focus
    /\ input' = [input EXCEPT !.focus = TRUE]
    /\ UNCHANGED <<daemonVars, events, guard, held, darks, swallowed>>

\* Mutation: a key that is held goes on repeating without the focus.
LeaveRepeating ==
    /\ machine = "up" /\ input.focus
    /\ input' = [input EXCEPT !.focus = FALSE]
    /\ UNCHANGED <<daemonVars, events, guard, held, darks, swallowed>>

\* KeyboardHandler::leave and set_keyboard_focus
Leave ==
    /\ machine = "up" /\ input.focus
    /\ input' = [input EXCEPT !.focus = FALSE, !.repeat = "off"]
    /\ UNCHANGED <<daemonVars, events, guard, held, darks, swallowed>>

\* SeatHandler::remove_capability: the keyboards or the pointer are unplugged, and nobody
\* tells of the release of what was held on them: what awaits it goes on waiting, and
\* Backspace goes on repeating.  Nothing is pressed until there is another.
Unplug(device) ==
    /\ machine = "up" /\ held \cap device # {}
    /\ held' = held \ device
    /\ input' = [input EXCEPT !.repeat = IF @ = "on" /\ device = Keys THEN "orphan" ELSE @]
    /\ UNCHANGED <<daemonVars, events, guard, darks, swallowed>>

\* A second passes.
GraceEnds ==
    /\ machine = "up" /\ guard.grace
    /\ guard' = [guard EXCEPT !.grace = FALSE]
    /\ UNCHANGED <<daemonVars, events, input, held, darks, swallowed>>

\* advance_output_power
GoDark ==
    /\ machine = "up" /\ ~input.dark /\ darks < MaxDark
    /\ input' = [input EXCEPT !.dark = TRUE]
    /\ darks' = darks + 1
    /\ UNCHANGED <<daemonVars, events, guard, held, swallowed>>

Init ==
    /\ machine = "up" /\ signals = <<>> /\ wire = <<>> /\ events = <<>>
    /\ guard = [armed |-> FALSE, pending |-> FALSE, grace |-> FALSE]
    /\ input = [keyRelease |-> FALSE, pointerRelease |-> FALSE, repeat |-> "off",
                focus |-> FALSE, dark |-> FALSE]
    /\ held = {} /\ sleeps = 0 /\ darks = 0
    /\ lost = FALSE /\ unpressed = FALSE /\ swallowed = 0

Next ==
    \/ ForwardSleepSignal \/ RequestSuspend \/ Listen \/ Drain
    \/ FallAsleep \/ WakeUp
    \/ \E i \in Inputs :
          \/ PressIgnored(i) \/ PressLights(i)
          \/ PressSwallowed(i) \/ PressReachesShell(i)
    \/ \E k \in Keys : ReleaseKey(k)
    \/ ReleaseButton
    \/ \E device \in {Keys, {"button"}} : Unplug(device)
    \/ Enter \/ Leave \/ GraceEnds \/ GoDark

Spec == Init /\ [][Next]_vars

\* Somebody keeps hitting a key, of another keyboard if one is unplugged, the
\* compositor gives the focus back, and time passes.
FairSpec ==
    /\ Spec
    /\ WF_vars(WakeUp) /\ WF_vars(Enter) /\ WF_vars(GraceEnds)
    /\ SF_vars(\E i \in Keys : \/ PressIgnored(i) \/ PressLights(i)
                               \/ PressSwallowed(i) \/ PressReachesShell(i))
    /\ \A k \in Keys : SF_vars(ReleaseKey(k) /\ input.focus)

-----------------------------------------------------------------------------
\* The first press after the machine woke up is not part of a password and does
\* not hit a button: once both announcements of the sleep have reached the
\* curtain, and unless veilad is about to suspend the machine again, the guard
\* takes it, whatever the loop has read of them (drain_control_events).
FirstPressIsSwallowed ==
    [][\A i \in Inputs :
          PressReachesShell(i)
              => ~(unpressed /\ ~lost /\ signals = <<>> /\ wire = <<>>)]_vars

\* The guard costs one press for each time the machine slept, and what falls into the
\* second that this press begins, no more: refused suspends, repeated arming and late
\* messages do not add up.
OneSecondPerSleep == swallowed <= sleeps

\* Characters are deleted only under the user's finger: the curtain repeats Backspace
\* itself, and to let go of the key stops it, as does losing the focus, whatever became
\* of the press.  If the keyboard is unplugged meanwhile nothing does until the focus is
\* lost, or Backspace is used on another.
RepeatWhileHeld ==
    input.repeat # "off" =>
        input.focus /\ ("Backspace" \in held \/ input.repeat = "orphan")

\* Whatever was swallowed, ignored, lit and unplugged before, the keyboard comes back:
\* keys reach the shell again and again.
KeyboardComesBack == []<><<\E i \in Keys : PressReachesShell(i)>>_vars
=============================================================================
