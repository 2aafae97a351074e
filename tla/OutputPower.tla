---------------------------- MODULE OutputPower -----------------------------
(***************************************************************************)
(* Which monitors of a locked session are lit                              *)
(* (curtain/src/state/power.rs) and everything that changes it: outputs    *)
(* that come and go and keyboard focus (wayland/handlers/session.rs,       *)
(* input.rs), readiness (wayland/scene/ready.rs), input, the idle          *)
(* deadline, reloads (reload.rs), the emergency UI and shutdown            *)
(* (state/mod.rs).                                                         *)
(*                                                                         *)
(* `app` is the part of CurtainApp concerned; `lit` is what the monitors   *)
(* do.  The requests of one handler reach the compositor in order, so lit  *)
(* changes with the request.  Time is one bit: due says that screen_off's  *)
(* deadline has passed.  The compositor offers output power management; if *)
(* it does not, nothing here ever happens.                                 *)
(***************************************************************************)
EXTENDS Naturals, Sequences, SequencesExt

CONSTANTS
    Outputs,        \* the monitors that may be plugged in
    NoOutput,       \* the absence of ui_output_name
    Configs,        \* the configurations that may be loaded
    MayLoseControl  \* may the compositor withdraw a power control?

ConfigRecords ==
    [screenOff: BOOLEAN,    \* screen_off_seconds is set
     secondary: BOOLEAN,    \* power_off_secondary_outputs
     single: BOOLEAN,       \* ui_mode is Single
     named: Outputs \cup {NoOutput}]

ASSUME ConfigsAssumption == Configs \subseteq ConfigRecords
ASSUME NoOutputAssumption == NoOutput \notin Outputs
ASSUME ControlAssumption == MayLoseControl \in BOOLEAN

VARIABLES
    surfaces,       \* lock_surfaces: [output, sized, control]
    focused,        \* focused_surface_index, 1-based; 0 for None
    app,            \* the configuration in force and the flags
    lit,            \* monitor -> is it lit?
    stopped         \* the curtain has shut down

vars == <<surfaces, focused, app, lit, stopped>>

Apps == [cfg: ConfigRecords, locked: BOOLEAN, ready: BOOLEAN, due: BOOLEAN,
         emergency: BOOLEAN,        \* ui_shell.emergency_active()
         blank: BOOLEAN,            \* screen_off.outputs_powered_off
         secondaryOff: BOOLEAN]     \* secondary_outputs_powered_off

Surfaces == [output: Outputs, sized: BOOLEAN, control: BOOLEAN]

Connected == {surfaces[i].output : i \in DOMAIN surfaces}
LitNow == {o \in Connected : lit[o]}

-----------------------------------------------------------------------------
(* Which surface shows the prompt, and which outputs are secondary. *)

\* selected_ui_surface_index; 0 for None
Selected(sfs, foc, cfg) ==
    LET named == {i \in DOMAIN sfs : sfs[i].output = cfg.named}
        sized == {i \in DOMAIN sfs : sfs[i].sized}
    IN  IF named # {} THEN Min(named)
        ELSE IF foc # 0 /\ sfs[foc].sized THEN foc
        ELSE IF sized # {} THEN Min(sized)
        ELSE IF sfs # <<>> THEN 1 ELSE 0

RendersShell(sfs, foc, cfg, i) == cfg.single => Selected(sfs, foc, cfg) = i

SecondaryEnabled(cfg) == cfg.secondary /\ cfg.single
ControlEnabled(cfg) == cfg.screenOff \/ SecondaryEnabled(cfg)

-----------------------------------------------------------------------------
(* Power requests, on a pair p of the monitors and the app.  Wake is       *)
(* set_outputs_power_mode(On), Darken the same with Off.                   *)

Controlled(sfs) == {sfs[i].output : i \in {j \in DOMAIN sfs : sfs[j].control}}

Request(l, outs, on) == [o \in Outputs |-> IF o \in outs THEN on ELSE l[o]]

Wake(p, sfs) ==
    [lit |-> Request(p.lit, Controlled(sfs), TRUE),
     app |-> [p.app EXCEPT !.secondaryOff = @ /\ Controlled(sfs) = {}]]

Darken(p, sfs) ==
    [lit |-> Request(p.lit, Controlled(sfs), FALSE), app |-> p.app]

\* maybe_power_off_secondary_outputs
PowerOffSecondary(p, sfs, foc) ==
    LET outs == {sfs[i].output :
                    i \in {j \in DOMAIN sfs : /\ sfs[j].control
                                              /\ ~RendersShell(sfs, foc, p.app.cfg, j)}}
    IN  IF p.app.secondaryOff \/ ~p.app.ready \/ ~p.app.locked
            \/ ~SecondaryEnabled(p.app.cfg) \/ outs = {}
        THEN p
        ELSE [lit |-> Request(p.lit, outs, FALSE),
              app |-> [p.app EXCEPT !.secondaryOff = TRUE]]

If(cond, new, old) == IF cond THEN new ELSE old

\* maybe_notify_ready, its last step included
NotifyReady(p, sfs, foc) ==
    IF p.app.ready \/ ~p.app.locked \/ sfs = <<>>
        \/ \E i \in DOMAIN sfs : ~sfs[i].sized
    THEN p
    ELSE PowerOffSecondary([p EXCEPT !.app.ready = TRUE], sfs, foc)

Now == [lit |-> lit, app |-> app]
Become(p) == lit' = p.lit /\ app' = p.app

-----------------------------------------------------------------------------
Init ==
    /\ \E o \in Outputs, c \in Configs :
          /\ surfaces = <<[output |-> o, sized |-> FALSE, control |-> ControlEnabled(c)]>>
          /\ app = [cfg |-> c, locked |-> FALSE, ready |-> FALSE, due |-> FALSE,
                    emergency |-> FALSE, blank |-> FALSE, secondaryOff |-> FALSE]
    /\ focused = 0
    /\ lit = [o \in Outputs |-> TRUE]
    /\ stopped = FALSE

\* new_output and create_surface_for_output.  A monitor lights up when it is
\* plugged in.
NewOutput(o) ==
    /\ ~stopped /\ o \notin Connected
    /\ LET s == [output |-> o, sized |-> FALSE, control |-> ControlEnabled(app.cfg)]
           sfs == Append(surfaces, s)
           goesDark == \/ app.blank /\ s.control
                       \/ /\ app.secondaryOff /\ s.control
                          /\ ~RendersShell(sfs, focused, app.cfg, Len(sfs))
       IN  /\ surfaces' = sfs
           /\ lit' = [lit EXCEPT ![o] = ~goesDark]
    /\ UNCHANGED <<focused, app, stopped>>

\* Mutation: the outputs that stay are left as they are.
OutputDestroyedQuietly(o) ==
    /\ ~stopped /\ o \in Connected
    /\ LET gone == CHOOSE i \in DOMAIN surfaces : surfaces[i].output = o
       IN  /\ surfaces' = RemoveAt(surfaces, gone)
           /\ focused' = IF focused = gone THEN 0
                         ELSE IF focused > gone THEN focused - 1 ELSE focused
    /\ UNCHANGED <<app, lit, stopped>>

\* output_destroyed
OutputDestroyed(o) ==
    /\ ~stopped /\ o \in Connected
    /\ LET gone == CHOOSE i \in DOMAIN surfaces : surfaces[i].output = o
           sfs == RemoveAt(surfaces, gone)
           foc == IF focused = gone THEN 0
                  ELSE IF focused > gone THEN focused - 1 ELSE focused
       IN  /\ surfaces' = sfs
           /\ focused' = foc
           /\ Become(If(app.secondaryOff, PowerOffSecondary(Wake(Now, sfs), sfs, foc), Now))
    /\ UNCHANGED stopped

\* configure_surface
Configure(i) ==
    /\ ~stopped
    /\ LET sfs == [surfaces EXCEPT ![i].sized = TRUE]
       IN  /\ surfaces' = sfs
           /\ Become(NotifyReady(Now, sfs, focused))
    /\ UNCHANGED <<focused, stopped>>

\* SessionLockHandler::locked, with screen_off.arm
Locked ==
    /\ ~stopped /\ ~app.locked
    /\ Become(NotifyReady([Now EXCEPT !.app.locked = TRUE,
                                      !.app.blank = @ /\ ~app.cfg.screenOff,
                                      !.app.due = @ /\ ~app.cfg.screenOff],
                          surfaces, focused))
    /\ UNCHANGED <<surfaces, focused, stopped>>

\* note_surface_activity: keyboard enter, and any pointer event on a surface
Focus(i) ==
    /\ ~stopped
    /\ focused' = i
    /\ UNCHANGED <<surfaces, app, lit, stopped>>

\* A key or a button is pressed: handle_lock_activity, and
\* record_visible_lock_activity when the outputs were on.
Activity ==
    /\ ~stopped /\ app.locked
    /\ LET woke == app.cfg.screenOff /\ app.blank
           p == [Now EXCEPT !.app.blank = @ /\ ~app.cfg.screenOff,
                            !.app.due = @ /\ ~app.cfg.screenOff]
       IN  Become(If(woke, PowerOffSecondary(Wake(p, surfaces), surfaces, focused), p))
    /\ UNCHANGED <<surfaces, focused, stopped>>

\* The time since the last activity reaches screen_off_seconds.
DeadlinePasses ==
    /\ ~stopped /\ app.locked /\ app.cfg.screenOff /\ ~app.blank
    /\ app' = [app EXCEPT !.due = TRUE]
    /\ UNCHANGED <<surfaces, focused, lit, stopped>>

\* advance_output_power
AdvanceOutputPower ==
    /\ ~stopped
    /\ app.locked /\ ~app.blank /\ app.cfg.screenOff /\ app.due
    /\ Controlled(surfaces) # {}
    /\ Become(Darken([Now EXCEPT !.app.blank = TRUE], surfaces))
    /\ UNCHANGED <<surfaces, focused, stopped>>

\* ScreenOffState::set_delay
SetDelay(a, c) == [a EXCEPT !.cfg = c, !.due = FALSE, !.blank = @ /\ c.screenOff]

\* reload_config, in the order of its requests
Reload(c) ==
    /\ ~stopped
    /\ LET wakeAll == app.blank /\ ~c.screenOff
           wakeSecondary == app.secondaryOff
           sfs == [i \in DOMAIN surfaces |->
                     [surfaces[i] EXCEPT !.control = ControlEnabled(c)]]
           p1 == [Now EXCEPT !.app = SetDelay(app, c)]
           p2 == If((wakeAll \/ wakeSecondary) /\ ~ControlEnabled(c), Wake(p1, surfaces), p1)
           p3 == If(p2.app.blank /\ c.screenOff, Darken(p2, sfs), p2)
           p4 == If(wakeSecondary, Wake(p3, sfs), p3)
           p5 == If(wakeAll, Wake(p4, sfs), p4)
       IN  /\ surfaces' = sfs
           /\ Become(PowerOffSecondary(p5, sfs, focused))
    /\ UNCHANGED <<focused, stopped>>

\* activate_emergency_ui, after a frame could not be rendered; only once
Emergency ==
    /\ ~stopped /\ ~app.emergency
    /\ LET p == If(app.secondaryOff, Wake(Now, surfaces), Now)
       IN  Become([p EXCEPT !.app.emergency = TRUE,
                            !.app.secondaryOff = FALSE,
                            !.app.cfg.single = FALSE,
                            !.app.cfg.secondary = FALSE,
                            !.app.cfg.named = NoOutput])
    /\ UNCHANGED <<surfaces, focused, stopped>>

\* zwlr_output_power_v1::Event::Failed: another client takes the monitor over,
\* or it is going away.  The compositor leaves it lit.
ControlLost(i) ==
    /\ MayLoseControl /\ ~stopped
    /\ surfaces[i].control /\ lit[surfaces[i].output]
    /\ surfaces' = [surfaces EXCEPT ![i].control = FALSE]
    /\ UNCHANGED <<focused, app, lit, stopped>>

\* Mutation: only the outputs that the deadline darkened are lit again.
ShutdownForgetsSecondary ==
    /\ ~stopped /\ app.locked
    /\ stopped' = TRUE
    /\ Become(If(app.blank, Wake(Now, surfaces), Now))
    /\ UNCHANGED <<surfaces, focused>>

\* shutdown of a curtain that holds the lock; if the compositor has finished
\* it, nothing is asked of the monitors and nothing is released
Shutdown ==
    /\ ~stopped /\ app.locked
    /\ stopped' = TRUE
    /\ Become(If(app.blank \/ app.secondaryOff,
                 [Wake(Now, surfaces) EXCEPT !.app.secondaryOff = FALSE], Now))
    /\ UNCHANGED <<surfaces, focused>>

Next ==
    \/ \E o \in Outputs : NewOutput(o) \/ OutputDestroyed(o)
    \/ \E i \in DOMAIN surfaces : Configure(i) \/ Focus(i) \/ ControlLost(i)
    \/ \E c \in Configs : Reload(c)
    \/ Locked \/ Activity \/ DeadlinePasses \/ AdvanceOutputPower
    \/ Emergency \/ Shutdown

Spec == Init /\ [][Next]_vars

-----------------------------------------------------------------------------
\* No user is left in the dark for good.  Input lights the monitors only when
\* the curtain believes that it darkened them and still controls one
\* (ScreenOffState::note_activity): so whenever every monitor of a locked session is
\* dark it must believe so, or no key would ever bring a picture back.  And a prompt
\* bound to a named monitor can be read as long as the curtain has not darkened
\* everything: plugging it in late, unplugging others, reloads and focus on other
\* monitors do not darken it (maybe_power_off_secondary_outputs).  Without a named
\* monitor the prompt may follow the focus to a secondary one that is dark.
NeverStuckDark ==
    /\ app.locked /\ ~stopped /\ surfaces # <<>> /\ LitNow = {}
          => app.blank /\ app.cfg.screenOff /\ Controlled(surfaces) # {}
    /\ app.cfg.single /\ app.cfg.named \in Connected /\ ~app.blank
          => lit[app.cfg.named]

\* The session that is released is visible again: every monitor is lit, those
\* that were secondary and those that came while the others were dark included.
LitAfterUnlock == stopped => LitNow = Connected
=============================================================================
