----------------------------- MODULE ShellInput -----------------------------
(***************************************************************************)
(* The password prompt of one curtain: what keys, the pointer, answers of  *)
(* the daemon, ticks and reloads do to ShellState                          *)
(* (ui/src/shell/{input,pointer,state}.rs), how CurtainApp lets them       *)
(* through (curtain/src/state/interaction/{shell,auth}.rs), and which part *)
(* of the picture each of them draws again                                 *)
(* (curtain/src/wayland/scene/{ready,render,prepare}.rs).                  *)
(*                                                                         *)
(* The picture of a surface has three parts.  `base` is the static layer,  *)
(* cached under static_scene_revision: backdrops, layers, avatar, name and *)
(* the box of the input.  pic.prompt is the rest of the input group, the   *)
(* only part a redraw of the dirty rectangle touches.  pic.rest is every   *)
(* other widget, drawn by full redraws only.  A revision is never seen but *)
(* compared, so it is kept as what a handler did: bump or not.             *)
(*                                                                         *)
(* Time: `retry` says whether the cooldown of a rejection runs or is over, *)
(* confirm.over that the five seconds of a confirmation have passed.       *)
(* Hover flags only colour the icons: whether one changed is left open.    *)
(***************************************************************************)
EXTENDS Naturals, FiniteSets

CONSTANTS
    MaxSecret,      \* the 128 characters of handle_key, made small
    Buttons,        \* the power buttons the theme may show
    None,
    Themes,         \* the themes that may be loaded
    Launches,       \* how the curtain may be started
    MayFail         \* may a frame fail to draw, so that the emergency UI starts?

ThemeRecords ==
    [hides: BOOLEAN,        \* input_reveal_on_interaction
     eye: BOOLEAN,          \* eye_enabled
     buttons: SUBSET Buttons,
     confirm: BOOLEAN,      \* the buttons ask for confirmation
     cached: BOOLEAN]       \* veilad stored the static layer of this theme

ASSUME MaxSecretAssumption == MaxSecret \in Nat \ {0}
ASSUME NoneAssumption == None \notin Buttons /\ {"eye", "blank", "up"} \cap Buttons = {}
ASSUME ThemesAssumption == Themes \subseteq ThemeRecords
ASSUME LaunchesAssumption == Launches \subseteq [socket: BOOLEAN, allowEmpty: BOOLEAN]
ASSUME MayFailAssumption == MayFail \in BOOLEAN

VARIABLES
    theme,
    ui,             \* ShellState
    app,            \* CurtainApp: has_keyboard_focus, auth_in_flight, daemon_socket, ...
    base,           \* what the static layer was drawn from
    pic,            \* what the dynamic parts on screen were drawn from
    hand,           \* the left button: where it went down, and did the shell see it?
    asked           \* the power action last asked of the daemon since that press

vars == <<theme, ui, app, base, pic, hand, asked>>

Places == Buttons \cup {"eye", "blank"}

Confirmations == [button: Buttons \cup {None}, over: BOOLEAN]
NoConfirmation == [button |-> None, over |-> FALSE]

ShellStates ==
    [mode: {"Rich", "Emergency"},
     secret: 0..MaxSecret,          \* its length
     selected: BOOLEAN,             \* secret_selected
     reveal: BOOLEAN,               \* reveal_secret
     revealed: BOOLEAN,             \* auth_revealed
     eyePressed: BOOLEAN,           \* reveal_toggle_pressed
     btnPressed: Buttons \cup {None},
     confirm: Confirmations,
     status: {"Idle", "Pending", "Shown", "Rejected"},
     retry: {"none", "running", "over"},    \* retry_until of a rejection
     focused: BOOLEAN]

Apps == [focus: BOOLEAN, inFlight: BOOLEAN, socket: BOOLEAN, allowEmpty: BOOLEAN]

-----------------------------------------------------------------------------
(* What is visible, and what each part of the picture is drawn from. *)

InputVisible(u, t) == u.revealed \/ ~t.hides
Waiting(u) == u.status \in {"Pending", "Shown"}
Cooling(u) == u.status = "Rejected" /\ u.retry = "running"
LiveConfirmation(u) == IF u.confirm.over THEN None ELSE u.confirm.button

\* input_shell_is_dynamic: the box is drawn with the dynamic part
BoxIsDynamic(u) == u.mode = "Rich" /\ (u.selected \/ u.status = "Rejected")

\* render_static_overlay and render_emergency_static_overlay
StaticBox(u, t) ==
    IF u.mode = "Emergency" THEN IF u.status = "Rejected" THEN "red" ELSE "plain"
    ELSE IF InputVisible(u, t) /\ ~BoxIsDynamic(u) THEN "plain" ELSE "none"

StaticLayer(u, t) ==
    [mode |-> u.mode, theme |-> t, revealed |-> u.revealed,
     focused |-> u.focused, box |-> StaticBox(u, t)]

\* A static layer stored by veilad is that of a fresh shell, so it has the box;
\* its name holds the focus and auth_revealed, not the status.
StoredLayers(u, t) ==
    IF t.cached /\ u.mode = "Rich" /\ u.focused /\ u.revealed = ~t.hides
    THEN {[StaticLayer(u, t) EXCEPT !.box = IF InputVisible(u, t) THEN "plain" ELSE "none"]}
    ELSE {}

Layers(u, t) ==
    IF StoredLayers(u, t) # {} THEN StoredLayers(u, t) ELSE {StaticLayer(u, t)}

Prompt(u) ==
    [secret |-> u.secret, selected |-> u.selected, revealed |-> u.revealed,
     status |-> u.status, focused |-> u.focused,
     plain |-> u.mode = "Rich" /\ u.reveal,
     eye |-> u.mode = "Rich" /\ u.eyePressed]

\* The power status text is drawn while Idle, a button to confirm in another colour.
Rest(u) == [confirm |-> LiveConfirmation(u), powerText |-> u.status = "Idle"]

-----------------------------------------------------------------------------
(* Drawing.  u is the shell at the end of the handler. *)

ActivateEmergency(u) ==
    [u EXCEPT !.mode = "Emergency", !.revealed = TRUE, !.reveal = FALSE,
              !.eyePressed = FALSE]

\* A deviation: the widgets outside the prompt are left out.
DrawAllButRest(u, t, bump) ==
    /\ ui' = u
    /\ IF bump THEN base' \in Layers(u, t) ELSE base' = base
    /\ pic' = [pic EXCEPT !.prompt = Prompt(u)]

DrawAll(u, t, bump) ==
    \/ /\ ui' = u
       /\ IF bump THEN base' \in Layers(u, t) ELSE base' = base
       /\ pic' = [prompt |-> Prompt(u), rest |-> Rest(u)]
    \/ LET e == ActivateEmergency(u) IN
       /\ MayFail /\ u.mode = "Rich"
       /\ ui' = e
       /\ base' = StaticLayer(e, t)
       /\ pic' = [prompt |-> Prompt(e), rest |-> Rest(e)]

\* The emergency UI has no dirty rectangle: it is drawn whole.
DrawPrompt(u) ==
    /\ ui' = u /\ base' = base
    /\ pic' = IF u.mode = "Rich" THEN [pic EXCEPT !.prompt = Prompt(u)]
              ELSE [prompt |-> Prompt(u), rest |-> Rest(u)]

\* render_auth_change
DrawChange(u, t, bump) == IF bump THEN DrawAll(u, t, TRUE) ELSE DrawPrompt(u)

DrawNothing(u) == ui' = u /\ UNCHANGED <<base, pic>>

\* A deviation: revealing the prompt keeps the revision.
BumpsForText(u, v) ==
    u.selected # v.selected \/ (u.secret = 0) # (v.secret = 0)

\* Every place that hides, selects or empties the secret, and every one that
\* undoes it, bumps the revision.
Bumps(u, v) ==
    \/ u.revealed # v.revealed
    \/ u.selected # v.selected
    \/ (u.secret = 0) # (v.secret = 0)

-----------------------------------------------------------------------------
(* Keys: ShellState::handle_key. *)

Reveal(u) == [u EXCEPT !.revealed = TRUE]
Unselect(u) == [u EXCEPT !.selected = FALSE]
Idle(u) == [u EXCEPT !.status = "Idle", !.retry = "none"]

\* A key outside the cooldown ends a rejection.
Settle(u) == IF Cooling(u) THEN u ELSE Idle(u)

\* clear_rejected_state
Clears(u) == u.status = "Rejected" /\ ~Cooling(u)

Accepts(u) == u.selected \/ u.secret < MaxSecret

Typed(u) ==
    IF Accepts(u)
    THEN Settle([Unselect(Reveal(u)) EXCEPT !.secret = IF u.selected THEN 1 ELSE @ + 1])
    ELSE Reveal(u)

Erased(u) ==
    Settle([Unselect(Reveal(u)) EXCEPT
              !.secret = IF u.selected \/ @ = 0 THEN 0 ELSE @ - 1])

\* A deviation: the selection outlives the text.
EmptiedStillSelected(u) == [u EXCEPT !.secret = 0, !.reveal = FALSE, !.eyePressed = FALSE]

Emptied(u) == [Unselect(u) EXCEPT !.secret = 0, !.reveal = FALSE, !.eyePressed = FALSE]

Cleared(u) == Settle(Emptied(Reveal(u)))

\* Escape hides the prompt of a theme that reveals it on interaction.
Escaped(u, t) ==
    [Idle(Emptied(u)) EXCEPT !.revealed = IF t.hides THEN FALSE ELSE @]

Submitted(u) == [Unselect(Reveal(u)) EXCEPT !.status = "Pending", !.retry = "none"]

RejectedWith(u, delay) ==
    [Emptied(u) EXCEPT !.status = "Rejected",
                       !.retry = IF delay THEN "running" ELSE "none"]

-----------------------------------------------------------------------------
(* Keys as the curtain handles them: handle_key_event, handle_shell_key.   *)
(* A key is ignored without the focus and while an attempt is in flight.   *)

\* A deviation: keys are taken during an attempt.
ListeningWhileBusy == app.focus

Listening == app.focus /\ ~app.inFlight

Type ==
    /\ Listening
    /\ DrawChange(Typed(ui), theme, Bumps(ui, Typed(ui)) \/ (Accepts(ui) /\ Clears(ui)))
    /\ UNCHANGED <<theme, app, hand, asked>>

Backspace ==
    /\ Listening
    /\ DrawChange(Erased(ui), theme, Bumps(ui, Erased(ui)) \/ Clears(ui))
    /\ UNCHANGED <<theme, app, hand, asked>>

ClearAll ==
    /\ Listening
    /\ DrawChange(Cleared(ui), theme, Bumps(ui, Cleared(ui)) \/ Clears(ui))
    /\ UNCHANGED <<theme, app, hand, asked>>

SelectAll ==
    /\ Listening
    /\ LET v == [Reveal(ui) EXCEPT !.selected = ui.secret > 0]
       IN  DrawChange(v, theme, Bumps(ui, v))
    /\ UNCHANGED <<theme, app, hand, asked>>

Escape ==
    /\ Listening
    /\ InputVisible(ui, theme)
    /\ DrawChange(Escaped(ui, theme), theme, Bumps(ui, Escaped(ui, theme)))
    /\ UNCHANGED <<theme, app, hand, asked>>

\* Enter during the cooldown
EnterCooling ==
    /\ Listening /\ Cooling(ui)
    /\ LET v == Unselect(Reveal(ui)) IN DrawChange(v, theme, Bumps(ui, v))
    /\ UNCHANGED <<theme, app, hand, asked>>

\* An empty submission is dropped: authentication_busy.
EnterEmpty ==
    /\ Listening /\ ~Cooling(ui)
    /\ ui.secret = 0 /\ ~app.allowEmpty
    /\ LET v == Idle(Submitted(ui)) IN DrawChange(v, theme, Bumps(ui, v))
    /\ UNCHANGED <<theme, app, hand, asked>>

EnterWithoutSocket ==
    /\ Listening /\ ~Cooling(ui)
    /\ ui.secret > 0 \/ app.allowEmpty
    /\ ~app.socket
    /\ DrawAll(RejectedWith(Submitted(ui), FALSE), theme, TRUE)
    /\ UNCHANGED <<theme, app, hand, asked>>

Submit ==
    /\ Listening /\ ~Cooling(ui)
    /\ ui.secret > 0 \/ app.allowEmpty
    /\ app.socket
    /\ DrawChange(Submitted(ui), theme, Bumps(ui, Submitted(ui)))
    /\ app' = [app EXCEPT !.inFlight = TRUE]
    /\ UNCHANGED <<theme, hand, asked>>

FocusChanges ==
    /\ app' = [app EXCEPT !.focus = ~@]
    /\ LET v == [ui EXCEPT !.focused = ~app.focus]
       IN  DrawAll(v, theme, v.focused # ui.focused)
    /\ UNCHANGED <<theme, hand, asked>>

-----------------------------------------------------------------------------
(* The answer to an attempt: drain_auth_events.  Accepted changes nothing  *)
(* here (the daemon unlocks), and a stream that closes without an answer   *)
(* sends nothing.                                                          *)

AnswerRejected(delay) ==
    /\ app.inFlight
    /\ app' = [app EXCEPT !.inFlight = FALSE]
    /\ DrawAll(RejectedWith(ui, delay), theme, ui.status # "Rejected")
    /\ UNCHANGED <<theme, hand, asked>>

AnswerBusy ==
    /\ app.inFlight
    /\ app' = [app EXCEPT !.inFlight = FALSE]
    /\ DrawAll(Idle(ui), theme, FALSE)
    /\ UNCHANGED <<theme, hand, asked>>

-----------------------------------------------------------------------------
(* The pointer.  A press or a release is dropped while an attempt is in    *)
(* flight, on dark outputs and, the press alone, in the grace period of a  *)
(* resume; motion is not.                                                  *)

\* reveal_toggle_rect_for_frame and power_action_at
OnEye(u, t, place) == place = "eye" /\ t.eye /\ InputVisible(u, t)
ButtonAt(t, place) == IF place \in t.buttons THEN place ELSE None

DropExpired(u) == IF u.confirm.over THEN [u EXCEPT !.confirm = NoConfirmation] ELSE u
LetGo(u) == [u EXCEPT !.eyePressed = FALSE, !.btnPressed = None]

\* handle_pointer_press
Pressed(u, t, place) ==
    LET v == DropExpired(u) IN
    IF Waiting(u) THEN LetGo(u)
    ELSE IF ButtonAt(t, place) # None
         THEN [v EXCEPT !.btnPressed = place, !.eyePressed = FALSE]
    ELSE IF ~InputVisible(v, t) THEN Reveal(v)
    ELSE [Unselect(v) EXCEPT !.eyePressed = OnEye(v, t, place), !.btnPressed = None]

\* activate_power_button: does the click ask for the action, or for confirmation?
Fires(u, t, b) == ~t.confirm \/ LiveConfirmation(u) = b
Activated(u, t, b) ==
    [u EXCEPT !.confirm = IF Fires(u, t, b) THEN NoConfirmation
                          ELSE [button |-> b, over |-> FALSE]]

\* A deviation: a release counts wherever the press was.
ClickedAnywhere(u, t, place) == ~Waiting(u) /\ ButtonAt(t, place) # None

Clicked(u, t, place) ==
    ~Waiting(u) /\ u.btnPressed # None /\ ButtonAt(t, place) = u.btnPressed

\* handle_pointer_release
Released(u, t, place) ==
    LET v == DropExpired(u) IN
    IF Waiting(u) THEN LetGo(u)
    ELSE IF Clicked(v, t, place) THEN LetGo(Activated(v, t, place))
    ELSE IF ~InputVisible(v, t) THEN Reveal(v)
    ELSE [LetGo(v) EXCEPT
            !.reveal = IF v.eyePressed /\ OnEye(v, t, place) THEN ~@ ELSE @]

\* handle_pointer_motion: either flag is dropped, never both
Moved(u, t, place) ==
    IF Waiting(u) THEN LetGo(u)
    ELSE IF u.eyePressed /\ ~OnEye(u, t, place) THEN [u EXCEPT !.eyePressed = FALSE]
    ELSE IF u.btnPressed # ButtonAt(t, place) THEN [u EXCEPT !.btnPressed = None]
    ELSE u

\* render_pointer_change, when the handler said that something changed.  A hover
\* flag that changed asks for the same redraws.
DrawPointer(u, v, t) ==
    IF u.btnPressed # v.btnPressed \/ LiveConfirmation(u) # LiveConfirmation(v)
    THEN DrawAll(v, t, Bumps(u, v))
    ELSE IF Bumps(u, v) \/ u.eyePressed # v.eyePressed \/ u.reveal # v.reveal
    THEN DrawChange(v, t, Bumps(u, v)) \/ DrawAll(v, t, Bumps(u, v))
    ELSE DrawNothing(v) \/ DrawPrompt(v) \/ DrawAll(v, t, FALSE)

Press(place) ==
    /\ hand.at = "up" /\ ~app.inFlight
    /\ hand' = [at |-> place, seen |-> InputVisible(ui, theme) \/ place \in theme.buttons]
    /\ DrawPointer(ui, Pressed(ui, theme, place), theme)
    /\ asked' = None
    /\ UNCHANGED <<theme, app>>

PressIgnored(place) ==
    /\ hand.at = "up"
    /\ hand' = [at |-> place, seen |-> FALSE]
    /\ asked' = None
    /\ UNCHANGED <<theme, ui, app, base, pic>>

\* take_pointer_action: the daemon is asked on a connection of its own.
Release(place) ==
    /\ hand.at # "up" /\ ~app.inFlight
    /\ hand' = [at |-> "up", seen |-> FALSE]
    /\ DrawPointer(ui, Released(ui, theme, place), theme)
    /\ asked' = IF Clicked(ui, theme, place) /\ Fires(ui, theme, place) /\ app.socket
                THEN place ELSE None
    /\ UNCHANGED <<theme, app>>

ReleaseIgnored ==
    /\ hand.at # "up"
    /\ hand' = [at |-> "up", seen |-> FALSE]
    /\ UNCHANGED <<theme, ui, app, base, pic, asked>>

Motion(place) ==
    /\ DrawPointer(ui, Moved(ui, theme, place), theme)
    /\ UNCHANGED <<theme, app, hand, asked>>

Leave ==
    /\ DrawPointer(ui, LetGo(ui), theme)
    /\ UNCHANGED <<theme, app, hand, asked>>

-----------------------------------------------------------------------------
(* Time, ticks, reloads. *)

CooldownEnds ==
    /\ Cooling(ui)
    /\ ui' = [ui EXCEPT !.retry = "over"]
    /\ UNCHANGED <<theme, app, base, pic, hand, asked>>

ConfirmationEnds ==
    /\ ui.confirm.button # None /\ ~ui.confirm.over
    /\ ui' = [ui EXCEPT !.confirm.over = TRUE]
    /\ UNCHANGED <<theme, app, base, pic, hand, asked>>

\* A deviation: only a rejection without a retry time is cleared.
ServedUnlessTimed(u) == u.status = "Rejected" /\ u.retry = "none"
\* advance_animated_state_update: the cooldown was served, the verdict goes
Served(u) == u.status = "Rejected" /\ u.retry = "over"

\* advance_animated_scene.  turned: the clock, the fade of the player or the
\* power status changed.  due: a second has passed since the submission.
\* counted: the cooldown shows another number of seconds.
Tick(turned, due, counted) ==
    LET v == DropExpired(ui)
        changed == turned \/ v # ui
    IN  /\ CASE Waiting(ui) ->
                  LET w == IF due THEN [v EXCEPT !.status = "Shown"] ELSE v
                  IN  IF changed THEN DrawAll(w, theme, FALSE) ELSE DrawPrompt(w)
             [] Served(ui) ->
                  DrawAll(Idle(v), theme, TRUE)
             [] OTHER ->
                  IF changed \/ (Cooling(ui) /\ counted)
                  THEN DrawAll(v, theme, FALSE) ELSE DrawNothing(v)
        /\ UNCHANGED <<theme, app, hand, asked>>

\* apply_theme_with_username_and_weather; reload_config then draws every surface
ApplyTheme(t) ==
    /\ LET v == [ui EXCEPT !.revealed = @ \/ ~t.hides,
                           !.reveal = @ /\ t.eye,
                           !.eyePressed = @ /\ t.eye]
       IN  DrawAll(v, t, TRUE)
    /\ theme' = t
    /\ UNCHANGED <<app, hand, asked>>

\* A background that arrives, a slide or another size, and an avatar that was
\* decoded (set_avatar): the static layer is drawn again.
NewBackground ==
    /\ DrawAll(ui, theme, TRUE)
    /\ UNCHANGED <<theme, app, hand, asked>>

-----------------------------------------------------------------------------
Fresh(t) ==
    [mode |-> "Rich", secret |-> 0, selected |-> FALSE, reveal |-> FALSE,
     revealed |-> ~t.hides, eyePressed |-> FALSE, btnPressed |-> None,
     confirm |-> NoConfirmation, status |-> "Idle", retry |-> "none",
     focused |-> TRUE]

Init ==
    /\ theme \in Themes
    /\ ui = Fresh(theme)
    /\ \E l \in Launches :
          app = [focus |-> FALSE, inFlight |-> FALSE,
                 socket |-> l.socket, allowEmpty |-> l.allowEmpty]
    /\ base \in Layers(ui, theme)
    /\ pic = [prompt |-> Prompt(ui), rest |-> Rest(ui)]
    /\ hand = [at |-> "up", seen |-> FALSE]
    /\ asked = None

Keys ==
    \/ Type \/ Backspace \/ ClearAll \/ SelectAll \/ Escape
    \/ EnterCooling \/ EnterEmpty \/ EnterWithoutSocket \/ Submit

Answers == AnswerBusy \/ \E delay \in BOOLEAN : AnswerRejected(delay)

Pointer ==
    \/ \E place \in Places :
          Press(place) \/ PressIgnored(place) \/ Release(place) \/ Motion(place)
    \/ ReleaseIgnored \/ Leave

Ticks == \E turned, due, counted \in BOOLEAN : Tick(turned, due, counted)

Next ==
    \/ Keys \/ FocusChanges \/ Answers \/ Pointer \/ Ticks
    \/ CooldownEnds \/ ConfirmationEnds
    \/ \E t \in Themes : ApplyTheme(t)
    \/ NewBackground

Spec == Init /\ [][Next]_vars

\* The loop ticks at least every 250 ms, the clock turns every minute, and time
\* passes; nobody has to type and no answer has to come.
Fairness ==
    /\ WF_vars(CooldownEnds)
    /\ WF_vars(\E due, counted \in BOOLEAN : Tick(TRUE, due, counted))

FairSpec == Spec /\ Fairness

-----------------------------------------------------------------------------
(* Properties. *)

\* The spinner of ShellState and the flag auth_in_flight of CurtainApp, written by
\* different handlers, always agree: no prompt spins without an attempt, and no
\* attempt runs behind a prompt that takes keys.
PendingIffInFlight == Waiting(ui) <=> app.inFlight

\* Whatever order keys, clicks, reloads and failures come in: a hidden prompt
\* holds no text, no selection and no verdict; a selection has text; the password
\* is readable only where a theme shows the eye on a visible prompt; a retry time
\* belongs to a rejection.
PromptCoherent ==
    /\ ~InputVisible(ui, theme) =>
          ui.secret = 0 /\ ~ui.reveal /\ ui.status = "Idle"
    /\ ui.selected => ui.secret > 0
    /\ ui.reveal => theme.eye
    /\ ui.retry # "none" => ui.status = "Rejected"

\* After every handler the screen shows the prompt the shell is in, and a static
\* layer of the theme, focus and visibility in force, although most handlers
\* redraw one part of the picture only.
PictureCurrent ==
    /\ pic.prompt = Prompt(ui)
    /\ [base EXCEPT !.box = StaticBox(ui, theme)] = StaticLayer(ui, theme)

\* The text submitted stays as it is until the daemon has answered: no key, repeat,
\* click or reload edits it behind the spinner, and only a rejection erases it.
SubmittedTextIsFrozen ==
    [][app.inFlight =>
          ui'.secret = ui.secret \/ (ui'.secret = 0 /\ ui'.status = "Rejected")]_vars

\* A release acts only where the button went down, for a press that found its target
\* visible: flags left behind by dropped releases, reloads and hidden prompts
\* neither ask for a power action nor show the password.
ReleaseNeedsItsPress ==
    [][hand.seen /\ hand'.at = "up" =>
          /\ asked' # None => asked' = hand.at
          /\ ui'.reveal /\ ~ui.reveal => hand.at = "eye"]_vars

\* A rejection with a cooldown ends by itself, on screen too, so that Enter submits
\* again without another key: keys, clicks and reloads in between do not prolong it.
RejectionEnds ==
    ui.status = "Rejected" /\ ui.retry # "none" ~> ui.status # "Rejected"

\* Widgets outside the prompt may be stale after a partial redraw (the power status
\* text while an attempt runs, an expired confirmation), but not for ever.
RestCatchesUp == []<>(pic.rest = Rest(ui))

=============================================================================
