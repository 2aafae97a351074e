----------------------------- MODULE ShellPicture -----------------------------
(***************************************************************************)
(* The prompt of ShellInput, drawn and hit as Layout says: what the        *)
(* handlers of ShellInput keep of a picture (base, pic) is enough for the  *)
(* geometry, on every kind of theme, output and scale.                     *)
(*                                                                         *)
(* The sets of views are constant: TLC works them out once.               *)
(***************************************************************************)
EXTENDS ShellInput, Theme

CONSTANTS
    Visuals,    \* configurations, as they are loaded
    Data,       \* what the daemon may have sent
    Blocks,     \* the sizes of the texts
    Frames,     \* the sizes of outputs, in logical pixels
    Scales,     \* and their scales
    Roomy       \* from this height on, the prompt and its status fit between the others

ASSUME RoomyAssumption == Roomy \in Nat
ASSUME VisualsAssumption == \A v \in Visuals : IsVisual(v)
ASSUME BlocksAssumption ==
    /\ {"clock", "date", "username", "status"} \subseteq DOMAIN Blocks
    /\ \A w \in DOMAIN Blocks : Blocks[w] \in [w: Nat, h: Nat]
ASSUME ScalesAssumption == Scales \subseteq Nat \ {0}

\* Outputs are large enough for the emergency UI.
ASSUME FramesAssumption ==
    Frames \subseteq [w: Nat, h: Nat] /\ \A f \in Frames : f.w >= 260 /\ f.h >= 184

\* What ShellInput knows of a shell, and what it leaves open.
Views ==
    [revealed: BOOLEAN, selected: BOOLEAN, status: {"Idle", "Pending", "Shown", "Rejected"}]

ViewOf(u) == [revealed |-> u.revealed, selected |-> u.selected, status |-> u.status]

ShellsOf(v) ==
    {[revealed |-> v.revealed, selected |-> v.selected, status |-> v.status,
      capsLock |-> c,                   \* caps_lock_active
      touch |-> f] :                    \* has the fingerprint reader a message?
        c \in BOOLEAN, f \in BOOLEAN}

Physical(frame, k) == [w |-> frame.w * k, h |-> frame.h * k]

\* Themes of ShellInput and configurations they stand for.
IsThemeOf(t, v) ==
    LET buttons == PowerButtons(v) IN
    /\ t.hides = InputHides(v) /\ t.eye = Enabled(v, "eye")
    /\ t.buttons = {buttons[i].name : i \in DOMAIN buttons}
    /\ \A b \in t.buttons : t.confirm = ButtonConfirms(v, b)

ConfigsOf(t) == {v \in Visuals : IsThemeOf(t, v)}

Looks ==
    [t \in Themes |-> {FromConfig(v, data, Blocks) : v \in ConfigsOf(t), data \in Data}]

ASSUME LooksAssumption == \A t \in Themes : Looks[t] # {}

\* ShellInput keeps one static layer for all shells that agree in this.
WithLayerOf(s) ==
    [revealed |-> s.revealed, selected |-> BoxMoves(s), status |-> "Idle",
     capsLock |-> FALSE, touch |-> FALSE]

\* The bounds of a size do not grow with the scale, nor do the sizes the theme leaves out.
Grows(look, frame, k) ==
    LET m == Metrics(look, frame)
        big == Metrics(Scaled(look, k), Physical(frame, k))
    IN  big.width = k * m.width /\ big.height = k * m.height

\* What holds of every theme, ...
FitsAt(look, frame, k, s) ==
    LET big == Scaled(look, k)
        out == Physical(frame, k)
    IN  /\ DrawnOnce(big, out, s)
        /\ Wide(big, out) => DirtyCovers(big, out, s)
        /\ PreparedIsDrawn(big, out)
        /\ (\A q \in {s, WithLayerOf(s)} : HasRoom(big, out, q))
              => SameLayer(big, out, s, WithLayerOf(s))

\* ... and what depends on the places it gives its widgets.
AreApartAt(look, frame, k, s) ==
    LET big == Scaled(look, k)
        out == Physical(frame, k)
    IN  /\ Wide(big, out)
        /\ frame.h >= Roomy => \A q \in {s, WithLayerOf(s)} : HasRoom(big, out, q)
        /\ frame.h >= Roomy /\ ~Floats(look, "status") => DirtyKeeps(big, out, s)
        /\ ButtonsAreHit(look, frame, k)
        /\ k = 1 \/ (Grows(look, frame, k) /\ frame.h >= Roomy) => EyeIsHit(look, frame, k, s)

Fitting ==
    {p \in {q : q \in Themes \X Views} :
        \A look \in Looks[p[1]], s \in ShellsOf(p[2]), frame \in Frames, k \in Scales :
            FitsAt(look, frame, k, s)}

KeptApart ==
    {p \in {q : q \in Themes \X Views} :
        \A look \in Looks[p[1]], s \in ShellsOf(p[2]), frame \in Frames, k \in Scales :
            AreApartAt(look, frame, k, s)}

EmergencyFitting ==
    {v \in {w : w \in Views} : \A s \in ShellsOf(v), frame \in Frames, k \in Scales :
        EmergencyFits(Physical(frame, k), k, s)}

-----------------------------------------------------------------------------
(* Properties. *)

\* The static, dynamic and dirty passes make one picture of whatever state the
\* prompt is in: every widget is drawn by exactly one of them, a redraw of the
\* prompt stays in its rectangle, and a cached layer fits the prompt of a later state,
\* although the message under the prompt comes and goes.  What the helper prepared is
\* where the curtain draws it, and the emergency prompt is whole.
PicturePartsFit ==
    IF ui.mode = "Rich" THEN <<theme, ViewOf(ui)>> \in Fitting
    ELSE ViewOf(ui) \in EmergencyFitting

\* On high frames there is room for what PicturePartsFit asks it for, and a redraw of
\* the prompt loses nothing in its rectangle, unless the message has a place of its own.
\* A click on the eye or on a power button, as they are drawn, is taken by it, on outputs
\* of every scale, although drawing and hit tests lay the scene out twice, in other units.
WidgetsKeepApart == ui.mode = "Rich" => <<theme, ViewOf(ui)>> \in KeptApart

=============================================================================
