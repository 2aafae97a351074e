------------------------------- MODULE Layout -------------------------------
(***************************************************************************)
(* Where ShellState draws each widget, and where it takes clicks           *)
(* (ui/src/shell/{render,theme,emergency.rs}).                             *)
(*                                                                         *)
(* One picture is drawn by three code paths.  The static pass makes the    *)
(* layer that is cached under static_scene_revision, the dynamic pass      *)
(* draws the rest over it, and the dirty pass copies one rectangle of the  *)
(* layer back and draws the prompt alone.  Each of them computes the whole *)
(* layout again, and so does every click.                                  *)
(*                                                                         *)
(* A look is a ShellTheme with its data (see Theme): the widgets that are  *)
(* on and have data, where the floating ones are (the others flow down the *)
(* middle), and the size of each block of text, which the text layout      *)
(* decides.  A shell is the part of ShellState the layout depends on.      *)
(* Colours and glyphs are left out; fractions of f32 are truncated.        *)
(* ShellTheme::from_config knows the alignment TopCenter only, without     *)
(* offsets.                                                                *)
(***************************************************************************)
EXTENDS Integers, Sequences, FiniteSetsExt

Unset == -1         \* a size the theme leaves out
Screen == "screen"  \* relative_to nothing, or a name no backdrop has

Half(n) == IF n < 0 THEN -((-n) \div 2) ELSE n \div 2
Greater(a, b) == IF a > b THEN a ELSE b
Lesser(a, b) == IF a < b THEN a ELSE b
Clamp(n, lo, hi) == IF n < lo THEN lo ELSE IF n > hi THEN hi ELSE n

-----------------------------------------------------------------------------
(* Rectangles. *)

Rect(x, y, w, h) == [x |-> x, y |-> y, w |-> w, h |-> h]
Empty(r) == r.w <= 0 \/ r.h <= 0
Right(r) == r.x + r.w
Bottom(r) == r.y + r.h
MiddleX(r) == r.x + Half(r.w)
MiddleY(r) == r.y + Half(r.h)

Contains(r, x, y) == r.x <= x /\ x < Right(r) /\ r.y <= y /\ y < Bottom(r)

Inflated(r, n) == IF Empty(r) THEN r ELSE Rect(r.x - n, r.y - n, r.w + 2 * n, r.h + 2 * n)

\* union_rect, of all of them
UnionOf(rects) ==
    LET some == {r \in rects : ~Empty(r)}
        left == Min({r.x : r \in some})
        top == Min({r.y : r \in some})
    IN  IF some = {} THEN Rect(0, 0, 0, 0)
        ELSE Rect(left, top, Max({Right(r) : r \in some}) - left,
                  Max({Bottom(r) : r \in some}) - top)

Clipped(r, frame) ==
    LET left == Clamp(r.x, 0, frame.w)
        top == Clamp(r.y, 0, frame.h)
    IN  Rect(left, top, Clamp(Right(r), 0, frame.w) - left,
             Clamp(Bottom(r), 0, frame.h) - top)

Within(r, o) ==
    Empty(r) \/ (r.x >= o.x /\ r.y >= o.y /\ Right(r) <= Right(o) /\ Bottom(r) <= Bottom(o))

Disjoint(r, o) ==
    \/ Empty(r) \/ Empty(o)
    \/ Right(r) <= o.x \/ Right(o) <= r.x \/ Bottom(r) <= o.y \/ Bottom(o) <= r.y

WholeFrame(frame) == Rect(0, 0, frame.w, frame.h)

-----------------------------------------------------------------------------
(* Themes on an output of another scale: ShellTheme::scaled_for_render.    *)

Times(n, k) == IF n = Unset THEN Unset ELSE n * k
\* A deviation: offsets stay as they are.
UnscaledPlace(p, k) == p
ScaledPlace(p, k) == [p EXCEPT !.x = @ * k, !.y = @ * k]
ScaledBackdrop(b, k) ==
    [b EXCEPT !.w = @ * k, !.h = @ * k, !.x = @ * k, !.y = @ * k, !.inset = @ * k]

\* The block of a text, laid out with a font k times as large, is k times as large.
Scaled(look, k) ==
    [look EXCEPT
       !.at = [w \in DOMAIN look.at |-> ScaledPlace(look.at[w], k)],
       !.size = [w \in DOMAIN look.size |->
                    [w |-> look.size[w].w * k, h |-> look.size[w].h * k]],
       !.backdrops = [i \in DOMAIN look.backdrops |-> ScaledBackdrop(look.backdrops[i], k)],
       !.power = [i \in DOMAIN look.power |->
                    [look.power[i] EXCEPT !.bg = Times(@, k), !.icon = @ * k,
                                          !.at = ScaledPlace(@, k)]],
       !.input = [w |-> Times(@.w, k), h |-> Times(@.h, k)],
       !.avatar = Times(@, k),
       !.side = [w \in DOMAIN look.side |-> Times(look.side[w], k)],
       !.chip = [w \in DOMAIN look.chip |-> Times(look.chip[w], k)],
       !.gap = [w \in DOMAIN look.gap |-> look.gap[w] * k],
       !.scale = k]

-----------------------------------------------------------------------------
(* Places. *)

AnchoredX(width, w, halign, x) ==
    CASE halign = "Left" -> x
      [] halign = "Center" -> width \div 2 - w \div 2 + x
      [] halign = "Right" -> width - w + x

AnchoredY(height, h, valign, y) ==
    CASE valign = "Top" -> y
      [] valign = "Center" -> height \div 2 - h \div 2 + y
      [] valign = "Bottom" -> height - h + y

\* The four insets are one here.
BackdropRect(frame, b) ==
    Rect(IF b.fullWidth THEN Lesser(b.inset, frame.w)
         ELSE AnchoredX(frame.w, b.w, b.halign, b.x),
         IF b.fullHeight THEN Lesser(b.inset, frame.h)
         ELSE AnchoredY(frame.h, b.h, b.valign, b.y),
         IF b.fullWidth THEN Greater(frame.w - 2 * b.inset, 0) ELSE b.w,
         IF b.fullHeight THEN Greater(frame.h - 2 * b.inset, 0) ELSE b.h)

\* The prewarm helper has its own copy, which centres by another rounding.
PreparedRect(frame, b) ==
    LET Start(halign, length, size, offset) ==
            CASE halign \in {"Left", "Top"} -> offset
              [] halign = "Center" -> Half(length - size) + offset
              [] OTHER -> length - size + offset
    IN  [BackdropRect(frame, b) EXCEPT
           !.x = IF b.fullWidth THEN @ ELSE Start(b.halign, frame.w, b.w, b.x),
           !.y = IF b.fullHeight THEN @ ELSE Start(b.valign, frame.h, b.h, b.y)]

\* Of two backdrops with one name, positions mean the one that is drawn first: the
\* lowest, and the first as written of those with the same z.
Container(look, frame, place) ==
    LET named == {i \in DOMAIN look.backdrops : look.backdrops[i].name = place.of}
        Z(i) == look.backdrops[i].z
        lowest == {i \in named : \A j \in named : Z(i) <= Z(j)}
    IN  IF place.of = Screen \/ named = {} THEN WholeFrame(frame)
        ELSE BackdropRect(frame, look.backdrops[Min(lowest)])

Positioned(look, frame, place, w, h) ==
    LET c == Container(look, frame, place)
    IN  Rect(c.x + AnchoredX(c.w, w, place.halign, place.x),
             c.y + AnchoredY(c.h, h, place.valign, place.y), w, h)

-----------------------------------------------------------------------------
(* What is shown. *)

InputShown(look, s) == s.revealed \/ ~look.hides
IdentityShown(look, s) == s.revealed \/ ~look.hides \/ look.keepsIdentity

\* status_text: a fingerprint message, the spinner's text, a verdict
HasMessage(s) == CASE s.status = "Idle" -> s.touch [] s.status = "Pending" -> FALSE
                   [] OTHER -> TRUE

\* scene_text_blocks: the message, or the hint how to reveal the prompt
StatusShown(look, s) ==
    IF InputShown(look, s) THEN ~look.inline /\ "status" \in look.on /\ HasMessage(s)
    ELSE look.hint /\ s.status = "Idle"

Floats(look, w) == w \in DOMAIN look.at

StatusFlows(look, s) ==
    ~(~look.inline /\ InputShown(look, s) /\ (Floats(look, "input") \/ Floats(look, "status")))

Flows(look, s, w) ==
    CASE w \in {"clock", "date"} -> w \in look.on /\ ~Floats(look, w)
      [] w \in {"avatar", "username"} ->
            w \in look.on /\ ~Floats(look, w) /\ IdentityShown(look, s)
      [] w = "input" -> InputShown(look, s) /\ ~Floats(look, w)
      [] w = "status" -> StatusShown(look, s) /\ StatusFlows(look, s)

\* SceneModel::standard; the order is that of Offset
Sections(look, s, role) ==
    {w \in IF role = "Hero" THEN {"clock", "date"}
           ELSE {"avatar", "username", "input", "status"} : Flows(look, s, w)}

-----------------------------------------------------------------------------
(* Heights. *)

\* SceneMetrics::new
Metrics(look, frame) ==
    LET short == Lesser(frame.w, frame.h)
        autoWidth == Clamp((7 * ((34 * frame.w) \div 100)) \div 10, 220, 320)
        autoHeight == Clamp((72 * frame.h) \div 1000, 48, 58)
    IN  [width |-> Clamp(IF look.input.w = Unset THEN autoWidth ELSE look.input.w,
                         180, Greater(560, frame.w \div 4)),
         height |-> Clamp(IF look.input.h = Unset THEN autoHeight ELSE look.input.h,
                          40, Greater(96, frame.h \div 8)),
         avatar |-> IF look.avatar = Unset THEN Clamp(short \div 7, 84, 108)
                    ELSE Clamp(look.avatar, 56, Greater(56, (4 * short) \div 5))]

InputRect(m, frame, y) == Rect(frame.w \div 2 - m.width \div 2, y, m.width, m.height)

HeightOf(look, m, w) ==
    CASE w = "avatar" -> m.avatar [] w = "input" -> m.height [] OTHER -> look.size[w].h

StatusGap == 14

GapAfter(look, secs, w) ==
    CASE w = "clock" -> IF "date" \in secs THEN Clamp(look.gap.clock, 0, 48) ELSE 0
      [] w = "avatar" -> Clamp(look.gap.avatar, 0, 96)
      [] w = "username" -> Clamp(look.gap.username, 0, 96)
      [] w = "input" -> IF "status" \in secs THEN StatusGap ELSE 0
      [] OTHER -> 0

Extent(look, m, secs, w) ==
    IF w \in secs THEN HeightOf(look, m, w) + GapAfter(look, secs, w) ELSE 0

\* How far below the top of its role a widget is.
Offset(look, m, secs, w) ==
    LET Of(v) == Extent(look, m, secs, v)
    IN  CASE w \in {"clock", "avatar"} -> 0
          [] w = "date" -> Of("clock")
          [] w = "username" -> Of("avatar")
          [] w = "input" -> Of("avatar") + Of("username")
          [] w = "status" -> Of("avatar") + Of("username") + Of("input")

TotalHeight(look, m, secs) ==
    LET last == IF secs \subseteq {"clock", "date"} THEN "date" ELSE "status"
    IN  Offset(look, m, secs, last) + Extent(look, m, secs, last)

\* A deviation: the status moves what is above it.
AnchorWithStatus(look, m, secs) == TotalHeight(look, m, secs)

\* anchor_height_for_role: without the status, unless there is nothing else
AnchorHeight(look, m, secs) ==
    TotalHeight(look, m, IF secs \subseteq {"status"} THEN secs ELSE secs \ {"status"})

HeroTop(frame) == Clamp(frame.h \div 14, 28, 72)

\* role_anchors_with_groups, when the hero is that high, and the rest without its status
\* and with it
AnchorsOf(frame, hero, anchor, render) ==
    LET apart == IF hero > 0 /\ anchor > 0 THEN 18 ELSE 0
        lowest == frame.h - render - 24
        highest == HeroTop(frame) + hero + apart
        packed == Greater(Half(frame.h - (hero + apart + render)), HeroTop(frame))
    IN  IF lowest < highest THEN [Hero |-> packed, Auth |-> packed + hero + apart]
        ELSE [Hero |-> HeroTop(frame),
              Auth |-> Clamp(frame.h \div 2 - anchor \div 2, highest, lowest)]

\* scene_layout
Anchors(look, frame, s) ==
    LET m == Metrics(look, frame)
        auth == Sections(look, s, "Auth")
    IN  AnchorsOf(frame, TotalHeight(look, m, Sections(look, s, "Hero")),
                  AnchorHeight(look, m, auth), TotalHeight(look, m, auth))

-----------------------------------------------------------------------------
(* The prompt: render_input_widget. *)

\* scaled_from_input_height
OfInput(rect, n) == Greater((Greater(rect.h, 1) * n + 27) \div 54, 1)

\* input_toggle_hitbox: the eye, the spinner and the caps lock sign are drawn here
ToggleBox(rect) ==
    LET room == Greater(rect.h - OfInput(rect, 8), 1)
        side == Greater(Lesser(OfInput(rect, 28), room), OfInput(rect, 18))
    IN  Rect(Right(rect) - side - OfInput(rect, 14), rect.y + Half(rect.h - side), side, side)

Waits(s) == s.status \in {"Pending", "Shown"}
Adorned(look, s) == Waits(s) \/ (s.capsLock /\ look.capsLock) \/ look.eye

ContentRect(look, s, rect) ==
    IF Adorned(look, s)
    THEN Rect(rect.x, rect.y,
              Greater(ToggleBox(rect).x - OfInput(rect, 10) - rect.x, 0), rect.h)
    ELSE rect

Draws(what, from, at) == [what |-> what, from |-> from, at |-> at]

\* input_shell_is_dynamic
BoxMoves(s) == s.selected \/ s.status = "Rejected"

InputDraws(look, s, from, rect, dynamic) ==
    (IF dynamic = BoxMoves(s) THEN {Draws("box", from, rect)} ELSE {})
    \cup (IF dynamic THEN {Draws("content", from, ContentRect(look, s, rect))} ELSE {})
    \cup (IF dynamic /\ Adorned(look, s)
          THEN {Draws("adornment", from, ToggleBox(rect))} ELSE {})

-----------------------------------------------------------------------------
(* Widgets that flow: render_role and render_section. *)

StaticFlow == {"avatar", "username"}

CentredAt(frame, y, size) == Rect(frame.w \div 2 - size.w \div 2, y, size.w, size.h)

\* hero_block_x
HeroRect(frame, y, size) ==
    Rect(Clamp(frame.w \div 2 - size.w \div 2, 0, Greater(frame.w - size.w, 0)), y,
         size.w, size.h)

SectionDraws(look, frame, s, w, y, dynamic) ==
    LET m == Metrics(look, frame)
        place == CASE w = "avatar" -> CentredAt(frame, y, [w |-> m.avatar, h |-> m.avatar])
                   [] w \in {"username", "status"} -> CentredAt(frame, y, look.size[w])
                   [] w \in {"clock", "date"} -> HeroRect(frame, y, look.size[w])
    IN  IF w = "input" THEN InputDraws(look, s, "flow", InputRect(m, frame, y), dynamic)
        ELSE IF dynamic = (w \in StaticFlow) THEN {} ELSE {Draws(w, "flow", place)}

RoleDraws(look, frame, s, role, dynamic) ==
    LET secs == Sections(look, s, role)
        top == Anchors(look, frame, s)[role]
        m == Metrics(look, frame)
    IN  UNION {SectionDraws(look, frame, s, w, top + Offset(look, m, secs, w), dynamic) :
                 w \in secs}

-----------------------------------------------------------------------------
(* Widgets that float. *)

FloatDraws(look, frame, w, size) ==
    {Draws(w, "float", Positioned(look, frame, look.at[w], size.w, size.h))}

FloatingIdentity(look, frame, s) ==
    LET side == Metrics(look, frame).avatar IN
    (IF "avatar" \in look.on /\ Floats(look, "avatar")
     THEN FloatDraws(look, frame, "avatar", [w |-> side, h |-> side]) ELSE {})
    \cup (IF "username" \in look.on /\ Floats(look, "username") /\ IdentityShown(look, s)
          THEN FloatDraws(look, frame, "username", look.size.username) ELSE {})

FloatingInputRect(look, frame) ==
    LET m == Metrics(look, frame)
    IN  Positioned(look, frame, look.at["input"], m.width, m.height)

\* floating_status_origin
FloatingStatusRect(look, frame, s) ==
    LET size == look.size.status IN
    IF Floats(look, "status") THEN Positioned(look, frame, look.at["status"], size.w, size.h)
    ELSE LET input == FloatingInputRect(look, frame)
         IN  Rect(input.x + Half(input.w - size.w),
                  IF look.at["input"].valign = "Bottom" THEN input.y - StatusGap - size.h
                  ELSE Bottom(input) + StatusGap,
                  size.w, size.h)

FloatingInput(look, frame, s, dynamic) ==
    (IF InputShown(look, s) /\ Floats(look, "input")
     THEN InputDraws(look, s, "float", FloatingInputRect(look, frame), dynamic) ELSE {})
    \cup (IF dynamic /\ StatusShown(look, s) /\ ~StatusFlows(look, s)
          THEN {Draws("status", "float", FloatingStatusRect(look, frame, s))} ELSE {})

FloatingHeader(look, frame) ==
    UNION {FloatDraws(look, frame, w, look.size[w]) :
             w \in {"clock", "date"} \cap look.on \cap DOMAIN look.at}

\* Weather and now playing are drawn only where the theme places them.
Placed == {"icon", "temperature", "location", "artwork", "artist", "title"}

\* The picture of the weather, without a size of its own, is as high as the
\* temperature; the texts of the player fill a box.
PlacedSize(look, frame, w) ==
    LET side == look.side
        short == Lesser(frame.w, frame.h)
        Square(n) == [w |-> n, h |-> n]
    IN  CASE w = "icon" ->
                Square(IF side.icon # Unset THEN Clamp(side.icon, 18, 96)
                       ELSE IF "temperature" \in look.on THEN look.size.temperature.h + 6 ELSE 40)
          [] w = "artwork" ->
                Square(IF side.artwork = Unset THEN 44 * look.scale
                       ELSE Clamp(side.artwork, 32 * look.scale,
                                  Greater(32 * look.scale, (4 * short) \div 5)))
          [] w \in {"artist", "title"} ->
                [w |-> Clamp(IF side[w] = Unset THEN 318 * look.scale ELSE side[w],
                             64 * look.scale, 640 * look.scale),
                 h |-> look.size[w].h]
          [] OTHER -> look.size[w]

PlacedDraws(look, frame) ==
    UNION {FloatDraws(look, frame, w, PlacedSize(look, frame, w)) :
             w \in Placed \cap look.on \cap DOMAIN look.at}

-----------------------------------------------------------------------------
(* Chips: the indicators and the power buttons. *)

\* top_right_chip_diameter
ChipSide(bg, size) ==
    IF bg = Unset THEN Clamp(Greater(size.w + 20, size.h + 16), 20, 160)
    ELSE IF bg <= 0 THEN Clamp(Greater(size.w, size.h), 1, 160)
    ELSE Clamp(bg, 20, 160)

\* draw_chip_block and draw_icon_chip keep a chip inside the frame.
KeptInside(frame, r) ==
    Rect(Clamp(r.x, 0, Greater(frame.w - r.w, 0)), Clamp(r.y, 0, Greater(frame.h - r.h, 0)),
         r.w, r.h)

Indicators == {"power_status", "keyboard", "battery"}

IndicatorDraws(look, frame, s) ==
    LET Shown(w) == w = "power_status" => s.status = "Idle"
        icon == IF look.side.battery = Unset THEN 18 ELSE look.side.battery
        glyph == Clamp(icon, 12, 96)
        Side(w) == ChipSide(look.chip[w], IF w = "battery" THEN [w |-> glyph, h |-> glyph]
                                          ELSE look.size[w])
        ChipAt(w) == KeptInside(frame, Positioned(look, frame, look.at[w], Side(w), Side(w)))
    IN  {Draws(w, "float", ChipAt(w)) :
            w \in {v \in Indicators \cap look.on \cap DOMAIN look.at : Shown(v)}}

\* power_button_rect
ButtonRect(look, frame, button) ==
    LET side == ChipSide(button.bg, [w |-> button.icon, h |-> button.icon])
    IN  Positioned(look, frame, button.at, side, side)

ButtonDraws(look, frame) ==
    {Draws(look.power[i].name, "float",
           KeptInside(frame, ButtonRect(look, frame, look.power[i]))) : i \in DOMAIN look.power}

-----------------------------------------------------------------------------
(* The passes: render_static_overlay, render_dynamic_overlay and           *)
(* render_auth_dirty_overlay.                                              *)

\* The backdrops of the static layer are always there, the others come with their data.
BackdropDraws(look, frame, always) ==
    {Draws(b.name, "backdrop", BackdropRect(frame, b)) :
        b \in {look.backdrops[i] : i \in {j \in DOMAIN look.backdrops :
                   /\ (look.backdrops[j].when = "always") = always
                   /\ look.backdrops[j].when \in look.shows}}}

StaticPass(look, frame, s) ==
    FloatingIdentity(look, frame, s) \cup FloatingInput(look, frame, s, FALSE)
    \cup RoleDraws(look, frame, s, "Hero", FALSE) \cup RoleDraws(look, frame, s, "Auth", FALSE)

DirtyPass(look, frame, s) ==
    RoleDraws(look, frame, s, "Auth", TRUE) \cup FloatingInput(look, frame, s, TRUE)

DynamicPass(look, frame, s) ==
    RoleDraws(look, frame, s, "Hero", TRUE) \cup RoleDraws(look, frame, s, "Auth", TRUE)
    \cup FloatingHeader(look, frame) \cup FloatingInput(look, frame, s, TRUE)
    \cup PlacedDraws(look, frame) \cup ButtonDraws(look, frame) \cup IndicatorDraws(look, frame, s)

\* auth_dirty_rect, before it is clipped
DirtyParts(look, frame, s) ==
    LET Padded(d) == IF d.what = "box" THEN Inflated(d.at, 8) ELSE d.at
        InputBoxes == {d \in StaticPass(look, frame, s) \cup DynamicPass(look, frame, s) :
                          d.what \in {"box", "status"}}
    IN  {Padded(d) : d \in InputBoxes}

Nowhere == Rect(0, 0, 0, 0)

DirtyRect(look, frame, s) ==
    Clipped(Inflated(UnionOf(DirtyParts(look, frame, s)), 12), frame)

-----------------------------------------------------------------------------
(* Clicks, on the frame in logical pixels and the theme as it is.          *)

\* reveal_toggle_rect_for_frame
EyeHit(look, frame, s) ==
    LET m == Metrics(look, frame)
        secs == Sections(look, s, "Auth")
    IN  IF ~look.eye \/ ~InputShown(look, s) THEN Nowhere
        ELSE IF Floats(look, "input") THEN ToggleBox(FloatingInputRect(look, frame))
        ELSE ToggleBox(InputRect(m, frame,
                 Anchors(look, frame, s).Auth + Offset(look, m, secs, "input")))

\* power_action_at: the first button there
ButtonsAt(look, frame, x, y) ==
    LET hit == {i \in DOMAIN look.power : Contains(ButtonRect(look, frame, look.power[i]), x, y)}
    IN  IF hit = {} THEN {} ELSE {look.power[Min(hit)].name}

-----------------------------------------------------------------------------
(* The emergency UI: no theme, and sizes by the scale k alone.             *)

EmergencyInput(frame, k) ==
    LET width == Clamp(frame.w - 64 * k, 260 * k, 440 * k)
    IN  Rect(frame.w \div 2 - width \div 2, frame.h \div 2 - 28 * k + 22 * k, width, 56 * k)

\* A line of text, at most as high as its distance to the next part.
Line(frame, k, y, height) ==
    LET input == EmergencyInput(frame, k)
    IN  Rect(frame.w \div 2 - input.w \div 2, y, input.w, height * k)

EmergencyStatic(frame, k) ==
    LET input == EmergencyInput(frame, k)
    IN  {Draws("title", "emergency", Line(frame, k, input.y - 72 * k, 38)),
         Draws("hint", "emergency", Line(frame, k, input.y - 34 * k, 34)),
         Draws("box", "emergency", input)}

EmergencyMessage(s) == s.status \in {"Shown", "Rejected"}

EmergencyDynamic(frame, k, s) ==
    LET input == EmergencyInput(frame, k)
    IN  {Draws("content", "emergency", input)}
        \cup (IF EmergencyMessage(s)
              THEN {Draws("status", "emergency", Line(frame, k, Bottom(input) + 18 * k, 24))}
              ELSE {})

-----------------------------------------------------------------------------
(* What the passes have to agree on. *)

Wanted(look, s) ==
    {w \in look.on \ {"status"} :
        CASE w = "avatar" -> Floats(look, w) \/ IdentityShown(look, s)
          [] w = "username" -> IdentityShown(look, s)
          [] w = "power_status" -> Floats(look, w) /\ s.status = "Idle"
          [] w \in Placed \cup {"keyboard", "battery"} -> Floats(look, w)
          [] OTHER -> TRUE}
    \cup {look.power[i].name : i \in DOMAIN look.power}
    \cup (IF InputShown(look, s) THEN {"box", "content"} ELSE {})
    \cup (IF InputShown(look, s) /\ Adorned(look, s) THEN {"adornment"} ELSE {})
    \cup (IF StatusShown(look, s) THEN {"status"} ELSE {})

\* No widget is drawn by both passes, by none, or in two places.
DrawnOnce(look, frame, s) ==
    LET all == ({"static"} \X StaticPass(look, frame, s))
                   \cup ({"dynamic"} \X DynamicPass(look, frame, s))
    IN  /\ {e[2].what : e \in all} = Wanted(look, s)
        /\ \A e, f \in all : e[2].what = f[2].what => e = f

\* The dirty pass draws nothing outside the rectangle that was copied back.
DirtyCovers(look, frame, s) ==
    \A d \in DirtyPass(look, frame, s) :
        Within(Clipped(d.at, frame), DirtyRect(look, frame, s))

\* What else is drawn over the layer has no part in the rectangle, so that it is not lost.
DirtyKeeps(look, frame, s) ==
    \A d \in (DynamicPass(look, frame, s) \ DirtyPass(look, frame, s))
                 \cup BackdropDraws(look, frame, FALSE) :
        Disjoint(Clipped(d.at, frame), DirtyRect(look, frame, s))

\* The rectangle reaches a little beyond the input, and so do its signs if it is high.
Wide(look, frame) == LET m == Metrics(look, frame) IN m.height <= m.width

\* The middle column has not moved up for want of room below it.
HasRoom(look, frame, s) ==
    LET m == Metrics(look, frame)
        auth == Sections(look, s, "Auth")
    IN  Anchors(look, frame, s).Auth + TotalHeight(look, m, auth) + 24 < frame.h

SameLayer(look, frame, s, t) == StaticPass(look, frame, s) = StaticPass(look, frame, t)

\* The middle of what is drawn on an output of scale k takes its clicks.
EyeIsHit(look, frame, k, s) ==
    LET big == [w |-> frame.w * k, h |-> frame.h * k]
        drawn == {d \in DirtyPass(Scaled(look, k), big, s) : d.what = "adornment"}
    IN  look.eye => \A d \in drawn :
          /\ Contains(EyeHit(look, frame, s), MiddleX(d.at) \div k, MiddleY(d.at) \div k)
          /\ ButtonsAt(look, frame, MiddleX(d.at) \div k, MiddleY(d.at) \div k) = {}

ButtonsAreHit(look, frame, k) ==
    \A d \in ButtonDraws(Scaled(look, k), [w |-> frame.w * k, h |-> frame.h * k]) :
        ButtonsAt(look, frame, MiddleX(d.at) \div k, MiddleY(d.at) \div k) = {d.what}

\* The emergency prompt is whole, in order, and on the screen.
EmergencyFits(frame, k, s) ==
    LET all == EmergencyStatic(frame, k) \cup EmergencyDynamic(frame, k, s)
    IN  \A d \in all :
          /\ Within(d.at, WholeFrame(frame))
          /\ \A o \in all \ {d} :
                \/ {d.what, o.what} = {"box", "content"}
                \/ Bottom(d.at) <= o.at.y \/ Bottom(o.at) <= d.at.y

\* A prepared backdrop is where the curtain would draw it, up to the rounding.
PreparedIsDrawn(look, frame) ==
    \A i \in DOMAIN look.backdrops :
        LET b == look.backdrops[i]
            mine == PreparedRect(frame, b)
            theirs == BackdropRect(frame, b)
        IN  /\ mine.x - theirs.x \in -1..1 /\ mine.y - theirs.y \in -1..1
            /\ frame.w % 2 = 0 /\ b.w % 2 = 0 => mine.x = theirs.x
            /\ frame.h % 2 = 0 /\ b.h % 2 = 0 => mine.y = theirs.y

=============================================================================
