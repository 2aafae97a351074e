-------------------------------- MODULE Theme --------------------------------
(***************************************************************************)
(* The look of a configuration: ShellTheme::from_config                    *)
(* (ui/src/shell/theme/mod.rs), and the part of it for which there is data *)
(* (ui/src/shell/state.rs).                                                *)
(*                                                                         *)
(* v is a loaded configuration of ConfigLayers; data says what the daemon  *)
(* has sent; blocks are the sizes of the texts.  A section of v without    *)
(* any key of a position leaves its widget to the middle column.           *)
(***************************************************************************)
EXTENDS ConfigLayers, Layout

\* The settings every accessor of a widget reads: is it on, where is it?
Header == {"clock", "date"}
Identity == {"avatar", "username"}
Corner == {"keyboard", "battery", "power_status"}
Weather == {"icon", "temperature", "location"}
Player == {"artwork", "artist", "title"}

-----------------------------------------------------------------------------
(* Places. *)

\* Backdrops that are off are left out.  They are drawn by z; here they keep the place
\* where they are written.
ResolveBackdrops(v) ==
    LET written == v.flat.backdrop
        Resolved(b) ==
            [name |-> Given(b, "name", Screen),
             when |-> Given(b, "show_when", "always"),
             w |-> Greater(Given(b, "width", 560), 1), h |-> Greater(Given(b, "height", 600), 1),
             halign |-> Given(b, "halign", "Center"), valign |-> Given(b, "valign", "Top"),
             x |-> Given(b, "x", 0), y |-> Given(b, "y", 0), z |-> Given(b, "z", 0),
             fullWidth |-> Given(b, "full_width", FALSE),
             fullHeight |-> Given(b, "full_height", FALSE),
             inset |-> Clamp(Given(b, "inset", 0), 0, 4096)]
    IN  [i \in {j \in DOMAIN written : Given(written[j], "enabled", TRUE)} |->
            Resolved(written[i])]

IsPlaced(v, s) == DOMAIN SectionOf(v, s) \cap PositionKeys # {}

\* resolve_position: where a widget is if its section says so in part only
ResolvePosition(v, s, halign, valign) ==
    LET section == SectionOf(v, s)
    IN  [halign |-> Given(section, "halign", halign), valign |-> Given(section, "valign", valign),
         x |-> Given(section, "x", 0), y |-> Given(section, "y", 0),
         of |-> Given(section, "relative_to", Screen)]

WidgetPosition(v, s) ==
    CASE s \in Header -> ResolvePosition(v, s, "Center", "Top")
      [] s \in Identity \cup {"input", "status"} -> ResolvePosition(v, s, "Center", "Center")
      [] s \in Weather -> ResolvePosition(v, s, "Left", "Bottom")
      [] s \in Player -> ResolvePosition(v, s, "Right", "Bottom")
      [] OTHER -> ResolvePosition(v, s, "Right", "Top")

Widgets == Header \cup Identity \cup {"input", "status"} \cup Corner \cup Weather \cup Player

-----------------------------------------------------------------------------
(* Power buttons. *)

PowerActions == <<"suspend", "reboot", "poweroff">>

\* power_button: a section of its own, or for_action
ButtonOn(v, action) == Setting(v, action, "enabled", FALSE)
ButtonConfirms(v, action) == Setting(v, action, "confirm", action # "suspend")

ResolvePowerButton(v, action) ==
    [name |-> action, at |-> WidgetPosition(v, action),
     bg |-> Setting(v, action, "background_size", Unset),
     icon |-> Clamp(Setting(v, action, "size", 20), 12, 96)]

\* Buttons that are off are neither drawn nor hit.
PowerButtons(v) ==
    [i \in {j \in DOMAIN PowerActions : ButtonOn(v, PowerActions[j])} |->
        ResolvePowerButton(v, PowerActions[i])]

-----------------------------------------------------------------------------
(* What is on, by the accessors of each part of the configuration. *)

HeaderOn(v) == {w \in Header : Enabled(v, w)}

IdentityOn(v, data) ==
    {w \in Identity : Enabled(v, w) /\ (w = "username" => "username" \in data)}

CornerOn(v, data) ==
    {w \in Corner \cap data : Setting(v, w, "enabled", w # "power_status")}

WeatherOn(v, data) == {w \in Weather : Enabled(v, w) /\ "weather" \in data}

\* A track has a title, and perhaps an artist and a picture.
PlayerOn(v, data) ==
    {w \in Player : /\ Enabled(v, "now_playing") /\ Enabled(v, w)
                    /\ "now_playing" \in data /\ (w # "title" => w \in data)}

\* backdrop_visible
BackdropShows(v, data) ==
    {"always"}
    \cup (IF "battery" \in data THEN {"battery"} ELSE {})
    \cup (IF WeatherOn(v, data) # {} THEN {"weather"} ELSE {})
    \cup (IF Enabled(v, "now_playing") /\ "now_playing" \in data THEN {"now_playing"} ELSE {})

\* status_mode: in the prompt, or below it
StatusInline(v) == Setting(v, "status", "mode", "inline") # "external"
RevealHint(v) == Setting(v, "reveal", "mode", "shown") # "hidden"

\* Input as a colour has no section: it is always there, in the middle column.
InputHides(v) == Setting(v, "input", "reveal_on_interaction", FALSE)
InputSize(v) ==
    [w |-> Setting(v, "input", "width", Unset), h |-> Setting(v, "input", "height", Unset)]
IdentityStays(v) == Setting(v, "input", "reveal_mode", "input") = "input"

-----------------------------------------------------------------------------
FromConfig(v, data, blocks) ==
    [on |-> HeaderOn(v) \cup IdentityOn(v, data) \cup CornerOn(v, data) \cup WeatherOn(v, data)
            \cup PlayerOn(v, data) \cup {w \in {"status"} : Enabled(v, w)},
     shows |-> BackdropShows(v, data),
     at |-> [w \in {s \in Widgets : IsPlaced(v, s)} |-> WidgetPosition(v, w)],
     size |-> blocks,
     side |-> [battery |-> Setting(v, "battery", "size", Unset),
               icon |-> Setting(v, "icon", "size", Unset),
               artwork |-> Setting(v, "artwork", "size", Unset),
               artist |-> Setting(v, "artist", "width", Unset),
               title |-> Setting(v, "title", "width", Unset)],
     \* the text of the power status borrows the chip of the keyboard
     chip |-> [w \in Corner |-> Setting(v, IF w = "battery" THEN w ELSE "keyboard",
                                        "background_size", Unset)],
     backdrops |-> ResolveBackdrops(v),
     power |-> PowerButtons(v),
     input |-> InputSize(v),
     avatar |-> Setting(v, "avatar", "size", Unset),
     gap |-> [clock |-> 20, avatar |-> 24, username |-> 28],
     inline |-> StatusInline(v),
     hides |-> InputHides(v),
     keepsIdentity |-> IdentityStays(v),
     hint |-> RevealHint(v),
     eye |-> Enabled(v, "eye"),
     capsLock |-> Enabled(v, "caps_lock"),
     scale |-> 1]

-----------------------------------------------------------------------------
(* The types of ShellTheme, and of the VisualConfig it is made from.       *)
(* Numbers are of any size, but for z: of its 16 bits, one is the lowest.  *)

LookFields ==
    {"on", "shows", "at", "size", "side", "chip", "backdrops", "power", "input", "avatar", "gap",
     "inline", "hides", "keepsIdentity", "hint", "eye", "capsLock", "scale"}

HAligns == {"Left", "Center", "Right"}
VAligns == {"Top", "Center", "Bottom"}
Zs == {z \in Int : -32768 <= z /\ z <= 32767}
\* Any string; the two that stand for no name are told to the provers.
Strings == STRING \cup {Screen, "always"}

Placements == [halign: HAligns, valign: VAligns, x: Int, y: Int, of: Strings]

BackdropRecords ==
    [name: Strings, when: Strings, w: Nat, h: Nat, halign: HAligns, valign: VAligns,
     x: Int, y: Int, z: Zs, fullWidth: BOOLEAN, fullHeight: BOOLEAN, inset: Nat]

PowerRecords ==
    [name: {"suspend", "reboot", "poweroff"}, at: Placements, bg: Int, icon: Int]

\* All actions have one button at most.
IsLook(look) ==
    /\ DOMAIN look = LookFields
    /\ look.on \subseteq Widgets \ {"input"}
    /\ \A w \in DOMAIN look.at : look.at[w] \in Placements
    /\ {"clock", "date", "username", "status"} \subseteq DOMAIN look.size
    /\ \A w \in DOMAIN look.size : look.size[w] \in [w: Nat, h: Nat]
    /\ \A i \in DOMAIN look.backdrops : i \in Nat /\ look.backdrops[i] \in BackdropRecords
    /\ \A i \in DOMAIN look.power : look.power[i] \in PowerRecords
    /\ \A i, j \in DOMAIN look.power : look.power[i].name = look.power[j].name => i = j
    /\ look.input \in [w: Int, h: Int] /\ look.avatar \in Int
    /\ look.gap \in [clock: Int, avatar: Int, username: Int]

\* The numbers of a section, and all the keys whose type a look depends on.
Lengths == {"x", "y", "width", "height", "size", "radius", "background_size", "inset"}

IsSetting(k, value) ==
    /\ k \in Lengths => value \in Int
    /\ k = "z" => value \in Zs
    /\ k = "halign" => value \in HAligns
    /\ k = "valign" => value \in VAligns
    /\ k \in {"name", "relative_to", "show_when"} => value \in Strings
    /\ k \in {"enabled", "full_width", "full_height"} => value \in BOOLEAN

IsSection(f) == \A k \in DOMAIN f : IsSetting(k, f[k])

\* What serde lets through, whatever the files say.
IsVisual(v) ==
    /\ \A s \in DOMAIN v.nested : IsSection(v.nested[s])
    /\ \A f \in DOMAIN v.flat \cap DOMAIN FlatKeys : v.flat[f] \in Int
    /\ \A i \in DOMAIN v.flat.backdrop : i \in Nat /\ IsSection(v.flat.backdrop[i])

=============================================================================
