---------------------------- MODULE MCShellInput ----------------------------
(* Values of the constants of ShellInput and ShellPicture for TLC. *)
EXTENDS ShellPicture

T(hides, eye, buttons, confirm, cached) ==
    [hides |-> hides, eye |-> eye, buttons |-> buttons,
     confirm |-> confirm, cached |-> cached]

\* A default theme, and one that hides the prompt and has no eye.
SomeThemes ==
    {T(FALSE, TRUE, {"reboot", "poweroff"}, TRUE, FALSE), T(TRUE, FALSE, {"reboot"}, TRUE, TRUE)}

\* By veilad with allow_empty_password, and by hand without it.
SomeLaunches ==
    {[socket |-> TRUE, allowEmpty |-> TRUE], [socket |-> FALSE, allowEmpty |-> FALSE]}

-----------------------------------------------------------------------------
\* Configurations: the default theme, one of the bundled themes with a card, and files
\* of users.

S(w, h) == [w |-> w, h |-> h]

SomeBlocks ==
    [clock |-> S(241, 106), date |-> S(180, 22), username |-> S(131, 34), status |-> S(363, 19),
     temperature |-> S(77, 48), location |-> S(120, 26), artist |-> S(318, 19),
     title |-> S(318, 19), power_status |-> S(140, 16), keyboard |-> S(22, 16)]

SomeData ==
    {{"username", "keyboard", "battery", "weather", "now_playing", "artwork", "artist",
      "power_status"},
     {"username", "now_playing"}}

Layer(flat, nested) == [flat |-> flat, nested |-> nested, color |-> FALSE]

PlayerPanel(z) ==
    Over([name |-> "now_playing", show_when |-> "now_playing", width |-> 400, height |-> 60,
          z |-> z], At("Right", "Bottom", -40, -40))
AuthPanel ==
    Over([name |-> "auth_panel", width |-> 540, height |-> 250, z |-> 0],
         At("Center", "Center", -180, 0))
SidePanel ==
    Over([name |-> "auth_panel", full_height |-> TRUE, width |-> 501, inset |-> 12],
         [halign |-> "Left", x |-> 40])

In(panel, place) == Over([relative_to |-> panel], place)

\* assets/themes/default.toml
Default ==
    Layer([backdrop |-> <<PlayerPanel(0)>>],
          [icon |-> At("Left", "Bottom", 40, -112),
           artwork |-> In("now_playing", At("Left", "Center", 10, 0)),
           artist |-> In("now_playing", At("Left", "Top", 65, 10)),
           title |-> In("now_playing", At("Left", "Bottom", 65, -10))])

\* assets/themes/kitty.toml
Kitty ==
    Layer([backdrop |-> <<PlayerPanel(1), AuthPanel>>],
          Over([clock |-> In("auth_panel", At("Center", "Top", 0, 0)),
                date |-> In("auth_panel", At("Center", "Center", 0, 20)),
                input |-> In("auth_panel", At("Center", "Bottom", 0, 0)),
                avatar |-> [enabled |-> FALSE], username |-> [enabled |-> FALSE]],
               Default.nested))

TwoButtons == [reboot |-> [enabled |-> TRUE], poweroff |-> [enabled |-> TRUE]]

With(nested) == Layer(NoKeys, Over(nested, TwoButtons))

\* The prompt in the middle column, as with files from before there were sections.
OldFile == [With([status |-> [mode |-> "external"], power_status |-> [enabled |-> TRUE]])
            EXCEPT !.flat = [input_width |-> 420, avatar_size |-> 90,
                             keyboard_background_size |-> 0],
                   !.color = TRUE]

\* Messages below or above the prompt, or in a place of their own.
Below == With([status |-> [mode |-> "external"], icon |-> [enabled |-> FALSE]])
Above == With([status |-> [mode |-> "external"], input |-> [valign |-> "Bottom", y |-> -40]])
Apart ==
    [With([status |-> In("auth_panel", [mode |-> "external", y |-> 20]),
           input |-> In("auth_panel", [width |-> 999, height |-> 30]),
           username |-> In("nowhere", [x |-> 9])])
     EXCEPT !.flat = [backdrop |-> <<SidePanel>>]]

\* The prompt hides, alone or with the name and the picture.
Hiding(mode, hint) ==
    Layer(NoKeys,
          [input |-> [reveal_on_interaction |-> TRUE, reveal_mode |-> mode],
           reveal |-> [mode |-> hint], status |-> [mode |-> "external"],
           eye |-> [enabled |-> FALSE], caps_lock |-> [enabled |-> FALSE],
           reboot |-> [enabled |-> TRUE, background_size |-> 0]])

SomeVisuals ==
    {Loaded(Stack(FALSE, Default, <<Default>>, <<>>, user)) :
        user \in {With(NoKeys), OldFile, Below, Hiding("input", "shown")}}
    \cup {Loaded(Stack(TRUE, Kitty, <<Default>>, <<user>>, With(NoKeys))) :
             user \in {With(NoKeys), Apart}}
    \cup {Loaded(Stack(FALSE, Default, <<>>, <<>>, user)) :
             user \in {Above, Hiding("full", "hidden")}}

SomeFrames == {S(1920, 1080), S(1367, 769), S(640, 360)}
=============================================================================
