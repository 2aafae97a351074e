---------------------------- MODULE ConfigLayers ----------------------------
(***************************************************************************)
(* How the [visuals] of several files become one configuration             *)
(* (common/src/config/mod.rs), and how it is asked for a setting           *)
(* (common/src/config/visuals).                                            *)
(*                                                                         *)
(* A widget has a section, and some of its settings had a key of their own *)
(* before there were sections: a flat key, which is still read if the      *)
(* section leaves the setting out.  The built-in configuration has all     *)
(* sections; the default theme or the one that is named, the includes and  *)
(* the user's file are laid over it in this order.                         *)
(*                                                                         *)
(* A layer is [flat, nested, color]: the flat keys it has, the sections it *)
(* has and their keys, and whether input is a colour, as it was before it  *)
(* became a section.  Keys that are not there are not in the domains.  The *)
(* sections of weather, now_playing and power are named for their widget.  *)
(* Of the settings, those are kept that decide what is drawn where, or     *)
(* that are read in a way of their own; fonts and colours are read like    *)
(* sizes.                                                                  *)
(***************************************************************************)
EXTENDS Integers, Sequences, FiniteSetsExt

NoKeys == <<>>
Given(f, key, default) == IF key \in DOMAIN f THEN f[key] ELSE default
Over(f, g) == [k \in DOMAIN f \cup DOMAIN g |-> Given(f, k, Given(g, k, 0))]
Without(f, keys) == [k \in DOMAIN f \ keys |-> f[k]]

-----------------------------------------------------------------------------
(* The built-in configuration: VisualConfig::default. *)

At(halign, valign, x, y) == [halign |-> halign, valign |-> valign, x |-> x, y |-> y]

\* for_action: off, unless somebody turns it on
ButtonSection(x, confirm) ==
    Over([enabled |-> FALSE, background_size |-> 46, size |-> 20, confirm |-> confirm],
         At("Right", "Top", x, 21))

InputSection ==
    Over([width |-> 310, height |-> 54, reveal_on_interaction |-> FALSE, reveal_mode |-> "input"],
         At("Center", "Center", 0, 80))

HeaderSections ==
    [clock |-> Over([enabled |-> TRUE], At("Center", "Top", 0, 40)),
     date |-> Over([enabled |-> TRUE], At("Center", "Top", 0, 140))]

IdentitySections ==
    [avatar |-> Over([enabled |-> TRUE, size |-> 150], At("Center", "Center", 0, -120)),
     username |-> Over([enabled |-> TRUE], At("Center", "Center", 0, 0))]

PromptSections ==
    [input |-> InputSection, status |-> [enabled |-> TRUE, mode |-> "inline"],
     reveal |-> [mode |-> "shown"], eye |-> [enabled |-> TRUE], caps_lock |-> [enabled |-> TRUE]]

CornerSections ==
    [keyboard |-> Over([enabled |-> TRUE, background_size |-> 46, size |-> 16],
                       At("Right", "Top", -24, 21)),
     battery |-> Over([enabled |-> TRUE, background_size |-> 46, size |-> 20],
                      At("Right", "Top", -78, 21)),
     power_status |-> Over([enabled |-> FALSE], At("Right", "Top", -24, 17))]

ButtonSections ==
    [suspend |-> ButtonSection(-132, FALSE), reboot |-> ButtonSection(-186, TRUE),
     poweroff |-> ButtonSection(-240, TRUE)]

WeatherSections ==
    [icon |-> Over([enabled |-> TRUE, size |-> 40], At("Left", "Bottom", 40, -106)),
     temperature |-> Over([enabled |-> TRUE], At("Left", "Bottom", 40, -70)),
     location |-> Over([enabled |-> TRUE], At("Left", "Bottom", 40, -44))]

PlayerSections ==
    [now_playing |-> [enabled |-> TRUE],
     artwork |-> Over([enabled |-> TRUE, size |-> 44], At("Right", "Bottom", -388, -48)),
     artist |-> Over([enabled |-> TRUE, width |-> 318], At("Right", "Bottom", -58, -72)),
     title |-> Over([enabled |-> TRUE, width |-> 318], At("Right", "Bottom", -58, -50))]

BuiltInSections ==
    Over(HeaderSections, Over(IdentitySections, Over(PromptSections, Over(CornerSections,
        Over(ButtonSections, Over(WeatherSections, PlayerSections))))))

BuiltInPanel ==
    Over([name |-> "now_playing_panel", enabled |-> TRUE, show_when |-> "now_playing",
          width |-> 400, height |-> 60, z |-> 0],
         At("Right", "Bottom", -40, -40))

BuiltIn ==
    [flat |-> [input_width |-> 310, input_height |-> 54, avatar_size |-> 150,
               keyboard_size |-> 16, keyboard_background_size |-> 46,
               battery_size |-> 20, battery_background_size |-> 46,
               backdrop |-> <<BuiltInPanel>>],
     nested |-> BuiltInSections,
     color |-> FALSE]

-----------------------------------------------------------------------------
(* Loading: from_toml_str_with_theme_support. *)

\* What the accessors read if the section has no such key.
FlatKeys ==
    [input_width |-> <<"input", "width">>, input_height |-> <<"input", "height">>,
     avatar_size |-> <<"avatar", "size">>, avatar_radius |-> <<"avatar", "radius">>,
     keyboard_size |-> <<"keyboard", "size">>,
     keyboard_background_size |-> <<"keyboard", "background_size">>,
     battery_size |-> <<"battery", "size">>,
     battery_background_size |-> <<"battery", "background_size">>]

\* A deviation: one more flat key is forgotten.
MappingsWithoutBattery == Without(FlatKeys, {"avatar_radius", "battery_background_size"})

\* LEGACY_VISUAL_MAPPINGS
Mappings == Without(FlatKeys, {"avatar_radius"})

\* merge_config_layer: a flat key removes what lower layers have in the section, and
\* input changes between a colour and a table with all it holds.
Merged(under, over) ==
    LET shadowed == {Mappings[f] : f \in DOMAIN over.flat \cap DOMAIN Mappings}
        Kept(s) == IF s \in DOMAIN under.nested
                   THEN Without(under.nested[s], {k \in DOMAIN under.nested[s] : <<s, k>> \in shadowed})
                   ELSE NoKeys
        sections == (DOMAIN under.nested \cup DOMAIN over.nested)
                        \ (IF over.color THEN {"input"} ELSE {})
    IN  [flat |-> Over(over.flat, under.flat),
         nested |-> [s \in sections |-> Over(Given(over.nested, s, NoKeys), Kept(s))],
         color |-> over.color \/ (under.color /\ "input" \notin DOMAIN over.nested)]

MergedAll(layers) ==
    LET UpTo[i \in 1..Len(layers)] ==
            IF i = 1 THEN layers[1] ELSE Merged(UpTo[i - 1], layers[i])
    IN  UpTo[Len(layers)]

PositionKeys == {"halign", "valign", "x", "y", "relative_to"}

\* deserialize_toml_value: what the section of the input leaves out, but not its
\* position, is taken from InputVisualConfig::default.
Deserialized(v) ==
    IF "input" \in DOMAIN v.nested
    THEN [v EXCEPT !.nested["input"] = Over(@, Without(InputSection, PositionKeys))]
    ELSE v

\* A theme that is named replaces the default one; an include may be missing.
Stack(named, chosen, default, includes, user) ==
    <<BuiltIn>> \o (IF named THEN <<chosen>> ELSE default) \o includes \o <<user>>

Loaded(layers) == Deserialized(MergedAll(layers))

-----------------------------------------------------------------------------
(* Settings: the accessors of VisualConfig. *)

SectionOf(v, s) == Given(v.nested, s, NoKeys)

FlatOf(v, s, k, default) ==
    LET keys == {f \in DOMAIN v.flat \cap DOMAIN FlatKeys : FlatKeys[f] = <<s, k>>}
    IN  IF keys = {} THEN default ELSE v.flat[CHOOSE f \in keys : TRUE]

Setting(v, s, k, default) == Given(SectionOf(v, s), k, FlatOf(v, s, k, default))

Enabled(v, s) == Setting(v, s, "enabled", TRUE)

-----------------------------------------------------------------------------
(* What a user may rely on. *)

Names(layer, s, k) ==
    \/ k \in DOMAIN SectionOf(layer, s)
    \/ \E f \in DOMAIN layer.flat \cap DOMAIN FlatKeys : FlatKeys[f] = <<s, k>>

\* A flat key of the input counts only while input is a colour, and a section only
\* until it becomes one, even if the file has both; the flat radius of the avatar has
\* no mapping.
Exempt(layers, s, k, last) ==
    LET nested == {i \in DOMAIN layers : k \in DOMAIN SectionOf(layers[i], s)} IN
    \/ s = "input" /\ IF MergedAll(layers).color THEN last \in nested
                      ELSE last \notin nested \/ \E i \in last..Len(layers) : layers[i].color
    \/ <<s, k>> = <<"avatar", "radius">> /\ nested # {} /\ last \notin nested

LastNamedIsUsed(layers) ==
    \A sk \in {FlatKeys[f] : f \in DOMAIN FlatKeys} :
        LET s == sk[1]
            k == sk[2]
            named == {i \in DOMAIN layers : Names(layers[i], s, k)}
            last == Max(named)
        IN  named # {} /\ ~Exempt(layers, s, k, last)
                => Setting(Loaded(layers), s, k, -1) = Setting(layers[last], s, k, -1)

=============================================================================
