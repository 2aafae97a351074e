---------------------------- MODULE MCAutoReload ----------------------------
EXTENDS ReloadedConfig

Says(loads, auto, themed, bundled, includes) ==
    [loads |-> loads, auto |-> auto, themed |-> themed, bundled |-> bundled,
     includes |-> includes]

\* Broken, off with an include, on with a bundled theme, on with an include and a theme that
\* is not bundled.
SomeKinds ==
    {Says(FALSE, FALSE, FALSE, FALSE, FALSE), Says(TRUE, FALSE, FALSE, FALSE, TRUE),
     Says(TRUE, TRUE, TRUE, TRUE, FALSE), Says(TRUE, TRUE, TRUE, FALSE, TRUE)}
-----------------------------------------------------------------------------
\* Files with flat keys, with sections, with both, and with input as a colour.
Text(flat, nested, color) == [flat |-> flat, nested |-> nested, color |-> color]

SomeTexts ==
    {Text(NoKeys, NoKeys, FALSE),
     Text([battery_size |-> 30, avatar_size |-> 90, avatar_radius |-> 9, input_width |-> 420],
          NoKeys, FALSE),
     Text(NoKeys,
          [battery |-> [size |-> 24, background_size |-> 50],
           avatar |-> [size |-> 120, radius |-> 12], input |-> [width |-> 500]], FALSE),
     Text([input_height |-> 44, battery_background_size |-> 0], NoKeys, TRUE),
     Text([keyboard_size |-> 22, battery_size |-> 26, input_width |-> 300],
          [keyboard |-> [background_size |-> 40], battery |-> [x |-> -90],
           input |-> [width |-> 350]], FALSE)}

TheDefault == Text(NoKeys, [icon |-> At("Left", "Bottom", 40, -112)], FALSE)
TheBundled ==
    Text(NoKeys, [avatar |-> [size |-> 110], keyboard |-> [background_size |-> 38]], FALSE)
=============================================================================
