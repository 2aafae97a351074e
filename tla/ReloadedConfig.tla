--------------------------- MODULE ReloadedConfig ---------------------------
(***************************************************************************)
(* What veilad has read (AutoReload) is a stack of layers (ConfigLayers):  *)
(* which files it holds depends on the edits, and on whether a theme and   *)
(* an include were there when they were read.                              *)
(***************************************************************************)
EXTENDS AutoReload, ConfigLayers

CONSTANTS
    Texts,          \* what the files may say of [visuals]
    DefaultTheme,   \* assets/themes/default.toml
    BundledTheme    \* the theme that is named, as it is bundled

\* The files of a configuration that was loaded.
Shape(read) ==
    [named |-> read.config.kind.themed, own |-> read.theme.is = "good",
     included |-> read.include.is = "good"]

Shapes == [named: BOOLEAN, own: BOOLEAN, included: BOOLEAN]

\* An own theme comes before a bundled one of its name.
StacksOf(shape) ==
    {Stack(shape.named, IF shape.own THEN theme ELSE BundledTheme, <<DefaultTheme>>,
           IF shape.included THEN <<include>> ELSE <<>>, user) :
        theme \in Texts, include \in Texts, user \in Texts}

Obeyed == {shape \in {s : s \in Shapes} : \A layers \in StacksOf(shape) : LastNamedIsUsed(layers)}

\* Whatever files were there when veilad read its configuration, and however they write
\* a setting, in a section or by the key it had before, the last file that names the
\* setting decides, but for the cases Exempt lists.
LastFileDecides == Shape(running) \in Obeyed
=============================================================================
