------------------------------ MODULE MCScene ------------------------------
(* Values of the constants of Scene for TLC. *)
EXTENDS Scene

CONSTANTS o1, o2, p1, p2, p3, plain, blurred

Own(o, p) == [x \in Outputs |-> IF x = o THEN p ELSE None]

Plain == [path |-> p1, own |-> [x \in Outputs |-> None], slides |-> FALSE,
          generated |-> FALSE, look |-> plain, single |-> FALSE, named |-> None,
          layers |-> FALSE, backdrops |-> FALSE]

\* One image, with layers and backdrops
Layered == [Plain EXCEPT !.layers = TRUE, !.backdrops = TRUE]
\* The prompt on a named output, an image of its own for it, another look
Overridden == [Plain EXCEPT !.own = Own(o2, p2), !.look = blurred, !.single = TRUE, !.named = o2]
\* A slide show, with one image that cannot be loaded, and one prompt
Slides == [Plain EXCEPT !.path = None, !.slides = TRUE, !.single = TRUE]
\* A generated background, the prompt on the output in use
Generated == [Layered EXCEPT !.path = None, !.generated = TRUE, !.single = TRUE]

SomeConfigs == {Layered, Overridden, Slides, Generated}

K(p, z, look, kind) == [src |-> p, size |-> z, look |-> look, kind |-> kind]

L(config, outputs, stored, changes) ==
    [config |-> config, outputs |-> outputs, stored |-> stored, changes |-> changes]

SomeLaunches ==
    {L(Layered, <<o1>>, {}, 1),
     L(Layered, <<o1, o2>>, {K(p1, 1, plain, "plain"), K(p1, 1, plain, "scene")}, 1),
     L(Overridden, <<o1, o2>>, {}, 1),
     L(Slides, <<o2>>, {}, 1),
     L(Generated, <<o2, o1>>, {K(None, 1, plain, "backdrop")}, 1),
     L(Generated, <<o2>>, {K(None, 1, plain, "backdrop")}, 2)}

SomeModes == [x \in Outputs |-> IF x = o1 THEN {1} ELSE {1, 2}]
SomeElsewhere == [src: {p2}, size: {1}, look: {plain}, kind: {"plain"}]
=============================================================================
