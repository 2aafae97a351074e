------------------------------- MODULE Scene -------------------------------
(***************************************************************************)
(* What the curtain shows on each output: the choice of the output with    *)
(* the prompt and of the picture behind it, the buffers a surface keeps,   *)
(* the loaders that bring pictures in the background, and the frames drawn *)
(* from them (curtain/src/{background,wayland/scene,reload.rs},            *)
(* wayland/handlers/session.rs, state/mod.rs).                             *)
(*                                                                         *)
(* A picture is what it was made from: the image, None standing for the    *)
(* generated or plain background, and the look, which is the treatment     *)
(* with the colour.  A frame of the prompt is kept as `base`               *)
(* (scene_base), a frame of the bare picture as `bg` (background); `fresh` *)
(* says that base has the current static_scene_revision.  ShellInput       *)
(* models what the prompt itself shows.                                    *)
(*                                                                         *)
(* Two loaders of the same work in the same phase are one: their events    *)
(* are equal, and what is installed twice is what is installed once.       *)
(***************************************************************************)
EXTENDS Naturals, FiniteSets, Sequences, SequencesExt

CONSTANTS
    Outputs, Paths, Looks,
    Modes,          \* the sizes each output may be configured with, as 1, 2, ...
    None,
    EmergencyLook,
    Unreadable,     \* the images that cannot be loaded
    Configs,        \* the configurations that may be loaded
    Launches,       \* how the curtain may start, and how much may happen to it
    Elsewhere,      \* what other processes may store while the curtain runs
    MayFail         \* may a frame fail to draw?

Nothing == [size |-> 0]
Sizes == UNION {Modes[o] : o \in Outputs}
Kinds == {"plain", "backdrop", "scene"}
Sources == Paths \cup {None}
Keys == [src: Sources, size: Sizes, look: Looks, kind: Kinds]

ConfigRecords ==
    [path: Sources, own: [Outputs -> Sources],  \* background.outputs
     slides: BOOLEAN, generated: BOOLEAN, look: Looks,
     single: BOOLEAN, named: Outputs \cup {None},   \* ui_mode, ui_output
     layers: BOOLEAN, backdrops: BOOLEAN]

ASSUME ModesAssumption == Modes \in [Outputs -> SUBSET (Nat \ {0})]
ASSUME PathsAssumption == IsFiniteSet(Paths)
ASSUME NoneAssumption == None \notin Paths \cup Outputs
ASSUME LooksAssumption == EmergencyLook \notin Looks
ASSUME ConfigsAssumption == Configs \subseteq ConfigRecords
ASSUME LaunchesAssumption ==
    \A l \in Launches : /\ l.config \in Configs /\ l.stored \subseteq Keys
                        /\ l.outputs \in Seq(Outputs) \ {<<>>}
                        /\ l.changes \in Nat   \* the changes and failures there may be
ASSUME ElsewhereAssumption == Elsewhere \subseteq Keys /\ MayFail \in BOOLEAN

VARIABLES
    app,        \* CurtainApp
    surf,       \* lock_surfaces
    jobs,       \* the threads of spawn_loader and spawn_preloader
    events,     \* background_events
    cache,      \* the files of the render cache
    odd,        \* history: one of the known races decided what is shown
    left        \* how many changes and failures are left

vars == <<app, surf, jobs, events, cache, odd, left>>

Picture(src, look) == [src |-> src, look |-> look]

-----------------------------------------------------------------------------
(* Which picture and which role a surface has. *)

\* background_path_for_surface
Selected(a, s) ==
    IF a.slides = <<>> /\ a.own[s.out] # None THEN a.own[s.out] ELSE a.path

Wanted(a, s) == Picture(Selected(a, s), a.look)

Sized(S) == {i \in DOMAIN S : S[i].size # 0}

Named(a, S) == {i \in DOMAIN S : S[i].out = a.named}

First(I) == CHOOSE i \in I : \A j \in I : i <= j

\* selected_ui_surface_index, 0 when there is no surface
PrimaryIndex(a, S) ==
    CASE Named(a, S) # {} -> First(Named(a, S))
      [] Named(a, S) = {} /\ a.focused \in Sized(S) -> a.focused
      [] OTHER -> IF Sized(S) # {} THEN First(Sized(S)) ELSE IF S = <<>> THEN 0 ELSE 1

RendersShell(a, S, i) == ~a.single \/ PrimaryIndex(a, S) = i

HasLayers(a) == a.layers /\ ~a.emergency

-----------------------------------------------------------------------------
(* The render cache, as the curtain reads it.  A variant has a name only   *)
(* outside the emergency UI, the one of a whole scene only with layers.    *)

Cached(a, C, s, kind) ==
    /\ [src |-> Selected(a, s), size |-> s.size, look |-> a.look, kind |-> kind] \in C
    /\ Selected(a, s) = None => a.generated
    /\ kind = "backdrop" => a.backdrops /\ ~a.emergency
    /\ kind = "scene" => HasLayers(a) /\ a.asStored

-----------------------------------------------------------------------------
(* Drawing one surface.  st is the state a handler has reached:            *)
(* [a, S, C, due, odd, error], where due is what loaders will still send.  *)

BaseMatches(a, s) ==
    s.fresh /\ s.path = Selected(a, s) /\ s.base.size = s.size

\* render_static_scene_overlay: layers wait until the curtain is ready
LayersWait(a) == ~a.ready /\ HasLayers(a)

WithBase(a, s, picture, layers) ==
    [s EXCEPT !.base = [size |-> s.size, picture |-> picture, layers |-> layers],
              !.fresh = TRUE, !.bg = Nothing, !.path = Selected(a, s)]

\* A frame of another picture than the selected one lasts when no loader is
\* going to send the right one: it was sent before, and is not stored yet.
Lasts(st, i, picture) ==
    /\ st.a.started /\ picture # Wanted(st.a, st.S[i])
    /\ Selected(st.a, st.S[i]) \notin Unreadable
    /\ <<Selected(st.a, st.S[i]), st.S[i].size>> \notin st.due

\* The size of a donor's frame counts, not the donor's own: it may be old.
Donors(a, S, i) ==
    {j \in DOMAIN S \ {i} : /\ S[j].fresh /\ S[j].path = Selected(a, S[i])
                            /\ S[j].base.size = S[i].size}

PutSurface(st, i, s) == [st EXCEPT !.S[i] = s]

\* "background buffer is unavailable", "scene base buffer is unavailable"
Unreachable(st) == [st EXCEPT !.error = "internal", !.a.broken = TRUE]

\* try_prepare_scene_base_without_background, once it found no match
BaseWithoutBackground(st, i) ==
    LET a == st.a
        s == st.S[i]
        donor == st.S[First(Donors(a, st.S, i))]
    IN  CASE Cached(a, st.C, s, "scene") ->
                PutSurface(st, i, WithBase(a, s, Wanted(a, s), TRUE))
          [] ~Cached(a, st.C, s, "scene") /\ Donors(a, st.S, i) # {} ->
                PutSurface(st, i, WithBase(a, s, donor.base.picture, donor.base.layers))
          [] OTHER ->
                [PutSurface(st, i, WithBase(a, s, Wanted(a, s), HasLayers(a) /\ a.ready))
                    EXCEPT !.a.pending = @ \/ LayersWait(a)]

CanDoWithoutBackground(st, i) ==
    \/ Cached(st.a, st.C, st.S[i], "scene")
    \/ Donors(st.a, st.S, i) # {}
    \/ Cached(st.a, st.C, st.S[i], "backdrop")

\* A missing background that counts as in order
MissingIsInOrder(a, s) == (s.bg # Nothing /\ s.bg.size # s.size) \/ s.path # Selected(a, s)

\* Does prepare_background draw the bare picture again?
StaleBackground(a, s) == s.bg.size # s.size \/ s.path # Selected(a, s)

\* prepare_background
PrepareBackground(st, i) ==
    LET a == st.a
        s == st.S[i]
        hit == Cached(a, st.C, s, "plain")
        picture == IF hit THEN Wanted(a, s) ELSE a.asset
    IN  IF StaleBackground(a, s)
        THEN [st EXCEPT !.S[i].bg = [size |-> s.size, picture |-> picture],
                        !.S[i].path = Selected(a, s),
                        !.odd = @ \/ Lasts(st, i, picture)]
        ELSE st

\* prepare_scene_base, after prepare_background.  The background is dropped.
PrepareSceneBase(st, i, refreshed) ==
    LET s == st.S[i]
    IN  CASE ~refreshed /\ s.base.size = s.size /\ s.fresh ->
                PutSurface(st, i, [s EXCEPT !.bg = Nothing])
          [] (refreshed \/ s.base.size # s.size \/ ~s.fresh) /\ BaseMatches(st.a, s) -> st
          [] OTHER ->
                IF CanDoWithoutBackground(st, i) THEN BaseWithoutBackground(st, i)
                ELSE IF s.bg = Nothing THEN Unreachable(st)
                ELSE [PutSurface(st, i, WithBase(st.a, s, s.bg.picture,
                                                 HasLayers(st.a) /\ st.a.ready))
                        EXCEPT !.a.pending = @ \/ LayersWait(st.a)]

Shows(s, prompt, buffer) ==
    [s EXCEPT !.pool = TRUE,
              !.shown = [prompt |-> prompt, picture |-> buffer.picture,
                         layers |-> prompt = "all" /\ buffer.layers]]

CommitPrompt(st, i) ==
    IF st.error # "none" THEN st
    ELSE IF st.S[i].base.size # st.S[i].size THEN Unreachable(st)
    ELSE PutSurface(st, i, Shows(st.S[i], "all", st.S[i].base))

\* render_surface of the surface with the prompt
DrawPrompt(st, i) ==
    CommitPrompt(IF BaseMatches(st.a, st.S[i]) THEN st
                 ELSE IF CanDoWithoutBackground(st, i) THEN BaseWithoutBackground(st, i)
                 ELSE PrepareSceneBase(PrepareBackground(st, i), i,
                                       StaleBackground(st.a, st.S[i])), i)

\* commit_background_only, which leaves the frame it shows in place
CommitPicture(st, i, refreshed) ==
    IF ~refreshed /\ st.S[i].pool THEN st
    ELSE PutSurface(st, i, Shows(st.S[i], "none",
                                 [picture |-> st.S[i].bg.picture, layers |-> FALSE]))

\* render_surface of another surface
DrawPicture(st, i) ==
    CommitPicture(PrepareBackground(st, i), i, StaleBackground(st.a, st.S[i]))

RenderSurface(st, i, fails) ==
    IF i \in fails THEN [st EXCEPT !.error = "draw"]
    ELSE IF RendersShell(st.a, st.S, i) THEN DrawPrompt(st, i)
    ELSE DrawPicture(st, i)

-----------------------------------------------------------------------------
(* Drawing with the emergency UI as the fallback, and all surfaces. *)

WithoutFrames(s) == [s EXCEPT !.path = None, !.bg = Nothing, !.base = Nothing, !.fresh = FALSE]

\* activate_emergency_ui
ActivateEmergency(st) ==
    [st EXCEPT
        !.a = [@ EXCEPT !.emergency = TRUE, !.path = None, !.own = [o \in Outputs |-> None],
                        !.slides = <<>>, !.generated = FALSE, !.look = EmergencyLook,
                        !.asset = Picture(None, EmergencyLook),
                        !.single = FALSE, !.named = None, !.pending = TRUE],
        !.S = [i \in DOMAIN @ |-> WithoutFrames(@[i])],
        !.odd = FALSE]

\* What a drawing error does once there is no fallback left
GiveUp(st) == IF st.error = "none" THEN st ELSE [st EXCEPT !.a.failed = st.error]

Fallback(st, i, plan) ==
    IF st.error # "none" /\ ~st.a.emergency
    THEN GiveUp(RenderSurface([ActivateEmergency(st) EXCEPT !.error = "none"],
                              i, IF plan.again THEN {plan.at} ELSE {}))
    ELSE GiveUp(st)

\* render_surface_with_emergency_fallback: plan.at is the surface whose frame
\* fails to draw, plan.again says that it fails with the emergency UI too.
RenderWithFallback(st, i, plan) ==
    IF st.a.failed # "none" THEN st
    ELSE Fallback(RenderSurface(st, i, {plan.at}), i, plan)

\* render_all_surfaces, one after the other
RenderNext(st, i, plan) == IF st.S[i].size # 0 THEN RenderWithFallback(st, i, plan) ELSE st

RenderAll(st, plan) ==
    IF ~st.a.ready THEN [st EXCEPT !.a.pending = TRUE]
    ELSE LET UpTo[n \in 0 .. Len(st.S)] ==
                 IF n = 0 THEN st ELSE RenderNext(UpTo[n - 1], n, plan)
         IN  UpTo[Len(st.S)]

Smooth == [at |-> 0, again |-> FALSE]
Plans(S) ==
    {Smooth} \cup
    (IF MayFail THEN [at: DOMAIN S, again: BOOLEAN] ELSE {})

-----------------------------------------------------------------------------
(* Loaders. *)

UnsentSizes(j) == IF j.preload \/ j.phase = "store" THEN {} ELSE j.sizes
Due(J, E) ==
    (UNION {{<<j.src, z>> : z \in UnsentSizes(j)} : j \in J}) \cup
    (UNION {{<<E[k].src, z>> : z \in E[k].sizes} : k \in DOMAIN E})

Loader(a, src, sizes, preload) ==
    [src |-> src, look |-> a.look, sizes |-> sizes, preload |-> preload, phase |-> "lookup"]

\* background_render_specs: no work at all while a surface with an image waits
\* for its size
ImageSurfaces(a, S) == {i \in DOMAIN S : Selected(a, S[i]) # None}
Specs(a, S) ==
    IF ImageSurfaces(a, S) \subseteq Sized(S)
    THEN {Loader(a, p, {S[i].size : i \in {k \in ImageSurfaces(a, S) : Selected(a, S[k]) = p}},
                 FALSE) : p \in {Selected(a, S[i]) : i \in ImageSurfaces(a, S)}}
    ELSE {}

\* next_preload_path wraps to the start of the sequence, whatever comes next
NextPreload(sl) == sl.order[IF sl.at = Len(sl.order) THEN 1 ELSE sl.at + 1]

\* preload_next_slideshow_background
Preloads(a, S) ==
    IF a.slides = <<>> \/ Sized(S) = {} THEN {}
    ELSE {Loader(a, NextPreload(a.slides), {S[i].size : i \in Sized(S)}, TRUE)}

\* maybe_start_background_render
StartsLoading(a, S) == ~a.started /\ Specs(a, S) # {}
NewJobs(a, S) == IF StartsLoading(a, S) THEN Specs(a, S) \cup Preloads(a, S) ELSE {}

-----------------------------------------------------------------------------
(* What every handler ends in. *)

Now == [a |-> app, S |-> surf, C |-> cache, due |-> Due(jobs, events),
        odd |-> odd, error |-> "none"]

Becomes(st) == \E t \in {st} : app' = t.a /\ surf' = t.S /\ odd' = t.odd

Running == app.failed = "none"
Spends(n) == Running /\ left >= n /\ left' = left - n
Failures(plan) == IF plan = Smooth THEN 0 ELSE 1
Change == Spends(1)
ChangeWith(plan) == Spends(1 + Failures(plan))
Handles(plan) == Spends(Failures(plan))

NewSurface(o) ==
    [out |-> o, size |-> 0, path |-> None, bg |-> Nothing, base |-> Nothing, fresh |-> FALSE,
     pool |-> FALSE, shown |-> [prompt |-> "none", picture |-> Nothing, layers |-> FALSE]]

-----------------------------------------------------------------------------
(* Readiness. *)

\* refresh_scene_base_after_ready
RefreshAfterReady(st) ==
    IF HasLayers(st.a) /\ \E i \in DOMAIN st.S : st.S[i].base = Nothing \/ ~st.S[i].base.layers
    THEN [st EXCEPT !.S = [i \in DOMAIN @ |-> [@[i] EXCEPT !.base = Nothing, !.fresh = FALSE]],
                    !.a.pending = TRUE]
    ELSE st

\* maybe_notify_ready
MaybeReady(st) ==
    IF ~st.a.ready /\ st.a.locked /\ st.S # <<>> /\ Sized(st.S) = DOMAIN st.S
    THEN RefreshAfterReady([st EXCEPT !.a.ready = TRUE])
    ELSE st

\* flush_pending_pre_ready_redraw
FlushPending(st, plan) ==
    IF st.a.ready /\ st.a.pending THEN RenderAll([st EXCEPT !.a.pending = FALSE], plan) ELSE st

-----------------------------------------------------------------------------
(* The compositor: outputs, sizes, the lock, the focus. *)

\* create_surface_for_output
NewOutput(o) ==
    /\ Change
    /\ \A i \in DOMAIN surf : surf[i].out # o
    /\ surf' = Append(surf, NewSurface(o))
    /\ app' = [app EXCEPT !.started = FALSE]
    /\ UNCHANGED <<jobs, events, cache, odd>>

\* output_destroyed: the index of the focus moves with its surface, nothing is drawn
OutputDestroyed(i) ==
    /\ Change
    /\ surf' = RemoveAt(surf, i)
    /\ app' = [app EXCEPT !.focused = IF @ = i THEN 0 ELSE IF @ > i THEN @ - 1 ELSE @]
    /\ UNCHANGED <<jobs, events, cache, odd>>

Readies(st, plan) ==
    IF st.a.failed # "none" THEN st ELSE FlushPending(MaybeReady(st), plan)

\* The frames of a surface that a redraw may use again
Frames(s) == {f \in {s.bg} : f # Nothing} \cup {f \in {s.base} : s.fresh}

\* A surface that changes its size keeps its frames of the old size: what waits
\* there for its picture has left the place where that is going to be installed.
LeftBehind(a, s) == \E f \in Frames(s) : f.size # s.size /\ f.picture # Wanted(a, s)

\* Nobody was told of the new size, and the picture is not the one at hand.
Unserved(st, s, J) ==
    /\ st.a.started /\ Selected(st.a, s) \notin Unreadable \cup {None}
    /\ st.a.asset # Wanted(st.a, s) /\ ~Cached(st.a, st.C, s, "plain")
    /\ \A j \in J : ~j.preload /\ Picture(j.src, j.look) = Wanted(st.a, s) => s.size \notin j.sizes

Resized(st, i, J) ==
    [st EXCEPT !.odd = @ \/ LeftBehind(st.a, st.S[i]) \/ Unserved(st, st.S[i], J)]

\* configure_surface.  Only the first size of a surface is not a change from outside.
ConfigureSurface(i, z, plan) ==
    LET sized == [surf EXCEPT ![i].size = z]
    IN  /\ z \in Modes[surf[i].out] \ {surf[i].size}
        /\ IF surf[i].size = 0 THEN Handles(plan) ELSE ChangeWith(plan)
        /\ jobs' = jobs \cup NewJobs(app, sized)
        /\ Becomes(Readies(Resized(
                RenderWithFallback([Now EXCEPT !.S = sized, !.due = Due(jobs', events),
                                               !.a.started = @ \/ StartsLoading(app, sized)],
                                   i, plan), i, jobs'), plan))
        /\ UNCHANGED <<events, cache>>

\* configure_surface again, with the size the surface has: it is drawn once more
ReconfigureSurface(i, plan) ==
    /\ ChangeWith(plan)
    /\ surf[i].size # 0
    /\ jobs' = jobs \cup NewJobs(app, surf)
    /\ Becomes(Readies(
            RenderWithFallback([Now EXCEPT !.due = Due(jobs', events),
                                           !.a.started = @ \/ StartsLoading(app, surf)],
                               i, plan), plan))
    /\ UNCHANGED <<events, cache>>

Locked(plan) ==
    /\ Handles(plan) /\ ~app.locked
    /\ Becomes(FlushPending(MaybeReady([Now EXCEPT !.a.locked = TRUE]), plan))
    /\ UNCHANGED <<jobs, events, cache>>

\* scale_factor_changed and preferred_scale: without the emergency fallback
Rescale(i, z, plan) ==
    /\ ChangeWith(plan)
    /\ surf[i].size # 0 /\ z \in Modes[surf[i].out] \ {surf[i].size}
    /\ Becomes(Resized(GiveUp(RenderSurface([Now EXCEPT !.S[i].size = z], i, {plan.at})), i, jobs))
    /\ UNCHANGED <<jobs, events, cache>>

\* note_surface_activity
Focus(i, plan) ==
    LET st == [Now EXCEPT !.a.focused = i]
    IN  /\ ChangeWith(plan)
        /\ app.focused # i
        /\ Becomes(IF PrimaryIndex(st.a, surf) # PrimaryIndex(app, surf)
                   THEN RenderAll(st, plan) ELSE st)
        /\ UNCHANGED <<jobs, events, cache>>

-----------------------------------------------------------------------------
(* Redraws: the clock, the shell, keys. *)

Tick(plan) ==
    /\ Handles(plan)
    /\ Becomes(RenderAll(Now, plan))
    /\ UNCHANGED <<jobs, events, cache>>

\* A change of the static layer, asStored when the stored scene still shows it;
\* an avatar that was loaded is one (AvatarReady, set_avatar)
ShellChanges(asStored, plan) ==
    /\ ChangeWith(plan)
    /\ Becomes(RenderAll([Now EXCEPT !.a.asStored = asStored,
                                     !.S = [i \in DOMAIN @ |-> [@[i] EXCEPT !.fresh = FALSE]]],
                         plan))
    /\ UNCHANGED <<jobs, events, cache>>

\* render_auth_dirty_surface: the prompt alone, unless there is no frame to draw it on
DrawDirty(st, i) ==
    LET s == st.S[i]
    IN  IF s.base.size # s.size \/ ~s.fresh \/ ~s.pool THEN GiveUp(RenderSurface(st, i, {}))
        ELSE [st EXCEPT !.S[i].shown.prompt = IF @ = "none" THEN "part" ELSE @]

\* render_auth_dirty_surfaces, those that have the prompt before the first is drawn
DrawNextDirty(st, i) ==
    IF surf[i].size # 0 /\ RendersShell(app, surf, i) /\ st.a.failed = "none"
    THEN DrawDirty(st, i) ELSE st

DrawAllDirty(st) ==
    IF ~st.a.ready THEN [st EXCEPT !.a.pending = TRUE]
    ELSE LET UpTo[n \in 0 .. Len(st.S)] ==
                 IF n = 0 THEN st ELSE DrawNextDirty(UpTo[n - 1], n)
         IN  UpTo[Len(st.S)]

KeyPressed ==
    /\ Running
    /\ Becomes(DrawAllDirty(Now))
    /\ UNCHANGED <<jobs, events, cache, left>>

-----------------------------------------------------------------------------
(* New sources of the picture: the slide show and the configuration. *)

\* The loaders, once everything is drawn
ThenLoads(st) ==
    /\ Becomes([st EXCEPT !.a.started = StartsLoading(st.a, st.S)])
    /\ jobs' = jobs \cup NewJobs(st.a, st.S)
    /\ UNCHANGED <<events, cache>>

\* reset_background_source_state, the redraw and the loaders
WithNewSource(a, plan) ==
    LET bare == [a EXCEPT !.started = FALSE]
    IN  \E st \in {RenderAll([Now EXCEPT !.a = bare, !.odd = FALSE,
                                        !.S = [i \in DOMAIN @ |-> WithoutFrames(@[i])],
                                        !.due = @ \cup Due(NewJobs(bare, surf), <<>>)], plan)} :
            ThenLoads(st)

\* slideshow_sequence: from a given image on, in order or shuffled
Orders(p) == {o \in [1..Cardinality(Paths) -> Paths] : o[1] = p /\ IsInjective(o)}

\* BackgroundSlideshow::advance.  A new round starts with the image that ended
\* the last one, which is shown twice.
Advanced(sl) ==
    IF sl.at < Len(sl.order) THEN {[sl EXCEPT !.at = @ + 1]}
    ELSE {[order |-> o, at |-> 1] : o \in Orders(Last(sl.order))}

AdvanceSlides(plan) ==
    /\ ChangeWith(plan)
    /\ app.slides # <<>>
    /\ \E sl \in Advanced(app.slides) :
        WithNewSource([app EXCEPT !.slides = sl, !.path = sl.order[sl.at]], plan)

\* What a configuration says of the fields of CurtainApp
Configured(a, c, sl) ==
    [a EXCEPT !.path = IF c.slides THEN sl.order[sl.at] ELSE c.path,
              !.own = c.own, !.slides = IF c.slides THEN sl ELSE <<>>,
              !.generated = c.generated, !.look = c.look,
              !.asset = Picture(None, c.look),
              !.single = c.single, !.named = c.named,
              !.layers = c.layers, !.backdrops = c.backdrops]

Starts == {[order |-> o, at |-> 1] : o \in UNION {Orders(p) : p \in Paths}}

Reload(c, plan) ==
    /\ ChangeWith(plan)
    /\ \E sl \in (IF c.slides THEN Starts ELSE {<<>>}) :
        WithNewSource([Configured(app, c, sl) EXCEPT !.asStored = TRUE], plan)

-----------------------------------------------------------------------------
(* The threads of the loaders. *)

Key(j, z) == [src |-> j.src, size |-> z, look |-> j.look, kind |-> "plain"]
Hits(j) == {z \in j.sizes : Key(j, z) \in cache}

Sent(j, kind, sizes) ==
    [kind |-> kind, src |-> j.src, look |-> j.look, sizes |-> sizes]

\* load_cached_buffers, then BuffersReady for what was found
LookUp(j) ==
    LET rest == [j EXCEPT !.sizes = @ \ Hits(j), !.phase = "render"]
    IN  /\ Running /\ j \in jobs /\ j.phase = "lookup"
        /\ jobs' = (jobs \ {j}) \cup
                   (IF j.preload /\ rest.sizes = {} THEN {} ELSE {rest})
        /\ events' = IF j.preload \/ Hits(j) = {} THEN events
                     ELSE Append(events, Sent(j, "cached", Hits(j)))
        /\ UNCHANGED <<app, surf, cache, odd, left>>

\* load_buffers: the image is loaded whether or not a size is left to draw
RenderBuffers(j) ==
    /\ Running /\ j \in jobs /\ j.phase = "render"
    /\ IF j.src \in Unreadable
       THEN /\ jobs' = jobs \ {j}
            /\ events' = IF j.preload THEN events ELSE Append(events, Sent(j, "failed", {}))
       ELSE /\ jobs' = (jobs \ {j}) \cup
                       (IF j.sizes = {} THEN {} ELSE {[j EXCEPT !.phase = "store"]})
            /\ events' = IF j.preload THEN events
                         ELSE events \o <<Sent(j, "asset", {})>> \o
                              (IF j.sizes = {} THEN <<>> ELSE <<Sent(j, "drawn", j.sizes)>>)
    /\ UNCHANGED <<app, surf, cache, odd, left>>

\* store_cached_buffers
Store(j) ==
    /\ Running /\ j \in jobs /\ j.phase = "store"
    /\ jobs' = jobs \ {j}
    /\ cache' = cache \cup {Key(j, z) : z \in j.sizes}
    /\ UNCHANGED <<app, surf, events, odd, left>>

\* The prewarm of veilad, or the curtain of another session
StoredElsewhere(k) ==
    /\ Change
    /\ k \in Elsewhere \ cache
    /\ cache' = cache \cup {k}
    /\ UNCHANGED <<app, surf, jobs, events, odd>>

-----------------------------------------------------------------------------
(* drain_background_events. *)

\* "skipping redundant deferred background rerender"
Redundant(a, s, e) == e.kind = "cached" /\ BaseMatches(a, s)

Takes(a, s, e) == Selected(a, s) = e.src /\ s.size \in e.sizes /\ ~Redundant(a, s, e)

\* A scene base that outlives the picture it was made from
InstalledUnderOldBase(s, e) ==
    [s EXCEPT !.bg = [size |-> s.size, picture |-> Picture(e.src, e.look)], !.path = e.src]

Installed(s, e) ==
    [s EXCEPT !.bg = [size |-> s.size, picture |-> Picture(e.src, e.look)], !.path = e.src,
              !.base = Nothing, !.fresh = FALSE]

\* What arrives is taken by its path and size alone: it may have an old look,
\* and a cached one may be dropped though a frame shows another picture.
Mistaken(a, s, e) ==
    /\ Selected(a, s) = e.src /\ s.size \in e.sizes
    /\ IF Redundant(a, s, e) THEN \E f \in Frames(s) : f.picture # Wanted(a, s)
       ELSE e.look # a.look

BuffersReady(e, plan) ==
    LET taken == {i \in DOMAIN surf : Takes(app, surf[i], e)}
        st == [Now EXCEPT
                !.S = [i \in DOMAIN @ |-> IF i \in taken THEN Installed(@[i], e)
                                          ELSE IF Selected(app, @[i]) = e.src /\ @[i].size = 0
                                          THEN [@[i] EXCEPT !.bg = Nothing] ELSE @[i]],
                !.due = Due(jobs, Tail(events)),
                !.odd = @ \/ \E i \in DOMAIN surf : Mistaken(app, surf[i], e)]
    IN  Becomes(IF taken = {} THEN st ELSE RenderAll(st, plan))

AssetReady(e) ==
    /\ app' = IF app.path = e.src THEN [app EXCEPT !.asset = Picture(e.src, e.look)] ELSE app
    /\ odd' = (odd \/ (app.path = e.src /\ e.look # app.look))
    /\ UNCHANGED surf

DrainEvent(plan) ==
    /\ Handles(plan) /\ events # <<>>
    /\ events' = Tail(events)
    /\ CASE Head(events).kind = "asset" -> AssetReady(Head(events))
         [] Head(events).kind = "failed" -> UNCHANGED <<app, surf, odd>>
         [] OTHER -> BuffersReady(Head(events), plan)
    /\ UNCHANGED <<jobs, cache>>

-----------------------------------------------------------------------------
\* CurtainApp::new, acquire_lock
Fresh ==
    [path |-> None, own |-> [o \in Outputs |-> None], slides |-> <<>>, generated |-> FALSE,
     look |-> EmergencyLook, asset |-> Picture(None, EmergencyLook), single |-> FALSE,
     named |-> None, layers |-> FALSE, backdrops |-> FALSE, asStored |-> TRUE,
     ready |-> FALSE, locked |-> FALSE, pending |-> FALSE, started |-> FALSE,
     emergency |-> FALSE, focused |-> 0, failed |-> "none", broken |-> FALSE]

Init ==
    \E l \in Launches :
        /\ \E sl \in (IF l.config.slides THEN Starts ELSE {<<>>}) :
            app = Configured(Fresh, l.config, sl)
        /\ surf = [i \in DOMAIN l.outputs |-> NewSurface(l.outputs[i])]
        /\ cache = l.stored
        /\ jobs = {} /\ events = <<>> /\ odd = FALSE
        /\ left = l.changes

Next ==
    \/ \E o \in Outputs : NewOutput(o)
    \/ \E i \in DOMAIN surf : OutputDestroyed(i)
    \/ \E k \in Elsewhere : StoredElsewhere(k)
    \/ \E j \in jobs : LookUp(j) \/ RenderBuffers(j) \/ Store(j)
    \/ KeyPressed
    \/ \E plan \in Plans(surf) :
        \/ Locked(plan)
        \/ Tick(plan)
        \/ AdvanceSlides(plan)
        \/ DrainEvent(plan)
        \/ \E c \in Configs : Reload(c, plan)
        \/ \E asStored \in BOOLEAN : ShellChanges(asStored, plan)
        \/ \E i \in DOMAIN surf : Focus(i, plan) \/ ReconfigureSurface(i, plan)
        \/ \E i \in DOMAIN surf, z \in Sizes : ConfigureSurface(i, z, plan) \/ Rescale(i, z, plan)

Spec == Init /\ [][Next]_vars

-----------------------------------------------------------------------------
(* Properties. *)

\* The two error paths for a missing buffer, "background buffer is unavailable"
\* and "scene base buffer is unavailable", are never taken: although a surface
\* drops the bare picture as soon as it has the prompt's frame, and that frame
\* whenever its source changes, every redraw finds one of them.
BuffersAreThere == ~app.broken

\* No loader is at work, and none is still to be started.
Quiet ==
    /\ jobs = {} /\ events = <<>>
    /\ app.started \/ ImageSurfaces(app, surf) = {}

\* A bare surface whose first frame is on screen never commits what a loader
\* brings: prepare_background finds it already in place and reports no change.
\* So for a bare surface this looks at its buffer, EveryOutputShowsItsImage at
\* the screen.
RightPicture(a, S, i) ==
    \/ Selected(a, S[i]) \in Unreadable
    \/ Wanted(a, S[i]) = IF RendersShell(a, S, i) THEN S[i].shown.picture ELSE S[i].bg.picture

\* s is the surface before the redraw.  One that was given the prompt back on its
\* old frame still has its bare picture, and keeps the prompt when it loses it.
RightPrompt(a, S, i, s) ==
    IF RendersShell(a, S, i)
    THEN S[i].shown.prompt = "all" /\ (S[i].shown.layers <=> HasLayers(a))
    ELSE s.bg = Nothing => S[i].shown.prompt = "none"

Right(S, st) ==
    \A i \in Sized(st.S) : RightPicture(st.a, st.S, i) /\ RightPrompt(st.a, st.S, i, S[i])

\* Once the loaders are done, a full redraw leaves on every output the image
\* selected for it in the treatment configured last, the prompt, with its layers,
\* on the outputs that are to have it, and takes it from the others, whatever was
\* configured, unplugged, rescaled, reloaded or stored in between; odd and
\* RightPrompt name the exceptions.
RedrawIsRight ==
    Running /\ app.ready /\ Quiet /\ ~odd => Right(surf, RenderAll(Now, Smooth))

\* "wallpaper backgrounds and per-monitor background overrides" (README.md:38):
\* the same, of what is on screen.
EveryOutputShowsItsImage ==
    Running /\ app.ready /\ Quiet /\ ~odd =>
        LET st == RenderAll(Now, Smooth)
        IN  \A i \in Sized(st.S) : st.S[i].shown.picture = Wanted(st.a, st.S[i])

=============================================================================
