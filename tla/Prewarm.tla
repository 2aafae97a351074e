------------------------------- MODULE Prewarm ------------------------------
(***************************************************************************)
(* What veilad's helper stores in the caches before there is a lock, and   *)
(* what a curtain with the same configuration will look for on each of its *)
(* outputs.  Two programs compute the same paths, sizes and variants from  *)
(* different sources: the helper from one probe of the compositor, the     *)
(* curtain from its lock surfaces.                                         *)
(***************************************************************************)
EXTENDS Naturals, Sequences, FiniteSets

CONSTANTS
    File,        \* image files that exist
    ExpandHome,  \* expand_home_path: a function from spellings to spellings
    NoPath,
    Backgrounds, Visuals, Themes,  \* what a configuration may say
    OutputSets,  \* what may be connected
    Draws,       \* seeds of the random choices
    MaxChanges   \* bound: edits of the configuration and outputs plugged

ASSUME NoPathAssumption == NoPath \notin File
ASSUME BackgroundAssumption ==
    \A bg \in Backgrounds : Len(bg.slideshow.files) \in Nat
ASSUME OutputAssumption ==
    \A found \in OutputSets : \A o \in found : o.scale \in Nat /\ o.preferred \in Nat
ASSUME ChangeAssumption == MaxChanges \in Nat

VARIABLES
    file,     \* the configuration in the file
    loaded,   \* veilad's configuration
    outputs,  \* what is connected
    helpers,  \* the helper processes at work
    stored,   \* entries in the caches
    changes,  \* how much may still change
    restyled, \* history: a reload without a helper, since one was last spawned
    plugged,  \* history: an output has come or gone since then
    crossed   \* history: a helper has read an edit that veilad had not seen, since then

pvars == <<file, loaded, outputs, helpers, stored, changes, restyled, plugged, crossed>>

(***************************************************************************)
(* BackgroundConfig: mode ("none" when it is not set), path, the path of   *)
(* each output that has one of its own, and the slideshow (on: it is       *)
(* enabled and names sources).                                             *)
(***************************************************************************)
Generates == {"gradient", "layered", "radial"}

EffectiveMode(bg) ==
    IF bg.mode = "bundled" THEN "gradient"
    ELSE IF bg.mode # "none" THEN bg.mode
    ELSE IF bg.path # NoPath \/ bg.slideshow.on THEN "file" ELSE "gradient"

ResolvedPath(bg) ==
    IF EffectiveMode(bg) = "file" /\ bg.path # NoPath THEN ExpandHome[bg.path] ELSE NoPath

Generated(bg) == EffectiveMode(bg) \in Generates

(* candidate_paths: the places in the list of the images that exist and    *)
(* were not named before.                                                  *)
Image(bg, n) == ExpandHome[bg.slideshow.files[n]]

Candidates(bg) ==
    {n \in 1 .. Len(bg.slideshow.files) :
        Image(bg, n) \in File /\ \A m \in 1 .. n - 1 : Image(bg, m) # Image(bg, n)}

Pick(bg, n) ==
    LET found == Candidates(bg)
        Before(m) == {x \in found : x < m}
    IN  IF found = {} THEN NoPath
        ELSE Image(bg, CHOOSE m \in found :
                           Cardinality(Before(m)) = n % Cardinality(found))

(* resolved_slideshow_initial_path with its seed.                          *)
SlideshowInitial(bg, seed) ==
    Pick(bg, IF bg.slideshow.order = "random" THEN seed ELSE 0)

-----------------------------------------------------------------------------
(***************************************************************************)
(* The helper.  An output has a logical size, the integer scale of its     *)
(* wl_output, and a scale that the surfaces on it are told to prefer.      *)
(***************************************************************************)
SizeAt(output, scale) == [buffer |-> output.logical * scale, scale |-> scale]

(* current_outputs, PrewarmSize::from                                      *)
ProbedSize(output) == SizeAt(output, output.scale)

(* Mutation: the outputs' own wallpapers are forgotten.                    *)
JobsOfTheMainPath(bg, found, seed) ==
    LET main == IF bg.slideshow.on THEN SlideshowInitial(bg, seed) ELSE ResolvedPath(bg)
    IN  {[path |-> main, size |-> ProbedSize(o)] : o \in found}

(* prewarm_jobs, merge_prewarm_job                                         *)
PrewarmJobs(bg, found, seed) ==
    IF bg.slideshow.on
    THEN {[path |-> SlideshowInitial(bg, seed), size |-> ProbedSize(o)] : o \in found}
    ELSE {[path |-> ResolvedPath(bg), size |-> ProbedSize(o)] : o \in found}
         \cup {[path |-> bg.outputs[o.name], size |-> ProbedSize(o)] : o \in found}

(* generated_sizes: outputs with a wallpaper of their own are left out.    *)
GeneratedSizes(bg, found) ==
    {ProbedSize(o) : o \in {x \in found : bg.outputs[x.name] = NoPath}}

(* prewarm_layered_backgrounds: the bare picture, the picture under the    *)
(* backdrops, and under the static scene if there are visual layers.       *)
Variants(config, scale) ==
    {<<"bare">>}
    \cup {<<"backdrop", scale>> : layer \in config.visuals \cap {"backdrop"}}
    \cup {<<"scene", config.theme, scale>> : layer \in config.visuals \cap {"scene"}}

(* cache_path: what is shown, at which size, with which layers (the        *)
(* treatment is the same throughout).                                      *)
Entry(of, size, variant) == <<of, size.buffer, variant>>

(* The entries that exist once the helper has finished.                    *)
Prewarmed(config, found, seed) ==
    LET bg == config.bg
        jobs == {j \in PrewarmJobs(bg, found, seed) : j.path \in File}
        pictures == {[of |-> j.path, size |-> j.size] : j \in jobs}
                    \cup IF Generated(bg)
                         THEN {[of |-> EffectiveMode(bg), size |-> s] :
                               s \in GeneratedSizes(bg, found)}
                         ELSE {}
    IN  UNION {{Entry(p.of, p.size, v) : v \in Variants(config, p.size.scale)} :
               p \in pictures}

-----------------------------------------------------------------------------
(***************************************************************************)
(* The curtain.                                                            *)
(***************************************************************************)
(* surface_scale, resolve_surface_size                                     *)
SurfaceScale(output) ==
    IF output.preferred > output.scale THEN output.preferred ELSE output.scale

(* BackgroundSlideshow::load with the path veilad chose for this lock: a   *)
(* slideshow without images is no slideshow.                               *)
CurtainPath(bg, output, chosen) ==
    IF bg.slideshow.on /\ Candidates(bg) # {} THEN chosen
    ELSE IF bg.outputs[output.name] # NoPath THEN bg.outputs[output.name]
    ELSE ResolvedPath(bg)

(* prepare_background and try_prepare_scene_base_without_background: all   *)
(* the entries that may be asked for.                                      *)
LookUps(config, output, chosen) ==
    LET bg == config.bg
        size == SizeAt(output, SurfaceScale(output))
        path == CurtainPath(bg, output, chosen)
        of == IF path # NoPath THEN {path}
              ELSE IF Generated(bg) THEN {EffectiveMode(bg)} ELSE {}
    IN  {Entry(p, size, v) : p \in of, v \in Variants(config, size.scale)}

(* select_initial_background_path: a timed sequence begins with its first  *)
(* image, everything else is drawn anew for every lock.                    *)
Chosen(bg, n) ==
    IF bg.slideshow.timed /\ bg.slideshow.order = "sequence"
    THEN Pick(bg, 0) ELSE Pick(bg, n)

-----------------------------------------------------------------------------
(***************************************************************************)
(* veilad spawns a helper when it starts, and when it has reloaded the     *)
(* configuration and something that the helper uses is different.          *)
(***************************************************************************)
(* prewarm_inputs: the background, the backdrops, the layers and the panel *)
(* colour; the rest of what a theme is made of does not count.             *)
PrewarmInputs(config) == <<config.bg, config.visuals>>

NewHelper == [config |-> <<>>]

(* The user edits one setting, or an editor saves the file in between.     *)
SingleEdits(config) ==
    {[config EXCEPT !.theme = t] : t \in Themes}
    \cup {[config EXCEPT !.visuals = vs] : vs \in Visuals}
    \cup {[config EXCEPT !.bg = bg] : bg \in
            {other \in Backgrounds :
                \E field \in DOMAIN config.bg :
                    other = [config.bg EXCEPT ![field] = other[field]]}}

EditFile ==
    /\ changes > 0
    /\ changes' = changes - 1
    /\ file' \in SingleEdits(file) \ {file}
    /\ UNCHANGED <<loaded, outputs, helpers, stored, restyled, plugged, crossed>>

(* apply_loaded_config.                                                    *)
Reload ==
    LET needed == PrewarmInputs(loaded) # PrewarmInputs(file)
    IN  /\ file # loaded
        /\ loaded' = file
        /\ helpers' = IF needed THEN helpers \cup {NewHelper} ELSE helpers
        /\ restyled' = ~needed
        /\ plugged' = (plugged /\ ~needed)
        /\ crossed' = (crossed /\ ~needed)
        /\ UNCHANGED <<file, outputs, stored, changes>>

Plug ==
    /\ changes > 0
    /\ changes' = changes - 1
    /\ outputs' \in OutputSets \ {outputs}
    /\ plugged' = TRUE
    /\ UNCHANGED <<file, loaded, helpers, stored, restyled, crossed>>

(* The helper loads the configuration file of its own accord.              *)
HelperReads(h) ==
    /\ h = NewHelper
    /\ helpers' = (helpers \ {h}) \cup {[config |-> file]}
    /\ crossed' = (crossed \/ file # loaded)
    /\ UNCHANGED <<file, loaded, outputs, stored, changes, restyled, plugged>>

(* prewarm_backgrounds: it asks for the outputs and fills the caches.      *)
HelperStores(h) ==
    /\ h # NewHelper
    /\ helpers' = helpers \ {h}
    /\ \E seed \in Draws : stored' = stored \cup Prewarmed(h.config, outputs, seed)
    /\ UNCHANGED <<file, loaded, outputs, changes, restyled, plugged, crossed>>

PrewarmInit ==
    /\ file \in [bg : Backgrounds, visuals : Visuals, theme : Themes]
    /\ loaded = file
    /\ outputs \in OutputSets
    /\ helpers = {NewHelper}
    /\ stored = {}
    /\ changes = MaxChanges
    /\ restyled = FALSE /\ plugged = FALSE /\ crossed = FALSE

PrewarmNext ==
    \/ EditFile \/ Reload \/ Plug
    \/ \E h \in helpers : HelperReads(h) \/ HelperStores(h)

PrewarmSpec == PrewarmInit /\ [][PrewarmNext]_pvars

-----------------------------------------------------------------------------
(* What cannot be known before the lock: the image of a slideshow that is  *)
(* shuffled or moves on with every lock, and a scale that only surfaces    *)
(* are told.  A slideshow without images is not looked behind by the       *)
(* helper, and there is nothing to store for a file that does not exist.   *)
Foreseeable(bg, output, path) ==
    /\ bg.slideshow.on => Candidates(bg) # {} /\ bg.slideshow.timed
                          /\ bg.slideshow.order = "sequence"
    /\ output.preferred <= output.scale
    /\ path \in File \cup {NoPath}

(* A look of the static scene that no helper was spawned for.              *)
Restyled(entry) == entry[3][1] = "scene" /\ restyled

(* With the helpers done, all that can be known before the lock has been   *)
(* prepared: the first frame of every output comes from the caches, with   *)
(* every mix of modes, wallpapers per output, slideshows, visual layers    *)
(* and scales, and after every reload.  The exceptions are an output       *)
(* plugged since, the scene of a theme that changed alone, and a helper    *)
(* that read an edit between the edit and its reload (apply_loaded_config, *)
(* prewarm_backgrounds; prepare_background, background_path_for_surface).  *)
PrewarmCovers ==
    helpers = {} /\ loaded = file /\ ~plugged /\ ~crossed =>
        \A o \in outputs, n \in Draws :
            Foreseeable(loaded.bg, o, CurtainPath(loaded.bg, o, Chosen(loaded.bg, n))) =>
                \A entry \in LookUps(loaded, o, Chosen(loaded.bg, n)) :
                    entry \in stored \/ Restyled(entry)
=============================================================================
