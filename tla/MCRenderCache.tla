---------------------------- MODULE MCRenderCache ---------------------------
(* A loader, a preloader and a helper: all three undisturbed, so that a    *)
(* third writer can take the temporary name from under the other two; or   *)
(* two of them with two edits, faults or runs of the pruner.  The buffers  *)
(* of a surface share nothing with the caches and are explored apart.      *)
EXTENDS RenderCache, Prewarm, BufferPool

CONSTANTS l, pre, h

MCLoaders == {l}
MCPreloaders == {pre}
MCHelpers == {h}

MCMixes ==
    { [jobs |-> {l, pre, h}, events |-> 0],
      [jobs |-> {l, h}, events |-> 2],
      [jobs |-> {l, pre}, events |-> 2],
      [jobs |-> {}, events |-> 0] }

-----------------------------------------------------------------------------
MCFile == {"one", "two", "/home/one"}
MCExpandHome ==
    [s \in {"one", "two", "~/one", "missing"} |-> IF s = "~/one" THEN "/home/one" ELSE s]

Images == <<"missing", "two", "~/one">>

Slideshows ==
    { [on |-> FALSE, files |-> <<>>, timed |-> TRUE, order |-> "sequence"],
      [on |-> TRUE, files |-> Images, timed |-> TRUE, order |-> "sequence"],
      [on |-> TRUE, files |-> Images, timed |-> TRUE, order |-> "random"] }

MCBackgrounds ==
    {bg \in [ mode : {"none", "radial"}, path : {NoPath, "~/one"},
              outputs : {[A |-> NoPath, B |-> own] : own \in {NoPath, "two"}},
              slideshow : Slideshows ] :
        bg.mode = "radial" => bg.path # NoPath}

MCVisuals == {{}, {"backdrop"}, {"backdrop", "scene"}}
MCThemes == {"dark", "light"}
MCDraws == 0 .. 1

Output(n, l1, s, best) == [name |-> n, logical |-> l1, scale |-> s, preferred |-> best]

MCOutputSets ==
    { {Output("A", 2, 1, 1), Output("B", 2, 2, 2)},
      {Output("A", 4, 1, 2), Output("B", 2, 2, 1)} }

-----------------------------------------------------------------------------
(* The jobs at one wallpaper's entries, the choice of the entries, or the  *)
(* buffers: a behaviour explores one of them.                              *)
VARIABLE explored

NoConfig == [bg |-> CHOOSE bg \in MCBackgrounds : TRUE, visuals |-> {}, theme |-> "dark"]

NoPrewarm ==
    /\ file = NoConfig /\ loaded = NoConfig
    /\ outputs = {} /\ helpers = {} /\ stored = {} /\ changes = 0
    /\ restyled = FALSE /\ plugged = FALSE /\ crossed = TRUE

MCInit ==
    /\ explored \in {"entries", "choice", "buffers"}
    /\ Init /\ (explored = "entries" <=> \E j \in Jobs : job[j] # Done)
    /\ IF explored = "choice" THEN PrewarmInit ELSE NoPrewarm
    /\ PoolInit

MCNext ==
    /\ UNCHANGED explored
    /\ \/ explored = "entries" /\ Next /\ UNCHANGED <<pvars, poolVars>>
       \/ explored = "choice" /\ PrewarmNext /\ UNCHANGED <<vars, poolVars>>
       \/ explored = "buffers" /\ PoolNext /\ UNCHANGED <<vars, pvars>>

MCSpec == MCInit /\ [][MCNext]_<<explored, vars, pvars, poolVars>>
=============================================================================
