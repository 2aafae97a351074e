----------------------------- MODULE AutoReload -----------------------------
(***************************************************************************)
(* veilad follows the configuration files while it runs                    *)
(* (daemon/src/app/watch.rs and the arms of app/mod.rs that act on it) and *)
(* tells the curtain to do the same (curtain/src/reload.rs).  Three files  *)
(* matter: the configuration, a theme it may name, an include it may list. *)
(* Others edit, replace and delete them at any moment, between two reads   *)
(* of one poll included.                                                   *)
(*                                                                         *)
(* The content of a file is the number of the edit that wrote it; what it  *)
(* says is reduced to what the watcher and the loader tell apart.  A theme *)
(* that the user does not have is looked up among the bundled ones, which  *)
(* do not change.  The wallpaper is watched like an include that is always *)
(* listed, and left out.                                                   *)
(***************************************************************************)
EXTENDS Naturals

CONSTANTS
    Kinds,          \* what a configuration file may say
    MaxEdits        \* bound: edits of the files

KindRecords == [loads: BOOLEAN,      \* it can be read and has the right types
                auto: BOOLEAN,       \* lock.auto_reload_config
                themed: BOOLEAN,     \* it names a theme
                bundled: BOOLEAN,    \* Veila brings a theme of that name
                includes: BOOLEAN]   \* it lists the include

ASSUME KindsAssumption == Kinds \subseteq KindRecords
ASSUME EditsAssumption == MaxEdits \in Nat

VARIABLES
    disk,           \* the files
    edits,          \* how many edits there were
    running,        \* loaded_config: what was read for it
    watcher,        \* AutoReloadWatcher
    pc,             \* where the loop of veilad is
    curtain,        \* the curtain, if any, and what it has read
    missed          \* ghost: a stamp was taken of what nobody has loaded

vars == <<disk, edits, running, watcher, pc, curtain, missed>>

Ids == 0..MaxEdits
Configs == [id: Ids, kind: KindRecords]
Files == [id: Ids, is: {"absent", "good", "broken"}]
Disks == [config: Configs, theme: Files, include: Files]

Absent == [id |-> 0, is |-> "absent"]

-----------------------------------------------------------------------------
(* common/src/config/mod.rs *)

\* load_from_file: an include that is not there is skipped, but a theme has to be
\* the user's or a bundled one.
Loads(d) ==
    /\ d.config.kind.loads
    /\ d.config.kind.themed =>
          d.theme.is = "good" \/ (d.theme.is = "absent" /\ d.config.kind.bundled)
    /\ d.config.kind.includes => d.include.is # "broken"

\* What a load reads; Absent for the theme stands for the bundled one, or none.
Reading(d) ==
    [config |-> d.config,
     theme |-> IF d.config.kind.themed THEN d.theme ELSE Absent,
     include |-> IF d.config.kind.includes THEN d.include ELSE Absent]

\* AppConfig::default, used if the configuration cannot be loaded at the start.
Defaults ==
    [config |-> [id |-> 0, kind |-> [loads |-> FALSE, auto |-> TRUE, themed |-> FALSE,
                                     bundled |-> FALSE, includes |-> FALSE]],
     theme |-> Absent, include |-> Absent]

LoadOrDefault(d) == IF Loads(d) THEN Reading(d) ELSE Defaults

Matters(f) == IF f = "theme" THEN disk.config.kind.themed ELSE disk.config.kind.includes

AutoReloadOn == running.config.kind.auto

\* active_theme_source_path; the watcher takes its error for no path.
ThemePath ==
    IF ~disk.config.kind.themed THEN "none"
    ELSE IF disk.theme.is # "absent" THEN "user"
    ELSE IF disk.config.kind.bundled THEN "bundled" ELSE "none"

ThemeStamp(path) == IF path = "user" THEN disk.theme ELSE Absent

IncludeStamp == IF disk.config.kind.includes THEN disk.include ELSE Absent

-----------------------------------------------------------------------------
Triggers == {"Config", "Theme", "Include"}

Watchers == [config: Configs,
             themeAt: {"none", "bundled", "user"}, theme: Files,
             listed: BOOLEAN, include: Files,
             pending: Triggers \cup {"none"},
             due: BOOLEAN]                      \* debounce_until has passed

Curtains == [up: BOOLEAN, has: Disks, reload: BOOLEAN,
             untold: BOOLEAN]       \* ghost: the last request did not reach it
NoCurtain == [up |-> FALSE, has |-> Defaults, reload |-> FALSE, untold |-> FALSE]

\* A stamp of everything, as sync_targets takes it of paths that it did not know.
NewWatcher ==
    [config |-> disk.config, themeAt |-> ThemePath, theme |-> ThemeStamp(ThemePath),
     listed |-> disk.config.kind.includes,
     include |-> IncludeStamp,
     pending |-> "none", due |-> FALSE]

\* A broken theme or include at the start is like a broken configuration.
Init ==
    /\ \E k \in Kinds, t, i \in {"absent", "good"} :
          disk = [config |-> [id |-> 0, kind |-> k],
                  theme |-> [id |-> 0, is |-> t],
                  include |-> [id |-> 0, is |-> i]]
    /\ edits = 0
    /\ running = LoadOrDefault(disk)
    /\ watcher = NewWatcher
    /\ pc = "connecting"
    /\ curtain = NoCurtain
    /\ missed = FALSE

\* Somebody writes or replaces a file.
Write ==
    /\ edits < MaxEdits
    /\ edits' = edits + 1
    /\ \/ \E k \in Kinds : disk' = [disk EXCEPT !.config = [id |-> edits', kind |-> k]]
       \/ \E f \in {"theme", "include"}, is \in {"good", "broken"} :
             disk' = [disk EXCEPT ![f] = [id |-> edits', is |-> is]]
    /\ UNCHANGED <<running, watcher, pc, curtain, missed>>

\* Somebody deletes a theme or an include.  A watcher that has not seen it sees no
\* change, although it may have been read meanwhile, or kept from being read.
Delete(f) ==
    /\ disk[f] # Absent
    /\ disk' = [disk EXCEPT ![f] = Absent]
    /\ missed' = (missed \/ (watcher[f] = Absent /\ Matters(f)))
    /\ UNCHANGED <<edits, running, watcher, pc, curtain>>

\* The watcher is made when the loop is reached: veilad has loaded its
\* configuration, then connected to logind.
StartWatching ==
    /\ pc = "connecting"
    /\ watcher' = NewWatcher
    /\ missed' = (running # Reading(disk))
    /\ pc' = "select"
    /\ UNCHANGED <<disk, edits, running, curtain>>

-----------------------------------------------------------------------------
(* poll *)

\* Mutation: a path that did not move is stamped again.
SyncRestamps ==
    /\ pc = "select"
    /\ watcher' = [watcher EXCEPT
          !.themeAt = ThemePath, !.theme = ThemeStamp(ThemePath),
          !.listed = disk.config.kind.includes, !.include = IncludeStamp]
    /\ pc' = "compare"
    /\ UNCHANGED <<disk, edits, running, curtain, missed>>

\* sync_targets: a path that is new is stamped as it is now.
SyncTargets ==
    /\ pc = "select"
    /\ LET moved == ThemePath # watcher.themeAt
           relisted == disk.config.kind.includes # watcher.listed
       IN  /\ watcher' = [watcher EXCEPT
                 !.themeAt = ThemePath,
                 !.theme = IF moved THEN ThemeStamp(ThemePath) ELSE @,
                 !.listed = disk.config.kind.includes,
                 !.include = IF relisted THEN IncludeStamp ELSE @]
           /\ missed' = (missed \/ (/\ moved /\ watcher.config = disk.config
                                    /\ watcher.pending = "none"))
    /\ pc' = "compare"
    /\ UNCHANGED <<disk, edits, running, curtain>>

ConfigChanged == watcher.config # disk.config
ThemeChanged ==
    AutoReloadOn /\ watcher.themeAt # "none" /\ watcher.theme # ThemeStamp(watcher.themeAt)
IncludeChanged == AutoReloadOn /\ watcher.listed /\ watcher.include # disk.include

\* Mutation: the stamp of an include that changed is not kept.
NoteUnkept ==
    /\ pc = "compare"
    /\ ConfigChanged \/ ThemeChanged \/ IncludeChanged
    /\ watcher' = [watcher EXCEPT
          !.config = disk.config,
          !.theme = IF ThemeChanged THEN ThemeStamp(watcher.themeAt) ELSE @,
          !.pending = IF IncludeChanged THEN "Include"
                      ELSE IF ThemeChanged THEN "Theme" ELSE "Config",
          !.due = FALSE]
    /\ pc' = "select"
    /\ UNCHANGED <<disk, edits, running, curtain, missed>>

\* A change restarts the debounce; the last file that changed gives the trigger.
NoteChange ==
    /\ pc = "compare"
    /\ ConfigChanged \/ ThemeChanged \/ IncludeChanged
    /\ watcher' = [watcher EXCEPT
          !.config = disk.config,
          !.theme = IF ThemeChanged THEN ThemeStamp(watcher.themeAt) ELSE @,
          !.include = IF IncludeChanged THEN disk.include ELSE @,
          !.pending = IF IncludeChanged THEN "Include"
                      ELSE IF ThemeChanged THEN "Theme" ELSE "Config",
          !.due = FALSE]
    /\ pc' = "select"
    /\ UNCHANGED <<disk, edits, running, curtain, missed>>

NoChange == pc = "compare" /\ ~ConfigChanged /\ ~ThemeChanged /\ ~IncludeChanged

Fire ==
    /\ NoChange /\ watcher.pending # "none" /\ watcher.due
    /\ pc' = watcher.pending
    /\ watcher' = [watcher EXCEPT !.pending = "none", !.due = FALSE]
    /\ UNCHANGED <<disk, edits, running, curtain, missed>>

NothingDue ==
    /\ NoChange /\ ~watcher.due
    /\ pc' = "select"
    /\ UNCHANGED <<disk, edits, running, watcher, curtain, missed>>

\* Time passes: debounce_until.
DebounceEnds ==
    /\ watcher.pending # "none" /\ ~watcher.due
    /\ watcher' = [watcher EXCEPT !.due = TRUE]
    /\ UNCHANGED <<disk, edits, running, pc, curtain, missed>>

-----------------------------------------------------------------------------
(* apply_loaded_config and request_curtain_reload *)

\* A curtain that is up may not get the request: veilad knows no socket of it, cannot
\* connect or write, or the listener, which ends at the first message it cannot read,
\* is gone.  The configuration is stored by then, the error is recorded by the caller,
\* and the request is not repeated.
Forward ==
    \/ ~curtain.up /\ UNCHANGED curtain
    \/ curtain.up /\ curtain' = [curtain EXCEPT !.reload = TRUE, !.untold = FALSE]
    \/ curtain.up /\ curtain' = [curtain EXCEPT !.untold = TRUE]

Apply ==
    /\ Loads(disk)
    /\ running' = Reading(disk)
    /\ Forward
    /\ missed' = FALSE

\* A change of the configuration file is ignored if reloading is off on both
\* sides of it.
Reload ==
    /\ pc \in Triggers
    /\ LET wanted == pc = "Config" => AutoReloadOn \/ disk.config.kind.auto
       IN  \/ wanted /\ Apply
           \/ ~(wanted /\ Loads(disk)) /\ UNCHANGED <<running, curtain, missed>>
    /\ pc' = "select"
    /\ UNCHANGED <<disk, edits, watcher>>

\* veila reload; a configuration that does not load is answered with the reason.
ReloadByRequest ==
    /\ pc = "select" /\ Apply
    /\ UNCHANGED <<disk, edits, watcher, pc>>

\* A lock, or a curtain that replaces another; veilad waits until it is ready.
StartCurtain ==
    /\ pc = "select" /\ ~curtain.up
    /\ curtain' = [NoCurtain EXCEPT !.up = TRUE, !.has = LoadOrDefault(disk)]
    /\ UNCHANGED <<disk, edits, running, watcher, pc, missed>>

\* It is stopped, or dies.
EndCurtain ==
    /\ curtain.up
    /\ curtain' = NoCurtain
    /\ UNCHANGED <<disk, edits, running, watcher, pc, missed>>

\* reload_config of the curtain; requests that are under way count as one, of
\* which this may be the first.  An older request shows it what a lost one was about.
CurtainReloads ==
    /\ curtain.reload
    /\ \E more \in BOOLEAN :
          curtain' = [curtain EXCEPT !.has = IF Loads(disk) THEN Reading(disk) ELSE @,
                                     !.reload = more,
                                     !.untold = @ /\ ~Loads(disk)]
    /\ UNCHANGED <<disk, edits, running, watcher, pc, missed>>

Poll == SyncTargets \/ NoteChange \/ Fire \/ NothingDue \/ Reload

Next ==
    \/ Write \/ (\E f \in {"theme", "include"} : Delete(f)) \/ StartWatching
    \/ SyncTargets \/ NoteChange \/ Fire \/ NothingDue \/ Reload
    \/ DebounceEnds \/ ReloadByRequest
    \/ StartCurtain \/ EndCurtain \/ CurtainReloads

Spec == Init /\ [][Next]_vars

\* The interval of the loop, and the clock.
FairSpec == Spec /\ WF_vars(StartWatching) /\ WF_vars(Poll) /\ WF_vars(DebounceEnds)

-----------------------------------------------------------------------------
\* The watcher has nothing left to do, and would say so if it were asked.
Quiet ==
    /\ pc = "select" /\ watcher.pending = "none"
    /\ AutoReloadOn /\ watcher = [NewWatcher EXCEPT !.due = watcher.due]

\* While reloading is on, a quiet watcher means that veilad runs what is on disk
\* if that can be loaded: no edit falls between the stamps and the load, the
\* paths and their stamps, or two triggers, but for the ones `missed` names.  And
\* so does the curtain, once it has dealt with the requests it was sent, even if it
\* was started, or read the files, while they could not be loaded: unless the last
\* request did not reach it, which veilad records and does not mend.
QuietMeansCurrent ==
    Quiet /\ ~missed /\ Loads(disk) =>
        /\ running = Reading(disk)
        /\ curtain.up /\ ~curtain.reload /\ ~curtain.untold => curtain.has = Reading(disk)

\* Edits end, and then the files that can be loaded are what veilad runs.
EditsArrive == <>[](AutoReloadOn /\ ~missed /\ Loads(disk) => running = Reading(disk))
=============================================================================
