-------------------------- MODULE AutoReloadProofs --------------------------
(***************************************************************************)
(* Proofs about AutoReload, for every set of configurations and any number *)
(* of edits, and about the settings of the files that were read            *)
(* (ReloadedConfig), for every text of every file.                         *)
(***************************************************************************)
EXTENDS ReloadedConfig, SequenceTheorems, WellFoundedInduction, TLAPS

Stages == {"connecting", "select", "compare"} \cup Triggers

TypeOK ==
    /\ disk \in Disks
    /\ edits \in Ids
    /\ running \in Disks
    /\ watcher \in Watchers
    /\ pc \in Stages
    /\ curtain \in Curtains
    /\ missed \in BOOLEAN

(* No file is younger than the last edit, and so no stamp of one is: the   *)
(* next edit differs from all that the watcher has seen.                   *)
FilesArePast == disk.config.id <= edits /\ disk.theme.id <= edits /\ disk.include.id <= edits

StampsArePast ==
    watcher.config.id <= edits /\ watcher.theme.id <= edits /\ watcher.include.id <= edits

(* Nothing happens to a curtain, or is stamped, before the loop is reached.*)
LocksComeLater == pc = "connecting" => ~curtain.up

(* The include that is watched is the one of the configuration that was    *)
(* seen, or another configuration will be noticed.                         *)
ListFollowsConfig ==
    (pc = "compare" \/ watcher.pending = "none")
    => (watcher.listed = watcher.config.kind.includes \/ watcher.config # disk.config)

(* The stamps are those of the files that are there now.                   *)
Matched ==
    /\ watcher.config = disk.config
    /\ watcher.themeAt = ThemePath /\ watcher.theme = ThemeStamp(ThemePath)
    /\ watcher.listed = disk.config.kind.includes /\ watcher.include = IncludeStamp

(* QuietMeansCurrent at every poll, before it compares as after.           *)
MatchedMeansCurrent ==
    (pc \in {"select", "compare"} /\ watcher.pending = "none"
        /\ AutoReloadOn /\ ~missed /\ Matched /\ Loads(disk))
    => /\ running = Reading(disk)
       /\ (curtain.up /\ ~curtain.reload /\ ~curtain.untold) => curtain.has = Reading(disk)

ReloadInv ==
    /\ TypeOK /\ FilesArePast /\ StampsArePast
    /\ LocksComeLater /\ ListFollowsConfig /\ MatchedMeansCurrent

-----------------------------------------------------------------------------
(* What the operators of the model return.                                 *)

LEMMA IdsFacts == 0 \in Ids /\ \A n \in Ids : n \in Nat
  BY EditsAssumption DEF Ids

LEMMA AbsentIsAFile == Absent \in Files
  BY IdsFacts DEF Absent, Files

LEMMA DefaultsType == Defaults \in Disks
<1>1. [loads |-> FALSE, auto |-> TRUE, themed |-> FALSE, bundled |-> FALSE,
       includes |-> FALSE] \in KindRecords
  BY DEF KindRecords
<1>2. [id |-> 0, kind |-> [loads |-> FALSE, auto |-> TRUE, themed |-> FALSE,
                           bundled |-> FALSE, includes |-> FALSE]] \in Configs
  BY <1>1, IdsFacts DEF Configs
<1>3. QED
  BY <1>2, AbsentIsAFile DEF Defaults, Disks

LEMMA ReadingType ==
    ASSUME NEW d \in Disks
    PROVE Reading(d) \in Disks /\ LoadOrDefault(d) \in Disks
<1>1. d.config \in Configs /\ d.theme \in Files /\ d.include \in Files
  BY DEF Disks
<1>2. Reading(d) \in Disks
  BY <1>1, AbsentIsAFile DEF Reading, Disks
<1>3. QED
  BY <1>2, DefaultsType DEF LoadOrDefault

LEMMA NewWatcherType ==
    ASSUME disk \in Disks
    PROVE NewWatcher \in Watchers
<1>1. disk.config \in Configs /\ disk.theme \in Files /\ disk.include \in Files
  BY DEF Disks
<1>2. disk.config.kind.includes \in BOOLEAN
  BY <1>1 DEF Configs, KindRecords
<1>3. ThemePath \in {"none", "bundled", "user"}
  BY DEF ThemePath
<1>4. ThemeStamp(ThemePath) \in Files /\ IncludeStamp \in Files
  BY <1>1, AbsentIsAFile DEF ThemeStamp, IncludeStamp
<1>5. QED
  BY <1>1, <1>2, <1>3, <1>4 DEF NewWatcher, Watchers

(* A write leaves a file that no stamp of an earlier one equals.           *)
LEMMA WriteSays ==
    ASSUME TypeOK, Write
    PROVE /\ disk' \in Disks
          /\ edits' \in Ids /\ edits' = edits + 1
          /\ \/ disk'.config.id = edits' /\ disk'.theme = disk.theme
                /\ disk'.include = disk.include
             \/ disk'.config = disk.config /\ disk'.include = disk.include
                /\ disk'.theme.id = edits' /\ disk'.theme.is # "absent"
             \/ disk'.config = disk.config /\ disk'.theme = disk.theme
                /\ disk'.include.id = edits'
<1>1. disk.config \in Configs /\ disk.theme \in Files /\ disk.include \in Files
  BY DEF TypeOK, Disks
<1>2. edits' \in Ids /\ edits' = edits + 1
  BY EditsAssumption DEF TypeOK, Write, Ids
<1>3. ASSUME NEW k \in Kinds, disk' = [disk EXCEPT !.config = [id |-> edits', kind |-> k]]
      PROVE /\ disk' \in Disks
            /\ disk'.config.id = edits' /\ disk'.theme = disk.theme
            /\ disk'.include = disk.include
  <2>1. [id |-> edits', kind |-> k] \in Configs
    BY <1>2, KindsAssumption DEF Configs
  <2>2. QED
    BY <1>1, <1>3, <2>1 DEF TypeOK, Disks
<1>4. ASSUME NEW is \in {"good", "broken"},
             disk' = [disk EXCEPT !["theme"] = [id |-> edits', is |-> is]]
      PROVE /\ disk' \in Disks
            /\ disk'.config = disk.config /\ disk'.include = disk.include
            /\ disk'.theme.id = edits' /\ disk'.theme.is # "absent"
  <2>1. [id |-> edits', is |-> is] \in Files
    BY <1>2 DEF Files
  <2>2. QED
    BY <1>1, <1>4, <2>1 DEF TypeOK, Disks
<1>5. ASSUME NEW is \in {"good", "broken"},
             disk' = [disk EXCEPT !["include"] = [id |-> edits', is |-> is]]
      PROVE /\ disk' \in Disks
            /\ disk'.config = disk.config /\ disk'.theme = disk.theme
            /\ disk'.include.id = edits'
  <2>1. [id |-> edits', is |-> is] \in Files
    BY <1>2 DEF Files
  <2>2. QED
    BY <1>1, <1>5, <2>1 DEF TypeOK, Disks
<1>6. CASE \E k \in Kinds : disk' = [disk EXCEPT !.config = [id |-> edits', kind |-> k]]
  BY <1>2, <1>3, <1>6
<1>7. CASE \E f \in {"theme", "include"}, is \in {"good", "broken"} :
              disk' = [disk EXCEPT ![f] = [id |-> edits', is |-> is]]
  <2>1. PICK f \in {"theme", "include"}, is \in {"good", "broken"} :
              disk' = [disk EXCEPT ![f] = [id |-> edits', is |-> is]]
    BY <1>7
  <2>2. CASE f = "theme"
    BY <1>2, <1>4, <2>1, <2>2
  <2>3. CASE f = "include"
    BY <1>2, <1>5, <2>1, <2>3
  <2>4. QED
    BY <2>1, <2>2, <2>3
<1>8. QED
  BY <1>6, <1>7 DEF Write

(* And a deletion leaves the others as they are.                           *)
LEMMA DeleteSays ==
    ASSUME TypeOK, NEW f \in {"theme", "include"}, Delete(f)
    PROVE /\ disk' \in Disks
          /\ disk'.config = disk.config
          /\ \/ f = "theme" /\ disk'.theme = Absent /\ disk'.include = disk.include
             \/ f = "include" /\ disk'.include = Absent /\ disk'.theme = disk.theme
<1>1. disk.config \in Configs /\ disk.theme \in Files /\ disk.include \in Files
  BY DEF TypeOK, Disks
<1>2. disk' = [disk EXCEPT ![f] = Absent]
  BY DEF Delete
<1>3. CASE f = "theme"
  BY <1>1, <1>2, <1>3, AbsentIsAFile DEF TypeOK, Disks
<1>4. CASE f = "include"
  BY <1>1, <1>2, <1>4, AbsentIsAFile DEF TypeOK, Disks
<1>5. QED
  BY <1>3, <1>4

-----------------------------------------------------------------------------
(* The types.                                                              *)

LEMMA InitTypes == Init => TypeOK
<1> SUFFICES ASSUME Init PROVE TypeOK
  OBVIOUS
<1>1. PICK k \in Kinds, t, i \in {"absent", "good"} :
         disk = [config |-> [id |-> 0, kind |-> k],
                 theme |-> [id |-> 0, is |-> t],
                 include |-> [id |-> 0, is |-> i]]
  BY DEF Init
<1>2. [id |-> 0, kind |-> k] \in Configs
  BY KindsAssumption, IdsFacts DEF Configs
<1>3. [id |-> 0, is |-> t] \in Files /\ [id |-> 0, is |-> i] \in Files
  BY IdsFacts DEF Files
<1>4. disk \in Disks
  BY <1>1, <1>2, <1>3 DEF Disks
<1>5. running \in Disks
  BY <1>4, ReadingType DEF Init
<1>6. watcher \in Watchers
  BY <1>4, NewWatcherType DEF Init
<1>7. curtain \in Curtains
  BY DefaultsType DEF Init, NoCurtain, Curtains
<1>8. QED
  BY <1>4, <1>5, <1>6, <1>7, IdsFacts DEF Init, TypeOK, Stages

(* What the steps of poll do to the watcher, member by member.             *)
LEMMA SyncSays ==
    ASSUME TypeOK, SyncTargets
    PROVE /\ watcher' \in Watchers
          /\ watcher'.config = watcher.config
          /\ watcher'.themeAt = ThemePath
          /\ watcher'.theme = IF ThemePath # watcher.themeAt
                                 THEN ThemeStamp(ThemePath) ELSE watcher.theme
          /\ watcher'.listed = disk.config.kind.includes
          /\ watcher'.include = IF disk.config.kind.includes # watcher.listed
                                   THEN IncludeStamp ELSE watcher.include
          /\ watcher'.pending = watcher.pending
          /\ watcher'.due = watcher.due
<1> DEFINE path == ThemePath
           stamp == IF ThemePath # watcher.themeAt
                      THEN ThemeStamp(ThemePath) ELSE watcher.theme
           lists == disk.config.kind.includes
           include == IF disk.config.kind.includes # watcher.listed
                        THEN IncludeStamp ELSE watcher.include
<1>1. disk.config \in Configs /\ disk.theme \in Files /\ disk.include \in Files
  BY DEF TypeOK, Disks
<1>2. lists \in BOOLEAN
  BY <1>1 DEF Configs, KindRecords
<1>3. path \in {"none", "bundled", "user"}
  BY DEF ThemePath
<1>4. watcher.theme \in Files /\ watcher.include \in Files
  BY DEF TypeOK, Watchers
<1>5. stamp \in Files /\ include \in Files
  BY <1>1, <1>4, AbsentIsAFile DEF ThemeStamp, IncludeStamp
<1>6. watcher' = [watcher EXCEPT !.themeAt = path, !.theme = stamp,
                                 !.listed = lists, !.include = include]
  BY DEF SyncTargets
<1> HIDE DEF path, stamp, lists, include
<1>7. /\ watcher' \in Watchers
      /\ watcher'.config = watcher.config
      /\ watcher'.themeAt = path
      /\ watcher'.theme = stamp
      /\ watcher'.listed = lists
      /\ watcher'.include = include
      /\ watcher'.pending = watcher.pending
      /\ watcher'.due = watcher.due
  BY <1>2, <1>3, <1>5, <1>6 DEF TypeOK, Watchers
<1>8. QED
  BY <1>7 DEF path, stamp, lists, include

LEMMA NoteSays ==
    ASSUME TypeOK, NoteChange
    PROVE /\ watcher' \in Watchers
          /\ watcher'.config = disk.config
          /\ watcher'.theme \in {watcher.theme, disk.theme, Absent}
          /\ watcher'.include \in {watcher.include, disk.include}
          /\ watcher'.pending # "none"
<1> DEFINE stamp == IF ThemeChanged THEN ThemeStamp(watcher.themeAt) ELSE watcher.theme
           include == IF IncludeChanged THEN disk.include ELSE watcher.include
           trigger == IF IncludeChanged THEN "Include"
                      ELSE IF ThemeChanged THEN "Theme" ELSE "Config"
<1>1. disk.config \in Configs /\ disk.theme \in Files /\ disk.include \in Files
  BY DEF TypeOK, Disks
<1>2. watcher.theme \in Files /\ watcher.include \in Files
  BY DEF TypeOK, Watchers
<1>3. /\ stamp \in Files /\ stamp \in {watcher.theme, disk.theme, Absent}
      /\ include \in Files /\ include \in {watcher.include, disk.include}
  BY <1>1, <1>2, AbsentIsAFile DEF ThemeStamp
<1>4. trigger \in Triggers
  BY DEF Triggers
<1>5. trigger # "none"
  BY DEF Triggers
<1>6. watcher' = [watcher EXCEPT !.config = disk.config, !.theme = stamp,
                                 !.include = include, !.pending = trigger, !.due = FALSE]
  BY DEF NoteChange
<1> HIDE DEF stamp, include, trigger
<1>7. QED
  BY <1>1, <1>3, <1>4, <1>5, <1>6 DEF TypeOK, Watchers

LEMMA FireSays ==
    ASSUME TypeOK, Fire
    PROVE /\ watcher' \in Watchers
          /\ watcher' = [watcher EXCEPT !.pending = "none", !.due = FALSE]
          /\ watcher'.config = watcher.config
          /\ watcher'.theme = watcher.theme
          /\ watcher'.listed = watcher.listed
          /\ watcher'.include = watcher.include
          /\ pc = "compare" /\ pc' \in Triggers
  BY DEF TypeOK, Fire, NoChange, Watchers, Triggers

LEMMA DebounceSays ==
    ASSUME TypeOK, DebounceEnds
    PROVE /\ watcher' \in Watchers
          /\ watcher'.config = watcher.config
          /\ watcher'.theme = watcher.theme
          /\ watcher'.listed = watcher.listed
          /\ watcher'.include = watcher.include
          /\ watcher'.pending = watcher.pending
          /\ watcher.pending # "none"
  BY DEF TypeOK, DebounceEnds, Watchers

LEMMA ApplySays ==
    ASSUME TypeOK, Apply
    PROVE /\ running' \in Disks /\ curtain' \in Curtains
          /\ curtain'.up = curtain.up /\ curtain'.has = curtain.has
          /\ curtain.up => curtain'.reload \/ curtain'.untold
<1>1. running' \in Disks
  BY ReadingType DEF TypeOK, Apply
<1>2. CASE ~curtain.up /\ curtain' = curtain
  BY <1>1, <1>2 DEF TypeOK
<1>3. CASE curtain' = [curtain EXCEPT !.reload = TRUE, !.untold = FALSE]
  BY <1>1, <1>3 DEF TypeOK, Curtains
<1>4. CASE curtain' = [curtain EXCEPT !.untold = TRUE]
  BY <1>1, <1>4 DEF TypeOK, Curtains
<1>5. QED
  BY <1>2, <1>3, <1>4 DEF Apply, Forward

LEMMA CurtainReloadsSays ==
    ASSUME TypeOK, CurtainReloads
    PROVE /\ curtain' \in Curtains /\ curtain'.up = curtain.up
          /\ Loads(disk) => curtain'.has = Reading(disk)
<1>1. PICK more \in BOOLEAN :
         curtain' = [curtain EXCEPT !.has = IF Loads(disk) THEN Reading(disk) ELSE curtain.has,
                                    !.reload = more,
                                    !.untold = curtain.untold /\ ~Loads(disk)]
  BY DEF CurtainReloads
<1>2. Reading(disk) \in Disks
  BY ReadingType DEF TypeOK
<1>3. (curtain.untold /\ ~Loads(disk)) \in BOOLEAN
  OBVIOUS
<1>4. QED
  BY <1>1, <1>2, <1>3 DEF TypeOK, Curtains

LEMMA NextTypes == TypeOK /\ [Next]_vars => TypeOK'
<1> SUFFICES ASSUME TypeOK, [Next]_vars PROVE TypeOK'
  OBVIOUS
<1>1. CASE Write
  BY <1>1, WriteSays DEF TypeOK, Write
<1>2. ASSUME NEW f \in {"theme", "include"}, Delete(f) PROVE TypeOK'
  <2>1. disk' \in Disks
    BY <1>2, DeleteSays
  <2>2. missed' = (missed \/ (watcher[f] = Absent /\ Matters(f)))
    BY <1>2 DEF Delete
  <2>3. missed' \in BOOLEAN
    BY <2>2
  <2>4. QED
    BY <1>2, <2>1, <2>3 DEF TypeOK, Delete
<1>3. CASE StartWatching
  <2>1. missed' \in BOOLEAN
    BY <1>3 DEF StartWatching
  <2>2. QED
    BY <1>3, <2>1, NewWatcherType DEF TypeOK, StartWatching, Stages
<1>4. CASE SyncTargets
  <2>1. missed' \in BOOLEAN
    BY <1>4 DEF SyncTargets
  <2>2. watcher' \in Watchers
    BY <1>4, SyncSays
  <2>3. QED
    BY <1>4, <2>1, <2>2 DEF TypeOK, SyncTargets, Stages
<1>5. CASE NoteChange
  <2>1. watcher' \in Watchers
    BY <1>5, NoteSays
  <2>2. QED
    BY <1>5, <2>1 DEF TypeOK, NoteChange, Stages
<1>6. CASE Fire
  <2>1. watcher' \in Watchers /\ pc' \in Triggers
    BY <1>6, FireSays
  <2>2. QED
    BY <1>6, <2>1 DEF TypeOK, Fire, Stages
<1>7. CASE NothingDue
  BY <1>7 DEF TypeOK, NothingDue, Stages
<1>8. CASE Reload
  <2>1. /\ disk' = disk /\ edits' = edits /\ watcher' = watcher /\ pc' = "select"
        /\ Apply \/ UNCHANGED <<running, curtain, missed>>
    BY <1>8 DEF Reload
  <2>2. running' \in Disks /\ curtain' \in Curtains /\ missed' \in BOOLEAN
    <3>1. CASE Apply
      BY <3>1, ApplySays DEF Apply
    <3>2. CASE UNCHANGED <<running, curtain, missed>>
      BY <3>2 DEF TypeOK
    <3>3. QED
      BY <2>1, <3>1, <3>2
  <2>3. QED
    BY <2>1, <2>2 DEF TypeOK, Stages
<1>9. CASE DebounceEnds
  <2>1. watcher' \in Watchers
    BY <1>9, DebounceSays
  <2>2. QED
    BY <1>9, <2>1 DEF TypeOK, DebounceEnds
<1>10. CASE ReloadByRequest
  <2>1. Apply
    BY <1>10 DEF ReloadByRequest
  <2>2. running' \in Disks /\ curtain' \in Curtains /\ missed' \in BOOLEAN
    BY <2>1, ApplySays DEF Apply
  <2>3. QED
    BY <1>10, <2>2 DEF TypeOK, ReloadByRequest
<1>11. CASE StartCurtain
  <2>1. LoadOrDefault(disk) \in Disks
    BY ReadingType DEF TypeOK
  <2>2. curtain' \in Curtains
    BY <1>11, <2>1, DefaultsType DEF StartCurtain, NoCurtain, Curtains
  <2>3. QED
    BY <1>11, <2>2 DEF TypeOK, StartCurtain
<1>12. CASE EndCurtain
  <2>1. NoCurtain \in Curtains
    BY DefaultsType DEF NoCurtain, Curtains
  <2>2. QED
    BY <1>12, <2>1 DEF TypeOK, EndCurtain
<1>13. CASE CurtainReloads
  <2>1. curtain' \in Curtains
    BY <1>13, CurtainReloadsSays
  <2>2. QED
    BY <1>13, <2>1 DEF TypeOK, CurtainReloads
<1>14. CASE UNCHANGED vars
  BY <1>14 DEF TypeOK, vars
<1>15. QED
  BY <1>1, <1>2, <1>3, <1>4, <1>5, <1>6, <1>7, <1>8, <1>9, <1>10, <1>11, <1>12, <1>13,
     <1>14 DEF Next

-----------------------------------------------------------------------------
(* What the watcher has seen.                                              *)

LEMMA InitWatches == Init => StampsArePast /\ LocksComeLater /\ ListFollowsConfig
<1> SUFFICES ASSUME Init PROVE StampsArePast /\ LocksComeLater /\ ListFollowsConfig
  OBVIOUS
<1>1. watcher = NewWatcher /\ edits = 0 /\ curtain = NoCurtain
  BY DEF Init
<1>2. disk.config.id = 0 /\ disk.theme.id = 0 /\ disk.include.id = 0
  BY DEF Init
<1>3. StampsArePast
  BY <1>1, <1>2 DEF NewWatcher, ThemeStamp, IncludeStamp, Absent, StampsArePast
<1>4. LocksComeLater /\ ListFollowsConfig
  BY <1>1 DEF LocksComeLater, ListFollowsConfig, NoCurtain, NewWatcher
<1>5. QED
  BY <1>3, <1>4

LEMMA InitFiles == Init => FilesArePast
  BY DEF Init, FilesArePast

LEMMA NextFiles == TypeOK /\ FilesArePast /\ [Next]_vars => FilesArePast'
<1> SUFFICES ASSUME TypeOK, FilesArePast, [Next]_vars PROVE FilesArePast'
  OBVIOUS
<1>1. edits \in Nat
  BY IdsFacts DEF TypeOK
<1>2. disk.config.id \in Nat /\ disk.theme.id \in Nat /\ disk.include.id \in Nat
  BY IdsFacts DEF TypeOK, Disks, Configs, Files
<1>3. CASE Write
  BY <1>1, <1>2, <1>3, WriteSays DEF FilesArePast
<1>4. ASSUME NEW f \in {"theme", "include"}, Delete(f) PROVE FilesArePast'
  <2>1. edits' = edits
    BY <1>4 DEF Delete
  <2>2. QED
    BY <1>1, <1>2, <1>4, <2>1, DeleteSays DEF FilesArePast, Absent
<1>5. CASE UNCHANGED <<disk, edits>>
  BY <1>5 DEF FilesArePast
<1>6. QED
  BY <1>3, <1>4, <1>5 DEF Next, StartWatching, SyncTargets, NoteChange, Fire, NothingDue,
     Reload, DebounceEnds, ReloadByRequest, StartCurtain, EndCurtain, CurtainReloads, vars

LEMMA NextStamps ==
    TypeOK /\ FilesArePast /\ StampsArePast /\ [Next]_vars => StampsArePast'
<1> SUFFICES ASSUME TypeOK, FilesArePast, StampsArePast, [Next]_vars PROVE StampsArePast'
  OBVIOUS
<1>1. edits \in Nat
  BY IdsFacts DEF TypeOK
<1>2. watcher.config.id \in Nat /\ watcher.theme.id \in Nat /\ watcher.include.id \in Nat
  BY IdsFacts DEF TypeOK, Watchers, Configs, Files
<1>3. CASE Write
  <2>1. edits' = edits + 1 /\ watcher' = watcher
    BY <1>3 DEF Write
  <2>2. QED
    BY <1>1, <1>2, <2>1 DEF StampsArePast
<1>4. CASE StartWatching
  <2>1. watcher' = NewWatcher /\ edits' = edits
    BY <1>4 DEF StartWatching
  <2>2. QED
    BY <1>1, <2>1 DEF NewWatcher, ThemeStamp, IncludeStamp, Absent, StampsArePast, FilesArePast
<1>5. CASE SyncTargets
  <2>1. edits' = edits
    BY <1>5 DEF SyncTargets
  <2>2. QED
    BY <1>1, <1>5, <2>1, SyncSays
       DEF ThemeStamp, IncludeStamp, Absent, StampsArePast, FilesArePast
<1>6. CASE NoteChange
  <2>1. edits' = edits
    BY <1>6 DEF NoteChange
  <2>2. QED
    BY <1>1, <1>6, <2>1, NoteSays DEF Absent, StampsArePast, FilesArePast
<1>7. CASE Fire
  <2>1. edits' = edits
    BY <1>7 DEF Fire
  <2>2. QED
    BY <1>7, <2>1, FireSays DEF StampsArePast
<1>8. CASE DebounceEnds
  <2>1. edits' = edits
    BY <1>8 DEF DebounceEnds
  <2>2. QED
    BY <1>8, <2>1, DebounceSays DEF StampsArePast
<1>9. CASE UNCHANGED <<watcher, edits>>
  BY <1>9 DEF StampsArePast
<1>10. QED
  BY <1>3, <1>4, <1>5, <1>6, <1>7, <1>8, <1>9 DEF Next, Delete, NothingDue, Reload,
     ReloadByRequest, StartCurtain, EndCurtain, CurtainReloads, vars

LEMMA NextLocks == TypeOK /\ LocksComeLater /\ [Next]_vars => LocksComeLater'
<1> SUFFICES ASSUME TypeOK, LocksComeLater, [Next]_vars PROVE LocksComeLater'
  OBVIOUS
<1>1. CASE StartWatching \/ SyncTargets \/ NoteChange \/ NothingDue \/ Reload
  BY <1>1 DEF StartWatching, SyncTargets, NoteChange, NothingDue, Reload, LocksComeLater
<1>2. CASE Fire
  BY <1>2, FireSays DEF LocksComeLater, Triggers
<1>3. CASE ReloadByRequest \/ StartCurtain
  BY <1>3 DEF ReloadByRequest, StartCurtain, LocksComeLater
<1>4. CASE EndCurtain
  BY <1>4 DEF EndCurtain, LocksComeLater, NoCurtain
<1>5. CASE CurtainReloads
  <2>1. curtain'.up = curtain.up
    BY <1>5, CurtainReloadsSays
  <2>2. QED
    BY <1>5, <2>1 DEF CurtainReloads, LocksComeLater
<1>6. CASE UNCHANGED <<pc, curtain>>
  BY <1>6 DEF LocksComeLater
<1>7. QED
  BY <1>1, <1>2, <1>3, <1>4, <1>5, <1>6 DEF Next, Write, Delete, DebounceEnds, vars

(* A path that the configuration lists is taken over at the sync, before   *)
(* the configuration is compared; from there on either they agree or the   *)
(* comparison finds another configuration.                                 *)
LEMMA NextList ==
    TypeOK /\ StampsArePast /\ ListFollowsConfig /\ [Next]_vars => ListFollowsConfig'
<1> SUFFICES ASSUME TypeOK, StampsArePast, ListFollowsConfig, [Next]_vars
             PROVE ListFollowsConfig'
  OBVIOUS
<1>1. CASE Write
  <2>1. watcher' = watcher /\ pc' = pc
    BY <1>1 DEF Write
  <2>2. CASE disk'.config = disk.config
    BY <2>1, <2>2 DEF ListFollowsConfig
  <2>3. CASE disk'.config.id = edits'
    <3>1. edits \in Nat /\ watcher.config.id \in Nat /\ edits' = edits + 1
      BY <1>1, IdsFacts, WriteSays DEF TypeOK, Watchers, Configs
    <3>2. watcher.config.id # disk'.config.id
      BY <2>3, <3>1 DEF StampsArePast
    <3>3. QED
      BY <2>1, <3>2 DEF ListFollowsConfig
  <2>4. QED
    BY <1>1, <2>2, <2>3, WriteSays
<1>2. ASSUME NEW f \in {"theme", "include"}, Delete(f) PROVE ListFollowsConfig'
  BY <1>2, DeleteSays DEF Delete, ListFollowsConfig
<1>3. CASE StartWatching
  BY <1>3 DEF StartWatching, NewWatcher, ListFollowsConfig
<1>4. CASE SyncTargets
  <2>1. disk' = disk
    BY <1>4 DEF SyncTargets
  <2>2. QED
    BY <1>4, <2>1, SyncSays DEF ListFollowsConfig
<1>5. CASE NoteChange
  BY <1>5, NoteSays DEF NoteChange, ListFollowsConfig
<1>6. CASE Fire
  <2>1. disk' = disk
    BY <1>6 DEF Fire
  <2>2. QED
    BY <1>6, <2>1, FireSays DEF ListFollowsConfig
<1>7. CASE NothingDue
  BY <1>7 DEF NothingDue, NoChange, ListFollowsConfig
<1>8. CASE DebounceEnds
  <2>1. disk' = disk /\ pc' = pc
    BY <1>8 DEF DebounceEnds
  <2>2. QED
    BY <1>8, <2>1, DebounceSays DEF ListFollowsConfig
<1>9. CASE Reload
  BY <1>9 DEF Reload, Triggers, ListFollowsConfig
<1>10. CASE UNCHANGED <<disk, watcher, pc>>
  BY <1>10 DEF ListFollowsConfig
<1>11. QED
  BY <1>1, <1>2, <1>3, <1>4, <1>5, <1>6, <1>7, <1>8, <1>9, <1>10
     DEF Next, ReloadByRequest, StartCurtain, EndCurtain, CurtainReloads, vars

-----------------------------------------------------------------------------
(* What is read is what is on disk.                                        *)

(* The case in question, and what it must imply.                           *)
Waits ==
    /\ pc \in {"select", "compare"} /\ watcher.pending = "none"
    /\ AutoReloadOn /\ ~missed /\ Matched /\ Loads(disk)

Current ==
    /\ running = Reading(disk)
    /\ (curtain.up /\ ~curtain.reload /\ ~curtain.untold) => curtain.has = Reading(disk)

LEMMA MatchedByName == MatchedMeansCurrent <=> (Waits => Current)
  BY DEF MatchedMeansCurrent, Waits, Current

LEMMA InitCurrent == Init => MatchedMeansCurrent
<1> SUFFICES ASSUME Init, Waits PROVE Current
  BY MatchedByName
<1>1. pc = "connecting"
  BY DEF Init
<1>2. QED
  BY <1>1 DEF Waits

(* An edit that the stamps do not show is one of a file that is not read.  *)
LEMMA WriteKeepsCurrent ==
    ASSUME TypeOK, StampsArePast, MatchedMeansCurrent, Write
    PROVE MatchedMeansCurrent'
<1> SUFFICES ASSUME Waits' PROVE Current'
  BY MatchedByName DEF MatchedMeansCurrent, Waits, Current
<1>1. /\ watcher' = watcher /\ pc' = pc /\ running' = running
      /\ curtain' = curtain /\ missed' = missed
  BY DEF Write
<1>2. Matched' /\ Loads(disk')
  BY DEF Waits
<1>3. edits' = edits + 1 /\ edits \in Nat
  BY WriteSays, IdsFacts DEF TypeOK
<1>4. watcher.config.id \in Nat /\ watcher.theme.id \in Nat /\ watcher.include.id \in Nat
  BY IdsFacts DEF TypeOK, Watchers, Configs, Files
<1>5. /\ watcher.config.id # edits' /\ watcher.theme.id # edits'
      /\ watcher.include.id # edits'
  BY <1>3, <1>4 DEF StampsArePast
<1>6. disk'.config.id # edits'
  BY <1>1, <1>2, <1>5 DEF Matched
<1>7. CASE /\ disk'.config = disk.config /\ disk'.include = disk.include
           /\ disk'.theme.id = edits' /\ disk'.theme.is # "absent"
  <2>1. ~disk.config.kind.themed
    <3>1. SUFFICES ASSUME disk.config.kind.themed PROVE FALSE
      OBVIOUS
    <3>2. watcher.theme = disk'.theme
      BY <1>1, <1>2, <1>7, <3>1 DEF Matched, ThemePath, ThemeStamp
    <3>3. QED
      BY <1>5, <1>7, <3>2
  <2>2. Matched
    BY <1>1, <1>2, <1>7, <2>1 DEF Matched, ThemePath, ThemeStamp, IncludeStamp
  <2>3. Loads(disk) /\ Reading(disk') = Reading(disk)
    BY <1>2, <1>7, <2>1 DEF Loads, Reading
  <2>4. Waits
    BY <1>1, <2>2, <2>3 DEF Waits, AutoReloadOn
  <2>5. QED
    BY <1>1, <2>3, <2>4, MatchedByName DEF Current
<1>8. CASE /\ disk'.config = disk.config /\ disk'.theme = disk.theme
           /\ disk'.include.id = edits'
  <2>1. ~disk.config.kind.includes
    <3>1. SUFFICES ASSUME disk.config.kind.includes PROVE FALSE
      OBVIOUS
    <3>2. watcher.include = disk'.include
      BY <1>1, <1>2, <1>8, <3>1 DEF Matched, IncludeStamp
    <3>3. QED
      BY <1>5, <1>8, <3>2
  <2>2. Matched
    BY <1>1, <1>2, <1>8, <2>1 DEF Matched, ThemePath, ThemeStamp, IncludeStamp
  <2>3. Loads(disk) /\ Reading(disk') = Reading(disk)
    BY <1>2, <1>8, <2>1 DEF Loads, Reading
  <2>4. Waits
    BY <1>1, <2>2, <2>3 DEF Waits, AutoReloadOn
  <2>5. QED
    BY <1>1, <2>3, <2>4, MatchedByName DEF Current
<1>9. QED
  BY <1>6, <1>7, <1>8, WriteSays

(* A deletion can hide: the stamp of a file that was never seen is also the*)
(* stamp of one that is gone.  That is what `missed` remembers.            *)
LEMMA DeleteKeepsCurrent ==
    ASSUME TypeOK, MatchedMeansCurrent, NEW f \in {"theme", "include"}, Delete(f)
    PROVE MatchedMeansCurrent'
<1> SUFFICES ASSUME Waits' PROVE Current'
  BY MatchedByName DEF MatchedMeansCurrent, Waits, Current
<1>1. /\ watcher' = watcher /\ pc' = pc /\ running' = running /\ curtain' = curtain
  BY DEF Delete
<1>2. Matched' /\ Loads(disk') /\ ~missed'
  BY DEF Waits
<1>3. ~missed /\ ~(watcher[f] = Absent /\ Matters(f))
  BY <1>2 DEF Delete
<1>4. CASE f = "theme" /\ disk'.theme = Absent /\ disk'.include = disk.include
  <2>1. disk'.config = disk.config
    BY DeleteSays
  <2>2. ~disk.config.kind.themed
    <3>1. SUFFICES ASSUME disk.config.kind.themed PROVE FALSE
      OBVIOUS
    <3>2. disk'.theme.is = "absent"
      BY <1>4 DEF Absent
    <3>3. watcher.theme = Absent
      BY <1>1, <1>2, <2>1, <3>2 DEF Matched, ThemePath, ThemeStamp
    <3>4. QED
      BY <1>3, <1>4, <3>1, <3>3 DEF Matters
  <2>3. Matched
    BY <1>1, <1>2, <1>4, <2>1, <2>2 DEF Matched, ThemePath, ThemeStamp, IncludeStamp
  <2>4. Loads(disk) /\ Reading(disk') = Reading(disk)
    BY <1>2, <1>4, <2>1, <2>2 DEF Loads, Reading
  <2>5. Waits
    BY <1>1, <1>3, <2>3, <2>4 DEF Waits, AutoReloadOn
  <2>6. QED
    BY <1>1, <2>4, <2>5, MatchedByName DEF Current
<1>5. CASE f = "include" /\ disk'.include = Absent /\ disk'.theme = disk.theme
  <2>1. disk'.config = disk.config
    BY DeleteSays
  <2>2. ~disk.config.kind.includes
    <3>1. SUFFICES ASSUME disk.config.kind.includes PROVE FALSE
      OBVIOUS
    <3>2. watcher.include = Absent
      BY <1>1, <1>2, <1>5, <2>1, <3>1 DEF Matched, IncludeStamp
    <3>3. QED
      BY <1>3, <1>5, <3>1, <3>2 DEF Matters
  <2>3. Matched
    BY <1>1, <1>2, <1>5, <2>1, <2>2 DEF Matched, ThemePath, ThemeStamp, IncludeStamp
  <2>4. Loads(disk) /\ Reading(disk') = Reading(disk)
    BY <1>2, <1>5, <2>1, <2>2 DEF Loads, Reading
  <2>5. Waits
    BY <1>1, <1>3, <2>3, <2>4 DEF Waits, AutoReloadOn
  <2>6. QED
    BY <1>1, <2>4, <2>5, MatchedByName DEF Current
<1>6. QED
  BY <1>4, <1>5, DeleteSays

LEMMA StartWatchingIsCurrent ==
    ASSUME TypeOK, LocksComeLater, StartWatching
    PROVE MatchedMeansCurrent'
<1> SUFFICES ASSUME Waits' PROVE Current'
  BY MatchedByName DEF MatchedMeansCurrent, Waits, Current
<1>1. disk' = disk /\ running' = running /\ curtain' = curtain
  BY DEF StartWatching
<1>2. running = Reading(disk)
  BY DEF StartWatching, Waits
<1>3. ~curtain.up
  BY DEF StartWatching, LocksComeLater
<1>4. QED
  BY <1>1, <1>2, <1>3 DEF Current

(* If all agrees once the paths are taken over, then none of them moved.   *)
LEMMA SyncKeepsCurrent ==
    ASSUME TypeOK, ListFollowsConfig, MatchedMeansCurrent, SyncTargets
    PROVE MatchedMeansCurrent'
<1> SUFFICES ASSUME Waits' PROVE Current'
  BY MatchedByName DEF MatchedMeansCurrent, Waits, Current
<1>1. disk' = disk /\ running' = running /\ curtain' = curtain /\ pc = "select"
  BY DEF SyncTargets
<1>2. Matched' /\ Loads(disk) /\ ~missed'
  BY <1>1 DEF Waits
<1>3. watcher.config = disk.config
  BY <1>1, <1>2, SyncSays DEF Matched
<1>4. watcher.pending = "none"
  BY SyncSays DEF Waits
<1>5. ~missed /\ ThemePath = watcher.themeAt
  BY <1>2, <1>3, <1>4 DEF SyncTargets
<1>6. watcher.listed = disk.config.kind.includes
  BY <1>3, <1>4 DEF ListFollowsConfig
<1>7. watcher'.theme = watcher.theme /\ watcher'.include = watcher.include
  BY <1>5, <1>6, SyncSays
<1>8. ThemePath' = ThemePath /\ IncludeStamp' = IncludeStamp
  BY <1>1 DEF ThemePath, IncludeStamp
<1>9. watcher.theme = ThemeStamp(ThemePath) /\ watcher.include = IncludeStamp
  BY <1>1, <1>2, <1>7, <1>8 DEF Matched, ThemeStamp
<1>10. Matched
  BY <1>3, <1>5, <1>6, <1>9 DEF Matched
<1>11. Waits
  BY <1>1, <1>2, <1>4, <1>5, <1>10 DEF Waits, AutoReloadOn
<1>12. QED
  BY <1>1, <1>11, MatchedByName DEF Current

LEMMA ApplyIsCurrent ==
    ASSUME TypeOK, Apply, disk' = disk
    PROVE MatchedMeansCurrent'
<1> SUFFICES ASSUME Waits' PROVE Current'
  BY MatchedByName DEF MatchedMeansCurrent, Waits, Current
<1>1. running' = Reading(disk)
  BY DEF Apply
<1>2. ~(curtain'.up /\ ~curtain'.reload /\ ~curtain'.untold)
  BY ApplySays
<1>3. QED
  BY <1>1, <1>2 DEF Current

(* The files are not read if they cannot be loaded, or if reloading is off.*)
LEMMA ReloadKeepsCurrent ==
    ASSUME TypeOK, MatchedMeansCurrent, Reload
    PROVE MatchedMeansCurrent'
<1>1. disk' = disk /\ watcher' = watcher
  BY DEF Reload
<1>2. CASE Apply
  BY <1>1, <1>2, ApplyIsCurrent
<1>3. CASE ~Apply
  <2> SUFFICES ASSUME Waits' PROVE FALSE
    BY MatchedByName DEF MatchedMeansCurrent, Waits, Current
  <2>1. /\ running' = running
        /\ ~((pc = "Config" => AutoReloadOn \/ disk.config.kind.auto) /\ Loads(disk))
    BY <1>3 DEF Reload
  <2>2. AutoReloadOn /\ Loads(disk)
    BY <1>1, <2>1 DEF Waits, AutoReloadOn
  <2>3. QED
    BY <2>1, <2>2
<1>4. QED
  BY <1>2, <1>3

LEMMA StartCurtainKeepsCurrent ==
    ASSUME TypeOK, MatchedMeansCurrent, StartCurtain
    PROVE MatchedMeansCurrent'
<1> SUFFICES ASSUME Waits' PROVE Current'
  BY MatchedByName DEF MatchedMeansCurrent, Waits, Current
<1>1. UNCHANGED <<disk, running, watcher, pc, missed>>
  BY DEF StartCurtain
<1>2. Waits
  BY <1>1 DEF Waits, AutoReloadOn, Matched, ThemePath, ThemeStamp, IncludeStamp
<1>3. curtain'.has = LoadOrDefault(disk)
  BY DEF StartCurtain, NoCurtain
<1>4. QED
  BY <1>1, <1>2, <1>3, MatchedByName DEF Current, Waits, LoadOrDefault

LEMMA CurtainReloadsKeepsCurrent ==
    ASSUME TypeOK, MatchedMeansCurrent, CurtainReloads
    PROVE MatchedMeansCurrent'
<1> SUFFICES ASSUME Waits' PROVE Current'
  BY MatchedByName DEF MatchedMeansCurrent, Waits, Current
<1>1. UNCHANGED <<disk, running, watcher, pc, missed>>
  BY DEF CurtainReloads
<1>2. Waits
  BY <1>1 DEF Waits, AutoReloadOn, Matched, ThemePath, ThemeStamp, IncludeStamp
<1>3. curtain'.has = Reading(disk)
  BY <1>2, CurtainReloadsSays DEF Waits
<1>4. QED
  BY <1>1, <1>2, <1>3, MatchedByName DEF Current

LEMMA NextCurrent == ReloadInv /\ [Next]_vars => MatchedMeansCurrent'
<1> SUFFICES ASSUME ReloadInv, [Next]_vars PROVE MatchedMeansCurrent'
  OBVIOUS
<1>0. /\ TypeOK /\ StampsArePast /\ LocksComeLater /\ ListFollowsConfig
      /\ MatchedMeansCurrent
  BY DEF ReloadInv
<1>1. CASE Write
  BY <1>0, <1>1, WriteKeepsCurrent
<1>2. ASSUME NEW f \in {"theme", "include"}, Delete(f) PROVE MatchedMeansCurrent'
  BY <1>0, <1>2, DeleteKeepsCurrent
<1>3. CASE StartWatching
  BY <1>0, <1>3, StartWatchingIsCurrent
<1>4. CASE SyncTargets
  BY <1>0, <1>4, SyncKeepsCurrent
<1>5. CASE NoteChange
  BY <1>0, <1>5, NoteSays DEF MatchedMeansCurrent
<1>6. CASE Fire
  BY <1>0, <1>6, FireSays DEF MatchedMeansCurrent, Triggers
<1>7. CASE NothingDue
  BY <1>0, <1>7 DEF NothingDue, NoChange, MatchedMeansCurrent, Matched, ThemePath, ThemeStamp,
     IncludeStamp, AutoReloadOn
<1>8. CASE Reload
  BY <1>0, <1>8, ReloadKeepsCurrent
<1>9. CASE DebounceEnds
  BY <1>0, <1>9, DebounceSays DEF MatchedMeansCurrent
<1>10. CASE ReloadByRequest
  BY <1>0, <1>10, ApplyIsCurrent DEF ReloadByRequest
<1>11. CASE StartCurtain
  BY <1>0, <1>11, StartCurtainKeepsCurrent
<1>12. CASE EndCurtain
  BY <1>0, <1>12 DEF EndCurtain, NoCurtain, MatchedMeansCurrent, Matched, ThemePath, ThemeStamp,
     IncludeStamp, AutoReloadOn
<1>13. CASE CurtainReloads
  BY <1>0, <1>13, CurtainReloadsKeepsCurrent
<1>14. CASE UNCHANGED vars
  BY <1>0, <1>14 DEF vars, MatchedMeansCurrent, Matched, ThemePath, ThemeStamp, IncludeStamp,
     AutoReloadOn
<1>15. QED
  BY <1>1, <1>2, <1>3, <1>4, <1>5, <1>6, <1>7, <1>8, <1>9, <1>10, <1>11, <1>12, <1>13,
     <1>14 DEF Next

-----------------------------------------------------------------------------
(* The inductive invariant: stamps are never younger than the last edit,   *)
(* the watched include is the one that the seen configuration lists, and   *)
(* stamps that match the disk, with nothing pending and nothing missed,    *)
(* mean that what is there was read, by veilad and by a curtain that the   *)
(* last request reached (daemon/src/app/watch.rs, apply_loaded_config).    *)
THEOREM ReloadInvHolds == Spec => []ReloadInv
<1>1. Init => ReloadInv
  BY InitTypes, InitFiles, InitWatches, InitCurrent DEF ReloadInv
<1>2. ReloadInv /\ [Next]_vars => ReloadInv'
  BY NextTypes, NextFiles, NextStamps, NextLocks, NextList, NextCurrent DEF ReloadInv
<1>3. QED
  BY <1>1, <1>2, PTL DEF Spec

(* While reloading is on, a watcher that has nothing left to do means that *)
(* veilad runs what is on disk, if it can be loaded, and so does a curtain *)
(* that the last request reached: for every set of configurations, and     *)
(* edits at any moment between two reads of the watcher, of the loader and *)
(* of the curtain (poll, sync_targets, apply_loaded_config).               *)
THEOREM QuietWatcherIsCurrent == Spec => []QuietMeansCurrent
<1>1. ReloadInv => QuietMeansCurrent
  <2> SUFFICES ASSUME ReloadInv, Quiet, ~missed, Loads(disk)
               PROVE Current
    BY DEF QuietMeansCurrent, Current
  <2>1. watcher = [NewWatcher EXCEPT !.due = watcher.due]
    BY DEF Quiet
  <2>2. /\ watcher.config = disk.config
        /\ watcher.themeAt = ThemePath /\ watcher.theme = ThemeStamp(ThemePath)
        /\ watcher.listed = disk.config.kind.includes /\ watcher.include = IncludeStamp
    BY <2>1 DEF NewWatcher
  <2>3. Waits
    BY <2>2 DEF Quiet, Matched, Waits
  <2>4. QED
    BY <2>3, MatchedByName DEF ReloadInv
<1>2. QED
  BY <1>1, ReloadInvHolds, PTL

-----------------------------------------------------------------------------
(* What the files say, once they have been read (ReloadedConfig). *)

\* A set of numbers has a least one.
LEMMA LeastOf ==
    ASSUME NEW S \in SUBSET Nat, S # {}
    PROVE  \E x \in S : \A y \in S : x <= y
<1> DEFINE Below == {ss \in Nat \X Nat : ss[1] < ss[2]}
<1>1. IsWellFoundedOn(Below, Nat)
  BY NatLessThanWellFounded DEF OpToRel
<1>2. PICK x \in S : \A y \in S : <<y, x>> \notin Below
  <2> HIDE DEF Below
  <2> QED
    BY <1>1, WFMin
<1>3. ASSUME NEW y \in S, ~(x <= y) PROVE FALSE
  <2>1. x \in Nat /\ y \in Nat /\ y < x
    BY <1>3
  <2>2. <<y, x>> \in Below
    BY <2>1
  <2> QED
    BY <1>2, <2>2
<1> QED
  BY <1>3

\* Induction from m to n
LEMMA FromTo ==
    ASSUME NEW m \in Nat, NEW n \in Nat, m <= n, NEW Good, m \in Good,
           \A i \in m..n : i \in Good /\ i < n => i + 1 \in Good
    PROVE  n \in Good
<1> DEFINE Bad == {i \in m..n : i \notin Good}
<1>1. SUFFICES ASSUME n \notin Good PROVE FALSE
  OBVIOUS
<1>2. PICK b \in Bad : \A c \in Bad : b <= c
  <2>1. Bad \in SUBSET Nat /\ Bad # {}
    BY <1>1
  <2> HIDE DEF Bad
  <2> QED
    BY <2>1, LeastOf
<1>3. b \in m..n /\ b # m /\ b - 1 \in m..n /\ b - 1 < n /\ (b - 1) + 1 = b
  BY <1>2
<1>4. b - 1 \in Good
  BY <1>2, <1>3
<1> QED
  BY <1>2, <1>3, <1>4

\* A set of numbers up to n has a greatest one.
LEMMA GreatestOf ==
    ASSUME NEW n \in Nat, NEW I \in SUBSET (1..n), I # {}
    PROVE  \E i \in I : \A j \in I : j <= i
<1> DEFINE J == {n - i : i \in I}
<1>1. J \in SUBSET Nat /\ J # {}
  <2>1. \A i \in I : n - i \in Nat
    OBVIOUS
  <2>2. \A j \in J : j \in Nat
    BY <2>1
  <2>3. PICK i \in I : TRUE
    OBVIOUS
  <2>4. n - i \in J
    BY <2>3
  <2> QED
    BY <2>2, <2>4
<1>2. PICK b \in J : \A c \in J : b <= c
  BY <1>1, LeastOf
<1>3. PICK i \in I : b = n - i
  BY <1>2
<1>4. \A j \in I : n - i <= n - j
  BY <1>2, <1>3
<1> QED
  BY <1>3, <1>4

LEMMA MaxIsLast ==
    ASSUME NEW n \in Nat, NEW I \in SUBSET (1..n), I # {}
    PROVE  Max(I) \in I /\ \A j \in I : j <= Max(I)
BY GreatestOf, Zenon DEF Max

-----------------------------------------------------------------------------
(* Flat keys. *)

\* No two flat keys are for the same setting; but for the radius, all are mapped.
LEMMA FlatKeysFacts ==
    /\ \A f \in DOMAIN FlatKeys : FlatKeys[f] = <<FlatKeys[f][1], FlatKeys[f][2]>>
    /\ \A f, g \in DOMAIN FlatKeys : FlatKeys[f] = FlatKeys[g] => f = g
    /\ DOMAIN Mappings = DOMAIN FlatKeys \ {"avatar_radius"}
    /\ \A f \in DOMAIN Mappings : Mappings[f] = FlatKeys[f]
    /\ \A f \in DOMAIN FlatKeys :
          FlatKeys[f][1] = "avatar" /\ FlatKeys[f][2] = "radius" <=> f = "avatar_radius"
<1>1. DOMAIN FlatKeys = {"input_width", "input_height", "avatar_size", "avatar_radius",
                         "keyboard_size", "keyboard_background_size", "battery_size",
                         "battery_background_size"}
  BY DEF FlatKeys
<1>2. \A f \in DOMAIN FlatKeys : FlatKeys[f] = <<FlatKeys[f][1], FlatKeys[f][2]>>
  BY DEF FlatKeys
<1>3. \A f, g \in DOMAIN FlatKeys : FlatKeys[f] = FlatKeys[g] => f = g
  BY DEF FlatKeys
<1>4. DOMAIN Mappings = DOMAIN FlatKeys \ {"avatar_radius"}
  BY DEF Mappings, Without
<1>5. \A f \in DOMAIN Mappings : Mappings[f] = FlatKeys[f]
  BY DEF Mappings, Without
<1>6. \A f \in DOMAIN FlatKeys :
        FlatKeys[f][1] = "avatar" /\ FlatKeys[f][2] = "radius" <=> f = "avatar_radius"
  BY DEF FlatKeys
<1> QED
  BY <1>2, <1>3, <1>4, <1>5, <1>6

\* A layer over another: its keys, and the keys that it does not have.
LEMMA OverFacts ==
    ASSUME NEW f, NEW g
    PROVE  /\ DOMAIN Over(f, g) = DOMAIN f \cup DOMAIN g
           /\ \A k \in DOMAIN f : Over(f, g)[k] = f[k]
           /\ \A k \in DOMAIN g \ DOMAIN f : Over(f, g)[k] = g[k]
BY DEF Over, Given

LEMMA FlatOfKey ==
    ASSUME NEW f \in DOMAIN FlatKeys, NEW v, NEW d
    PROVE  FlatOf(v, FlatKeys[f][1], FlatKeys[f][2], d) = Given(v.flat, f, d)
<1> DEFINE keys == {g \in DOMAIN v.flat \cap DOMAIN FlatKeys :
                      FlatKeys[g] = <<FlatKeys[f][1], FlatKeys[f][2]>>}
<1>1. keys = IF f \in DOMAIN v.flat THEN {f} ELSE {}
  BY FlatKeysFacts
<1>2. f \in DOMAIN v.flat => (CHOOSE g \in keys : TRUE) = f
  BY <1>1
<1> QED
  BY <1>1, <1>2 DEF FlatOf, Given

\* Does a layer have the flat key, does it have the setting in the section?
HasFlat(layer, f) == f \in DOMAIN layer.flat
Nests(layer, f) == FlatKeys[f][2] \in DOMAIN SectionOf(layer, FlatKeys[f][1])
Nested(layer, f) == SectionOf(layer, FlatKeys[f][1])[FlatKeys[f][2]]

LEMMA NamesByKey ==
    ASSUME NEW f \in DOMAIN FlatKeys, NEW layer
    PROVE  Names(layer, FlatKeys[f][1], FlatKeys[f][2]) <=> Nests(layer, f) \/ HasFlat(layer, f)
BY FlatKeysFacts DEF Names, Nests, HasFlat

LEMMA SettingByKey ==
    ASSUME NEW f \in DOMAIN FlatKeys, NEW v, NEW d
    PROVE  Setting(v, FlatKeys[f][1], FlatKeys[f][2], d) =
             IF Nests(v, f) THEN Nested(v, f) ELSE Given(v.flat, f, d)
BY FlatOfKey DEF Setting, Nests, Nested, Given

-----------------------------------------------------------------------------
(* Merging one layer over another. *)

Shadowed(over) == {Mappings[f] : f \in DOMAIN over.flat \cap DOMAIN Mappings}

\* What lower layers keep of a section
KeptSection(under, over, s) ==
    IF s \in DOMAIN under.nested
    THEN Without(under.nested[s], {k \in DOMAIN under.nested[s] : <<s, k>> \in Shadowed(over)})
    ELSE NoKeys

LEMMA NoKeysHasNone == DOMAIN NoKeys = {}
BY DEF NoKeys

LEMMA MergedFields ==
    ASSUME NEW u, NEW o, NEW m, m = Merged(u, o)
    PROVE  /\ DOMAIN m = {"flat", "nested", "color"}
           /\ m.flat = Over(o.flat, u.flat)
           /\ m.nested = [s \in (DOMAIN u.nested \cup DOMAIN o.nested)
                                    \ (IF o.color THEN {"input"} ELSE {}) |->
                            Over(Given(o.nested, s, NoKeys), KeptSection(u, o, s))]
           /\ m.color <=> o.color \/ (u.color /\ "input" \notin DOMAIN o.nested)
BY DEF Merged, KeptSection, Shadowed

LEMMA MergedDomain ==
    ASSUME NEW u, NEW o
    PROVE  DOMAIN Merged(u, o) = {"flat", "nested", "color"}
BY DEF Merged

\* A section has the keys of the upper layer, and those of the lower one that are not
\* shadowed by a flat key.
LEMMA MergedSection ==
    ASSUME NEW u, NEW o, NEW m, m = Merged(u, o), NEW s, s # "input" \/ ~o.color
    PROVE  /\ \A k : k \in DOMAIN SectionOf(m, s) <=>
                       \/ k \in DOMAIN SectionOf(o, s)
                       \/ k \in DOMAIN SectionOf(u, s) /\ <<s, k>> \notin Shadowed(o)
           /\ \A k \in DOMAIN SectionOf(o, s) : SectionOf(m, s)[k] = SectionOf(o, s)[k]
           /\ \A k \in DOMAIN SectionOf(u, s) \ DOMAIN SectionOf(o, s) :
                <<s, k>> \notin Shadowed(o) => SectionOf(m, s)[k] = SectionOf(u, s)[k]
<1> DEFINE sections == (DOMAIN u.nested \cup DOMAIN o.nested) \ (IF o.color THEN {"input"} ELSE {})
           K == KeptSection(u, o, s)
           O == Given(o.nested, s, NoKeys)
           kept == {k \in DOMAIN SectionOf(u, s) : <<s, k>> \notin Shadowed(o)}
<1>1. m.nested = [x \in sections |-> Over(Given(o.nested, x, NoKeys), KeptSection(u, o, x))]
  BY MergedFields
<1>2. O = SectionOf(o, s)
  BY DEF SectionOf
<1>3. DOMAIN K = kept /\ \A k \in kept : K[k] = SectionOf(u, s)[k]
  <2>1. CASE s \in DOMAIN u.nested
    BY <2>1 DEF KeptSection, Without, SectionOf, Given
  <2>2. CASE s \notin DOMAIN u.nested
    BY <2>2, NoKeysHasNone DEF KeptSection, SectionOf, Given
  <2> QED
    BY <2>1, <2>2
<1>4. CASE s \in sections
  <2>1. SectionOf(m, s) = Over(O, K)
    BY <1>1, <1>4 DEF SectionOf, Given
  <2> HIDE DEF K, O
  <2>2. /\ DOMAIN Over(O, K) = DOMAIN O \cup DOMAIN K
        /\ \A k \in DOMAIN O : Over(O, K)[k] = O[k]
        /\ \A k \in DOMAIN K \ DOMAIN O : Over(O, K)[k] = K[k]
    BY OverFacts
  <2> QED
    BY <1>2, <1>3, <2>1, <2>2
<1>5. CASE s \notin sections
  <2>1. s \notin DOMAIN u.nested /\ s \notin DOMAIN o.nested
    BY <1>5
  <2>2. s \notin DOMAIN m.nested
    BY <1>1, <1>5
  <2>3. SectionOf(m, s) = NoKeys /\ SectionOf(u, s) = NoKeys /\ SectionOf(o, s) = NoKeys
    BY <2>1, <2>2 DEF SectionOf, Given
  <2> QED
    BY <2>3, NoKeysHasNone
<1> QED
  BY <1>4, <1>5

LEMMA MergedFlat ==
    ASSUME NEW u, NEW o, NEW m, m = Merged(u, o), NEW f
    PROVE  /\ HasFlat(m, f) <=> HasFlat(o, f) \/ HasFlat(u, f)
           /\ HasFlat(o, f) => m.flat[f] = o.flat[f]
           /\ ~HasFlat(o, f) /\ HasFlat(u, f) => m.flat[f] = u.flat[f]
<1>1. m.flat = Over(o.flat, u.flat)
  BY MergedFields
<1> DEFINE a == o.flat
           b == u.flat
<1> HIDE DEF a, b
<1>2. /\ DOMAIN Over(a, b) = DOMAIN a \cup DOMAIN b
      /\ \A k \in DOMAIN a : Over(a, b)[k] = a[k]
      /\ \A k \in DOMAIN b \ DOMAIN a : Over(a, b)[k] = b[k]
  BY OverFacts
<1> USE DEF a, b
<1>3. DOMAIN m.flat = DOMAIN o.flat \cup DOMAIN u.flat
  BY <1>1, <1>2
<1>4. f \in DOMAIN o.flat => m.flat[f] = o.flat[f]
  BY <1>1, <1>2
<1>5. f \in DOMAIN u.flat /\ f \notin DOMAIN o.flat => m.flat[f] = u.flat[f]
  BY <1>1, <1>2
<1> QED
  BY <1>3, <1>4, <1>5 DEF HasFlat

LEMMA ShadowedByKey ==
    ASSUME NEW f \in DOMAIN FlatKeys, NEW o
    PROVE  <<FlatKeys[f][1], FlatKeys[f][2]>> \in Shadowed(o) <=>
             HasFlat(o, f) /\ f # "avatar_radius"
BY FlatKeysFacts DEF Shadowed, HasFlat

\* A layer that names a setting decides.
LEMMA OverNamed ==
    ASSUME NEW u, NEW o, NEW m, m = Merged(u, o), NEW f \in DOMAIN FlatKeys,
           FlatKeys[f][1] # "input" \/ ~o.color
    PROVE  /\ Nests(o, f) => Nests(m, f) /\ Nested(m, f) = Nested(o, f)
           /\ ~Nests(o, f) /\ HasFlat(o, f) /\ f # "avatar_radius" => ~Nests(m, f)
<1> DEFINE s == FlatKeys[f][1]
           k == FlatKeys[f][2]
<1>1. /\ k \in DOMAIN SectionOf(m, s) <=>
            \/ k \in DOMAIN SectionOf(o, s)
            \/ k \in DOMAIN SectionOf(u, s) /\ <<s, k>> \notin Shadowed(o)
      /\ k \in DOMAIN SectionOf(o, s) => SectionOf(m, s)[k] = SectionOf(o, s)[k]
  BY MergedSection
<1>2. <<s, k>> \in Shadowed(o) <=> HasFlat(o, f) /\ f # "avatar_radius"
  BY ShadowedByKey
<1> QED
  BY <1>1, <1>2 DEF Nests, Nested

\* A layer that does not name it leaves it as it is.
LEMMA OverUnnamed ==
    ASSUME NEW u, NEW o, NEW m, m = Merged(u, o), NEW f \in DOMAIN FlatKeys,
           FlatKeys[f][1] # "input" \/ ~o.color, ~Nests(o, f)
    PROVE  /\ Nests(m, f) => Nests(u, f)
           /\ Nests(u, f) /\ ~HasFlat(o, f) => Nests(m, f) /\ Nested(m, f) = Nested(u, f)
<1> DEFINE s == FlatKeys[f][1]
           k == FlatKeys[f][2]
<1>1. /\ k \in DOMAIN SectionOf(m, s) <=>
            \/ k \in DOMAIN SectionOf(o, s)
            \/ k \in DOMAIN SectionOf(u, s) /\ <<s, k>> \notin Shadowed(o)
      /\ k \in DOMAIN SectionOf(u, s) \ DOMAIN SectionOf(o, s) =>
           (<<s, k>> \notin Shadowed(o) => SectionOf(m, s)[k] = SectionOf(u, s)[k])
  BY MergedSection
<1>2. <<s, k>> \in Shadowed(o) <=> HasFlat(o, f) /\ f # "avatar_radius"
  BY ShadowedByKey
<1> QED
  BY <1>1, <1>2 DEF Nests, Nested

-----------------------------------------------------------------------------
(* Merging all layers.                                                     *)

Layers(layers, n) == n \in Nat /\ n >= 1 /\ DOMAIN layers = 1..n /\ Len(layers) = n

\* m[i] is what the first i layers make
Merges(m, layers, n) ==
    m = [i \in 1..n |-> IF i = 1 THEN layers[1] ELSE Merged(m[i - 1], layers[i])]

\* The recursion that merges all layers has a solution.
LEMMA MergesExist ==
    ASSUME NEW n \in Nat, n >= 1, NEW layers
    PROVE  \E m : Merges(m, layers, n)
<1> DEFINE Good == {i \in 1..n : \E m : Merges(m, layers, i)}
<1>1. 1 \in Good
  <2> DEFINE m == [i \in 1..1 |-> layers[1]]
  <2>1. Merges(m, layers, 1)
    BY DEF Merges
  <2> HIDE DEF m
  <2> QED
    BY <2>1
<1>2. ASSUME NEW i \in 1..n, i \in Good, i < n PROVE i + 1 \in Good
  <2>1. PICK m : Merges(m, layers, i)
    BY <1>2
  <2> DEFINE h == [j \in 1..(i + 1) |-> IF j = i + 1 THEN Merged(m[i], layers[i + 1]) ELSE m[j]]
  <2>2. ASSUME NEW j \in 1..(i + 1)
        PROVE  h[j] = IF j = 1 THEN layers[1] ELSE Merged(h[j - 1], layers[j])
    <3>1. CASE j = i + 1
      BY <1>2, <3>1
    <3>2. CASE j # i + 1
      <4>1. j \in 1..i /\ h[j] = m[j] /\ (j # 1 => h[j - 1] = m[j - 1])
        BY <1>2, <3>2
      <4>2. m[j] = IF j = 1 THEN layers[1] ELSE Merged(m[j - 1], layers[j])
        BY <2>1, <4>1 DEF Merges
      <4> HIDE DEF h
      <4> QED
        BY <4>1, <4>2
    <3> QED
      BY <3>1, <3>2
  <2>3. h = [j \in DOMAIN h |-> h[j]] /\ DOMAIN h = 1..(i + 1)
    OBVIOUS
  <2> HIDE DEF h
  <2>4. Merges(h, layers, i + 1)
    BY <2>2, <2>3 DEF Merges
  <2> QED
    BY <1>2, <2>4
<1> HIDE DEF Good
<1>3. n \in Good
  BY <1>1, <1>2, FromTo
<1> QED
  BY <1>3 DEF Good

LEMMA MergedAllIs ==
    ASSUME NEW n, NEW layers, Layers(layers, n)
    PROVE  \E m : Merges(m, layers, n) /\ MergedAll(layers) = m[n]
<1>1. \E m : Merges(m, layers, n)
  BY MergesExist DEF Layers
<1> DEFINE m == CHOOSE m : Merges(m, layers, n)
<1>2. Merges(m, layers, n)
  BY <1>1
<1>3. MergedAll(layers) = m[n]
  BY DEF MergedAll, Merges, Layers
<1> QED
  BY <1>2, <1>3

LEMMA MergesStep ==
    ASSUME NEW n, NEW layers, Layers(layers, n), NEW m, Merges(m, layers, n)
    PROVE  /\ m[1] = layers[1]
           /\ \A i \in 1..n : i > 1 => m[i] = Merged(m[i - 1], layers[i])
BY DEF Merges, Layers

\* The last layer that names a setting is followed by others that do not.
LastNaming(layers, n, f, last) ==
    /\ last \in 1..n
    /\ Nests(layers[last], f) \/ HasFlat(layers[last], f)
    /\ \A i \in 1..n : i > last => ~Nests(layers[i], f) /\ ~HasFlat(layers[i], f)

\* A flat key has the value of the last layer that has it.
LEMMA LastFlat ==
    ASSUME NEW n, NEW layers, Layers(layers, n), NEW m, Merges(m, layers, n),
           NEW f, NEW last, LastNaming(layers, n, f, last), HasFlat(layers[last], f)
    PROVE  HasFlat(m[n], f) /\ m[n].flat[f] = layers[last].flat[f]
<1> DEFINE Good == {i \in last..n : HasFlat(m[i], f) /\ m[i].flat[f] = layers[last].flat[f]}
<1>0. n \in Nat /\ last \in Nat /\ last >= 1 /\ last <= n
  BY DEF Layers, LastNaming
<1>1. last \in Good
  <2>1. CASE last = 1
    BY <1>0, <2>1, MergesStep
  <2>2. CASE last # 1
    <3>1. m[last] = Merged(m[last - 1], layers[last])
      BY <1>0, <2>2, MergesStep
    <3> QED
      BY <1>0, <3>1, MergedFlat
  <2> QED
    BY <2>1, <2>2
<1>2. ASSUME NEW i \in last..n, i \in Good, i < n PROVE i + 1 \in Good
  <2>1. i + 1 \in last..n /\ i + 1 \in 1..n /\ i + 1 > 1 /\ (i + 1) - 1 = i /\ i + 1 > last
    BY <1>0, <1>2
  <2>2. m[i + 1] = Merged(m[i], layers[i + 1])
    BY <2>1, MergesStep
  <2>3. ~HasFlat(layers[i + 1], f)
    BY <2>1 DEF LastNaming
  <2>4. HasFlat(m[i], f) /\ m[i].flat[f] = layers[last].flat[f]
    BY <1>2
  <2>5. HasFlat(m[i + 1], f) /\ m[i + 1].flat[f] = m[i].flat[f]
    BY <2>2, <2>3, <2>4, MergedFlat
  <2> QED
    BY <2>1, <2>4, <2>5
<1> HIDE DEF Good
<1>3. \A i \in last..n : i \in Good /\ i < n => i + 1 \in Good
  BY <1>2
<1>4. n \in Good
  BY <1>0, <1>1, <1>3, FromTo, Zenon
<1> QED
  BY <1>4 DEF Good

\* No colour of the input comes after the layer, if it is about the input.
NoColor(layers, n, f, last) ==
    FlatKeys[f][1] # "input" \/ \A i \in last..n : ~layers[i].color

\* So has a setting of a section.
LEMMA LastNested ==
    ASSUME NEW n, NEW layers, Layers(layers, n), NEW m, Merges(m, layers, n),
           NEW f \in DOMAIN FlatKeys, NEW last, LastNaming(layers, n, f, last),
           NoColor(layers, n, f, last), Nests(layers[last], f)
    PROVE  Nests(m[n], f) /\ Nested(m[n], f) = Nested(layers[last], f)
<1> DEFINE Good == {i \in last..n : Nests(m[i], f) /\ Nested(m[i], f) = Nested(layers[last], f)}
<1>0. n \in Nat /\ last \in Nat /\ last >= 1 /\ last <= n
  BY DEF Layers, LastNaming
<1>1. last \in Good
  <2>1. CASE last = 1
    BY <1>0, <2>1, MergesStep
  <2>2. CASE last # 1
    <3>1. m[last] = Merged(m[last - 1], layers[last])
      BY <1>0, <2>2, MergesStep
    <3>2. FlatKeys[f][1] # "input" \/ ~layers[last].color
      BY <1>0 DEF NoColor
    <3> QED
      BY <1>0, <3>1, <3>2, OverNamed
  <2> QED
    BY <2>1, <2>2
<1>2. ASSUME NEW i \in last..n, i \in Good, i < n PROVE i + 1 \in Good
  <2>1. i + 1 \in last..n /\ i + 1 \in 1..n /\ i + 1 > 1 /\ (i + 1) - 1 = i /\ i + 1 > last
    BY <1>0, <1>2
  <2>2. m[i + 1] = Merged(m[i], layers[i + 1])
    BY <2>1, MergesStep
  <2>3. ~HasFlat(layers[i + 1], f) /\ ~Nests(layers[i + 1], f)
    BY <2>1 DEF LastNaming
  <2>4. FlatKeys[f][1] # "input" \/ ~layers[i + 1].color
    BY <2>1 DEF NoColor
  <2>5. Nests(m[i], f) /\ Nested(m[i], f) = Nested(layers[last], f)
    BY <1>2
  <2>6. Nests(m[i + 1], f) /\ Nested(m[i + 1], f) = Nested(m[i], f)
    BY <2>2, <2>3, <2>4, <2>5, OverUnnamed
  <2> QED
    BY <2>1, <2>5, <2>6
<1> HIDE DEF Good
<1>3. \A i \in last..n : i \in Good /\ i < n => i + 1 \in Good
  BY <1>2
<1>4. n \in Good
  BY <1>0, <1>1, <1>3, FromTo, Zenon
<1> QED
  BY <1>4 DEF Good

\* If the last layer has the flat key alone, no section has the setting.
LEMMA LastUnnested ==
    ASSUME NEW n, NEW layers, Layers(layers, n), NEW m, Merges(m, layers, n),
           NEW f \in DOMAIN FlatKeys, NEW last, LastNaming(layers, n, f, last),
           FlatKeys[f][1] # "input", ~Nests(layers[last], f),
           f = "avatar_radius" => \A i \in 1..n : ~Nests(layers[i], f)
    PROVE  ~Nests(m[n], f)
<1> DEFINE start == IF f = "avatar_radius" THEN 1 ELSE last
           Good == {i \in start..n : ~Nests(m[i], f)}
<1>0. n \in Nat /\ last \in Nat /\ last >= 1 /\ last <= n
  BY DEF Layers, LastNaming
<1>1. start \in Nat /\ start >= 1 /\ start <= n
  BY <1>0
<1>2. start \in Good
  <2>1. CASE start = 1
    BY <1>0, <2>1, MergesStep
  <2>2. CASE start # 1
    <3>1. start = last /\ f # "avatar_radius" /\ m[last] = Merged(m[last - 1], layers[last])
      BY <1>0, <2>2, MergesStep
    <3>2. HasFlat(layers[last], f)
      BY DEF LastNaming
    <3>3. ~Nests(m[last], f)
      BY <3>1, <3>2, OverNamed
    <3> QED
      BY <1>0, <3>1, <3>3
  <2> QED
    BY <2>1, <2>2
<1>3. \A i \in start..n : i > start => ~Nests(layers[i], f)
  BY <1>0 DEF LastNaming
<1> HIDE DEF start
<1>4. ASSUME NEW i \in start..n, i \in Good, i < n PROVE i + 1 \in Good
  <2>1. i + 1 \in start..n /\ i + 1 \in 1..n /\ i + 1 > 1 /\ (i + 1) - 1 = i /\ i + 1 > start
    BY <1>0, <1>1, <1>4
  <2>2. m[i + 1] = Merged(m[i], layers[i + 1])
    BY <2>1, MergesStep
  <2>3. ~Nests(layers[i + 1], f)
    BY <1>3, <2>1
  <2>4. ~Nests(m[i], f)
    BY <1>4
  <2>5. ~Nests(m[i + 1], f)
    BY <2>2, <2>3, <2>4, OverUnnamed
  <2> QED
    BY <2>1, <2>5
<1> HIDE DEF Good
<1>5. \A i \in start..n : i \in Good /\ i < n => i + 1 \in Good
  BY <1>4
<1>6. n \in Good
  BY <1>0, <1>1, <1>2, <1>5, FromTo, Zenon
<1> QED
  BY <1>6 DEF Good

\* As a colour, the input has no section.
LEMMA ColorOrSection ==
    ASSUME NEW n, NEW layers, Layers(layers, n), NEW m, Merges(m, layers, n),
           ~layers[1].color, m[n].color
    PROVE  "input" \notin DOMAIN m[n].nested
<1> DEFINE Good == {i \in 1..n : m[i].color => "input" \notin DOMAIN m[i].nested}
<1>0. n \in Nat /\ n >= 1
  BY DEF Layers
<1>1. 1 \in Good
  BY <1>0, MergesStep
<1>2. ASSUME NEW i \in 1..n, i \in Good, i < n PROVE i + 1 \in Good
  <2>1. i + 1 \in 1..n /\ i + 1 > 1 /\ (i + 1) - 1 = i
    BY <1>0, <1>2
  <2>2. m[i + 1] = Merged(m[i], layers[i + 1])
    BY <2>1, MergesStep
  <2> DEFINE u == m[i]
             o == layers[i + 1]
  <2>3. /\ m[i + 1].nested = [s \in (DOMAIN u.nested \cup DOMAIN o.nested)
                                    \ (IF o.color THEN {"input"} ELSE {}) |->
                            Over(Given(o.nested, s, NoKeys), KeptSection(u, o, s))]
        /\ m[i + 1].color <=> o.color \/ (u.color /\ "input" \notin DOMAIN o.nested)
    BY <2>2, MergedFields
  <2>4. DOMAIN m[i + 1].nested = (DOMAIN u.nested \cup DOMAIN o.nested)
                                    \ (IF o.color THEN {"input"} ELSE {})
    BY <2>3
  <2>5. u.color => "input" \notin DOMAIN u.nested
    BY <1>2
  <2>6. m[i + 1].color => "input" \notin DOMAIN m[i + 1].nested
    BY <2>3, <2>4, <2>5
  <2> QED
    BY <2>1, <2>6
<1> HIDE DEF Good
<1>3. n \in Good
  BY <1>0, <1>1, <1>2, FromTo
<1> QED
  BY <1>3 DEF Good

-----------------------------------------------------------------------------
(* What a user may rely on. *)

\* The defaults of the input add keys and change none.
LEMMA DeserializedFacts ==
    ASSUME NEW v, DOMAIN v = {"flat", "nested", "color"}, NEW w, w = Deserialized(v),
           NEW f \in DOMAIN FlatKeys
    PROVE  /\ w.flat = v.flat
           /\ "input" \notin DOMAIN v.nested => w = v
           /\ FlatKeys[f][1] # "input" => (Nests(w, f) <=> Nests(v, f))
           /\ Nests(v, f) => Nests(w, f) /\ Nested(w, f) = Nested(v, f)
<1> DEFINE D == Without(InputSection, PositionKeys)
           I == v.nested["input"]
           s == FlatKeys[f][1]
<1>1. CASE "input" \notin DOMAIN v.nested
  <2>1. w = v
    BY <1>1 DEF Deserialized
  <2> QED
    BY <1>1, <2>1
<1>2. CASE "input" \in DOMAIN v.nested
  <2>1. w = [v EXCEPT !.nested["input"] = Over(I, D)]
    BY <1>2 DEF Deserialized
  <2> HIDE DEF D
  <2>2. w.flat = v.flat /\ w.nested = [v.nested EXCEPT !["input"] = Over(I, D)]
    BY <2>1
  <2>3. DOMAIN w.nested = DOMAIN v.nested
    BY <2>2
  <2>4. \A x : x # "input" => SectionOf(w, x) = SectionOf(v, x)
    <3> SUFFICES ASSUME NEW x, x # "input" PROVE SectionOf(w, x) = SectionOf(v, x)
      OBVIOUS
    <3>1. CASE x \in DOMAIN v.nested
      <4>1. w.nested[x] = v.nested[x]
        BY <2>2, <3>1
      <4> QED
        BY <2>3, <3>1, <4>1 DEF SectionOf, Given
    <3>2. CASE x \notin DOMAIN v.nested
      BY <2>3, <3>2 DEF SectionOf, Given
    <3> QED
      BY <3>1, <3>2
  <2>5. SectionOf(v, "input") = I /\ SectionOf(w, "input") = Over(I, D)
    BY <1>2, <2>2, <2>3 DEF SectionOf, Given
  <2> HIDE DEF I
  <2>6. DOMAIN Over(I, D) = DOMAIN I \cup DOMAIN D /\ \A k \in DOMAIN I : Over(I, D)[k] = I[k]
    BY OverFacts
  <2>7. CASE s # "input"
    <3>1. SectionOf(w, s) = SectionOf(v, s)
      BY <2>4, <2>7
    <3> QED
      BY <1>2, <2>2, <3>1 DEF Nests, Nested
  <2>8. CASE s = "input"
    BY <1>2, <2>2, <2>5, <2>6, <2>8 DEF Nests, Nested
  <2> QED
    BY <2>7, <2>8
<1> QED
  BY <1>1, <1>2

\* The last layer that names a setting decides it.
LEMMA LastNamedDecides ==
    ASSUME NEW n, NEW layers, Layers(layers, n), n >= 2, ~layers[1].color,
           NEW f \in DOMAIN FlatKeys, NEW last, LastNaming(layers, n, f, last),
           ~Exempt(layers, FlatKeys[f][1], FlatKeys[f][2], last)
    PROVE  Setting(Loaded(layers), FlatKeys[f][1], FlatKeys[f][2], -1) =
             Setting(layers[last], FlatKeys[f][1], FlatKeys[f][2], -1)
<1> DEFINE s == FlatKeys[f][1]
           k == FlatKeys[f][2]
           w == Loaded(layers)
<1>0. n \in Nat /\ DOMAIN layers = 1..n /\ Len(layers) = n /\ last \in 1..n
  BY DEF Layers, LastNaming
<1>1. PICK m : Merges(m, layers, n) /\ MergedAll(layers) = m[n]
  BY MergedAllIs
<1>2. m[n] = Merged(m[n - 1], layers[n])
  BY <1>0, <1>1, MergesStep
<1>3. w = Deserialized(m[n]) /\ DOMAIN m[n] = {"flat", "nested", "color"}
  <2> DEFINE v == m[n]
             u == m[n - 1]
             o == layers[n]
  <2>1. v = Merged(u, o)
    BY <1>2
  <2> HIDE DEF v, u, o
  <2>2. DOMAIN v = {"flat", "nested", "color"}
    BY <2>1, MergedDomain
  <2>3. w = Deserialized(v)
    BY <1>1 DEF Loaded, v
  <2> QED
    BY <2>2, <2>3 DEF v
<1>4. s = "input" => IF m[n].color THEN ~Nests(layers[last], f)
                     ELSE Nests(layers[last], f) /\ \A i \in last..n : ~layers[i].color
  BY <1>0, <1>1 DEF Exempt, Nests
<1>5. f = "avatar_radius" =>
        Nests(layers[last], f) \/ \A i \in 1..n : ~Nests(layers[i], f)
  <2>1. f = "avatar_radius" => <<s, k>> = <<"avatar", "radius">>
    BY FlatKeysFacts
  <2> QED
    BY <1>0, <2>1 DEF Exempt, Nests
<1> HIDE DEF w
<1>6. /\ w.flat = m[n].flat
      /\ "input" \notin DOMAIN m[n].nested => w = m[n]
      /\ s # "input" => (Nests(w, f) <=> Nests(m[n], f))
      /\ Nests(m[n], f) => Nests(w, f) /\ Nested(w, f) = Nested(m[n], f)
  <2> DEFINE v == m[n]
  <2>1. w = Deserialized(v) /\ DOMAIN v = {"flat", "nested", "color"}
    BY <1>3
  <2> HIDE DEF v
  <2>2. /\ w.flat = v.flat
        /\ "input" \notin DOMAIN v.nested => w = v
        /\ s # "input" => (Nests(w, f) <=> Nests(v, f))
        /\ Nests(v, f) => Nests(w, f) /\ Nested(w, f) = Nested(v, f)
    BY <2>1, DeserializedFacts
  <2> QED
    BY <2>2 DEF v
<1>7. CASE Nests(layers[last], f)
  <2>1. NoColor(layers, n, f, last)
    BY <1>4, <1>7 DEF NoColor
  <2>2. Nests(m[n], f) /\ Nested(m[n], f) = Nested(layers[last], f)
    BY <1>1, <1>7, <2>1, LastNested
  <2>3. Nests(w, f) /\ Nested(w, f) = Nested(layers[last], f)
    BY <1>6, <2>2
  <2> QED
    BY <1>7, <2>3, SettingByKey DEF w
<1>8. CASE ~Nests(layers[last], f)
  <2>1. HasFlat(layers[last], f)
    BY <1>8 DEF LastNaming
  <2>2. HasFlat(m[n], f) /\ m[n].flat[f] = layers[last].flat[f]
    BY <1>1, <2>1, LastFlat
  <2>3. ~Nests(w, f)
    <3>1. CASE s = "input"
      <4>1. "input" \notin DOMAIN m[n].nested
        BY <1>1, <1>4, <1>8, <3>1, ColorOrSection
      <4>2. w = m[n] /\ SectionOf(m[n], s) = NoKeys
        BY <1>6, <3>1, <4>1 DEF SectionOf, Given
      <4> QED
        BY <4>2, NoKeysHasNone DEF Nests
    <3>2. CASE s # "input"
      <4>1. ~Nests(m[n], f)
        BY <1>1, <1>5, <1>8, <3>2, LastUnnested
      <4> QED
        BY <1>6, <3>2, <4>1
    <3> QED
      BY <3>1, <3>2
  <2>4. HasFlat(w, f) /\ w.flat[f] = layers[last].flat[f]
    BY <1>6, <2>2 DEF HasFlat
  <2>5. /\ Setting(w, s, k, -1) = Given(w.flat, f, -1)
        /\ Setting(layers[last], s, k, -1) = Given(layers[last].flat, f, -1)
    BY <1>8, <2>3, SettingByKey
  <2> QED
    BY <2>1, <2>4, <2>5 DEF Given, HasFlat, w
<1> QED
  BY <1>7, <1>8

LEMMA LayersAreObeyed ==
    ASSUME NEW n, NEW layers, Layers(layers, n), n >= 2, ~layers[1].color
    PROVE  LastNamedIsUsed(layers)
<1>1. SUFFICES ASSUME NEW f \in DOMAIN FlatKeys,
                      NEW named, named = {i \in DOMAIN layers :
                                            Names(layers[i], FlatKeys[f][1], FlatKeys[f][2])},
                      named # {},
                      ~Exempt(layers, FlatKeys[f][1], FlatKeys[f][2], Max(named))
               PROVE  Setting(Loaded(layers), FlatKeys[f][1], FlatKeys[f][2], -1) =
                        Setting(layers[Max(named)], FlatKeys[f][1], FlatKeys[f][2], -1)
  BY Zenon DEF LastNamedIsUsed
<1>2. n \in Nat /\ DOMAIN layers = 1..n
  BY DEF Layers
<1>3. named \in SUBSET (1..n)
  BY <1>1, <1>2
<1>4. Max(named) \in named /\ \A j \in named : j <= Max(named)
  BY <1>1, <1>2, <1>3, MaxIsLast, Zenon
<1> DEFINE last == Max(named)
<1>5. last \in 1..n /\ \A j \in named : j <= last
  BY <1>3, <1>4
<1>6. Nests(layers[last], f) \/ HasFlat(layers[last], f)
  BY <1>1, <1>4, NamesByKey
<1> HIDE DEF last
<1>7. ASSUME NEW i \in 1..n, i > last PROVE ~Nests(layers[i], f) /\ ~HasFlat(layers[i], f)
  <2>1. i \notin named
    BY <1>2, <1>5, <1>7
  <2>2. ~Names(layers[i], FlatKeys[f][1], FlatKeys[f][2])
    BY <1>1, <1>2, <2>1
  <2> QED
    BY <2>2, NamesByKey
<1>8. LastNaming(layers, n, f, last)
  BY <1>5, <1>6, <1>7 DEF LastNaming
<1> QED
  BY <1>1, <1>8, LastNamedDecides DEF last

\* What is loaded is a stack of layers over the built-in configuration.
LEMMA StackIsLayers ==
    ASSUME NEW named, NEW chosen, NEW default, NEW includes, NEW user,
           default = <<DefaultTheme>>, NEW x, includes = <<>> \/ includes = <<x>>,
           NEW layers, layers = Stack(named, chosen, default, includes, user)
    PROVE  LastNamedIsUsed(layers)
<1> DEFINE S == {BuiltIn, chosen, DefaultTheme, x, user}
           a == <<BuiltIn>>
           b == IF named THEN <<chosen>> ELSE default
<1>1. a \in Seq(S) /\ Len(a) = 1 /\ a[1] = BuiltIn
  OBVIOUS
<1>2. b \in Seq(S) /\ Len(b) = 1
  OBVIOUS
<1>3. includes \in Seq(S) /\ Len(includes) \in 0..1 /\ <<user>> \in Seq(S) /\ Len(<<user>>) = 1
  <2>1. <<>> \in Seq(S) /\ Len(<<>>) = 0
    OBVIOUS
  <2>2. <<x>> \in Seq(S) /\ Len(<<x>>) = 1
    OBVIOUS
  <2>3. <<user>> \in Seq(S) /\ Len(<<user>>) = 1
    OBVIOUS
  <2> HIDE DEF S
  <2>4. CASE includes = <<>>
    BY <2>1, <2>3, <2>4
  <2>5. CASE includes = <<x>>
    BY <2>2, <2>3, <2>5
  <2> QED
    BY <2>4, <2>5
<1>4. layers = a \o b \o includes \o <<user>>
  BY DEF Stack
<1>5. ~BuiltIn.color
  BY DEF BuiltIn
<1> HIDE DEF S, a, b
<1>6. a \o b \in Seq(S) /\ Len(a \o b) = 2 /\ (a \o b)[1] = BuiltIn
  BY <1>1, <1>2, ConcatProperties
<1> DEFINE c == a \o b
<1> HIDE DEF c
<1>7. c \o includes \in Seq(S) /\ Len(c \o includes) >= 2 /\ (c \o includes)[1] = BuiltIn
  BY <1>3, <1>6, ConcatProperties DEF c
<1> DEFINE d == c \o includes
<1> HIDE DEF d
<1>8. d \o <<user>> \in Seq(S) /\ Len(d \o <<user>>) >= 2 /\ (d \o <<user>>)[1] = BuiltIn
  BY <1>3, <1>7, ConcatProperties DEF d
<1>9. layers \in Seq(S) /\ Len(layers) >= 2 /\ layers[1] = BuiltIn
  BY <1>4, <1>8 DEF c, d
<1>10. Layers(layers, Len(layers))
  BY <1>9 DEF Layers
<1> QED
  BY <1>5, <1>9, <1>10, LayersAreObeyed

LEMMA AllObeyed == Obeyed = Shapes
<1>1. ASSUME NEW shape \in Shapes, NEW layers \in StacksOf(shape)
      PROVE  LastNamedIsUsed(layers)
  <2> DEFINE Theme(theme) == IF shape.own THEN theme ELSE BundledTheme
             Include(include) == IF shape.included THEN <<include>> ELSE <<>>
  <2>1. StacksOf(shape) =
            {Stack(shape.named, Theme(theme), <<DefaultTheme>>, Include(include), user) :
                theme \in Texts, include \in Texts, user \in Texts}
    BY DEF StacksOf
  <2>2. \A include : Include(include) = <<>> \/ Include(include) = <<include>>
    OBVIOUS
  <2> HIDE DEF Theme, Include
  <2>3. PICK theme \in Texts, include \in Texts, user \in Texts :
            layers = Stack(shape.named, Theme(theme), <<DefaultTheme>>, Include(include), user)
    BY <2>1
  <2> QED
    BY <2>2, <2>3, StackIsLayers
<1> QED
  BY <1>1 DEF Obeyed

(* Whatever files were there when veilad read its configuration, and       *)
(* whatever they say, the last one that names a setting decides it, in a   *)
(* section or by the key the setting had before, but for the cases Exempt  *)
(* lists (merge_config_layer, deserialize_toml_value, the accessors of     *)
(* VisualConfig), for every text of every file.                            *)
THEOREM LastNamedFileDecides == Spec => []LastFileDecides
<1>1. ReloadInv => LastFileDecides
  <2> SUFFICES ASSUME ReloadInv PROVE Shape(running) \in Shapes
    BY AllObeyed DEF LastFileDecides
  <2>1. running \in Disks
    BY DEF ReloadInv, TypeOK
  <2>2. running.config.kind.themed \in BOOLEAN
    BY <2>1 DEF Disks, Configs, KindRecords
  <2> QED
    BY <2>2 DEF Shape, Shapes
<1>2. QED
  BY <1>1, ReloadInvHolds, PTL
=============================================================================
