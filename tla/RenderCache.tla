----------------------------- MODULE RenderCache ----------------------------
(***************************************************************************)
(* The picture caches below XDG_CACHE_HOME/veila: decoded source images,   *)
(* rendered wallpapers and wallpapers with their layers.  They are shared  *)
(* without a lock by the loader and preloader threads of every curtain,    *)
(* by veilad's prewarm helpers and by its pruner.  The module follows one  *)
(* wallpaper at one size: a key is what is cached and the stamp of the     *)
(* image file (length and modification time in seconds).                   *)
(***************************************************************************)
EXTENDS Naturals, Sequences, FiniteSets

CONSTANTS
    Loaders,     \* spawn_loader threads
    Preloaders,  \* spawn_preloader threads
    Helpers,     \* prewarm helper processes
    MaxVersion,  \* bound: versions of the image file
    Mixes        \* which of them run, and bound: how many times a job is killed, a
                 \* write fails, the image is edited or the pruner runs

Jobs == Loaders \cup Preloaders \cup Helpers

ASSUME JobsAssumption ==
    /\ IsFiniteSet(Jobs)
    /\ Loaders \cap Preloaders = {} /\ Loaders \cap Helpers = {} /\ Preloaders \cap Helpers = {}
ASSUME VersionAssumption == MaxVersion \in Nat \ {0}
ASSUME MixAssumption == Mixes \subseteq [jobs : SUBSET Jobs, events : Nat]

Kinds == {"source", "rendered", "layered"}
Stamp == 1 .. MaxVersion
Key == Kinds \X Stamp

NoInode == 0
Inode == 1 .. 2 * Cardinality(Key) + Cardinality(Jobs)   \* more than names and writers

(* What a piece of a file holds: nothing (a hole), the pixels of a version *)
(* of the image, or pixels mixed from several writers.  A file is its      *)
(* header and its pixels, which reach it in two pieces.                    *)
Hole == 0
Torn == MaxVersion + 1
Pieces == 3

VARIABLES
    image,      \* [version, stamp]: the wallpaper's file
    final,      \* the inode published under each key
    temp,       \* the inode of each key's temporary name
    data,       \* what has been written to each inode
    job,        \* the threads and processes at work
    listing,    \* entries the pruner has decided to remove
    events,     \* how much may still happen to the jobs and the files
    contended,  \* history: keys that two jobs were writing at once
    spoiled,    \* history: stamps the file kept, or was given while a job ran
    orphaned    \* history: inodes whose writer stopped before the end

vars == <<image, final, temp, data, job, listing, events, contended, spoiled, orphaned>>

(***************************************************************************)
(* A job goes through the kinds in todo.  For each it looks for the entry  *)
(* (find), loads the image (load), stores that (keep) and stores the entry *)
(* (save); while it writes it holds the inode and the key it began with.   *)
(***************************************************************************)
JobRecords ==
    [ todo : Seq(Kinds),
      step : {"find", "load", "keep", "save", "done"},
      held : BOOLEAN,              \* the rendered entry was found
      picture : 0 .. Torn,         \* the image in memory
      ino : {NoInode} \cup Inode, key : Key, pos : 0 .. Pieces ]

Todo(j) == IF j \in Helpers THEN <<"source", "rendered", "layered">> ELSE <<"rendered">>

Done == [ todo |-> <<>>, step |-> "done", held |-> FALSE, picture |-> Hole,
          ino |-> NoInode, key |-> <<"source", 1>>, pos |-> 0 ]

(* BackgroundAsset::load comes before the look-up of the layered entries.  *)
FirstStep(kind) == IF kind = "layered" THEN "load" ELSE "find"

Enter(todo) ==
    [Done EXCEPT !.todo = todo,
                 !.step = IF todo = <<>> THEN "done" ELSE FirstStep(Head(todo))]

NextStage(c) == Enter(Tail(c.todo))
At(c, step) == [c EXCEPT !.step = step]

(***************************************************************************)
(* Files.                                                                  *)
(***************************************************************************)
Open(i) == \E j \in Jobs : job[j].ino = i
InUse(f, t, js) ==
    {f[k] : k \in Key} \cup {t[k] : k \in Key} \cup {js[j].ino : j \in Jobs}
FreeInode ==
    CHOOSE i \in Inode \ InUse(final, temp, job) :
        \A h \in Inode \ InUse(final, temp, job) : i <= h

(* The kernel frees what no name and no descriptor refers to.              *)
NowHolds(d) ==
    \E used \in {InUse(final', temp', job')} :
        data' = [i \in Inode |-> IF i \in used THEN d[i] ELSE <<>>]

(* A write at an offset past the end leaves a hole before it.              *)
Put(d, n, piece) ==
    [m \in 1 .. (IF Len(d) > n THEN Len(d) ELSE n) |->
        IF m = n THEN piece ELSE IF m <= Len(d) THEN d[m] ELSE Hole]

Whole(d) == Len(d) = Pieces /\ \A n \in 1 .. Pieces : d[n] # Hole
Pixels(d) == IF d[2] = d[3] /\ d[2] # Hole THEN d[2] ELSE Torn

(* load_cached_buffer_for_source, load_cached_rgba: no file and a wrong    *)
(* magic are misses, a short file is an error, and nothing is checksummed. *)
LookUp(k) ==
    IF final[k] = NoInode THEN "miss"
    ELSE IF data[final[k]] = <<>> THEN "error"
    ELSE IF data[final[k]][1] = Hole THEN "miss"
    ELSE IF Len(data[final[k]]) < Pieces THEN "error"
    ELSE "hit"

(* Mutation: the key is made of the file's name only.                      *)
KeyOfTheName(kind) == <<kind, 1>>

(* cache_source_key, cache_path: from the file's metadata, at every use.   *)
CacheKey(kind) == <<kind, image.stamp>>

-----------------------------------------------------------------------------
(***************************************************************************)
(* What the result of a look-up means to the job that made it.             *)
(***************************************************************************)
(* ImageReader::open and decode, then the step that stores the result.     *)
Decoded(c, step) == [At(c, step) EXCEPT !.picture = image.version]

(* prewarm_source: an entry that cannot be read ends the job.              *)
FoundSource(c, result) ==
    CASE result = "hit" -> NextStage(c)
      [] result = "miss" -> Decoded(c, "save")
      [] result = "error" -> Done

(* load_cached_buffers takes an error for a miss, prewarm_rendered does    *)
(* not; the loader needs the image even if it has the rendering.           *)
FoundRendered(j, c, result) ==
    CASE j \in Loaders -> [At(c, "load") EXCEPT !.held = result = "hit"]
      [] j \in Preloaders -> IF result = "hit" THEN NextStage(c) ELSE At(c, "load")
      [] j \in Helpers -> IF result = "miss" THEN At(c, "load") ELSE NextStage(c)

FoundLayered(c, result) == IF result = "hit" THEN NextStage(c) ELSE At(c, "save")

Find(j) ==
    LET c == job[j]
        result == LookUp(CacheKey(Head(c.todo)))
    IN  /\ c.step = "find"
        /\ job' = [job EXCEPT ![j] =
                     CASE Head(c.todo) = "source" -> FoundSource(c, result)
                       [] Head(c.todo) = "rendered" -> FoundRendered(j, c, result)
                       [] Head(c.todo) = "layered" -> FoundLayered(c, result)]
        /\ UNCHANGED <<image, final, temp, data, listing, events, contended, spoiled,
                       orphaned>>

(* The image is there: what is left to do with it.                         *)
WithImage(c) ==
    IF Head(c.todo) = "layered" THEN At(c, "find")
    ELSE IF c.held THEN NextStage(c)
    ELSE At(c, "save")

(* load_rgba_image: a cached image that cannot be read is an error.        *)
Load(j) ==
    LET c == job[j]
        source == CacheKey("source")
    IN  /\ c.step = "load"
        /\ job' = [job EXCEPT ![j] =
                     CASE LookUp(source) = "hit" ->
                            WithImage([c EXCEPT !.picture = Pixels(data[final[source]])])
                       [] LookUp(source) = "miss" -> Decoded(c, "keep")
                       [] LookUp(source) = "error" -> NextStage(c)]
        /\ UNCHANGED <<image, final, temp, data, listing, events, contended, spoiled,
                       orphaned>>

-----------------------------------------------------------------------------
(***************************************************************************)
(* store_cached_buffer_for_source, store_cached_rgba: the key is computed  *)
(* from the file as it is now, and every writer of a key uses the same     *)
(* temporary name.                                                         *)
(***************************************************************************)
StoreKey(c) == CacheKey(IF c.step = "keep" THEN "source" ELSE Head(c.todo))

Writing(j, k) == job[j].ino # NoInode /\ job[j].key = k

Create(j) ==
    LET c == job[j]
        k == StoreKey(c)
        i == IF temp[k] # NoInode THEN temp[k] ELSE FreeInode
    IN  /\ c.step \in {"keep", "save"}
        /\ c.ino = NoInode
        /\ temp' = [temp EXCEPT ![k] = i]
        /\ job' = [job EXCEPT ![j].ino = i, ![j].key = k, ![j].pos = 0]
        /\ data' = [data EXCEPT ![i] = <<>>]
        /\ contended' = IF \E o \in Jobs \ {j} : Writing(o, k)
                        THEN contended \cup {k} ELSE contended
        /\ orphaned' = orphaned \ {i}
        /\ UNCHANGED <<image, final, listing, events, spoiled>>

(* Mutation: the last write is taken to be the one before it.              *)
PublishEarly(c) == c.ino # NoInode /\ c.pos = Pieces - 1

(* All of the file is written and flushed: it may be renamed.              *)
ReadyToPublish(c) == c.ino # NoInode /\ c.pos = Pieces

WritePiece(j) ==
    LET c == job[j]
    IN  /\ c.ino # NoInode
        /\ ~ReadyToPublish(c)
        /\ job' = [job EXCEPT ![j].pos = c.pos + 1]
        /\ UNCHANGED <<image, final, temp, listing, events, contended, spoiled, orphaned>>
        /\ NowHolds([data EXCEPT ![c.ino] = Put(data[c.ino], c.pos + 1, c.picture)])

(* An entry was stored, or it was not: load_rgba_image and the curtain     *)
(* ignore that, prewarm_source does not.                                   *)
Stored(c, ok) ==
    LET closed == [c EXCEPT !.ino = NoInode, !.pos = 0, !.key = Done.key]
    IN  CASE c.step = "keep" -> WithImage(closed)
          [] c.step = "save" ->
                IF Head(c.todo) = "source" /\ ~ok THEN Done ELSE NextStage(closed)

(* fs::rename takes whatever the temporary name refers to by now.          *)
Publish(j) ==
    LET c == job[j]
        k == c.key
        ok == temp[k] # NoInode
    IN  /\ ReadyToPublish(c)
        /\ final' = IF ok THEN [final EXCEPT ![k] = temp[k]] ELSE final
        /\ temp' = [temp EXCEPT ![k] = NoInode]
        /\ job' = [job EXCEPT ![j] = Stored(c, ok)]
        /\ UNCHANGED <<image, listing, events, contended, spoiled, orphaned>>
        /\ NowHolds(data)

(* The disk is full: the temporary file stays as it is.                    *)
WriteFails(j) ==
    LET c == job[j]
    IN  /\ events > 0
        /\ c.ino # NoInode
        /\ ~ReadyToPublish(c)
        /\ events' = events - 1
        /\ job' = [job EXCEPT ![j] = Stored(c, FALSE)]
        /\ orphaned' = orphaned \cup {c.ino}
        /\ UNCHANGED <<image, final, temp, listing, contended, spoiled>>
        /\ NowHolds(data)

AtWork(j) == job[j] \notin {Enter(Todo(j)), Done}

(* The curtain exits with its threads, or a helper is killed.              *)
Kill(j) ==
    LET c == job[j]
    IN  /\ events > 0
        /\ AtWork(j)
        /\ events' = events - 1
        /\ job' = [job EXCEPT ![j] = Done]
        /\ orphaned' = orphaned \cup ({c.ino} \ {NoInode})
        /\ UNCHANGED <<image, final, temp, listing, contended, spoiled>>
        /\ NowHolds(data)

-----------------------------------------------------------------------------
(* The user replaces the image; a file of the same length written within   *)
(* the same second keeps its stamp.                                        *)
Edit(keepsStamp) ==
    /\ image.version < MaxVersion
    /\ events > 0
    /\ events' = events - 1
    /\ image' = [version |-> image.version + 1,
                 stamp |-> IF keepsStamp THEN image.stamp ELSE image.version + 1]
    /\ spoiled' = IF keepsStamp \/ \E j \in Jobs : AtWork(j)
                  THEN spoiled \cup {image'.stamp} ELSE spoiled
    /\ UNCHANGED <<final, temp, data, job, listing, contended, orphaned>>

(* prune_render_cache: it lists the .argb files, which the decoded images  *)
(* are not, and picks some of them by age and total size (one, here).      *)
Scan ==
    /\ events > 0
    /\ listing = {}
    /\ events' = events - 1
    /\ \E k \in Key : final[k] # NoInode /\ k[1] # "source" /\ listing' = {k}
    /\ UNCHANGED <<image, final, temp, data, job, contended, spoiled, orphaned>>

(* remove_pruned_file removes what has the name now, or nothing.           *)
Remove(k) ==
    /\ k \in listing
    /\ listing' = listing \ {k}
    /\ final' = [final EXCEPT ![k] = NoInode]
    /\ temp' = temp /\ job' = job
    /\ UNCHANGED <<image, events, contended, spoiled, orphaned>>
    /\ NowHolds(data)

Init ==
    /\ image = [version |-> 1, stamp |-> 1]
    /\ final = [k \in Key |-> NoInode] /\ temp = [k \in Key |-> NoInode]
    /\ data = [i \in Inode |-> <<>>]
    /\ \E mix \in Mixes :
          /\ job = [j \in Jobs |-> IF j \in mix.jobs THEN Enter(Todo(j)) ELSE Done]
          /\ events = mix.events
    /\ listing = {}
    /\ contended = {} /\ spoiled = {} /\ orphaned = {}

Next ==
    \/ \E j \in Jobs :
          \/ Find(j) \/ Load(j) \/ Create(j) \/ WritePiece(j) \/ Publish(j)
          \/ WriteFails(j) \/ Kill(j)
    \/ \E keepsStamp \in BOOLEAN : Edit(keepsStamp)
    \/ Scan
    \/ \E k \in Key : Remove(k)

Spec == Init /\ [][Next]_vars

-----------------------------------------------------------------------------
(* An entry under its final name is complete, in spite of jobs killed in   *)
(* the middle of a write and of full disks.  The one exception is a key    *)
(* that two jobs were writing at once, through the temporary name they     *)
(* share; even then the entry is damaged only while a writer still holds   *)
(* it, or if that writer did not live to finish it (store_cached_rgba,     *)
(* store_cached_buffer_for_source).                                        *)
DamagedOnlyWhileShared ==
    \A k \in Key : final[k] # NoInode /\ ~Whole(data[final[k]]) =>
        /\ k \in contended
        /\ Open(final[k]) \/ final[k] \in orphaned

(* An entry that is found shows the image that has the stamp in its key:   *)
(* the curtain never shows a replaced wallpaper from the cache.  This needs*)
(* the stamp to be new, and no job to be at work when the file changes (it *)
(* stores what it decoded before under the key of afterwards), and neither *)
(* the entry nor the decoded image it came from to have had two writers.   *)
HitIsCurrent ==
    \A k \in Key :
        LookUp(k) = "hit" /\ k[2] \notin spoiled
                /\ k \notin contended /\ <<"source", k[2]>> \notin contended =>
            Pixels(data[final[k]]) = k[2]
=============================================================================
