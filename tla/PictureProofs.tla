---------------------------- MODULE PictureProofs ---------------------------
(***************************************************************************)
(* Theorems about the pictures: RenderCache, for all sets of jobs, numbers *)
(* of versions and events; Prewarm, for all backgrounds, outputs and       *)
(* edits; BufferPool, for every set of frame lengths.                      *)
(*                                                                         *)
(* An entry is whole because of the writers of a file, the last that       *)
(* opened it fills all of it or is stopped; it shows the right image       *)
(* because a sole writer stores one picture, and the jobs hold no other    *)
(* than the one the current stamp stands for.  A curtain finds its         *)
(* pictures because a helper that has read the configuration is at work,   *)
(* or its entries are stored.  The screen is whole because what is not     *)
(* current on it is damage that waits in a slot which holds it; no frame   *)
(* is torn because the slot that the compositor reads is busy, and the     *)
(* slot that is next in turn is never the one committed last.              *)
(***************************************************************************)
EXTENDS RenderCache, Prewarm, BufferPool, SequenceTheorems, FiniteSetTheorems,
        FunctionTheorems, WellFoundedInduction, TLAPS

-----------------------------------------------------------------------------
(* The render cache.  Jobs and files, by type.                             *)

\* A job that stores or shows an image has one, and it stores while it writes.
Shaped ==
    {c \in JobRecords :
        /\ c.step # "done" => c.todo # <<>>
        /\ c.ino # NoInode => c.step \in {"keep", "save"}
        /\ (c.step \in {"keep", "save"} \/ (c.step = "find" /\ Head(c.todo) = "layered"))
              => c.picture # Hole}

Contents == {d \in Seq(0 .. Torn) : Len(d) <= Pieces}

CacheType ==
    /\ image \in [version : 1 .. MaxVersion, stamp : Stamp]
    /\ final \in [Key -> {NoInode} \cup Inode]
    /\ temp \in [Key -> {NoInode} \cup Inode]
    /\ data \in [Inode -> Contents]
    /\ job \in [Jobs -> Shaped]
    /\ listing \subseteq Key
    /\ events \in Nat
    /\ contended \subseteq Key
    /\ spoiled \subseteq Stamp
    /\ orphaned \subseteq Inode

\* A file has one name, and those who write it know it by that name.
NamesAreApart ==
    /\ \A k, x \in Key : temp[k] = temp[x] /\ temp[k] # NoInode => k = x
    /\ \A k, x \in Key : final[k] = final[x] /\ final[k] # NoInode => k = x
    /\ \A k, x \in Key : temp[k] = final[x] => temp[k] = NoInode

HeldByName ==
    /\ \A j \in Jobs, k \in Key :
          job[j].ino # NoInode /\ (temp[k] = job[j].ino \/ final[k] = job[j].ino)
              => job[j].key = k
    /\ \A j, o \in Jobs :
          job[j].ino # NoInode /\ job[j].ino = job[o].ino => job[j].key = job[o].key

\* Of the writers of a file, the last that opened it fills all of it, unless it
\* is stopped.
Fills(j, i) ==
    /\ job[j].ino = i
    /\ \A n \in 1 .. job[j].pos : n <= Len(data[i]) /\ data[i][n] # Hole

Settles(i) == Whole(data[i]) \/ i \in orphaned \/ \E j \in Jobs : Fills(j, i)

Named(i) == \E k \in Key : temp[k] = i \/ final[k] = i

NamedAreSettled == \A i \in Inode : Named(i) => Settles(i)

\* What one job alone wrote is one picture.
Copy(n, p) == [m \in 1 .. n |-> p]

SoleWriters ==
    \A k \in Key \ contended, j \in Jobs : Writing(j, k) =>
        /\ temp[k] = job[j].ino
        /\ data[job[j].ino] = Copy(job[j].pos, job[j].picture)
        /\ \A o \in Jobs : Writing(o, k) => o = j

SoleEntries ==
    \A k \in Key \ contended : final[k] # NoInode =>
        \E p \in 1 .. Torn : data[final[k]] = Copy(Pieces, p)

\* And it is the picture that the key stands for.
Trusted(s) == s \notin spoiled /\ <<"source", s>> \notin contended

PicturesAreCurrent ==
    /\ image.stamp \notin spoiled => image.version = image.stamp
    /\ Trusted(image.stamp) => \A j \in Jobs : job[j].picture \in {Hole, image.stamp}

WritersAreCurrent ==
    \A j \in Jobs : job[j].ino # NoInode /\ Trusted(job[j].key[2]) =>
        job[j].picture = job[j].key[2]

EntriesAreCurrent ==
    \A k \in Key \ contended : final[k] # NoInode /\ Trusted(k[2]) =>
        data[final[k]] = Copy(Pieces, k[2])

CacheInv ==
    /\ CacheType /\ NamesAreApart /\ HeldByName /\ NamedAreSettled
    /\ SoleWriters /\ SoleEntries
    /\ PicturesAreCurrent /\ WritersAreCurrent /\ EntriesAreCurrent

-----------------------------------------------------------------------------
(* Jobs.                                                                   *)

LEMMA Numbers ==
    /\ MaxVersion \in Nat \ {0} /\ Torn \in Nat /\ Torn = MaxVersion + 1
    /\ Hole = 0 /\ Pieces = 3 /\ NoInode = 0
    /\ Hole \in 0 .. Torn /\ 1 .. MaxVersion \subseteq 0 .. Torn
    /\ \A v \in 1 .. MaxVersion : v # Hole
    /\ NoInode \notin Inode
  BY VersionAssumption DEF Torn, Hole, Pieces, NoInode, Inode

LEMMA DoneIsShaped ==
    Done \in Shaped /\ Done.ino = NoInode /\ Done.picture = Hole /\ Done.todo = <<>>
<1>1. Done = [ todo |-> <<>>, step |-> "done", held |-> FALSE, picture |-> Hole,
               ino |-> NoInode, key |-> <<"source", 1>>, pos |-> 0 ]
  BY DEF Done
<1>2. <<"source", 1>> \in Key /\ 0 \in 0 .. Pieces /\ <<>> \in Seq(Kinds)
  BY Numbers, EmptySeq DEF Key, Kinds, Stamp
<1>3. Done \in JobRecords
  BY <1>1, <1>2, Numbers DEF JobRecords
<1>4. QED
  BY <1>1, <1>3 DEF Shaped

LEMMA TodoIsTyped == \A j : Todo(j) \in Seq(Kinds)
<1>1. "source" \in Kinds /\ "rendered" \in Kinds /\ "layered" \in Kinds
  BY DEF Kinds
<1>2. <<"rendered">> \in Seq(Kinds) /\ <<"source", "rendered", "layered">> \in Seq(Kinds)
  BY <1>1
<1>3. QED
  BY <1>2 DEF Todo

LEMMA EnterIsShaped ==
    ASSUME NEW todo \in Seq(Kinds)
    PROVE Enter(todo) \in Shaped /\ Enter(todo).ino = NoInode /\ Enter(todo).picture = Hole
<1> DEFINE step == IF todo = <<>> THEN "done" ELSE FirstStep(Head(todo))
<1>1. Enter(todo) = [Done EXCEPT !.todo = todo, !.step = step]
  BY DEF Enter
<1>2. /\ step \in {"done", "find", "load"}
      /\ step # "done" => todo # <<>>
      /\ step = "find" => Head(todo) # "layered"
  BY DEF FirstStep
<1> HIDE DEF step
<1>3. Done \in JobRecords
  BY DoneIsShaped DEF Shaped
<1>4. /\ Enter(todo) \in JobRecords
      /\ Enter(todo).todo = todo /\ Enter(todo).step = step
      /\ Enter(todo).ino = NoInode /\ Enter(todo).picture = Hole
  BY <1>1, <1>2, <1>3, DoneIsShaped DEF JobRecords
<1>5. QED
  BY <1>2, <1>4 DEF Shaped

LEMMA NextStageIsShaped ==
    ASSUME NEW c \in Shaped, c.todo # <<>>
    PROVE /\ NextStage(c) \in Shaped /\ NextStage(c).ino = NoInode
          /\ NextStage(c).picture = Hole
<1>1. Tail(c.todo) \in Seq(Kinds)
  BY HeadTailProperties DEF Shaped, JobRecords
<1>2. QED
  BY <1>1, EnterIsShaped DEF NextStage

LEMMA AtIsShaped ==
    ASSUME NEW c \in Shaped, c.ino = NoInode, c.todo # <<>>,
           NEW step \in {"find", "load", "keep", "save"},
           c.picture # Hole \/ step = "load"
    PROVE /\ At(c, step) \in Shaped /\ At(c, step).ino = NoInode
          /\ At(c, step).picture = c.picture /\ At(c, step).todo = c.todo
<1>1. c \in JobRecords
  BY DEF Shaped
<1>2. /\ At(c, step) \in JobRecords /\ At(c, step).ino = NoInode
      /\ At(c, step).picture = c.picture /\ At(c, step).todo = c.todo
      /\ At(c, step).step = step
  BY <1>1 DEF At, JobRecords
<1>3. QED
  BY <1>2 DEF Shaped

LEMMA PictureIsShaped ==
    ASSUME NEW c \in Shaped, NEW p \in (0 .. Torn) \ {Hole}
    PROVE LET d == [c EXCEPT !.picture = p]
          IN  /\ d \in Shaped /\ d.ino = c.ino /\ d.todo = c.todo /\ d.picture = p
              /\ d.step = c.step /\ d.held = c.held
<1>1. c \in JobRecords
  BY DEF Shaped
<1> DEFINE d == [c EXCEPT !.picture = p]
<1>2. /\ d \in JobRecords /\ d.ino = c.ino /\ d.todo = c.todo /\ d.picture = p
      /\ d.step = c.step /\ d.held = c.held
  BY <1>1 DEF JobRecords
<1> HIDE DEF d
<1>3. d \in Shaped
  BY <1>2 DEF Shaped
<1>4. QED
  BY <1>2, <1>3 DEF d

LEMMA DecodedIsShaped ==
    ASSUME CacheType, NEW c \in Shaped, c.ino = NoInode, c.todo # <<>>,
           NEW step \in {"keep", "save"}
    PROVE /\ Decoded(c, step) \in Shaped /\ Decoded(c, step).ino = NoInode
          /\ Decoded(c, step).picture = image.version
<1>1. image.version \in (0 .. Torn) \ {Hole}
  BY Numbers DEF CacheType
<1>2. c \in JobRecords
  BY DEF Shaped
<1> DEFINE d == Decoded(c, step)
<1>3. /\ d \in JobRecords /\ d.ino = NoInode /\ d.todo = c.todo /\ d.step = step
      /\ d.picture = image.version
  BY <1>1, <1>2 DEF Decoded, At, JobRecords
<1> HIDE DEF d
<1>4. d \in Shaped
  BY <1>1, <1>3 DEF Shaped
<1>5. QED
  BY <1>3, <1>4 DEF d

LEMMA WithImageIsShaped ==
    ASSUME NEW c \in Shaped, c.ino = NoInode, c.todo # <<>>, c.picture # Hole
    PROVE /\ WithImage(c) \in Shaped /\ WithImage(c).ino = NoInode
          /\ WithImage(c).picture \in {Hole, c.picture}
<1>1. CASE Head(c.todo) = "layered"
  BY <1>1, AtIsShaped DEF WithImage
<1>2. CASE Head(c.todo) # "layered" /\ c.held
  BY <1>2, NextStageIsShaped DEF WithImage
<1>3. CASE Head(c.todo) # "layered" /\ ~c.held
  BY <1>3, AtIsShaped DEF WithImage
<1>4. QED
  BY <1>1, <1>2, <1>3

\* What the look-ups make of a job: it keeps its image, has the one that is
\* there, or has none.
Follows(d, c) ==
    d \in Shaped /\ d.ino = NoInode /\ d.picture \in {Hole, c.picture, image.version}

LEMMA FindFollows ==
    ASSUME CacheType, NEW j \in Jobs, Find(j)
    PROVE  /\ job[j].ino = NoInode
           /\ job' = [job EXCEPT ![j] = job'[j]]
           /\ Follows(job'[j], job[j])
<1> DEFINE c == job[j]
           result == LookUp(CacheKey(Head(c.todo)))
           d == CASE Head(c.todo) = "source" -> FoundSource(c, result)
                  [] Head(c.todo) = "rendered" -> FoundRendered(j, c, result)
                  [] Head(c.todo) = "layered" -> FoundLayered(c, result)
<1>1. c \in Shaped /\ c.step = "find"
  BY DEF CacheType, Find
<1>2. c.todo # <<>> /\ c.ino = NoInode
  BY <1>1 DEF Shaped
<1>3. Head(c.todo) \in Kinds
  BY <1>1, <1>2, HeadTailProperties DEF Shaped, JobRecords
<1>4. result \in {"hit", "miss", "error"}
  BY DEF LookUp
<1>5. job' = [job EXCEPT ![j] = d]
  BY DEF Find
<1>6. job'[j] = d
  BY <1>5 DEF CacheType
<1>7. ASSUME Head(c.todo) = "source" PROVE Follows(d, c)
  <2>1. d = FoundSource(c, result)
    BY <1>7
  <2> HIDE DEF d, result
  <2>2. CASE result = "hit"
    BY <1>1, <1>2, <2>1, <2>2, NextStageIsShaped DEF FoundSource, Follows
  <2>3. CASE result = "miss"
    BY <1>1, <1>2, <2>1, <2>3, DecodedIsShaped DEF FoundSource, Follows
  <2>4. CASE result = "error"
    BY <2>1, <2>4, DoneIsShaped DEF FoundSource, Follows
  <2>5. QED
    BY <1>4, <2>2, <2>3, <2>4
<1>8. ASSUME Head(c.todo) = "rendered" PROVE Follows(d, c)
  <2>1. d = FoundRendered(j, c, result)
    BY <1>8
  <2> HIDE DEF d, result
  <2>2. At(c, "load") \in Shaped /\ At(c, "load").ino = NoInode
        /\ At(c, "load").picture = c.picture
    BY <1>1, <1>2, AtIsShaped
  <2>3. Follows(At(c, "load"), c) /\ Follows(NextStage(c), c)
    BY <1>1, <1>2, <2>2, NextStageIsShaped DEF Follows
  <2>4. CASE j \in Loaders
    <3> DEFINE found == result = "hit"
               e == [At(c, "load") EXCEPT !.held = found]
    <3>1. found \in BOOLEAN
      OBVIOUS
    <3>2. d = e
      BY <2>1, <2>4, JobsAssumption DEF FoundRendered
    <3> HIDE DEF found
    <3>3. /\ e \in JobRecords /\ e.ino = NoInode /\ e.picture = c.picture
          /\ e.step = "load" /\ e.todo = c.todo
      BY <1>1, <2>2, <3>1 DEF Shaped, JobRecords, At
    <3>4. QED
      BY <1>2, <3>2, <3>3 DEF Follows, Shaped
  <2>5. CASE j \notin Loaders
    BY <2>1, <2>3, <2>5, <1>4 DEF FoundRendered, Jobs
  <2>6. QED
    BY <2>4, <2>5
<1>9. ASSUME Head(c.todo) = "layered" PROVE Follows(d, c)
  <2>1. d = FoundLayered(c, result)
    BY <1>9
  <2> HIDE DEF d, result
  <2>2. c.picture # Hole
    BY <1>1, <1>9 DEF Shaped
  <2>3. QED
    BY <1>1, <1>2, <2>1, <2>2, NextStageIsShaped, AtIsShaped DEF FoundLayered, Follows
<1>10. QED
  BY <1>2, <1>3, <1>5, <1>6, <1>7, <1>8, <1>9 DEF Kinds

\* A look-up that hits finds a file, and pixels in it.
LEMMA HitsAreFiles ==
    ASSUME CacheType, NEW k \in Key, LookUp(k) = "hit"
    PROVE  final[k] # NoInode /\ Pixels(data[final[k]]) \in (0 .. Torn) \ {Hole}
<1>1. final[k] # NoInode
  BY DEF LookUp
<1> DEFINE d == data[final[k]]
<1>2. ~(Len(d) < Pieces)
  BY <1>1 DEF LookUp
<1>3. d \in Seq(0 .. Torn) /\ Len(d) <= Pieces
  BY <1>1 DEF CacheType, Contents
<1> HIDE DEF d
<1>4. 2 \in 1 .. Len(d)
  BY <1>2, <1>3, Numbers
<1>5. d[2] \in 0 .. Torn
  BY <1>3, <1>4, ElementOfSeq
<1>6. Torn \in (0 .. Torn) \ {Hole}
  BY Numbers
<1>7. Pixels(d) \in (0 .. Torn) \ {Hole}
  BY <1>5, <1>6 DEF Pixels
<1>8. QED
  BY <1>1, <1>7 DEF d

LEMMA LoadFollows ==
    ASSUME CacheType, NEW j \in Jobs, Load(j)
    PROVE  LET k == CacheKey("source")
           IN  /\ job[j].ino = NoInode
               /\ job' = [job EXCEPT ![j] = job'[j]]
               /\ job'[j] \in Shaped /\ job'[j].ino = NoInode
               /\ \/ job'[j].picture \in {Hole, image.version}
                  \/ LookUp(k) = "hit" /\ job'[j].picture = Pixels(data[final[k]])
<1> DEFINE c == job[j]
           k == CacheKey("source")
           p == Pixels(data[final[k]])
           e == [c EXCEPT !.picture = p]
           d == CASE LookUp(k) = "hit" -> WithImage(e)
                  [] LookUp(k) = "miss" -> Decoded(c, "keep")
                  [] LookUp(k) = "error" -> NextStage(c)
<1>1. c \in Shaped /\ c.step = "load"
  BY DEF CacheType, Load
<1>2. c.todo # <<>> /\ c.ino = NoInode
  BY <1>1 DEF Shaped
<1>3. job' = [job EXCEPT ![j] = d]
  BY DEF Load
<1>4. job'[j] = d
  BY <1>3 DEF CacheType
<1>5. k \in Key
  BY DEF CacheKey, CacheType, Key, Kinds
<1>6. LookUp(k) \in {"hit", "miss", "error"}
  BY DEF LookUp
<1>7. CASE LookUp(k) = "hit"
  <2>1. p \in (0 .. Torn) \ {Hole}
    BY <1>5, <1>7, HitsAreFiles
  <2>2. d = WithImage(e)
    BY <1>7
  <2> HIDE DEF d, p
  <2>3. e \in Shaped /\ e.ino = NoInode /\ e.todo # <<>> /\ e.picture = p
    BY <1>1, <1>2, <2>1, PictureIsShaped
  <2> HIDE DEF e
  <2>4. e.picture # Hole
    BY <2>1, <2>3
  <2>5. d \in Shaped /\ d.ino = NoInode /\ d.picture \in {Hole, p}
    BY <2>2, <2>3, <2>4, WithImageIsShaped
  <2>6. QED
    BY <1>2, <1>3, <1>4, <1>7, <2>5 DEF p
<1>8. CASE LookUp(k) = "miss"
  <2>1. d = Decoded(c, "keep")
    BY <1>8
  <2> HIDE DEF d
  <2>2. QED
    BY <1>1, <1>2, <1>3, <1>4, <2>1, DecodedIsShaped
<1>9. CASE LookUp(k) = "error"
  <2>1. d = NextStage(c)
    BY <1>9
  <2> HIDE DEF d
  <2>2. QED
    BY <1>1, <1>2, <1>3, <1>4, <2>1, NextStageIsShaped
<1>10. QED
  BY <1>6, <1>7, <1>8, <1>9

LEMMA StoredFollows ==
    ASSUME NEW c \in Shaped, c.ino # NoInode, NEW ok \in BOOLEAN
    PROVE  /\ Stored(c, ok) \in Shaped /\ Stored(c, ok).ino = NoInode
           /\ Stored(c, ok).picture \in {Hole, c.picture}
<1> DEFINE closed == [c EXCEPT !.ino = NoInode, !.pos = 0, !.key = Done.key]
<1>1. c \in JobRecords /\ c.step \in {"keep", "save"} /\ c.picture # Hole /\ c.todo # <<>>
  BY DEF Shaped
<1>2. Done.key \in Key
  BY DoneIsShaped DEF Shaped, JobRecords
<1>3. /\ closed \in JobRecords /\ closed.ino = NoInode /\ closed.todo = c.todo
      /\ closed.step = c.step /\ closed.picture = c.picture
  <2> DEFINE one == [c EXCEPT !.ino = NoInode]
             two == [one EXCEPT !.pos = 0]
  <2>1. /\ one \in JobRecords /\ one.ino = NoInode /\ one.todo = c.todo
        /\ one.step = c.step /\ one.picture = c.picture
    BY <1>1 DEF JobRecords
  <2>2. closed = [two EXCEPT !.key = Done.key]
    OBVIOUS
  <2> HIDE DEF one
  <2>3. /\ two \in JobRecords /\ two.ino = NoInode /\ two.todo = c.todo
        /\ two.step = c.step /\ two.picture = c.picture
    BY <2>1, Numbers DEF JobRecords
  <2> HIDE DEF two, closed
  <2>4. QED
    BY <1>2, <2>2, <2>3 DEF JobRecords
<1> HIDE DEF closed
<1>4. closed \in Shaped /\ closed.todo # <<>> /\ closed.picture # Hole
  BY <1>1, <1>3 DEF Shaped
<1>5. CASE c.step = "keep"
  <2>1. Stored(c, ok) = WithImage(closed)
    BY <1>5 DEF Stored, closed
  <2>2. QED
    BY <1>3, <1>4, <2>1, WithImageIsShaped
<1>6. CASE c.step = "save"
  <2>1. Stored(c, ok) = IF Head(c.todo) = "source" /\ ~ok THEN Done ELSE NextStage(closed)
    BY <1>6 DEF Stored, closed
  <2>2. QED
    BY <1>4, <2>1, NextStageIsShaped, DoneIsShaped
<1>7. QED
  BY <1>1, <1>5, <1>6

-----------------------------------------------------------------------------
(* Files: what is in use stays, and what a calm step may do.               *)

LEMMA KeysAreFinite ==
    IsFiniteSet(Key) /\ Cardinality(Key) \in Nat /\ Cardinality(Jobs) \in Nat
<1>1. IsFiniteSet(Stamp) /\ IsFiniteSet(Kinds)
  <2>1. Kinds = {"source"} \cup {"rendered"} \cup {"layered"}
    BY DEF Kinds
  <2>2. IsFiniteSet(Kinds)
    BY <2>1, FS_Singleton, FS_Union
  <2>3. QED
    BY <2>2, Numbers, FS_Interval DEF Stamp
<1>2. IsFiniteSet(Key)
  BY <1>1, FS_Product DEF Key
<1>3. QED
  BY <1>2, JobsAssumption, FS_CardinalityType

\* The data that the next state's names and descriptors refer to.
Keeps(d) ==
    /\ \A k \in Key : temp'[k] # NoInode => data'[temp'[k]] = d[temp'[k]]
    /\ \A k \in Key : final'[k] # NoInode => data'[final'[k]] = d[final'[k]]
    /\ \A j \in Jobs : job'[j].ino # NoInode => data'[job'[j].ino] = d[job'[j].ino]

LEMMA NowHoldsKeeps ==
    ASSUME NEW d \in [Inode -> Contents], NowHolds(d),
           temp' \in [Key -> {NoInode} \cup Inode], final' \in [Key -> {NoInode} \cup Inode],
           job' \in [Jobs -> Shaped]
    PROVE  Keeps(d) /\ data' \in [Inode -> Contents]
<1> DEFINE used == InUse(final', temp', job')
<1>1. data' = [i \in Inode |-> IF i \in used THEN d[i] ELSE <<>>]
  BY DEF NowHolds
<1>2. /\ \A k \in Key : temp'[k] \in used /\ final'[k] \in used
      /\ \A j \in Jobs : job'[j].ino \in used
  BY DEF InUse
<1>3. <<>> \in Contents
  BY EmptySeq, Numbers DEF Contents
<1> HIDE DEF used
<1>4. \A j \in Jobs : job'[j].ino \in {NoInode} \cup Inode
  BY DEF Shaped, JobRecords
<1>5. data' \in [Inode -> Contents]
  BY <1>1, <1>3
<1>6. Keeps(d)
  BY <1>1, <1>2, <1>4 DEF Keeps
<1>7. QED
  BY <1>5, <1>6

\* A step that opens, writes and renames nothing.
SameWriter(j) ==
    /\ job'[j].ino = job[j].ino /\ job'[j].key = job[j].key
    /\ job'[j].pos = job[j].pos /\ job'[j].picture = job[j].picture

Leaves(j) == job'[j].ino = NoInode /\ (job[j].ino = NoInode \/ job[j].ino \in orphaned')

Calm ==
    /\ \A k \in Key : temp'[k] = temp[k] /\ final'[k] \in {final[k], NoInode}
    /\ \A j \in Jobs : SameWriter(j) \/ Leaves(j)
    /\ Keeps(data)
    /\ contended \subseteq contended' /\ spoiled \subseteq spoiled' /\ orphaned \subseteq orphaned'

LEMMA CalmKeepsNames ==
    ASSUME CacheInv, Calm
    PROVE  NamesAreApart' /\ HeldByName'
<1>1. NamesAreApart'
  BY DEF CacheInv, NamesAreApart, Calm
<1>2. HeldByName'
  BY DEF CacheInv, HeldByName, Calm, SameWriter, Leaves
<1>3. QED
  BY <1>1, <1>2

LEMMA CalmKeepsSettled ==
    ASSUME CacheInv, Calm
    PROVE  NamedAreSettled'
<1>1. ASSUME NEW i, i # NoInode, data'[i] = data[i], Settles(i)
      PROVE  Settles(i)'
  <2>1. CASE Whole(data[i]) \/ i \in orphaned
    BY <1>1, <2>1 DEF Settles, Calm
  <2>2. CASE \E j \in Jobs : Fills(j, i)
    <3>1. PICK j \in Jobs : Fills(j, i)
      BY <2>2
    <3>2. CASE SameWriter(j)
      BY <1>1, <3>1, <3>2 DEF SameWriter, Fills, Settles
    <3>3. CASE Leaves(j)
      BY <1>1, <3>1, <3>3 DEF Leaves, Fills, Settles
    <3>4. QED
      BY <3>2, <3>3 DEF Calm
  <2>3. QED
    BY <1>1, <2>1, <2>2 DEF Settles
<1>2. ASSUME NEW i \in Inode, Named(i)' PROVE Settles(i)'
  <2>1. i # NoInode
    BY Numbers
  <2>2. Named(i) /\ data'[i] = data[i]
    BY <1>2, <2>1 DEF Named, Calm, Keeps
  <2>3. QED
    BY <1>1, <2>1, <2>2 DEF CacheInv, NamedAreSettled
<1>3. QED
  BY <1>2 DEF NamedAreSettled

LEMMA CalmKeepsContents ==
    ASSUME CacheInv, Calm
    PROVE  SoleWriters' /\ SoleEntries' /\ WritersAreCurrent' /\ EntriesAreCurrent'
<1>1. \A s : Trusted(s)' => Trusted(s)
  BY DEF Trusted, Calm
<1>2. ASSUME NEW k \in Key \ contended', NEW j \in Jobs, Writing(j, k)'
      PROVE  /\ Writing(j, k) /\ k \in Key \ contended
             /\ job'[j] .ino # NoInode /\ SameWriter(j)
  BY <1>2 DEF Writing, Calm, Leaves, SameWriter
<1>3. SoleWriters'
  <2> SUFFICES ASSUME NEW k \in Key \ contended', NEW j \in Jobs, Writing(j, k)'
               PROVE  /\ temp'[k] = job'[j].ino
                      /\ data'[job'[j].ino] = Copy(job'[j].pos, job'[j].picture)
                      /\ \A o \in Jobs : Writing(o, k)' => o = j
    BY DEF SoleWriters
  <2>1. /\ temp[k] = job[j].ino
        /\ data[job[j].ino] = Copy(job[j].pos, job[j].picture)
        /\ \A o \in Jobs : Writing(o, k) => o = j
    BY <1>2 DEF CacheInv, SoleWriters
  <2>2. SameWriter(j) /\ job'[j].ino # NoInode
    BY <1>2
  <2>3. data'[job'[j].ino] = data[job[j].ino]
    BY <2>2 DEF Calm, Keeps, SameWriter
  <2>4. QED
    BY <1>2, <2>1, <2>2, <2>3 DEF SameWriter, Calm
<1>4. ASSUME NEW k \in Key \ contended', final'[k] # NoInode
      PROVE  k \in Key \ contended /\ final[k] # NoInode /\ data'[final'[k]] = data[final[k]]
  BY <1>4 DEF Calm, Keeps
<1>5. SoleEntries'
  BY <1>4 DEF CacheInv, SoleEntries
<1>6. EntriesAreCurrent'
  BY <1>1, <1>4 DEF CacheInv, EntriesAreCurrent
<1>7. WritersAreCurrent'
  BY <1>1 DEF CacheInv, WritersAreCurrent, Calm, SameWriter, Leaves
<1>8. QED
  BY <1>3, <1>5, <1>6, <1>7

\* An image in memory that was there, is the file's or is a cached copy of it.
Shows(j) ==
    \/ job'[j].picture \in {Hole, job[j].picture, image.version}
    \/ /\ LookUp(CacheKey("source")) = "hit"
       /\ job'[j].picture = Pixels(data[final[CacheKey("source")]])

LEMMA PicturesStayCurrent ==
    ASSUME CacheInv, image' = image, spoiled \subseteq spoiled', contended \subseteq contended',
           \A j \in Jobs : Shows(j)
    PROVE  PicturesAreCurrent'
<1> DEFINE s == image.stamp
           k == <<"source", s>>
<1>1. image.stamp \notin spoiled' => image.version = image.stamp
  BY DEF CacheInv, PicturesAreCurrent
<1>2. ASSUME Trusted(s)', NEW j \in Jobs PROVE job'[j].picture \in {Hole, s}
  <2>1. Trusted(s) /\ k \notin contended
    BY <1>2 DEF Trusted
  <2>2. image.version = s /\ job[j].picture \in {Hole, s}
    BY <2>1 DEF CacheInv, PicturesAreCurrent, Trusted
  <2>3. ASSUME LookUp(CacheKey("source")) = "hit"
        PROVE  Pixels(data[final[CacheKey("source")]]) = s
    <3>1. CacheKey("source") = k /\ k \in Key /\ k[2] = s /\ s \in 1 .. MaxVersion
      BY DEF CacheKey, CacheInv, CacheType, Key, Kinds, Stamp
    <3> HIDE DEF k
    <3>2. LookUp(k) = "hit"
      BY <2>3, <3>1
    <3>3. final[k] # NoInode
      BY <3>1, <3>2, HitsAreFiles DEF CacheInv
    <3>4. data[final[k]] = Copy(Pieces, s)
      BY <2>1, <3>1, <3>3 DEF CacheInv, EntriesAreCurrent
    <3>5. Pixels(Copy(Pieces, s)) = s
      BY <3>1, Numbers DEF Pixels, Copy
    <3>6. QED
      BY <3>1, <3>4, <3>5
  <2>4. QED
    BY <2>2, <2>3 DEF Shows
<1>3. QED
  BY <1>1, <1>2 DEF PicturesAreCurrent

LEMMA FindIsCalm ==
    ASSUME CacheInv, NEW j \in Jobs, Find(j)
    PROVE  CacheType' /\ Calm /\ PicturesAreCurrent'
<1>1. CacheType
  BY DEF CacheInv
<1>2. /\ job[j].ino = NoInode
      /\ job' = [job EXCEPT ![j] = job'[j]]
      /\ Follows(job'[j], job[j])
  BY <1>1, FindFollows
<1>3. UNCHANGED <<image, final, temp, data, listing, events, contended, spoiled, orphaned>>
  BY DEF Find
<1>4. CacheType'
  BY <1>1, <1>2, <1>3 DEF CacheType, Follows
<1>5. \A o \in Jobs \ {j} : job'[o] = job[o]
  BY <1>1, <1>2 DEF CacheType
<1>6. Calm
  BY <1>2, <1>3, <1>5 DEF Calm, Keeps, SameWriter, Leaves, Follows
<1>7. \A o \in Jobs : Shows(o)
  BY <1>2, <1>5 DEF Shows, Follows
<1>8. QED
  BY <1>3, <1>4, <1>6, <1>7, PicturesStayCurrent

LEMMA LoadIsCalm ==
    ASSUME CacheInv, NEW j \in Jobs, Load(j)
    PROVE  CacheType' /\ Calm /\ PicturesAreCurrent'
<1>1. CacheType
  BY DEF CacheInv
<1>2. /\ job[j].ino = NoInode
      /\ job' = [job EXCEPT ![j] = job'[j]]
      /\ job'[j] \in Shaped /\ job'[j].ino = NoInode
      /\ Shows(j)
  BY <1>1, LoadFollows DEF Shows
<1>3. UNCHANGED <<image, final, temp, data, listing, events, contended, spoiled, orphaned>>
  BY DEF Load
<1>4. CacheType'
  BY <1>1, <1>2, <1>3 DEF CacheType
<1>5. \A o \in Jobs \ {j} : job'[o] = job[o]
  BY <1>1, <1>2 DEF CacheType
<1>6. Calm
  BY <1>2, <1>3, <1>5 DEF Calm, Keeps, SameWriter, Leaves
<1>7. \A o \in Jobs : Shows(o)
  BY <1>2, <1>5 DEF Shows
<1>8. QED
  BY <1>3, <1>4, <1>6, <1>7, PicturesStayCurrent

LEMMA WriteFailsIsCalm ==
    ASSUME CacheInv, NEW j \in Jobs, WriteFails(j)
    PROVE  CacheType' /\ Calm /\ PicturesAreCurrent'
<1>1. CacheType
  BY DEF CacheInv
<1>2. job[j] \in Shaped /\ job[j].ino # NoInode /\ job[j].ino \in Inode
  BY <1>1 DEF WriteFails, CacheType, Shaped, JobRecords
<1>3. /\ job' = [job EXCEPT ![j] = Stored(job[j], FALSE)]
      /\ events > 0 /\ events' = events - 1 /\ events' \in Nat
      /\ orphaned' = orphaned \cup {job[j].ino}
      /\ UNCHANGED <<image, final, temp, listing, contended, spoiled>>
      /\ NowHolds(data)
  BY <1>1 DEF WriteFails, CacheType
<1>4. /\ job'[j] \in Shaped /\ job'[j].ino = NoInode
      /\ job'[j].picture \in {Hole, job[j].picture}
  BY <1>1, <1>2, <1>3, StoredFollows DEF CacheType
<1>5. \A o \in Jobs \ {j} : job'[o] = job[o]
  BY <1>1, <1>3 DEF CacheType
<1>6. job' \in [Jobs -> Shaped]
  BY <1>1, <1>3, <1>4 DEF CacheType
<1>7. Keeps(data) /\ data' \in [Inode -> Contents]
  BY <1>1, <1>3, <1>6, NowHoldsKeeps DEF CacheType
<1>8. CacheType'
  BY <1>1, <1>2, <1>3, <1>6, <1>7 DEF CacheType
<1>9. Calm
  BY <1>3, <1>4, <1>5, <1>7 DEF Calm, SameWriter, Leaves
<1>10. \A o \in Jobs : Shows(o)
  BY <1>4, <1>5 DEF Shows
<1>11. QED
  BY <1>3, <1>8, <1>9, <1>10, PicturesStayCurrent

LEMMA KillIsCalm ==
    ASSUME CacheInv, NEW j \in Jobs, Kill(j)
    PROVE  CacheType' /\ Calm /\ PicturesAreCurrent'
<1>1. CacheType
  BY DEF CacheInv
<1>2. job[j].ino \in {NoInode} \cup Inode
  BY <1>1 DEF CacheType, Shaped, JobRecords
<1>3. /\ job' = [job EXCEPT ![j] = Done]
      /\ events > 0 /\ events' = events - 1
      /\ orphaned' = orphaned \cup ({job[j].ino} \ {NoInode})
      /\ UNCHANGED <<image, final, temp, listing, contended, spoiled>>
      /\ NowHolds(data)
  BY DEF Kill
<1>4. job'[j] \in Shaped /\ job'[j].ino = NoInode /\ job'[j].picture = Hole
  BY <1>1, <1>3, DoneIsShaped DEF CacheType
<1>5. \A o \in Jobs \ {j} : job'[o] = job[o]
  BY <1>1, <1>3 DEF CacheType
<1>6. job' \in [Jobs -> Shaped]
  BY <1>1, <1>3, <1>4 DEF CacheType
<1>7. Keeps(data) /\ data' \in [Inode -> Contents]
  BY <1>1, <1>3, <1>6, NowHoldsKeeps DEF CacheType
<1>8. CacheType'
  BY <1>1, <1>2, <1>3, <1>6, <1>7 DEF CacheType
<1>9. Calm
  BY <1>3, <1>4, <1>5, <1>7 DEF Calm, SameWriter, Leaves
<1>10. \A o \in Jobs : Shows(o)
  BY <1>4, <1>5 DEF Shows
<1>11. QED
  BY <1>3, <1>8, <1>9, <1>10, PicturesStayCurrent

\* A file of a new stamp is trusted only if no job was at work when it came.
LEMMA EditIsCalm ==
    ASSUME CacheInv, NEW keepsStamp \in BOOLEAN, Edit(keepsStamp)
    PROVE  CacheType' /\ Calm /\ PicturesAreCurrent'
<1>1. CacheType
  BY DEF CacheInv
<1>2. /\ image.version < MaxVersion /\ events > 0 /\ events' = events - 1
      /\ image' = [version |-> image.version + 1,
                   stamp |-> IF keepsStamp THEN image.stamp ELSE image.version + 1]
      /\ UNCHANGED <<final, temp, data, job, listing, contended, orphaned>>
  BY DEF Edit
<1>3. /\ image.version \in 1 .. MaxVersion /\ image.stamp \in 1 .. MaxVersion
      /\ image.version + 1 \in 1 .. MaxVersion
  BY <1>1, <1>2, Numbers DEF CacheType, Stamp
<1>4. /\ image'.version = image.version + 1
      /\ ~keepsStamp => image'.stamp = image.version + 1
      /\ image' \in [version : 1 .. MaxVersion, stamp : Stamp]
  BY <1>2, <1>3 DEF Stamp
<1>5. /\ spoiled \subseteq spoiled' /\ spoiled' \subseteq Stamp
      /\ (keepsStamp \/ \E j \in Jobs : AtWork(j)) => image'.stamp \in spoiled'
  BY <1>1, <1>4 DEF Edit, CacheType
<1>6. CacheType'
  BY <1>1, <1>2, <1>4, <1>5 DEF CacheType
<1>7. Calm
  BY <1>2, <1>5 DEF Calm, Keeps, SameWriter
<1>8. ASSUME image'.stamp \notin spoiled'
      PROVE  /\ image'.version = image'.stamp
             /\ \A j \in Jobs : job'[j].picture = Hole
  <2>1. ~keepsStamp /\ \A j \in Jobs : ~AtWork(j)
    BY <1>5, <1>8
  <2>2. ASSUME NEW j \in Jobs PROVE job[j].picture = Hole
    <3>1. Todo(j) \in Seq(Kinds)
      BY TodoIsTyped
    <3>2. QED
      BY <2>1, <3>1, EnterIsShaped, DoneIsShaped DEF AtWork
  <2>3. QED
    BY <1>2, <1>4, <2>1, <2>2
<1>9. PicturesAreCurrent'
  BY <1>8 DEF PicturesAreCurrent, Trusted
<1>10. QED
  BY <1>6, <1>7, <1>9

LEMMA ScanIsCalm ==
    ASSUME CacheInv, Scan
    PROVE  CacheType' /\ Calm /\ PicturesAreCurrent'
<1>1. CacheType
  BY DEF CacheInv
<1>2. /\ events > 0 /\ events' = events - 1 /\ listing' \subseteq Key
      /\ UNCHANGED <<image, final, temp, data, job, contended, spoiled, orphaned>>
  BY DEF Scan
<1>3. CacheType'
  BY <1>1, <1>2 DEF CacheType
<1>4. Calm
  BY <1>2 DEF Calm, Keeps, SameWriter
<1>5. \A o \in Jobs : Shows(o)
  BY <1>2 DEF Shows
<1>6. QED
  BY <1>2, <1>3, <1>4, <1>5, PicturesStayCurrent

LEMMA RemoveIsCalm ==
    ASSUME CacheInv, NEW k \in Key, Remove(k)
    PROVE  CacheType' /\ Calm /\ PicturesAreCurrent'
<1>1. CacheType
  BY DEF CacheInv
<1>2. /\ listing' \subseteq Key /\ final' = [final EXCEPT ![k] = NoInode]
      /\ temp' = temp /\ job' = job
      /\ UNCHANGED <<image, events, contended, spoiled, orphaned>>
      /\ NowHolds(data)
  BY <1>1 DEF Remove, CacheType
<1>3. /\ final' \in [Key -> {NoInode} \cup Inode]
      /\ \A x \in Key : final'[x] \in {final[x], NoInode}
  BY <1>1, <1>2 DEF CacheType
<1>4. Keeps(data) /\ data' \in [Inode -> Contents]
  BY <1>1, <1>2, <1>3, NowHoldsKeeps DEF CacheType
<1>5. CacheType'
  BY <1>1, <1>2, <1>3, <1>4 DEF CacheType
<1>6. Calm
  BY <1>2, <1>3, <1>4 DEF Calm, SameWriter
<1>7. \A o \in Jobs : Shows(o)
  BY <1>2 DEF Shows
<1>8. QED
  BY <1>2, <1>5, <1>6, <1>7, PicturesStayCurrent

-----------------------------------------------------------------------------
(* There is always a new inode for Create.                                 *)

LEMMA ImagesAreFew ==
    ASSUME NEW S, IsFiniteSet(S), NEW T, NEW f \in [S -> T]
    PROVE  LET R == {f[x] : x \in S}
           IN  IsFiniteSet(R) /\ Cardinality(R) <= Cardinality(S)
<1> DEFINE R == {f[x] : x \in S}
<1>1. f \in [S -> R]
  OBVIOUS
<1>2. \A y \in R : \E x \in S : f[x] = y
  OBVIOUS
<1>3. f \in Surjection(S, R)
  BY <1>1, <1>2, Fun_IsSurj
<1> HIDE DEF R
<1>4. QED
  BY <1>3, FS_Surjection DEF R

LEMMA LeastInode ==
    ASSUME NEW S \in SUBSET Nat, S # {}
    PROVE  \E x \in S : \A y \in S : x <= y
<1> DEFINE Below == {ss \in Nat \X Nat : ss[1] < ss[2]}
<1>1. IsWellFoundedOn(Below, Nat)
  BY NatLessThanWellFounded DEF OpToRel
<1>2. PICK x \in S : \A y \in S : ~(<<y, x>> \in Below)
  <2> HIDE DEF Below
  <2>1. QED
    BY <1>1, WFMin
<1>3. ASSUME NEW y \in S, ~(x <= y) PROVE FALSE
  <2>1. x \in Nat /\ y \in Nat /\ y < x
    BY <1>3
  <2>2. <<y, x>> \in Below
    BY <2>1
  <2>3. QED
    BY <1>2, <2>2
<1>4. QED
  BY <1>3

LEMMA UnionIsSmall ==
    ASSUME NEW S, IsFiniteSet(S), NEW T, IsFiniteSet(T)
    PROVE  /\ IsFiniteSet(S \cup T)
           /\ Cardinality(S \cup T) <= Cardinality(S) + Cardinality(T)
<1>1. IsFiniteSet(S \cap T)
  BY FS_Intersection
<1>2. Cardinality(S) \in Nat /\ Cardinality(T) \in Nat /\ Cardinality(S \cap T) \in Nat
  BY <1>1, FS_CardinalityType
<1>3. /\ IsFiniteSet(S \cup T)
      /\ Cardinality(S \cup T) = Cardinality(S) + Cardinality(T) - Cardinality(S \cap T)
  BY FS_Union
<1>4. QED
  BY <1>2, <1>3

LEMMA FewAreInUse ==
    ASSUME CacheType
    PROVE  /\ IsFiniteSet(InUse(final, temp, job))
           /\ Cardinality(InUse(final, temp, job))
                  <= Cardinality(Key) + Cardinality(Key) + Cardinality(Jobs)
<1> DEFINE F == {final[k] : k \in Key}
           T == {temp[k] : k \in Key}
           J == {job[j].ino : j \in Jobs}
           ino == [j \in Jobs |-> job[j].ino]
           names == {NoInode} \cup Inode
<1>0. final \in [Key -> names] /\ temp \in [Key -> names]
  BY DEF CacheType
<1> HIDE DEF names
<1>1. IsFiniteSet(F) /\ Cardinality(F) <= Cardinality(Key)
  BY <1>0, KeysAreFinite, ImagesAreFew
<1>2. IsFiniteSet(T) /\ Cardinality(T) <= Cardinality(Key)
  BY <1>0, KeysAreFinite, ImagesAreFew
<1>3. IsFiniteSet(J) /\ Cardinality(J) <= Cardinality(Jobs)
  <2>1. ino \in [Jobs -> J] /\ J = {ino[j] : j \in Jobs}
    OBVIOUS
  <2> HIDE DEF ino, J
  <2>2. IsFiniteSet(Jobs)
    BY JobsAssumption
  <2>3. /\ IsFiniteSet({ino[x] : x \in Jobs})
        /\ Cardinality({ino[x] : x \in Jobs}) <= Cardinality(Jobs)
    BY <2>1, <2>2, ImagesAreFew
  <2>4. QED
    BY <2>1, <2>3
<1>4. InUse(final, temp, job) = (F \cup T) \cup J
  BY DEF InUse
<1> HIDE DEF F, T, J
<1>5. IsFiniteSet(F \cup T) /\ Cardinality(F \cup T) <= Cardinality(F) + Cardinality(T)
  BY <1>1, <1>2, UnionIsSmall
<1>6. /\ IsFiniteSet((F \cup T) \cup J)
      /\ Cardinality((F \cup T) \cup J) <= Cardinality(F \cup T) + Cardinality(J)
  BY <1>3, <1>5, UnionIsSmall
<1>7. /\ Cardinality(F) \in Nat /\ Cardinality(T) \in Nat /\ Cardinality(J) \in Nat
      /\ Cardinality(F \cup T) \in Nat /\ Cardinality((F \cup T) \cup J) \in Nat
  BY <1>1, <1>2, <1>3, <1>5, <1>6, FS_CardinalityType
<1>8. QED
  BY <1>1, <1>2, <1>3, <1>4, <1>5, <1>6, <1>7, KeysAreFinite

LEMMA FreeInodeIsFree ==
    ASSUME CacheType, NEW j \in Jobs, job[j].ino = NoInode
    PROVE  FreeInode \in Inode \ InUse(final, temp, job)
<1> DEFINE used == InUse(final, temp, job)
           n == 2 * Cardinality(Key) + Cardinality(Jobs)
<1>1. n \in Nat /\ n = Cardinality(Key) + Cardinality(Key) + Cardinality(Jobs)
  BY KeysAreFinite
<1>2. Inode = 1 .. n
  BY DEF Inode
<1>3. IsFiniteSet(used) /\ Cardinality(used) <= n
  BY <1>1, FewAreInUse
<1>4. NoInode \in used
  BY DEF InUse
<1> HIDE DEF used, n
<1>5. IsFiniteSet(used \ {NoInode}) /\ Cardinality(used \ {NoInode}) = Cardinality(used) - 1
  BY <1>3, <1>4, FS_RemoveElement
<1>6. Inode \ used # {}
  <2> SUFFICES ASSUME Inode \subseteq used PROVE FALSE
    OBVIOUS
  <2>1. Inode \subseteq used \ {NoInode}
    BY Numbers
  <2>2. Cardinality(Inode) <= Cardinality(used \ {NoInode})
    BY <1>5, <2>1, FS_Subset
  <2>3. Cardinality(Inode) = n
    <3>0. 1 \in Int /\ n \in Int
      BY <1>1
    <3>1. Cardinality(1 .. n) = IF 1 > n THEN 0 ELSE n - 1 + 1
      BY <3>0, FS_Interval
    <3>2. QED
      BY <1>1, <1>2, <3>1
  <2>4. QED
    BY <1>1, <1>3, <1>5, <2>2, <2>3, FS_CardinalityType
<1>7. Inode \ used \in SUBSET Nat
  BY <1>1, <1>2
<1>8. \E i \in Inode \ used : \A h \in Inode \ used : i <= h
  BY <1>6, <1>7, LeastInode
<1>9. FreeInode = CHOOSE i \in Inode \ used : \A h \in Inode \ used : i <= h
  BY DEF FreeInode, used
<1>10. FreeInode \in Inode \ used
  BY <1>8, <1>9
<1>11. QED
  BY <1>10 DEF used

-----------------------------------------------------------------------------
(* A writer writes its next piece.                                         *)

LEMMA PutAdds ==
    ASSUME NEW d \in Contents, NEW n \in 1 .. Pieces, NEW p \in (0 .. Torn) \ {Hole}
    PROVE  LET e == Put(d, n, p)
           IN  /\ e \in Contents
               /\ n <= Len(e) /\ e[n] # Hole
               /\ \A m \in 1 .. Pieces : m <= Len(d) /\ d[m] # Hole =>
                      m <= Len(e) /\ e[m] # Hole
               /\ Whole(d) => Whole(e)
               /\ d = Copy(n - 1, p) => e = Copy(n, p)
<1> DEFINE len == IF Len(d) > n THEN Len(d) ELSE n
           at(m) == IF m = n THEN p ELSE IF m <= Len(d) THEN d[m] ELSE Hole
           e == [m \in 1 .. len |-> at(m)]
<1>0. d \in Seq(0 .. Torn) /\ Len(d) <= Pieces /\ Len(d) \in Nat
  BY LenProperties DEF Contents
<1>1. /\ d \in Seq(0 .. Torn) /\ Len(d) \in Nat
      /\ n \in 1 .. 3 /\ n \in Nat /\ Pieces = 3 /\ Hole \in 0 .. Torn
  <2>1. Pieces = 3 /\ Hole \in 0 .. Torn
    BY Numbers
  <2>2. n \in 1 .. 3
    BY <2>1
  <2>3. n \in Nat
    BY <2>2
  <2>4. QED
    BY <1>0, <2>1, <2>2, <2>3
<1>2. len \in Nat /\ len <= Pieces /\ n <= len /\ Len(d) <= len
  <2>1. CASE Len(d) > n
    BY <1>0, <1>1, <2>1
  <2>2. CASE ~(Len(d) > n)
    BY <1>0, <1>1, <2>2
  <2>3. QED
    BY <2>1, <2>2
<1>3. Put(d, n, p) = e
  BY DEF Put
<1> HIDE DEF len
<1>4. \A m \in 1 .. len : at(m) \in 0 .. Torn
  <2> SUFFICES ASSUME NEW m \in 1 .. len PROVE at(m) \in 0 .. Torn
    OBVIOUS
  <2>1. CASE m <= Len(d)
    <3>0. m \in 1 .. Len(d)
      BY <1>1, <1>2, <2>1
    <3>1. d[m] \in 0 .. Torn
      BY <1>1, <3>0, ElementOfSeq
    <3>2. QED
      BY <1>1, <3>1
  <2>2. CASE ~(m <= Len(d))
    BY <1>1, <2>2
  <2>3. QED
    BY <2>1, <2>2
<1>5. /\ e \in Seq(0 .. Torn) /\ Len(e) = len
      /\ \A m \in 1 .. len : e[m] = at(m)
  BY <1>2, <1>4
<1>6. e \in Contents
  BY <1>2, <1>5 DEF Contents
<1>7. n <= Len(e) /\ e[n] # Hole
  BY <1>1, <1>2, <1>5
<1>8. ASSUME NEW m \in 1 .. Pieces, m <= Len(d), d[m] # Hole
      PROVE  m <= Len(e) /\ e[m] # Hole
  BY <1>1, <1>2, <1>5, <1>8
<1>9. ASSUME Whole(d) PROVE Whole(e)
  BY <1>1, <1>2, <1>5, <1>8, <1>9 DEF Whole
<1>10. ASSUME d = Copy(n - 1, p) PROVE e = Copy(n, p)
  <2>1. Len(d) = n - 1 /\ \A m \in 1 .. n - 1 : d[m] = p
    BY <1>1, <1>10 DEF Copy
  <2>2. len = n
    BY <1>1, <2>1 DEF len
  <2>3. \A m \in 1 .. n : at(m) = p
    BY <1>1, <2>1
  <2>4. QED
    BY <2>2, <2>3 DEF Copy
<1> HIDE DEF e
<1>11. QED
  BY <1>3, <1>6, <1>7, <1>8, <1>9, <1>10

LEMMA WriteKeepsInv ==
    ASSUME CacheInv, NEW j \in Jobs, WritePiece(j)
    PROVE  CacheInv'
<1> DEFINE c == job[j]
           i == c.ino
           n == c.pos + 1
           d == Put(data[i], n, c.picture)
           written == [data EXCEPT ![i] = d]
<1>1. CacheType /\ c \in Shaped /\ c \in JobRecords
  BY DEF CacheInv, CacheType, Shaped
<1>2. /\ i \in Inode /\ i # NoInode /\ n \in 1 .. Pieces /\ c.pos \in Nat /\ n - 1 = c.pos
      /\ c.picture \in (0 .. Torn) \ {Hole}
  BY <1>1, Numbers DEF WritePiece, ReadyToPublish, Shaped, JobRecords
<1>3. /\ job' = [job EXCEPT ![j].pos = n]
      /\ UNCHANGED <<image, final, temp, listing, events, contended, spoiled, orphaned>>
      /\ NowHolds(written)
  BY DEF WritePiece
<1>4. data[i] \in Contents
  BY <1>1, <1>2 DEF CacheType
<1>5. /\ d \in Contents
      /\ n <= Len(d) /\ d[n] # Hole
      /\ \A m \in 1 .. Pieces : m <= Len(data[i]) /\ data[i][m] # Hole =>
             m <= Len(d) /\ d[m] # Hole
      /\ Whole(data[i]) => Whole(d)
      /\ data[i] = Copy(c.pos, c.picture) => d = Copy(n, c.picture)
  BY <1>2, <1>4, PutAdds, ZenonT(60)
<1> HIDE DEF d, n
<1>6. /\ job'[j] \in Shaped /\ job'[j].ino = i /\ job'[j].key = c.key
      /\ job'[j].picture = c.picture /\ job'[j].pos = n
  <2> DEFINE b == [c EXCEPT !.pos = n]
  <2>1. job'[j] = b
    BY <1>1, <1>3 DEF CacheType
  <2>2. /\ b \in JobRecords /\ b.ino = i /\ b.key = c.key /\ b.picture = c.picture
        /\ b.pos = n /\ b.todo = c.todo /\ b.step = c.step
    BY <1>1, <1>2 DEF JobRecords
  <2> HIDE DEF b
  <2>3. b \in Shaped
    BY <1>1, <2>2 DEF Shaped
  <2>4. QED
    BY <2>1, <2>2, <2>3
<1>7. \A o \in Jobs \ {j} : job'[o] = job[o]
  BY <1>1, <1>3 DEF CacheType
<1>8. job' \in [Jobs -> Shaped]
  BY <1>1, <1>3, <1>6, <1>7 DEF CacheType
<1>9. /\ written \in [Inode -> Contents] /\ written[i] = d
      /\ \A x \in Inode \ {i} : written[x] = data[x]
  BY <1>1, <1>2, <1>5 DEF CacheType
<1> HIDE DEF written
<1>10. Keeps(written) /\ data' \in [Inode -> Contents]
  BY <1>1, <1>3, <1>8, <1>9, NowHoldsKeeps DEF CacheType
<1>11. CacheType'
  BY <1>1, <1>3, <1>8, <1>10 DEF CacheType
<1>12. data'[i] = d
  BY <1>2, <1>6, <1>9, <1>10 DEF Keeps
<1>13. \A o \in Jobs : job'[o].ino = job[o].ino /\ job'[o].key = job[o].key
           /\ job'[o].picture = job[o].picture
  BY <1>6, <1>7
<1>14. NamesAreApart'
  BY <1>3 DEF CacheInv, NamesAreApart
<1>15. HeldByName'
  BY <1>3, <1>13 DEF CacheInv, HeldByName
<1>16. NamedAreSettled'
  <2> SUFFICES ASSUME NEW x \in Inode, Named(x)' PROVE Settles(x)'
    BY DEF NamedAreSettled
  <2>1. Named(x) /\ Settles(x) /\ x # NoInode
    BY <1>3, Numbers DEF Named, CacheInv, NamedAreSettled
  <2>2. CASE x = i
    <3>1. CASE Whole(data[x]) \/ x \in orphaned
      BY <1>3, <1>5, <1>12, <2>2, <3>1 DEF Settles
    <3>2. ASSUME NEW o \in Jobs, Fills(o, x) PROVE Fills(o, x)'
      <4>1. job[o].pos \in 0 .. Pieces
        BY <1>1 DEF CacheType, Shaped, JobRecords
      <4>2. job'[o].ino = x /\ data'[x] = d
        BY <1>12, <1>13, <2>2, <3>2 DEF Fills
      <4>3. ASSUME NEW m \in 1 .. job[o].pos PROVE m <= Len(d) /\ d[m] # Hole
        <5>1. m \in 1 .. Pieces
          BY <4>1, Numbers
        <5>2. QED
          BY <1>5, <2>2, <3>2, <5>1 DEF Fills
      <4>4. ASSUME NEW m \in 1 .. job'[o].pos PROVE m <= Len(d) /\ d[m] # Hole
        <5>1. CASE o = j
          BY <1>2, <1>5, <1>6, <4>3, <4>4, <5>1 DEF n
        <5>2. CASE o # j
          BY <1>7, <4>3, <4>4, <5>2
        <5>3. QED
          BY <5>1, <5>2
      <4>5. QED
        BY <4>2, <4>4 DEF Fills
    <3>3. QED
      BY <2>1, <3>1, <3>2 DEF Settles
  <2>3. CASE x # i
    <3>1. data'[x] = data[x]
      BY <1>3, <1>9, <1>10, <2>1, <2>3 DEF Named, Keeps
    <3>2. ASSUME NEW o \in Jobs, Fills(o, x) PROVE Fills(o, x)'
      BY <1>7, <2>3, <3>1, <3>2 DEF Fills
    <3>3. QED
      BY <1>3, <2>1, <3>1, <3>2 DEF Settles
  <2>4. QED
    BY <2>2, <2>3
<1>17. ASSUME NEW o \in Jobs, NEW k \in Key \ contended, Writing(o, k), o # j
       PROVE  job[o].ino # i
  <2>1. c.key # k
    <3>1. \A q \in Jobs : Writing(q, k) => q = o
      BY <1>17 DEF CacheInv, SoleWriters
    <3>2. QED
      BY <1>2, <1>17, <3>1 DEF Writing
  <2>2. QED
    BY <1>2, <1>17, <2>1 DEF CacheInv, HeldByName, Writing
<1>18. SoleWriters'
  <2> SUFFICES ASSUME NEW k \in Key \ contended, NEW o \in Jobs, Writing(o, k)'
               PROVE  /\ temp[k] = job[o].ino
                      /\ data'[job[o].ino] = Copy(job'[o].pos, job[o].picture)
                      /\ \A q \in Jobs : Writing(q, k)' => q = o
    BY <1>3, <1>13 DEF SoleWriters
  <2>1. \A q \in Jobs : Writing(q, k)' <=> Writing(q, k)
    BY <1>13 DEF Writing
  <2>2. /\ temp[k] = job[o].ino
        /\ data[job[o].ino] = Copy(job[o].pos, job[o].picture)
        /\ \A q \in Jobs : Writing(q, k) => q = o
    BY <2>1 DEF CacheInv, SoleWriters
  <2>3. CASE o = j
    BY <1>5, <1>6, <1>12, <2>1, <2>2, <2>3
  <2>4. CASE o # j
    <3>1. job[o].ino # i /\ job[o].ino \in Inode /\ job'[o].ino # NoInode
      BY <1>1, <1>13, <1>17, <2>1, <2>4 DEF Writing, CacheType, Shaped, JobRecords
    <3>2. data'[job[o].ino] = data[job[o].ino]
      BY <1>9, <1>10, <1>13, <3>1 DEF Keeps
    <3>3. QED
      BY <1>7, <2>1, <2>2, <2>4, <3>2
  <2>5. QED
    BY <2>3, <2>4
<1>19. ASSUME NEW k \in Key \ contended, final[k] # NoInode
       PROVE  data'[final[k]] = data[final[k]]
  <2>1. final[k] # i
    <3> SUFFICES ASSUME final[k] = i PROVE FALSE
      OBVIOUS
    <3>1. Writing(j, k)
      BY <1>2 DEF CacheInv, HeldByName, Writing
    <3>2. temp[k] = i
      BY <3>1 DEF CacheInv, SoleWriters
    <3>3. QED
      BY <1>2, <3>2 DEF CacheInv, NamesAreApart
  <2>2. final[k] \in Inode
    BY <1>1, <1>19 DEF CacheType
  <2>3. QED
    BY <1>3, <1>9, <1>10, <1>19, <2>1, <2>2 DEF Keeps
<1>20. \A s : Trusted(s)' <=> Trusted(s)
  BY <1>3 DEF Trusted
<1>21. SoleEntries'
  BY <1>3, <1>19 DEF CacheInv, SoleEntries
<1>22. EntriesAreCurrent'
  BY <1>3, <1>19, <1>20 DEF CacheInv, EntriesAreCurrent
<1>23. WritersAreCurrent'
  BY <1>13, <1>20 DEF CacheInv, WritersAreCurrent
<1>24. PicturesAreCurrent'
  <2>1. \A o \in Jobs : Shows(o)
    BY <1>13 DEF Shows
  <2>2. QED
    BY <1>3, <2>1, PicturesStayCurrent
<1>25. QED
  BY <1>11, <1>14, <1>15, <1>16, <1>18, <1>21, <1>22, <1>23, <1>24 DEF CacheInv

-----------------------------------------------------------------------------
(* A writer renames: the temporary name becomes the entry.                 *)

LEMMA PublishKeepsInv ==
    ASSUME CacheInv, NEW j \in Jobs, Publish(j)
    PROVE  CacheInv'
<1> DEFINE c == job[j]
           k == c.key
           ok == temp[k] # NoInode
<1>1. CacheType /\ c \in Shaped
  BY DEF CacheInv, CacheType
<1>2. c.ino \in Inode /\ c.ino # NoInode /\ c.pos = Pieces /\ k \in Key
      /\ c.picture \in 1 .. Torn
  BY <1>1, Numbers DEF Publish, ReadyToPublish, Shaped, JobRecords
<1>3. /\ final' = IF ok THEN [final EXCEPT ![k] = temp[k]] ELSE final
      /\ temp' = [temp EXCEPT ![k] = NoInode]
      /\ job' = [job EXCEPT ![j] = Stored(c, ok)]
      /\ UNCHANGED <<image, listing, events, contended, spoiled, orphaned>>
      /\ NowHolds(data)
  BY DEF Publish
<1>4. /\ job'[j] \in Shaped /\ job'[j].ino = NoInode /\ job'[j].picture \in {Hole, c.picture}
  <2>1. ok \in BOOLEAN
    OBVIOUS
  <2>2. job'[j] = Stored(c, ok)
    BY <1>1, <1>3 DEF CacheType
  <2> HIDE DEF ok
  <2>3. QED
    BY <1>1, <1>2, <2>1, <2>2, StoredFollows
<1>5. \A o \in Jobs \ {j} : job'[o] = job[o]
  BY <1>1, <1>3 DEF CacheType
<1>6. job' \in [Jobs -> Shaped]
  BY <1>1, <1>3, <1>4, <1>5 DEF CacheType
<1>7. /\ temp' \in [Key -> {NoInode} \cup Inode] /\ final' \in [Key -> {NoInode} \cup Inode]
      /\ temp'[k] = NoInode /\ \A x \in Key \ {k} : temp'[x] = temp[x]
      /\ final'[k] \in {temp[k], final[k]} /\ \A x \in Key \ {k} : final'[x] = final[x]
      /\ ok => final'[k] = temp[k]
  BY <1>1, <1>2, <1>3 DEF CacheType
<1>8. Keeps(data) /\ data' \in [Inode -> Contents]
  BY <1>1, <1>3, <1>6, <1>7, NowHoldsKeeps DEF CacheType
<1>9. CacheType'
  BY <1>1, <1>3, <1>6, <1>7, <1>8 DEF CacheType
<1> HIDE DEF ok
<1>10. NamesAreApart'
  <2>1. \A x, y \in Key : temp'[x] = temp'[y] /\ temp'[x] # NoInode => x = y
    BY <1>7 DEF CacheInv, NamesAreApart
  <2>2. \A x, y \in Key : final'[x] = final'[y] /\ final'[x] # NoInode => x = y
    BY <1>7 DEF CacheInv, NamesAreApart
  <2>3. \A x, y \in Key : temp'[x] = final'[y] => temp'[x] = NoInode
    BY <1>2, <1>7 DEF CacheInv, NamesAreApart
  <2>4. QED
    BY <2>1, <2>2, <2>3 DEF NamesAreApart
<1>11. \A x \in Key, i \in Inode :
           temp'[x] = i \/ final'[x] = i => temp[x] = i \/ final[x] = i
  BY <1>7, Numbers
<1>12. HeldByName'
  <2>1. \A o \in Jobs : job'[o].ino # NoInode =>
            o # j /\ job'[o] = job[o] /\ job[o].ino \in Inode
    BY <1>1, <1>4, <1>5 DEF CacheType, Shaped, JobRecords
  <2>2. \A o \in Jobs, x \in Key :
            job'[o].ino # NoInode /\ (temp'[x] = job'[o].ino \/ final'[x] = job'[o].ino)
                => job'[o].key = x
    BY <1>11, <2>1 DEF CacheInv, HeldByName
  <2>3. \A o, q \in Jobs :
            job'[o].ino # NoInode /\ job'[o].ino = job'[q].ino => job'[o].key = job'[q].key
    BY <2>1 DEF CacheInv, HeldByName
  <2>4. QED
    BY <2>2, <2>3 DEF HeldByName
<1>13. NamedAreSettled'
  <2> SUFFICES ASSUME NEW x \in Inode, Named(x)' PROVE Settles(x)'
    BY DEF NamedAreSettled
  <2>1. Named(x) /\ x # NoInode
    BY <1>11, Numbers DEF Named
  <2>2. data'[x] = data[x]
    BY <1>8, <2>1 DEF Named, Keeps
  <2>3. data[x] \in Contents
    BY <1>1 DEF CacheType
  <2>4. CASE Whole(data[x]) \/ x \in orphaned
    BY <1>3, <2>2, <2>4 DEF Settles
  <2>5. ASSUME NEW o \in Jobs, Fills(o, x) PROVE Settles(x)'
    <3>1. CASE o = j
      <4>1. \A n \in 1 .. 3 : n <= Len(data[x]) /\ data[x][n] # Hole
        BY <1>2, <2>5, <3>1, Numbers DEF Fills
      <4>2. Len(data[x]) = 3
        <5>1. Len(data[x]) \in Nat /\ Len(data[x]) <= 3
          BY <2>3, LenProperties, Numbers DEF Contents
        <5>2. 3 <= Len(data[x])
          BY <4>1
        <5> DEFINE len == Len(data[x])
        <5>3. len \in Nat /\ len <= 3 /\ 3 <= len
          BY <5>1, <5>2
        <5> HIDE DEF len
        <5>4. len = 3
          BY <5>3
        <5>5. QED
          BY <5>4 DEF len
      <4>3. Whole(data[x])
        BY <4>1, <4>2, Numbers DEF Whole
      <4>4. QED
        BY <2>2, <4>3 DEF Settles
    <3>2. CASE o # j
      <4>1. job'[o] = job[o]
        BY <1>5, <3>2
      <4>2. Fills(o, x)'
        BY <2>2, <2>5, <4>1 DEF Fills
      <4>3. QED
        BY <4>2 DEF Settles
    <3>3. QED
      BY <3>1, <3>2
  <2>6. Settles(x)
    BY <2>1 DEF CacheInv, NamedAreSettled
  <2>7. QED
    BY <2>4, <2>5, <2>6 DEF Settles
<1>14. ASSUME k \notin contended
       PROVE  /\ ok /\ temp[k] = c.ino /\ data[temp[k]] = Copy(Pieces, c.picture)
              /\ \A o \in Jobs : Writing(o, k) => o = j
  <2>1. Writing(j, k)
    BY <1>2 DEF Writing
  <2>2. QED
    BY <1>2, <1>14, <2>1 DEF CacheInv, SoleWriters, ok
<1>15. SoleWriters'
  <2> SUFFICES ASSUME NEW x \in Key \ contended, NEW o \in Jobs, Writing(o, x)'
               PROVE  /\ temp'[x] = job'[o].ino
                      /\ data'[job'[o].ino] = Copy(job'[o].pos, job'[o].picture)
                      /\ \A q \in Jobs : Writing(q, x)' => q = o
    BY <1>3 DEF SoleWriters
  <2>1. \A q \in Jobs : Writing(q, x)' => Writing(q, x) /\ q # j /\ job'[q] = job[q]
    BY <1>4, <1>5 DEF Writing
  <2>2. /\ temp[x] = job[o].ino
        /\ data[job[o].ino] = Copy(job[o].pos, job[o].picture)
        /\ \A q \in Jobs : Writing(q, x) => q = o
    BY <2>1 DEF CacheInv, SoleWriters
  <2>3. x # k
    BY <1>14, <2>1
  <2>4. job'[o].ino # NoInode /\ data'[job'[o].ino] = data[job'[o].ino]
    BY <1>8 DEF Keeps, Writing
  <2>5. QED
    BY <1>7, <2>1, <2>2, <2>3, <2>4
<1>16. ASSUME NEW x \in Key \ contended, final'[x] # NoInode, x # k
       PROVE  final[x] # NoInode /\ data'[final'[x]] = data[final[x]]
  BY <1>7, <1>8, <1>16 DEF Keeps
<1>17. ASSUME k \notin contended, final'[k] # NoInode
       PROVE  data'[final'[k]] = Copy(Pieces, c.picture)
  BY <1>2, <1>7, <1>8, <1>14, <1>17 DEF Keeps
<1>18. SoleEntries'
  <2> SUFFICES ASSUME NEW x \in Key \ contended, final'[x] # NoInode
               PROVE  \E p \in 1 .. Torn : data'[final'[x]] = Copy(Pieces, p)
    BY <1>3 DEF SoleEntries
  <2>1. CASE x = k
    BY <1>2, <1>17, <2>1
  <2>2. CASE x # k
    BY <1>16, <2>2 DEF CacheInv, SoleEntries
  <2>3. QED
    BY <2>1, <2>2
<1>19. \A s : Trusted(s)' <=> Trusted(s)
  BY <1>3 DEF Trusted
<1>20. EntriesAreCurrent'
  <2> SUFFICES ASSUME NEW x \in Key \ contended, final'[x] # NoInode, Trusted(x[2])
               PROVE  data'[final'[x]] = Copy(Pieces, x[2])
    BY <1>3, <1>19 DEF EntriesAreCurrent
  <2>1. CASE x = k
    <3>1. c.picture = k[2]
      BY <1>2, <2>1 DEF CacheInv, WritersAreCurrent
    <3>2. QED
      BY <1>17, <2>1, <3>1
  <2>2. CASE x # k
    BY <1>16, <2>2 DEF CacheInv, EntriesAreCurrent
  <2>3. QED
    BY <2>1, <2>2
<1>21. WritersAreCurrent'
  BY <1>4, <1>5, <1>19 DEF CacheInv, WritersAreCurrent
<1>22. PicturesAreCurrent'
  <2>1. \A o \in Jobs : Shows(o)
    BY <1>4, <1>5 DEF Shows
  <2>2. QED
    BY <1>3, <2>1, PicturesStayCurrent
<1>23. QED
  BY <1>9, <1>10, <1>12, <1>13, <1>15, <1>18, <1>20, <1>21, <1>22 DEF CacheInv

-----------------------------------------------------------------------------
(* A writer opens the temporary file of its key, which is emptied.         *)

LEMMA CreateKeepsInv ==
    ASSUME CacheInv, NEW j \in Jobs, Create(j)
    PROVE  CacheInv'
<1>1. CacheType /\ job[j] \in Shaped
  BY DEF CacheInv, CacheType
<1> DEFINE c == job[j]
           k == StoreKey(c)
           i == IF temp[k] # NoInode THEN temp[k] ELSE FreeInode
<1>2. /\ c.step \in {"keep", "save"} /\ c.ino = NoInode
      /\ temp' = [temp EXCEPT ![k] = i]
      /\ job' = [job EXCEPT ![j].ino = i, ![j].key = k, ![j].pos = 0]
      /\ data' = [data EXCEPT ![i] = <<>>]
      /\ contended' = IF \E o \in Jobs \ {j} : Writing(o, k)
                      THEN contended \cup {k} ELSE contended
      /\ orphaned' = orphaned \ {i}
      /\ UNCHANGED <<image, final, listing, events, spoiled>>
  BY DEF Create
<1>3. c.todo # <<>> /\ c.picture \in 1 .. Torn
  BY <1>1, <1>2, Numbers DEF Shaped, JobRecords
<1>4. k \in Key /\ k[2] = image.stamp
  <2>1. Head(c.todo) \in Kinds
    BY <1>1, <1>3, HeadTailProperties DEF Shaped, JobRecords
  <2>2. QED
    BY <1>1, <2>1 DEF StoreKey, CacheKey, CacheType, Key, Kinds
<1>5. /\ i \in Inode /\ i # NoInode
      /\ i = temp[k] \/ i \notin InUse(final, temp, job)
  <2>1. FreeInode \in Inode \ InUse(final, temp, job)
    BY <1>1, <1>2, FreeInodeIsFree
  <2>2. temp[k] # NoInode => temp[k] \in Inode
    BY <1>1, <1>4 DEF CacheType
  <2>3. QED
    BY <2>1, <2>2, Numbers
<1> HIDE DEF i, k
<1>6. PICK h \in Inode, x \in Key : h = i /\ x = k
  BY <1>4, <1>5
<1>7. /\ h # NoInode /\ x[2] = image.stamp
      /\ h = temp[x] \/ h \notin InUse(final, temp, job)
      /\ temp' = [temp EXCEPT ![x] = h]
      /\ job' = [job EXCEPT ![j].ino = h, ![j].key = x, ![j].pos = 0]
      /\ data' = [data EXCEPT ![h] = <<>>]
      /\ contended' = IF \E o \in Jobs \ {j} : Writing(o, x)
                      THEN contended \cup {x} ELSE contended
      /\ orphaned' = orphaned \ {h}
      /\ UNCHANGED <<image, final, listing, events, spoiled>>
  BY <1>2, <1>4, <1>5, <1>6
<1>8. /\ \A y \in Key : final[y] # h
      /\ \A y \in Key \ {x} : temp[y] # h
      /\ \A o \in Jobs : job[o].ino = h => job[o].key = x
  <2>1. CASE h = temp[x]
    BY <1>7, <2>1 DEF CacheInv, NamesAreApart, HeldByName
  <2>2. CASE h \notin InUse(final, temp, job)
    BY <2>2 DEF InUse
  <2>3. QED
    BY <1>7, <2>1, <2>2
<1>9. /\ job'[j] \in Shaped /\ job'[j].ino = h /\ job'[j].key = x /\ job'[j].pos = 0
      /\ job'[j].picture = c.picture
  <2> DEFINE one == [c EXCEPT !.ino = h]
             two == [one EXCEPT !.key = x]
             three == [two EXCEPT !.pos = 0]
  <2>1. job'[j] = three
    BY <1>1, <1>7 DEF CacheType
  <2>2. /\ one \in JobRecords /\ one.ino = h /\ one.todo = c.todo /\ one.step = c.step
        /\ one.picture = c.picture
    BY <1>1 DEF Shaped, JobRecords
  <2> HIDE DEF one
  <2>3. /\ two \in JobRecords /\ two.ino = h /\ two.key = x /\ two.todo = c.todo
        /\ two.step = c.step /\ two.picture = c.picture
    BY <2>2 DEF JobRecords
  <2> HIDE DEF two
  <2>4. /\ three \in JobRecords /\ three.ino = h /\ three.key = x /\ three.pos = 0
        /\ three.todo = c.todo /\ three.step = c.step /\ three.picture = c.picture
    BY <2>3, Numbers DEF JobRecords
  <2> HIDE DEF three
  <2>5. three \in Shaped
    BY <1>2, <1>3, <2>4, Numbers DEF Shaped
  <2>6. QED
    BY <2>1, <2>4, <2>5
<1>10. \A o \in Jobs \ {j} : job'[o] = job[o]
  BY <1>1, <1>7 DEF CacheType
<1>11. job' \in [Jobs -> Shaped]
  BY <1>1, <1>7, <1>9, <1>10 DEF CacheType
<1>12. /\ data' \in [Inode -> Contents] /\ data'[h] = <<>>
       /\ \A y \in Inode \ {h} : data'[y] = data[y]
  <2>1. <<>> \in Contents
    BY EmptySeq, Numbers DEF Contents
  <2>2. QED
    BY <1>1, <1>7, <2>1 DEF CacheType
<1>13. /\ temp' \in [Key -> {NoInode} \cup Inode]
       /\ temp'[x] = h /\ \A y \in Key \ {x} : temp'[y] = temp[y]
  BY <1>1, <1>7 DEF CacheType
<1>14. contended \subseteq contended' /\ contended' \subseteq Key
  BY <1>1, <1>7 DEF CacheType
<1>15. CacheType'
  BY <1>1, <1>7, <1>11, <1>12, <1>13, <1>14 DEF CacheType
<1>16. NamesAreApart'
  BY <1>7, <1>8, <1>13 DEF CacheInv, NamesAreApart
<1>17. HeldByName'
  <2>1. \A o \in Jobs, y \in Key :
            job'[o].ino # NoInode /\ (temp'[y] = job'[o].ino \/ final'[y] = job'[o].ino)
                => job'[o].key = y
    <3> SUFFICES ASSUME NEW o \in Jobs, NEW y \in Key, job'[o].ino # NoInode,
                        temp'[y] = job'[o].ino \/ final'[y] = job'[o].ino
                 PROVE  job'[o].key = y
      OBVIOUS
    <3>1. CASE o = j
      BY <1>7, <1>8, <1>9, <1>13, <3>1
    <3>2. CASE o # j /\ y = x /\ temp'[y] = job'[o].ino
      BY <1>8, <1>10, <1>13, <3>2
    <3>3. CASE o # j /\ (y # x \/ final'[y] = job'[o].ino)
      <4>1. job'[o] = job[o] /\ final' = final
        BY <1>7, <1>10, <3>3
      <4>2. job[o].ino # NoInode /\ (temp[y] = job[o].ino \/ final[y] = job[o].ino)
        BY <1>13, <3>3, <4>1
      <4>3. job[o].key = y
        BY <4>2 DEF CacheInv, HeldByName
      <4>4. QED
        BY <4>1, <4>3
    <3>4. QED
      BY <3>1, <3>2, <3>3
  <2>2. \A o, q \in Jobs :
            job'[o].ino # NoInode /\ job'[o].ino = job'[q].ino => job'[o].key = job'[q].key
    BY <1>8, <1>9, <1>10 DEF CacheInv, HeldByName
  <2>3. QED
    BY <2>1, <2>2 DEF HeldByName
<1>18. NamedAreSettled'
  <2> SUFFICES ASSUME NEW y \in Inode, Named(y)' PROVE Settles(y)'
    BY DEF NamedAreSettled
  <2>1. CASE y = h
    <3>1. Fills(j, y)'
      BY <1>9, <2>1 DEF Fills
    <3>2. QED
      BY <3>1 DEF Settles
  <2>2. CASE y # h
    <3>1. Named(y) /\ data'[y] = data[y]
      BY <1>7, <1>12, <1>13, <2>2 DEF Named
    <3>2. Settles(y)
      BY <3>1 DEF CacheInv, NamedAreSettled
    <3>3. CASE Whole(data[y]) \/ y \in orphaned
      BY <1>7, <2>2, <3>1, <3>3 DEF Settles
    <3>4. ASSUME NEW o \in Jobs, Fills(o, y) PROVE Settles(y)'
      <4>1. o # j
        BY <1>2, <3>4, Numbers DEF Fills
      <4>2. Fills(o, y)'
        BY <1>10, <3>1, <3>4, <4>1 DEF Fills
      <4>3. QED
        BY <4>2 DEF Settles
    <3>5. QED
      BY <3>2, <3>3, <3>4 DEF Settles
  <2>3. QED
    BY <2>1, <2>2
<1>19. SoleWriters'
  <2> SUFFICES ASSUME NEW y \in Key \ contended', NEW o \in Jobs, Writing(o, y)'
               PROVE  /\ temp'[y] = job'[o].ino
                      /\ data'[job'[o].ino] = Copy(job'[o].pos, job'[o].picture)
                      /\ \A q \in Jobs : Writing(q, y)' => q = o
    BY DEF SoleWriters
  <2>1. CASE y = x
    <3>1. \A q \in Jobs \ {j} : ~Writing(q, x)
      BY <1>7, <2>1
    <3>2. \A q \in Jobs \ {j} : ~Writing(q, x)'
      BY <1>10, <3>1 DEF Writing
    <3>3. o = j
      BY <2>1, <3>2
    <3>4. Copy(0, c.picture) = <<>>
      BY DEF Copy
    <3>5. QED
      BY <1>9, <1>12, <1>13, <2>1, <3>2, <3>3, <3>4
  <2>2. CASE y # x
    <3>1. \A q \in Jobs : Writing(q, y)' => q # j /\ job'[q] = job[q] /\ Writing(q, y)
      BY <1>9, <1>10, <2>2 DEF Writing
    <3>2. /\ temp[y] = job[o].ino
          /\ data[job[o].ino] = Copy(job[o].pos, job[o].picture)
          /\ \A q \in Jobs : Writing(q, y) => q = o
      BY <1>14, <3>1 DEF CacheInv, SoleWriters
    <3>3. job[o].ino # h /\ job[o].ino \in Inode
      BY <1>1, <1>8, <2>2, <3>1 DEF Writing, CacheType, Shaped, JobRecords
    <3>4. QED
      BY <1>12, <1>13, <2>2, <3>1, <3>2, <3>3
  <2>3. QED
    BY <2>1, <2>2
<1>20. \A y \in Key : final[y] # NoInode => data'[final[y]] = data[final[y]]
  BY <1>1, <1>8, <1>12 DEF CacheType
<1>21. \A s : Trusted(s)' => Trusted(s)
  BY <1>7, <1>14 DEF Trusted
<1>22. SoleEntries'
  BY <1>7, <1>14, <1>20 DEF CacheInv, SoleEntries
<1>23. EntriesAreCurrent'
  BY <1>7, <1>14, <1>20, <1>21 DEF CacheInv, EntriesAreCurrent
<1>24. WritersAreCurrent'
  <2> SUFFICES ASSUME NEW o \in Jobs, job'[o].ino # NoInode,
                      job'[o].key[2] \notin spoiled',
                      <<"source", job'[o].key[2]>> \notin contended'
               PROVE  job'[o].picture = job'[o].key[2]
    BY DEF WritersAreCurrent, Trusted
  <2>1. Trusted(job'[o].key[2])
    BY <1>7, <1>14 DEF Trusted
  <2>2. CASE o = j
    <3>1. job[j].picture \in {Hole, image.stamp}
      BY <1>7, <1>9, <2>1, <2>2 DEF CacheInv, PicturesAreCurrent
    <3>2. QED
      BY <1>3, <1>7, <1>9, <2>2, <3>1, Numbers
  <2>3. CASE o # j
    BY <1>10, <2>1, <2>3 DEF CacheInv, WritersAreCurrent
  <2>4. QED
    BY <2>2, <2>3
<1>25. PicturesAreCurrent'
  <2>1. \A o \in Jobs : Shows(o)
    BY <1>9, <1>10 DEF Shows
  <2>2. QED
    BY <1>7, <1>14, <2>1, PicturesStayCurrent
<1>26. QED
  BY <1>15, <1>16, <1>17, <1>18, <1>19, <1>22, <1>23, <1>24, <1>25 DEF CacheInv

-----------------------------------------------------------------------------
(* The invariant, and what it says of the entries.                         *)

LEMMA InitHasCacheInv ==
    ASSUME Init
    PROVE  CacheInv
<1>1. PICK mix \in Mixes :
          /\ job = [j \in Jobs |-> IF j \in mix.jobs THEN Enter(Todo(j)) ELSE Done]
          /\ events = mix.events
  BY DEF Init
<1>2. /\ image = [version |-> 1, stamp |-> 1]
      /\ final = [k \in Key |-> NoInode] /\ temp = [k \in Key |-> NoInode]
      /\ data = [i \in Inode |-> <<>>]
      /\ listing = {} /\ contended = {} /\ spoiled = {} /\ orphaned = {}
  BY DEF Init
<1>3. \A j \in Jobs : job[j] \in Shaped /\ job[j].ino = NoInode /\ job[j].picture = Hole
  <2> SUFFICES ASSUME NEW j \in Jobs
               PROVE  job[j] \in Shaped /\ job[j].ino = NoInode /\ job[j].picture = Hole
    OBVIOUS
  <2>1. CASE j \in mix.jobs
    BY <1>1, <2>1, TodoIsTyped, EnterIsShaped
  <2>2. CASE j \notin mix.jobs
    BY <1>1, <2>2, DoneIsShaped
  <2>3. QED
    BY <2>1, <2>2
<1>4. CacheType
  <2>1. job \in [Jobs -> Shaped]
    BY <1>1, <1>3
  <2>2. <<>> \in Contents
    BY EmptySeq, Numbers DEF Contents
  <2>3. events \in Nat
    BY <1>1, MixAssumption
  <2>4. 1 \in 1 .. MaxVersion
    BY Numbers
  <2>5. image \in [version : 1 .. MaxVersion, stamp : Stamp]
    BY <1>2, <2>4 DEF Stamp
  <2>6. QED
    BY <1>2, <2>1, <2>2, <2>3, <2>5 DEF CacheType
<1>5. NamesAreApart /\ SoleEntries /\ EntriesAreCurrent
  BY <1>2 DEF NamesAreApart, SoleEntries, EntriesAreCurrent
<1>6. HeldByName /\ SoleWriters /\ WritersAreCurrent
  BY <1>3 DEF HeldByName, SoleWriters, WritersAreCurrent, Writing
<1>7. NamedAreSettled
  BY <1>2, Numbers DEF NamedAreSettled, Named
<1>8. PicturesAreCurrent
  BY <1>2, <1>3 DEF PicturesAreCurrent
<1>9. QED
  BY <1>4, <1>5, <1>6, <1>7, <1>8 DEF CacheInv

LEMMA NextKeepsCacheInv ==
    ASSUME CacheInv, [Next]_vars
    PROVE  CacheInv'
<1>1. ASSUME CacheType', Calm, PicturesAreCurrent' PROVE CacheInv'
  BY <1>1, CalmKeepsNames, CalmKeepsSettled, CalmKeepsContents DEF CacheInv
<1>2. ASSUME NEW j \in Jobs, Find(j) PROVE CacheInv'
  BY <1>1, <1>2, FindIsCalm
<1>3. ASSUME NEW j \in Jobs, Load(j) PROVE CacheInv'
  BY <1>1, <1>3, LoadIsCalm
<1>4. ASSUME NEW j \in Jobs, Create(j) PROVE CacheInv'
  BY <1>4, CreateKeepsInv
<1>5. ASSUME NEW j \in Jobs, WritePiece(j) PROVE CacheInv'
  BY <1>5, WriteKeepsInv
<1>6. ASSUME NEW j \in Jobs, Publish(j) PROVE CacheInv'
  BY <1>6, PublishKeepsInv
<1>7. ASSUME NEW j \in Jobs, WriteFails(j) PROVE CacheInv'
  BY <1>1, <1>7, WriteFailsIsCalm
<1>8. ASSUME NEW j \in Jobs, Kill(j) PROVE CacheInv'
  BY <1>1, <1>8, KillIsCalm
<1>9. ASSUME NEW keepsStamp \in BOOLEAN, Edit(keepsStamp) PROVE CacheInv'
  BY <1>1, <1>9, EditIsCalm
<1>10. ASSUME Scan PROVE CacheInv'
  BY <1>1, <1>10, ScanIsCalm
<1>11. ASSUME NEW k \in Key, Remove(k) PROVE CacheInv'
  BY <1>1, <1>11, RemoveIsCalm
<1>12. CASE UNCHANGED vars
  <2>1. CacheType' /\ PicturesAreCurrent'
    BY <1>12 DEF vars, CacheInv, CacheType, PicturesAreCurrent, Trusted
  <2>2. Calm
    BY <1>12 DEF vars, Calm, Keeps, SameWriter
  <2>3. QED
    BY <1>1, <2>1, <2>2
<1>13. QED
  BY <1>2, <1>3, <1>4, <1>5, <1>6, <1>7, <1>8, <1>9, <1>10, <1>11, <1>12 DEF Next

\* The strengthening of both properties holds in every state.
THEOREM CacheInvHolds == Spec => []CacheInv
<1>1. Init => CacheInv
  BY InitHasCacheInv
<1>2. CacheInv /\ [Next]_vars => CacheInv'
  BY NextKeepsCacheInv
<1>3. QED
  BY <1>1, <1>2, PTL DEF Spec

\* However many jobs share the cache, are killed or find the disk full, an entry
\* is incomplete only if two of them wrote it at once, and only while a writer
\* holds it or after that writer was stopped.
THEOREM OnlySharedEntriesAreDamaged == Spec => []DamagedOnlyWhileShared
<1>1. CacheInv => DamagedOnlyWhileShared
  <2> SUFFICES ASSUME CacheInv, NEW k \in Key, final[k] # NoInode, ~Whole(data[final[k]])
               PROVE  k \in contended /\ (Open(final[k]) \/ final[k] \in orphaned)
    BY DEF DamagedOnlyWhileShared
  <2>1. k \in contended
    <3> SUFFICES ASSUME k \notin contended PROVE FALSE
      OBVIOUS
    <3>1. PICK p \in 1 .. Torn : data[final[k]] = Copy(Pieces, p)
      BY DEF CacheInv, SoleEntries
    <3>2. Whole(Copy(Pieces, p))
      BY Numbers DEF Whole, Copy
    <3>3. QED
      BY <3>1, <3>2
  <2>2. Open(final[k]) \/ final[k] \in orphaned
    <3>1. final[k] \in Inode /\ Named(final[k])
      BY DEF CacheInv, CacheType, Named
    <3>2. Settles(final[k])
      BY <3>1 DEF CacheInv, NamedAreSettled
    <3>3. QED
      BY <3>2 DEF Settles, Fills, Open
  <2>3. QED
    BY <2>1, <2>2
<1>2. QED
  BY <1>1, CacheInvHolds, PTL

\* An entry that is found under the stamp of an image shows that image, if no
\* job was at work when the stamp was new and two of them did not write it.
THEOREM HitsShowTheImage == Spec => []HitIsCurrent
<1>1. CacheInv => HitIsCurrent
  <2> SUFFICES ASSUME CacheInv, NEW k \in Key, LookUp(k) = "hit", k[2] \notin spoiled,
                      k \notin contended, <<"source", k[2]>> \notin contended
               PROVE  Pixels(data[final[k]]) = k[2]
    BY DEF HitIsCurrent
  <2>1. final[k] # NoInode
    BY HitsAreFiles DEF CacheInv
  <2>2. data[final[k]] = Copy(Pieces, k[2])
    BY <2>1 DEF CacheInv, EntriesAreCurrent, Trusted
  <2>3. k[2] \in 1 .. MaxVersion
    BY DEF Key, Stamp
  <2>4. Pixels(Copy(Pieces, k[2])) = k[2]
    BY <2>3, Numbers DEF Pixels, Copy
  <2>5. QED
    BY <2>2, <2>4
<1>2. QED
  BY <1>1, CacheInvHolds, PTL

-----------------------------------------------------------------------------
(* What a helper has stored, and what a curtain looks for.                 *)

Config == [bg : Backgrounds, visuals : Visuals, theme : Themes]

\* A configuration that a helper may have read instead of the one that counts.
Like(c) == PrewarmInputs(c) = PrewarmInputs(loaded) /\ (~restyled => c = loaded)

Prepared ==
    \E c \in Config, seed \in Draws : Like(c) /\ Prewarmed(c, outputs, seed) \subseteq stored

PrewarmInv ==
    /\ file \in Config /\ loaded \in Config
    /\ outputs \in OutputSets
    /\ helpers \subseteq {NewHelper} \cup [config : Config]
    /\ restyled \in BOOLEAN /\ plugged \in BOOLEAN /\ crossed \in BOOLEAN
    /\ ~plugged /\ ~crossed =>
           NewHelper \in helpers \/ (\E h \in helpers : Like(h.config)) \/ Prepared

\* The first of the images of a slideshow is a file.
LEMMA FirstImageExists ==
    ASSUME NEW bg \in Backgrounds, Candidates(bg) # {}
    PROVE  Pick(bg, 0) \in File
<1> DEFINE found == Candidates(bg)
           Before(m) == {x \in found : x < m}
           m == CHOOSE m \in found : Cardinality(Before(m)) = 0 % Cardinality(found)
<1>1. found \in SUBSET (1 .. Len(bg.slideshow.files)) /\ Len(bg.slideshow.files) \in Nat
  BY BackgroundAssumption DEF Candidates
<1>2. found \in SUBSET Nat
  BY <1>1
<1>3. IsFiniteSet(found) /\ Cardinality(found) \in Nat /\ Cardinality(found) # 0
  <2>1. IsFiniteSet(1 .. Len(bg.slideshow.files))
    BY <1>1, FS_Interval
  <2>2. IsFiniteSet(found)
    BY <1>1, <2>1, FS_Subset
  <2> HIDE DEF found
  <2>3. found # {}
    BY DEF found
  <2>4. QED
    BY <2>2, <2>3, FS_CardinalityType, FS_EmptySet
<1>4. 0 % Cardinality(found) = 0
  BY <1>3
<1>5. \E x \in found : Cardinality(Before(x)) = 0
  <2>1. PICK x \in found : \A y \in found : x <= y
    <3> HIDE DEF found
    <3>1. found # {}
      BY DEF found
    <3>2. QED
      BY <1>2, <3>1, LeastInode
  <2>2. Before(x) = {}
    BY <1>2, <2>1
  <2>3. QED
    BY <2>1, <2>2, FS_EmptySet
<1>6. m \in found
  <2> HIDE DEF found, Before
  <2>1. QED
    BY <1>4, <1>5
<1>7. Pick(bg, 0) = Image(bg, m)
  BY DEF Pick
<1> HIDE DEF m
<1>8. QED
  BY <1>6, <1>7 DEF Candidates

\* Of two configurations that differ in the theme at most, what the one has a
\* helper store is what the other lets a curtain look for, save for the scene.
LEMMA StoredIsLookedFor ==
    ASSUME NEW c \in Config, NEW d \in Config, PrewarmInputs(c) = PrewarmInputs(d),
           NEW found \in OutputSets, NEW o \in found, NEW n \in Draws, NEW seed \in Draws,
           Foreseeable(d.bg, o, CurtainPath(d.bg, o, Chosen(d.bg, n))),
           NEW entry \in LookUps(d, o, Chosen(d.bg, n))
    PROVE  entry \in Prewarmed(c, found, seed) \/ (entry[3][1] = "scene" /\ c # d)
<1> DEFINE bg == d.bg
           chosen == Chosen(bg, n)
           path == CurtainPath(bg, o, chosen)
           size == ProbedSize(o)
           of == IF path # NoPath THEN {path}
                 ELSE IF Generated(bg) THEN {EffectiveMode(bg)} ELSE {}
           jobs == {j \in PrewarmJobs(bg, found, seed) : j.path \in File}
           drawn == IF Generated(bg)
                    THEN {[of |-> EffectiveMode(bg), size |-> s] : s \in GeneratedSizes(bg, found)}
                    ELSE {}
           pictures == {[of |-> j.path, size |-> j.size] : j \in jobs} \cup drawn
<1>1. bg \in Backgrounds /\ c.bg = bg /\ c.visuals = d.visuals
  BY DEF PrewarmInputs, Config
<1>2. SurfaceScale(o) = o.scale
  BY OutputAssumption DEF Foreseeable, SurfaceScale
<1>3. SizeAt(o, SurfaceScale(o)) = size /\ size.scale = o.scale
  BY <1>2 DEF ProbedSize, SizeAt
<1>4. PICK p \in of, v \in Variants(d, size.scale) : entry = Entry(p, size, v)
  <2>1. entry \in {Entry(q, size, w) : q \in of, w \in Variants(d, size.scale)}
    BY <1>3 DEF LookUps
  <2> HIDE DEF of
  <2>2. QED
    BY <2>1
<1>5. ASSUME bg.slideshow.on
      PROVE  path = SlideshowInitial(bg, seed) /\ path \in File
  <2>1. Candidates(bg) # {} /\ bg.slideshow.timed /\ bg.slideshow.order = "sequence"
    BY <1>5 DEF Foreseeable
  <2>2. path = Pick(bg, 0)
    BY <1>5, <2>1 DEF CurtainPath, Chosen
  <2>3. SlideshowInitial(bg, seed) = Pick(bg, 0)
    BY <2>1 DEF SlideshowInitial
  <2>4. QED
    BY <1>1, <2>1, <2>2, <2>3, FirstImageExists
<1>6. ASSUME ~bg.slideshow.on
      PROVE  /\ path = IF bg.outputs[o.name] # NoPath THEN bg.outputs[o.name]
                       ELSE ResolvedPath(bg)
             /\ path \in File \cup {NoPath}
  BY <1>6 DEF CurtainPath, Foreseeable
<1>7. ASSUME path \in File PROVE [path |-> path, size |-> size] \in jobs
  <2>1. CASE bg.slideshow.on
    BY <1>5, <1>7, <2>1 DEF PrewarmJobs
  <2>2. CASE ~bg.slideshow.on
    BY <1>6, <1>7, <2>2 DEF PrewarmJobs
  <2>3. QED
    BY <2>1, <2>2
<1>8. [of |-> p, size |-> size] \in pictures
  <2>1. CASE path # NoPath
    <3>1. path \in File /\ p = path
      BY <1>5, <1>6, <2>1
    <3>2. [path |-> path, size |-> size] \in jobs
      BY <1>7, <3>1
    <3> HIDE DEF jobs, path, size
    <3>3. QED
      BY <3>1, <3>2
  <2>2. CASE path = NoPath
    <3>1. Generated(bg) /\ p = EffectiveMode(bg)
      BY <2>2
    <3>2. ~bg.slideshow.on
      BY <1>5, <2>2, NoPathAssumption
    <3>3. bg.outputs[o.name] = NoPath
      BY <1>6, <2>2, <3>2
    <3>4. size \in GeneratedSizes(bg, found)
      BY <3>3 DEF GeneratedSizes
    <3> HIDE DEF jobs, size, path
    <3>5. QED
      BY <3>1, <3>4
  <2>3. QED
    BY <2>1, <2>2
<1>9. Prewarmed(c, found, seed) =
          UNION {{Entry(q.of, q.size, w) : w \in Variants(c, q.size.scale)} : q \in pictures}
  BY <1>1 DEF Prewarmed
<1> HIDE DEF pictures, size
<1>10. ASSUME v \in Variants(c, size.scale) PROVE entry \in Prewarmed(c, found, seed)
  <2> DEFINE q == [of |-> p, size |-> size]
  <2>1. q \in pictures /\ q.of = p /\ q.size = size
    BY <1>8
  <2> HIDE DEF q
  <2>2. entry \in {Entry(q.of, q.size, w) : w \in Variants(c, q.size.scale)}
    BY <1>4, <1>10, <2>1
  <2>3. QED
    BY <1>9, <2>1, <2>2
<1>11. CASE v = <<"scene", d.theme, size.scale>>
  <2>1. entry[3][1] = "scene"
    BY <1>4, <1>11 DEF Entry
  <2>2. c = d => v \in Variants(c, size.scale)
    BY <1>4
  <2>3. QED
    BY <1>10, <2>1, <2>2
<1>12. CASE v # <<"scene", d.theme, size.scale>>
  <2>1. v \in Variants(c, size.scale)
    BY <1>1, <1>4, <1>12 DEF Variants
  <2>2. QED
    BY <1>10, <2>1
<1>13. QED
  BY <1>11, <1>12

LEMMA EditsAreConfigs ==
    ASSUME NEW c \in Config, NEW d \in SingleEdits(c)
    PROVE  d \in Config
<1>1. CASE d \in {[c EXCEPT !.theme = t] : t \in Themes}
  BY <1>1 DEF Config
<1>2. CASE d \in {[c EXCEPT !.visuals = vs] : vs \in Visuals}
  BY <1>2 DEF Config
<1>3. CASE \E bg \in Backgrounds : d = [c EXCEPT !.bg = bg]
  BY <1>3 DEF Config
<1>4. QED
  BY <1>1, <1>2, <1>3 DEF SingleEdits

LEMMA PrewarmNextKeepsInv ==
    ASSUME PrewarmInv, [PrewarmNext]_pvars
    PROVE  PrewarmInv'
<1> DEFINE Served == NewHelper \in helpers \/ (\E h \in helpers : Like(h.config)) \/ Prepared
<1>1. CASE EditFile
  <2>1. file' \in Config
    BY <1>1, EditsAreConfigs DEF EditFile, PrewarmInv
  <2>2. UNCHANGED <<loaded, outputs, helpers, stored, restyled, plugged, crossed>>
    BY <1>1 DEF EditFile
  <2>3. Served' <=> Served
    BY <2>2 DEF Like, Prepared
  <2>4. QED
    BY <2>1, <2>2, <2>3 DEF PrewarmInv
<1>2. CASE Reload
  <2> DEFINE needed == PrewarmInputs(loaded) # PrewarmInputs(file)
  <2>1. /\ loaded' = file
        /\ helpers' = IF needed THEN helpers \cup {NewHelper} ELSE helpers
        /\ restyled' = ~needed
        /\ plugged' = (plugged /\ ~needed)
        /\ crossed' = (crossed /\ ~needed)
        /\ UNCHANGED <<file, outputs, stored>>
    BY <1>2 DEF Reload
  <2>2. CASE needed
    BY <2>1, <2>2 DEF PrewarmInv
  <2>3. CASE ~needed
    <3>1. helpers' = helpers /\ restyled' = TRUE /\ plugged' = plugged /\ crossed' = crossed
      BY <2>1, <2>3 DEF PrewarmInv
    <3>2. \A c : Like(c) => Like(c)'
      BY <2>1, <2>3, <3>1 DEF Like
    <3>3. Served => Served'
      BY <2>1, <3>1, <3>2 DEF Prepared
    <3>4. QED
      BY <2>1, <3>1, <3>3 DEF PrewarmInv
  <2>4. QED
    BY <2>2, <2>3
<1>3. CASE Plug
  BY <1>3 DEF Plug, PrewarmInv
<1>4. ASSUME NEW h \in helpers, HelperReads(h) PROVE PrewarmInv'
  <2>1. /\ helpers' = (helpers \ {h}) \cup {[config |-> file]}
        /\ crossed' = (crossed \/ file # loaded)
        /\ UNCHANGED <<file, loaded, outputs, stored, restyled, plugged>>
    BY <1>4 DEF HelperReads
  <2>2. [config |-> file] \in [config : Config]
    BY DEF PrewarmInv
  <2>3. ASSUME ~crossed' PROVE \E g \in helpers' : Like(g.config)'
    <3>1. PICK g \in helpers' : g = [config |-> file]
      BY <2>1
    <3>2. g.config = loaded
      BY <2>1, <2>3, <3>1
    <3>3. Like(g.config)'
      BY <2>1, <3>2 DEF Like
    <3>4. QED
      BY <3>3
  <2>4. QED
    BY <2>1, <2>2, <2>3 DEF PrewarmInv
<1>5. ASSUME NEW h \in helpers, HelperStores(h) PROVE PrewarmInv'
  <2>1. PICK seed \in Draws : stored' = stored \cup Prewarmed(h.config, outputs, seed)
    BY <1>5 DEF HelperStores
  <2>2. /\ h # NewHelper /\ helpers' = helpers \ {h}
        /\ UNCHANGED <<file, loaded, outputs, restyled, plugged, crossed>>
    BY <1>5 DEF HelperStores
  <2>3. \A c : Like(c)' <=> Like(c)
    BY <2>2 DEF Like
  <2>4. ASSUME Served PROVE Served'
    <3>1. CASE NewHelper \in helpers
      BY <2>2, <3>1
    <3>2. ASSUME NEW g \in helpers, Like(g.config) PROVE Served'
      <4>1. CASE g = h
        <5>1. h.config \in Config
          BY <1>5, <2>2 DEF PrewarmInv
        <5>2. Prepared'
          BY <2>1, <2>2, <2>3, <3>2, <4>1, <5>1 DEF Prepared
        <5>3. QED
          BY <5>2
      <4>2. CASE g # h
        BY <2>2, <2>3, <3>2, <4>2
      <4>3. QED
        BY <4>1, <4>2
    <3>3. CASE Prepared
      <4>1. Prepared'
        BY <2>1, <2>2, <2>3, <3>3 DEF Prepared
      <4>2. QED
        BY <4>1
    <3>4. QED
      BY <2>4, <3>1, <3>2, <3>3
  <2>5. QED
    BY <2>2, <2>4 DEF PrewarmInv
<1>6. CASE UNCHANGED pvars
  BY <1>6 DEF pvars, PrewarmInv, Like, Prepared
<1>7. QED
  BY <1>1, <1>2, <1>3, <1>4, <1>5, <1>6 DEF PrewarmNext

\* What is needed is stored, or a helper is there that will store it.
THEOREM PrewarmInvHolds == PrewarmSpec => []PrewarmInv
<1>1. PrewarmInit => PrewarmInv
  BY DEF PrewarmInit, PrewarmInv, Config
<1>2. PrewarmInv /\ [PrewarmNext]_pvars => PrewarmInv'
  BY PrewarmNextKeepsInv
<1>3. QED
  BY <1>1, <1>2, PTL DEF PrewarmSpec

\* With no helper at work, whatever a curtain with veilad's configuration will
\* look for, and could be known, is in the caches.
THEOREM CurtainsFindTheirPictures == PrewarmSpec => []PrewarmCovers
<1>1. PrewarmInv => PrewarmCovers
  <2> SUFFICES ASSUME PrewarmInv, helpers = {}, ~plugged, ~crossed,
                      NEW o \in outputs, NEW n \in Draws,
                      Foreseeable(loaded.bg, o, CurtainPath(loaded.bg, o, Chosen(loaded.bg, n))),
                      NEW entry \in LookUps(loaded, o, Chosen(loaded.bg, n))
               PROVE  entry \in stored \/ Restyled(entry)
    BY DEF PrewarmCovers
  <2>1. PICK c \in Config, seed \in Draws :
            Like(c) /\ Prewarmed(c, outputs, seed) \subseteq stored
    BY DEF PrewarmInv, Prepared
  <2>2. entry \in Prewarmed(c, outputs, seed) \/ (entry[3][1] = "scene" /\ c # loaded)
    BY <2>1, StoredIsLookedFor DEF PrewarmInv, Like
  <2>3. QED
    BY <2>1, <2>2 DEF Restyled, Like
<1>2. QED
  BY <1>1, PrewarmInvHolds, PTL

-----------------------------------------------------------------------------
(* The buffers of a surface.                                               *)

Slot == 1 .. MaxBufferSlots
State == {"busy", "sent", "released"}

\* The type of the variables.
PoolType ==
    /\ pool \in [len : ByteLens, slots : Seq(State), next : Slot]
    /\ Len(pool.slots) <= MaxBufferSlots
    /\ memory \in [Slot -> SUBSET Region]
    /\ front \in [slot : {NoSlot} \cup Slot, damage : SUBSET Region,
                  reads : {NoSlot} \cup Slot]
    /\ shown \in SUBSET Region
    /\ odd \in SUBSET {"overtaken", "torn"}

\* The bookkeeping of the slots, and where the missing regions wait.
PoolInv ==
    /\ PoolType
    /\ front.slot = NoSlot <=> pool.slots = <<>>
    /\ front.slot # NoSlot => front.slot \in DOMAIN pool.slots
    /\ front.reads # NoSlot =>
           front.reads \in DOMAIN pool.slots /\ pool.slots[front.reads] = "busy"
    /\ Len(pool.slots) = MaxBufferSlots => pool.next # front.slot
    /\ "torn" \notin odd
    /\ front.damage # {} => front.slot # NoSlot /\ pool.slots[front.slot] = "busy"
    /\ front.slot # NoSlot /\ "overtaken" \notin odd =>
           Region \ shown \subseteq front.damage \cap memory[front.slot]

-----------------------------------------------------------------------------
\* The least of a set of slots is one of them.
LEMMA LeastSlot ==
    ASSUME NEW S \in SUBSET Slot, S # {}
    PROVE  Min(S) \in S
<1>1. Slot = {1, 2}
  BY SMT DEF Slot, MaxBufferSlots
<1>2. \E x \in S : \A y \in S : x =< y
  <2>1. CASE 1 \in S
    BY <1>1, <2>1
  <2>2. CASE 1 \notin S
    <3>1. S = {2}
      BY <1>1, <2>2
    <3>. QED
      BY <3>1, SMT
  <2>. QED
    BY <2>1, <2>2
<1>. QED
  BY <1>2 DEF Min

\* The numbers of slots that a pool may have.
LEMMA Few == \A n \in {0, 1, 2} : n <= 2 /\ (n < 2 \/ n = 2)
OBVIOUS

\* What the slots of a pool may be.
LEMMA ShortSequence ==
    ASSUME NEW s \in Seq(State), Len(s) <= MaxBufferSlots
    PROVE  Len(s) \in {0, 1, 2} /\ DOMAIN s = 1 .. Len(s)
<1>1. Len(s) \in Nat /\ DOMAIN s = 1 .. Len(s)
  OBVIOUS
<1>2. Len(s) \in {0, 1, 2}
  BY <1>1, SMT DEF MaxBufferSlots
<1>. QED
  BY <1>1, <1>2

\* The pool that a draw starts from: the same, or without its released end, or
\* an empty one of another length.
LEMMA PoolStarts ==
    ASSUME PoolType, NEW bytes \in ByteLens, NEW p, p = PoolFor(bytes)
    PROVE  /\ p \in [len : ByteLens, slots : Seq(State), next : Slot]
           /\ Len(p.slots) <= MaxBufferSlots
           /\ bytes # pool.len => p.slots = <<>>
           /\ bytes = pool.len =>
                  \/ p.slots = pool.slots /\ (p.next = pool.next \/ Len(p.slots) < 2)
                  \/ /\ Len(pool.slots) = 2 /\ pool.slots[2] = "released"
                     /\ Len(p.slots) = 1 /\ p.slots[1] = pool.slots[1]
<1> USE DEF MaxBufferSlots, Slot
<1> DEFINE slots == IF pool.len = bytes THEN Compacted(pool.slots) ELSE <<>>
<1>0. pool.slots \in Seq(State) /\ Len(pool.slots) \in {0, 1, 2} /\ pool.next \in 1 .. 2
  <2>1. pool.slots \in Seq(State) /\ Len(pool.slots) <= MaxBufferSlots /\ pool.next \in Slot
    BY DEF PoolType
  <2>. QED
    BY <2>1, ShortSequence
<1>1. /\ slots \in Seq(State)
      /\ Len(slots) \in {0, 1, 2}
      /\ bytes # pool.len => slots = <<>>
      /\ bytes = pool.len =>
             \/ slots = pool.slots
             \/ /\ Len(pool.slots) = 2 /\ pool.slots[2] = "released"
                /\ Len(slots) = 1 /\ slots[1] = pool.slots[1]
  <2>1. CASE bytes # pool.len
    BY <2>1
  <2>2. CASE bytes = pool.len /\ Len(pool.slots) = 2 /\ pool.slots[2] = "released"
    <3>1. 2 \in Released(pool.slots)
      BY <1>0, <2>2 DEF Released
    <3>2. slots = SubSeq(pool.slots, 1, 1)
      BY <1>0, <2>2, <3>1 DEF Compacted
    <3>. QED
      BY <1>0, <2>2, <3>2
  <2>3. CASE bytes = pool.len /\ ~(Len(pool.slots) = 2 /\ pool.slots[2] = "released")
    <3>1. slots = pool.slots
      BY <1>0, <2>3 DEF Compacted, Released
    <3>. QED
      BY <1>0, <2>3, <3>1
  <2>. QED
    BY <2>1, <2>2, <2>3
<1> DEFINE next == IF slots = <<>> THEN 1 ELSE ((pool.next - 1) % Len(slots)) + 1
<1>2. p = [len |-> bytes, slots |-> slots, next |-> next]
  BY DEF PoolFor
<1> HIDE DEF slots
<1>3. next \in 1 .. 2 /\ (Len(slots) = 2 => next = pool.next)
  <2>1. CASE Len(slots) = 0
    BY <1>1, <2>1
  <2>2. CASE Len(slots) = 1
    BY <1>0, <1>1, <2>2
  <2>3. CASE Len(slots) = 2
    BY <1>0, <1>1, <2>3
  <2>. QED
    BY <1>1, <2>1, <2>2, <2>3
<1> HIDE DEF next
<1>4. p \in [len : ByteLens, slots : Seq(State), next : Slot]
  BY <1>1, <1>2, <1>3
<1>5. p.slots = slots /\ p.next = next
  BY <1>2
<1>6. Len(p.slots) <= MaxBufferSlots /\ (bytes # pool.len => p.slots = <<>>)
  <2>1. Len(slots) <= 2 /\ (bytes # pool.len => slots = <<>>)
    BY <1>1, Few, Zenon
  <2>. QED
    BY <1>5, <2>1
<1>7. CASE bytes = pool.len /\ slots = pool.slots
  <2>1. p.slots = pool.slots /\ (p.next = pool.next \/ Len(p.slots) < 2)
    <3>1. Len(slots) = 2 \/ Len(slots) < 2
      BY <1>1, Few, Zenon
    <3>. QED
      BY <1>3, <1>5, <1>7, <3>1
  <2>. QED
    BY <1>4, <1>6, <1>7, <2>1
<1>8. CASE bytes = pool.len /\ slots # pool.slots
  BY <1>1, <1>4, <1>5, <1>6, <1>8
<1>. QED
  BY <1>4, <1>6, <1>7, <1>8

\* The slot that a draw takes: a released one, a new one, or the next in turn
\* if none is released.
LEMMA SlotTaken ==
    ASSUME NEW p \in [len : ByteLens, slots : Seq(State), next : Slot],
           Len(p.slots) <= MaxBufferSlots,
           NEW k, k = NextBufferSlot(p)
    PROVE  /\ k \in Slot
           /\ \/ k \in Released(p.slots)
              \/ Released(p.slots) = {} /\ Len(p.slots) < 2 /\ k = Len(p.slots) + 1
              \/ Released(p.slots) = {} /\ Len(p.slots) = 2 /\ k = p.next
<1> USE DEF MaxBufferSlots, Slot
<1>1. Len(p.slots) \in {0, 1, 2} /\ DOMAIN p.slots = 1 .. Len(p.slots) /\ p.next \in Slot
  <2>1. p.slots \in Seq(State) /\ p.next \in Slot
    OBVIOUS
  <2>. QED
    BY <2>1, ShortSequence
<1>2. Released(p.slots) \in SUBSET Slot
  BY <1>1 DEF Released
<1>3. CASE Released(p.slots) # {}
  BY <1>2, <1>3, LeastSlot DEF NextBufferSlot
<1>4. CASE Released(p.slots) = {}
  <2>1. CASE Len(p.slots) < 2
    BY <1>1, <1>4, <2>1 DEF NextBufferSlot
  <2>2. CASE Len(p.slots) = 2
    BY <1>1, <1>4, <2>2 DEF NextBufferSlot
  <2>3. Len(p.slots) < 2 \/ Len(p.slots) = 2
    BY <1>1, Few, Zenon
  <2>. QED
    BY <2>1, <2>2, <2>3
<1>. QED
  BY <1>3, <1>4

\* The pool that a draw leaves: its slot is busy and not the next in turn, and
\* the others stay as they were.
LEMMA SlotUsed ==
    ASSUME NEW p \in [len : ByteLens, slots : Seq(State), next : Slot],
           Len(p.slots) <= MaxBufferSlots,
           NEW k \in Slot, k <= Len(p.slots) + 1,
           NEW q, q = Using(p, k)
    PROVE  /\ q \in [len : ByteLens, slots : Seq(State), next : Slot]
           /\ Len(q.slots) <= MaxBufferSlots
           /\ k \in DOMAIN q.slots /\ q.slots[k] = "busy"
           /\ Len(q.slots) = MaxBufferSlots => q.next # k
           /\ \A j \in DOMAIN p.slots : j \in DOMAIN q.slots
                  /\ (p.slots[j] = "busy" => q.slots[j] = "busy")
<1> USE DEF MaxBufferSlots, Slot
<1> DEFINE slots == IF k \in DOMAIN p.slots THEN [p.slots EXCEPT ![k] = "busy"]
                                            ELSE Append(p.slots, "busy")
<1>0. p.slots \in Seq(State) /\ Len(p.slots) \in {0, 1, 2} /\ p.len \in ByteLens
  <2>1. p.slots \in Seq(State) /\ p.len \in ByteLens
    OBVIOUS
  <2>. QED
    BY <2>1, ShortSequence
<1>1. /\ slots \in Seq(State)
      /\ Len(slots) \in {1, 2}
      /\ k \in 1 .. Len(slots) /\ slots[k] = "busy"
      /\ Len(p.slots) <= Len(slots)
      /\ \A j \in 1 .. Len(p.slots) : p.slots[j] = "busy" => slots[j] = "busy"
  <2>1. CASE k \in DOMAIN p.slots
    BY <1>0, <2>1 DEF State
  <2>2. CASE k \notin DOMAIN p.slots
    BY <1>0, <2>2 DEF State
  <2>. QED
    BY <2>1, <2>2
<1>2. q = [len |-> p.len, slots |-> slots, next |-> After(k, slots)]
  BY DEF Using
<1> HIDE DEF slots
<1>3. After(k, slots) \in Slot /\ (Len(slots) = 2 => After(k, slots) # k)
  <2>1. CASE Len(slots) = 1
    BY <1>1, <2>1 DEF After
  <2>2. CASE Len(slots) = 2
    BY <1>1, <2>2 DEF After
  <2>. QED
    BY <1>1, <2>1, <2>2
<1>4. q.slots = slots /\ q.next = After(k, slots)
  BY <1>2
<1>5. q \in [len : ByteLens, slots : Seq(State), next : Slot]
  BY <1>0, <1>1, <1>2, <1>3
<1>6. Len(slots) <= MaxBufferSlots
  <2>1. Len(slots) \in {0, 1, 2}
    BY <1>1, Zenon
  <2>. QED
    BY <2>1, Few, Zenon
<1>7. DOMAIN slots = 1 .. Len(slots) /\ DOMAIN p.slots = 1 .. Len(p.slots)
  BY <1>0, <1>1
<1>8. 1 .. Len(p.slots) \subseteq 1 .. Len(slots)
  BY <1>0, <1>1
<1>. QED
  BY <1>1, <1>3, <1>4, <1>5, <1>6, <1>7, <1>8

\* The slot of a draw: busy from then on, not the next in turn, and not torn
\* from under the compositor unless the frame's length changed.
LEMMA SlotOfDraw ==
    ASSUME PoolInv, NEW bytes \in ByteLens,
           NEW k, k = NextBufferSlot(PoolFor(bytes)),
           NEW q, q = Using(PoolFor(bytes), k)
    PROVE  /\ k \in Slot
           /\ q \in [len : ByteLens, slots : Seq(State), next : Slot]
           /\ Len(q.slots) <= MaxBufferSlots
           /\ k \in DOMAIN q.slots /\ q.slots[k] = "busy"
           /\ Len(q.slots) = MaxBufferSlots => q.next # k
           /\ bytes = pool.len => ~TornBy(k)
           /\ bytes = pool.len /\ front.reads # NoSlot =>
                  front.reads \in DOMAIN q.slots /\ q.slots[front.reads] = "busy"
<1> DEFINE p == PoolFor(bytes)
<1>1. PoolType
  BY DEF PoolInv
<1>2. /\ p \in [len : ByteLens, slots : Seq(State), next : Slot]
      /\ Len(p.slots) <= MaxBufferSlots
      /\ bytes = pool.len =>
             \/ p.slots = pool.slots /\ (p.next = pool.next \/ Len(p.slots) < 2)
             \/ /\ Len(pool.slots) = 2 /\ pool.slots[2] = "released"
                /\ Len(p.slots) = 1 /\ p.slots[1] = pool.slots[1]
  BY <1>1, PoolStarts
<1> HIDE DEF p
<1>3. /\ k \in Slot
      /\ \/ k \in Released(p.slots)
         \/ Released(p.slots) = {} /\ Len(p.slots) < 2 /\ k = Len(p.slots) + 1
         \/ Released(p.slots) = {} /\ Len(p.slots) = 2 /\ k = p.next
  BY <1>2, SlotTaken DEF p
<1>4. p.slots \in Seq(State) /\ Len(p.slots) \in {0, 1, 2} /\ DOMAIN p.slots = 1 .. Len(p.slots)
  <2>1. p.slots \in Seq(State) /\ Len(p.slots) <= MaxBufferSlots
    BY <1>2
  <2>. QED
    BY <2>1, ShortSequence
<1>5. k <= Len(p.slots) + 1
  <2>1. CASE k \in Released(p.slots)
    BY <1>4, <2>1 DEF Released
  <2>2. CASE Len(p.slots) < 2 /\ k = Len(p.slots) + 1
    BY <1>4, <2>2
  <2>3. CASE Len(p.slots) = 2 /\ k = p.next
    BY <1>2, <2>3 DEF Slot, MaxBufferSlots
  <2>. QED
    BY <1>3, <2>1, <2>2, <2>3
<1>6. /\ q \in [len : ByteLens, slots : Seq(State), next : Slot]
      /\ Len(q.slots) <= MaxBufferSlots
      /\ k \in DOMAIN q.slots /\ q.slots[k] = "busy"
      /\ Len(q.slots) = MaxBufferSlots => q.next # k
      /\ \A j \in DOMAIN p.slots : j \in DOMAIN q.slots
             /\ (p.slots[j] = "busy" => q.slots[j] = "busy")
  BY <1>2, <1>3, <1>5, SlotUsed DEF p
<1>7. ASSUME bytes = pool.len, front.reads # NoSlot
      PROVE  front.reads \in DOMAIN p.slots /\ p.slots[front.reads] = "busy"
  <2>1. /\ front.reads \in DOMAIN pool.slots /\ pool.slots[front.reads] = "busy"
        /\ pool.slots \in Seq(State)
    BY <1>1, <1>7 DEF PoolInv, PoolType
  <2>2. CASE p.slots = pool.slots
    BY <2>1, <2>2
  <2>3. CASE /\ Len(pool.slots) = 2 /\ pool.slots[2] = "released"
             /\ Len(p.slots) = 1 /\ p.slots[1] = pool.slots[1]
    <3>1. front.reads = 1
      BY <2>1, <2>3
    <3>. QED
      BY <1>4, <2>1, <2>3, <3>1
  <2>. QED
    BY <1>2, <1>7, <2>2, <2>3
<1>8. ASSUME bytes = pool.len, TornBy(k)
      PROVE  FALSE
  <2>1. k = front.reads /\ (k = front.slot \/ Released(pool.slots) # {})
    BY <1>8 DEF TornBy
  <2>2. k \in DOMAIN p.slots /\ p.slots[k] = "busy" /\ k # NoSlot
    BY <1>3, <1>7, <1>8, <2>1 DEF Slot, NoSlot
  <2>3. k \notin Released(p.slots)
    BY <2>2 DEF Released
  <2>4. Released(p.slots) = {} /\ Len(p.slots) = 2 /\ k = p.next
    BY <1>3, <1>4, <2>2, <2>3
  <2>5. p.slots = pool.slots /\ p.next = pool.next
    BY <1>2, <1>8, <2>4
  <2>6. pool.next # front.slot
    BY <2>4, <2>5 DEF PoolInv, MaxBufferSlots
  <2>. QED
    BY <2>1, <2>4, <2>5, <2>6
<1>. QED
  BY <1>3, <1>6, <1>7, <1>8

-----------------------------------------------------------------------------
\* The invariant holds of a pool without slots.
LEMMA PoolInvInit == PoolInit => PoolInv
<1> SUFFICES ASSUME PoolInit PROVE PoolInv
  OBVIOUS
<1>1. PICK bytes \in ByteLens : pool = [len |-> bytes, slots |-> <<>>, next |-> 1]
  BY DEF PoolInit
<1>2. pool \in [len : ByteLens, slots : Seq(State), next : Slot] /\ pool.slots = <<>>
  BY <1>1 DEF Slot, MaxBufferSlots
<1>3. front = [slot |-> NoSlot, damage |-> {}, reads |-> NoSlot]
  BY DEF PoolInit
<1>4. PoolType
  BY <1>2, <1>3 DEF PoolInit, PoolType, Slot, MaxBufferSlots
<1>. QED
  BY <1>2, <1>3, <1>4 DEF PoolInit, PoolInv, MaxBufferSlots

\* What a draw has to show for itself: its slot holds the regions that it
\* damages, and the missing ones it does not damage were shown.
LEMMA DrawKeepsInv ==
    ASSUME PoolInv, NEW bytes \in ByteLens, NEW damage \in SUBSET Region,
           NEW overtakes \in BOOLEAN,
           NEW k, k = NextBufferSlot(PoolFor(bytes)),
           pool' = Using(PoolFor(bytes), k),
           memory' \in [Slot -> SUBSET Region],
           Commits(k, damage, bytes # pool.len, overtakes),
           damage \subseteq memory'[k],
           damage = Region \/ overtakes \/ front.damage \subseteq damage,
           damage = Region \/ front.slot # NoSlot
    PROVE  PoolInv'
<1>1. /\ k \in Slot
      /\ pool' \in [len : ByteLens, slots : Seq(State), next : Slot]
      /\ Len(pool'.slots) <= MaxBufferSlots
      /\ k \in DOMAIN pool'.slots /\ pool'.slots[k] = "busy"
      /\ Len(pool'.slots) = MaxBufferSlots => pool'.next # k
      /\ bytes = pool.len => ~TornBy(k)
      /\ bytes = pool.len /\ front.reads # NoSlot =>
             front.reads \in DOMAIN pool'.slots /\ pool'.slots[front.reads] = "busy"
  BY SlotOfDraw
<1>2. /\ front' = [slot |-> k, damage |-> front.damage \cup damage,
                   reads |-> IF bytes # pool.len THEN NoSlot ELSE front.reads]
      /\ shown' = shown \ damage
      /\ odd' = (odd \ (IF damage = Region THEN {"overtaken"} ELSE {}))
                \cup (IF overtakes THEN {"overtaken"} ELSE {})
                \cup (IF bytes = pool.len /\ TornBy(k) THEN {"torn"} ELSE {})
  BY DEF Commits
<1>3. /\ front \in [slot : {NoSlot} \cup Slot, damage : SUBSET Region,
                    reads : {NoSlot} \cup Slot]
      /\ shown \in SUBSET Region /\ odd \in SUBSET {"overtaken", "torn"}
      /\ "torn" \notin odd
  BY DEF PoolInv, PoolType
<1>4. front'.slot = k /\ front'.damage = front.damage \cup damage /\ k # NoSlot
  BY <1>1, <1>2 DEF Slot, NoSlot
<1>5. front'.reads = IF bytes # pool.len THEN NoSlot ELSE front.reads
  BY <1>2
<1>6. "torn" \notin odd' /\ odd' \in SUBSET {"overtaken", "torn"}
  BY <1>1, <1>2, <1>3
<1>7. PoolType'
  <2>1. front' \in [slot : {NoSlot} \cup Slot, damage : SUBSET Region,
                    reads : {NoSlot} \cup Slot]
    BY <1>1, <1>2, <1>3
  <2>. QED
    BY <1>1, <1>2, <1>3, <1>6, <2>1 DEF PoolType
<1>8. pool'.slots # <<>>
  BY <1>1
<1>9. ASSUME "overtaken" \notin odd'
      PROVE  Region \ shown' \subseteq front'.damage \cap memory'[k]
  <2>1. ~overtakes
    BY <1>2, <1>9
  <2>2. CASE damage = Region
    BY <1>2, <1>4, <2>2
  <2>3. CASE damage # Region
    <3>1. "overtaken" \notin odd /\ front.damage \subseteq damage
      BY <1>2, <1>9, <2>1, <2>3
    <3>2. Region \ shown \subseteq damage
      BY <2>3, <3>1 DEF PoolInv
    <3>. QED
      BY <1>2, <1>4, <3>2
  <2>. QED
    BY <2>2, <2>3
<1>. QED
  BY <1>1, <1>4, <1>5, <1>6, <1>7, <1>8, <1>9 DEF PoolInv

\* A full frame damages everything and its slot holds everything.
LEMMA RenderBufferInv ==
    ASSUME PoolInv, NEW bytes \in ByteLens, RenderBuffer(bytes)
    PROVE  PoolInv'
<1> DEFINE k == NextBufferSlot(PoolFor(bytes))
<1>1. /\ pool' = Using(PoolFor(bytes), k)
      /\ memory' = [j \in DOMAIN memory |-> IF j = k THEN Region ELSE {}]
      /\ Commits(k, Region, bytes # pool.len, FALSE)
  BY DEF RenderBuffer
<1>2. k \in Slot
  BY SlotOfDraw
<1>3. memory \in [Slot -> SUBSET Region]
  BY DEF PoolInv, PoolType
<1> HIDE DEF k
<1>4. memory' \in [Slot -> SUBSET Region] /\ memory'[k] = Region
  BY <1>1, <1>2, <1>3
<1>. QED
  BY <1>1, <1>4, DrawKeepsInv DEF k

\* A partial frame damages the prompt, which its slot holds, and leaves no other
\* damage behind unless it overtakes a full frame.
LEMMA RenderBufferRegionInv ==
    ASSUME PoolInv, RenderBufferRegion
    PROVE  PoolInv'
<1>0. pool.len \in ByteLens /\ memory \in [Slot -> SUBSET Region] /\ front.damage \in SUBSET Region
  BY DEF PoolInv, PoolType
<1>1. PICK bytes \in ByteLens : bytes = pool.len
  BY <1>0
<1>2. PICK k : k = NextBufferSlot(PoolFor(bytes))
  OBVIOUS
<1>3. PICK damage \in SUBSET Region : damage = {"prompt"}
  BY DEF Region
<1>4. PICK overtakes \in BOOLEAN : overtakes <=> "rest" \in front.damage
  <2>1. ("rest" \in front.damage) \in BOOLEAN
    OBVIOUS
  <2>. QED
    BY <2>1
<1>5. /\ front.slot # NoSlot
      /\ pool' = Using(PoolFor(bytes), k)
      /\ memory' = [j \in DOMAIN memory |->
                        IF j = k THEN memory[j] \cup {"prompt"} ELSE memory[j] \ {"prompt"}]
      /\ Commits(k, damage, bytes # pool.len, overtakes)
  BY <1>1, <1>2, <1>3, <1>4 DEF RenderBufferRegion, RegionDamage, Commits
<1>6. k \in Slot
  BY <1>2, SlotOfDraw
<1>7. memory' \in [Slot -> SUBSET Region] /\ damage \subseteq memory'[k]
  BY <1>0, <1>3, <1>5, <1>6 DEF Region
<1>8. overtakes \/ front.damage \subseteq damage
  BY <1>0, <1>3, <1>4 DEF Region
<1>9. CASE overtakes
  <2>1. Commits(k, damage, bytes # pool.len, TRUE)
    BY <1>5, <1>9 DEF Commits
  <2>. QED
    BY <1>2, <1>5, <1>7, <2>1, DrawKeepsInv
<1>10. CASE ~overtakes
  <2>1. Commits(k, damage, bytes # pool.len, FALSE)
    BY <1>5, <1>10 DEF Commits
  <2>. QED
    BY <1>2, <1>5, <1>7, <1>8, <1>10, <2>1, DrawKeepsInv
<1>. QED
  BY <1>9, <1>10

\* What the compositor takes is what was missing on the screen.
LEMMA TakeInv ==
    ASSUME PoolInv, Take
    PROVE  PoolInv'
<1>1. /\ front \in [slot : {NoSlot} \cup Slot, damage : SUBSET Region,
                    reads : {NoSlot} \cup Slot]
      /\ memory \in [Slot -> SUBSET Region] /\ shown \in SUBSET Region
  BY DEF PoolInv, PoolType
<1>2. /\ front.slot # NoSlot /\ front.slot \in DOMAIN pool.slots
      /\ pool.slots[front.slot] = "busy"
  BY DEF PoolInv, Take
<1>3. /\ shown' = shown \cup (front.damage \cap memory[front.slot])
      /\ front'.slot = front.slot /\ front'.damage = {} /\ front'.reads = front.slot
      /\ front' = [front EXCEPT !.damage = {}, !.reads = front.slot]
      /\ UNCHANGED <<pool, memory, odd>>
  BY <1>1 DEF Take
<1>4. memory[front.slot] \in SUBSET Region
  BY <1>1, <1>2 DEF NoSlot
<1>5. front' \in [slot : {NoSlot} \cup Slot, damage : SUBSET Region,
                  reads : {NoSlot} \cup Slot]
  BY <1>1, <1>3
<1>6. PoolType'
  BY <1>1, <1>3, <1>4, <1>5 DEF PoolInv, PoolType
<1>7. "overtaken" \notin odd => Region \ shown' = {}
  BY <1>2, <1>3 DEF PoolInv
<1>. QED
  BY <1>2, <1>3, <1>6, <1>7 DEF PoolInv

\* A slot whose buffer is no longer busy is not the one being read.
LEMMA ReleaseInv ==
    ASSUME PoolInv, NEW n \in DOMAIN pool.slots, Release(n) \/ MarkReleased(n)
    PROVE  PoolInv'
<1>1. /\ pool \in [len : ByteLens, slots : Seq(State), next : Slot]
      /\ Len(pool.slots) <= MaxBufferSlots
      /\ front \in [slot : {NoSlot} \cup Slot, damage : SUBSET Region,
                    reads : {NoSlot} \cup Slot]
  BY DEF PoolInv, PoolType
<1>2. PICK state \in State : pool' = [pool EXCEPT !.slots[n] = state]
  BY DEF Release, MarkReleased, State
<1>3. pool' \in [len : ByteLens, slots : Seq(State), next : Slot]
  <2>1. [pool.slots EXCEPT ![n] = state] \in Seq(State)
    <3>1. pool.slots \in Seq(State)
      BY <1>1
    <3>. QED
      BY <3>1
  <2>. QED
    BY <1>1, <1>2, <2>1
<1>4. /\ pool'.slots = [pool.slots EXCEPT ![n] = state]
      /\ pool'.next = pool.next
  BY <1>1, <1>2
<1>5. pool.slots \in Seq(State)
  BY <1>1
<1>6. /\ DOMAIN pool'.slots = DOMAIN pool.slots /\ Len(pool'.slots) = Len(pool.slots)
      /\ \A j \in DOMAIN pool.slots : j # n => pool'.slots[j] = pool.slots[j]
      /\ pool'.slots = <<>> <=> pool.slots = <<>>
  BY <1>4, <1>5
<1>7. /\ front'.slot = front.slot /\ front'.damage = front.damage
      /\ front' \in [slot : {NoSlot} \cup Slot, damage : SUBSET Region,
                     reads : {NoSlot} \cup Slot]
      /\ front'.reads # NoSlot => front'.reads = front.reads /\ front.reads # n
      /\ front.slot = n => front.damage = {}
      /\ UNCHANGED <<memory, shown, odd>>
  <2>1. CASE Release(n)
    <3>1. /\ front' = [front EXCEPT !.reads = IF @ = n THEN NoSlot ELSE @]
          /\ n = front.slot => front.damage = {}
          /\ UNCHANGED <<memory, shown, odd>>
      BY <2>1 DEF Release
    <3>. QED
      BY <1>1, <3>1
  <2>2. CASE MarkReleased(n)
    <3>1. front.reads # NoSlot => front.reads # n
      BY <2>2 DEF PoolInv, MarkReleased
    <3>2. n = front.slot => front.damage = {}
      BY <2>2 DEF PoolInv, MarkReleased
    <3>. QED
      BY <1>1, <2>2, <3>1, <3>2 DEF MarkReleased
  <2>. QED
    BY <2>1, <2>2
<1>8. PoolType'
  BY <1>1, <1>3, <1>6, <1>7 DEF PoolInv, PoolType
<1>. QED
  BY <1>4, <1>6, <1>7, <1>8 DEF PoolInv

\* Every step of the curtain or the compositor keeps the invariant.
LEMMA PoolInvNext == PoolInv /\ [PoolNext]_poolVars => PoolInv'
<1> SUFFICES ASSUME PoolInv, [PoolNext]_poolVars PROVE PoolInv'
  OBVIOUS
<1>1. ASSUME NEW bytes \in ByteLens, RenderBuffer(bytes) PROVE PoolInv'
  BY <1>1, RenderBufferInv
<1>2. CASE RenderBufferRegion
  BY <1>2, RenderBufferRegionInv
<1>3. CASE Take
  BY <1>3, TakeInv
<1>4. ASSUME NEW n \in DOMAIN pool.slots, Release(n) \/ MarkReleased(n) PROVE PoolInv'
  BY <1>4, ReleaseInv
<1>5. CASE UNCHANGED poolVars
  BY <1>5 DEF poolVars, PoolInv, PoolType
<1>. QED
  BY <1>1, <1>2, <1>3, <1>4, <1>5 DEF PoolNext

\* The pool's invariant holds for every set of frame lengths.
THEOREM PoolInvHolds == PoolSpec => []PoolInv
  BY PoolInvInit, PoolInvNext, PTL DEF PoolSpec

\* Whatever the compositor holds on to, and however little of a picture a
\* buffer holds, the screen is whole and no frame is drawn over in vain.
THEOREM PictureStaysWhole == PoolSpec => []PictureIsWhole
<1>1. PoolInv => PictureIsWhole
  BY DEF PoolInv, PoolType, PictureIsWhole, Region
<1>. QED
  BY <1>1, PoolInvHolds, PTL
=============================================================================
