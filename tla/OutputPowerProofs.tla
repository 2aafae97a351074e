-------------------------- MODULE OutputPowerProofs --------------------------
(***************************************************************************)
(* Proofs about OutputPower, for any number of monitors and every set of   *)
(* configurations.                                                         *)
(***************************************************************************)
EXTENDS OutputPower, SequenceTheorems, WellFoundedInduction, TLAPS

(* A monitor has one lock surface.                                         *)
Distinct(sfs) == \A i, j \in DOMAIN sfs : sfs[i].output = sfs[j].output => i = j

TypeOK ==
    /\ surfaces \in Seq(Surfaces) /\ Distinct(surfaces)
    /\ focused \in 0..Len(surfaces)
    /\ app \in Apps
    /\ lit \in [Outputs -> BOOLEAN]
    /\ stopped \in BOOLEAN

(* What every handler leaves behind, on the pair p of monitors and app     *)
(* that it works on and the surfaces it leaves.                            *)
Pairs == [lit: [Outputs -> BOOLEAN], app: Apps]

Dark(p, sfs) == {i \in DOMAIN sfs : ~p.lit[sfs[i].output]}

(* It can be lit again, and the curtain knows that it has to be.           *)
DarkIsControlled(p, sfs) == \A i \in Dark(p, sfs) : sfs[i].control
DarkIsKnown(p, sfs) == Dark(p, sfs) # {} => p.app.blank \/ p.app.secondaryOff

BlankIsWanted(p) == p.app.blank => p.app.locked /\ p.app.cfg.screenOff

SomeIsLit(p, sfs) == ~p.app.blank /\ sfs # <<>> => Dark(p, sfs) # DOMAIN sfs
NamedIsLit(p, sfs) ==
    p.app.cfg.single /\ ~p.app.blank
        => \A i \in Dark(p, sfs) : sfs[i].output # p.app.cfg.named

Safe(p, sfs) ==
    /\ DarkIsControlled(p, sfs) /\ DarkIsKnown(p, sfs) /\ BlankIsWanted(p)
    /\ SomeIsLit(p, sfs) /\ NamedIsLit(p, sfs)

PowerInv ==
    /\ TypeOK
    /\ Safe(Now, surfaces)
    /\ stopped => Dark(Now, surfaces) = {}

-----------------------------------------------------------------------------
(* Surfaces, and the one that shows the prompt.                            *)

LEMMA MinIsIn ==
    ASSUME NEW n \in Nat, NEW S \in SUBSET (1..n), S # {}
    PROVE  Min(S) \in S
  <1> DEFINE Below == {ss \in Nat \X Nat : ss[1] < ss[2]}
  <1>1. IsWellFoundedOn(Below, Nat) /\ S \subseteq Nat
    BY NatLessThanWellFounded DEF OpToRel
  <1>2. PICK x \in S : \A y \in S : ~(<<y, x>> \in Below)
    <2> HIDE DEF Below
    <2> QED
      BY <1>1, WFMin
  <1>3. \A y \in S : x <= y
    <2> SUFFICES ASSUME NEW y \in S, ~(x <= y) PROVE FALSE
      OBVIOUS
    <2>1. x \in Nat /\ y \in Nat /\ y < x
      BY <1>1
    <2>2. <<y, x>> \in Below
      BY <2>1
    <2> QED
      BY <1>2, <2>2
  <1> QED
    BY <1>3 DEF Min

LEMMA SurfaceTypes ==
    ASSUME NEW sfs \in Seq(Surfaces)
    PROVE  /\ Len(sfs) \in Nat /\ DOMAIN sfs = 1..Len(sfs)
           /\ sfs # <<>> => 1 \in DOMAIN sfs
           /\ \A i \in DOMAIN sfs :
                 sfs[i] \in Surfaces /\ sfs[i].output \in Outputs /\ sfs[i].control \in BOOLEAN
  <1>1. Len(sfs) \in Nat /\ DOMAIN sfs = 1..Len(sfs)
    BY LenProperties
  <1>2. sfs # <<>> => Len(sfs) \in Nat \ {0}
    BY EmptySeq
  <1>3. \A i \in DOMAIN sfs : sfs[i] \in Surfaces
    BY <1>1, ElementOfSeq
  <1> QED
    BY <1>1, <1>2, <1>3 DEF Surfaces

LEMMA OneIsSelected ==
    ASSUME NEW sfs \in Seq(Surfaces), Distinct(sfs), sfs # <<>>,
           NEW foc \in 0..Len(sfs), NEW cfg
    PROVE  /\ Selected(sfs, foc, cfg) \in DOMAIN sfs
           /\ \A i \in DOMAIN sfs :
                 sfs[i].output = cfg.named => Selected(sfs, foc, cfg) = i
  <1> DEFINE named == {i \in DOMAIN sfs : sfs[i].output = cfg.named}
             sized == {i \in DOMAIN sfs : sfs[i].sized}
  <1>1. DOMAIN sfs = 1..Len(sfs) /\ Len(sfs) \in Nat \ {0}
    BY LenProperties, EmptySeq
  <1>2. named # {} => Min(named) \in named
    BY <1>1, MinIsIn
  <1>3. sized # {} => Min(sized) \in sized
    BY <1>1, MinIsIn
  <1>4. Selected(sfs, foc, cfg) =
            IF named # {} THEN Min(named)
            ELSE IF foc # 0 /\ sfs[foc].sized THEN foc
            ELSE IF sized # {} THEN Min(sized)
            ELSE IF sfs # <<>> THEN 1 ELSE 0
    BY DEF Selected
  <1>5. \A i, j \in named : i = j
    BY DEF Distinct
  <1>6. Selected(sfs, foc, cfg) \in DOMAIN sfs
    BY <1>1, <1>2, <1>3, <1>4
  <1>7. ASSUME NEW i \in named PROVE Selected(sfs, foc, cfg) = i
    BY <1>2, <1>4, <1>5
  <1> QED
    BY <1>6, <1>7

LEMMA WithoutOne ==
    ASSUME NEW sfs \in Seq(Surfaces), Distinct(sfs), NEW k \in 1..Len(sfs)
    PROVE  /\ RemoveAt(sfs, k) \in Seq(Surfaces) /\ Distinct(RemoveAt(sfs, k))
           /\ Len(RemoveAt(sfs, k)) = Len(sfs) - 1
           /\ \A i \in DOMAIN RemoveAt(sfs, k) :
                 \E j \in DOMAIN sfs : RemoveAt(sfs, k)[i] = sfs[j]
  <1> DEFINE n == Len(sfs)
             a == SubSeq(sfs, 1, k - 1)
             b == SubSeq(sfs, k + 1, n)
             r == RemoveAt(sfs, k)
             at(i) == IF i < k THEN i ELSE i + 1
  <1>1. n \in Nat /\ DOMAIN sfs = 1..n
    BY LenProperties
  <1>2. /\ a \in Seq(Surfaces) /\ Len(a) = k - 1
        /\ \A i \in 1..(k - 1) : a[i] = sfs[i]
    <2>1. \A i \in 1..(k - 1) : sfs[i] \in Surfaces
      BY <1>1, ElementOfSeq
    <2> QED
      BY <1>1, <2>1, SubSeqProperties
  <1>3. /\ b \in Seq(Surfaces) /\ Len(b) = n - k
        /\ \A i \in 1..(n - k) : b[i] = sfs[k + i]
    <2>1. \A i \in (k + 1)..n : sfs[i] \in Surfaces
      BY <1>1, ElementOfSeq
    <2>2. k \in Int /\ n \in Int /\ k <= n
      BY <1>1
    <2>3. /\ b \in Seq(Surfaces) /\ Len(b) = IF k + 1 <= n THEN n - (k + 1) + 1 ELSE 0
          /\ \A i \in 1..(n - (k + 1) + 1) : b[i] = sfs[(k + 1) + i - 1]
      BY <2>1, <2>2, SubSeqProperties
    <2> HIDE DEF b
    <2>4. Len(b) = n - k
      <3>1. CASE k + 1 <= n
        BY <2>2, <2>3, <3>1
      <3>2. CASE ~(k + 1 <= n)
        <4>1. Len(b) = 0
          BY <2>3, <3>2
        <4>2. n - k = 0
          BY <2>2, <3>2
        <4> QED
          BY <4>1, <4>2
      <3> QED
        BY <3>1, <3>2
    <2>5. ASSUME NEW i \in 1..(n - k) PROVE b[i] = sfs[k + i]
      <3>1. i \in 1..(n - (k + 1) + 1) /\ (k + 1) + i - 1 = k + i
        BY <2>2
      <3>2. b[i] = sfs[(k + 1) + i - 1]
        BY <2>3, <3>1
      <3> QED
        BY <3>1, <3>2
    <2> QED
      BY <2>3, <2>4, <2>5
  <1>4. r = a \o b
    BY DEF RemoveAt
  <1> HIDE DEF a, b, r
  <1>5. /\ r \in Seq(Surfaces) /\ Len(r) = n - 1 /\ DOMAIN r = 1..(n - 1)
        /\ \A i \in 1..(n - 1) : r[i] = sfs[at(i)] /\ at(i) \in 1..n
    <2>1. /\ r \in Seq(Surfaces) /\ Len(r) = (k - 1) + (n - k)
          /\ \A i \in 1..((k - 1) + (n - k)) :
                r[i] = IF i <= k - 1 THEN a[i] ELSE b[i - (k - 1)]
      <3>1. /\ r \in Seq(Surfaces) /\ Len(r) = Len(a) + Len(b)
            /\ \A i \in 1..(Len(a) + Len(b)) :
                  r[i] = IF i <= Len(a) THEN a[i] ELSE b[i - Len(a)]
        BY <1>2, <1>3, <1>4, ConcatProperties
      <3> QED
        BY <1>2, <1>3, <3>1
    <2>2. (k - 1) + (n - k) = n - 1
      BY <1>1
    <2>3. ASSUME NEW i \in 1..(n - 1) PROVE r[i] = sfs[at(i)] /\ at(i) \in 1..n
      <3>1. CASE i < k
        <4>1. i \in 1..(k - 1) /\ i <= k - 1
          BY <1>1, <3>1
        <4>2. r[i] = a[i]
          BY <2>1, <2>2, <4>1
        <4> QED
          BY <1>1, <1>2, <3>1, <4>1, <4>2
      <3>2. CASE ~(i < k)
        <4>1. i - (k - 1) \in 1..(n - k) /\ k + (i - (k - 1)) = i + 1
          BY <1>1, <3>2
        <4>2. r[i] = b[i - (k - 1)]
          BY <1>1, <2>1, <2>2, <3>2
        <4>3. b[i - (k - 1)] = sfs[i + 1]
          BY <1>3, <4>1
        <4> QED
          BY <1>1, <3>2, <4>2, <4>3
      <3> QED
        BY <3>1, <3>2
    <2>4. DOMAIN r = 1..(n - 1)
      BY <2>1, <2>2, LenProperties
    <2> QED
      BY <2>1, <2>2, <2>3, <2>4
  <1>6. Distinct(r)
    <2> SUFFICES ASSUME NEW i \in 1..(n - 1), NEW j \in 1..(n - 1), r[i].output = r[j].output
                 PROVE  i = j
      BY <1>5 DEF Distinct
    <2>1. /\ r[i] = sfs[at(i)] /\ at(i) \in DOMAIN sfs
          /\ r[j] = sfs[at(j)] /\ at(j) \in DOMAIN sfs
      BY <1>1, <1>5
    <2>2. at(i) = at(j)
      <3> HIDE DEF at
      <3> QED
        BY <2>1 DEF Distinct
    <2> QED
      BY <1>1, <2>2
  <1> QED
    BY <1>1, <1>5, <1>6 DEF r

-----------------------------------------------------------------------------
(* Requests to the monitors.                                               *)

(* If every monitor is lit it matters no more what the curtain believes.   *)
LEMMA AllLitIsSafe ==
    ASSUME NEW p, NEW sfs \in Seq(Surfaces), Dark(p, sfs) = {}, BlankIsWanted(p)
    PROVE  Safe(p, sfs)
  <1>1. sfs # <<>> => DOMAIN sfs # {}
    BY SurfaceTypes
  <1> QED
    BY <1>1
    DEF Safe, DarkIsControlled, DarkIsKnown, SomeIsLit, NamedIsLit

LEMMA WakeLights ==
    ASSUME NEW p \in Pairs, NEW sfs \in Seq(Surfaces), DarkIsControlled(p, sfs)
    PROVE  /\ Wake(p, sfs) \in Pairs
           /\ Dark(Wake(p, sfs), sfs) = {}
           /\ Wake(p, sfs).app.secondaryOff => p.app.secondaryOff
           /\ Wake(p, sfs).app.cfg = p.app.cfg
           /\ Wake(p, sfs).app.blank = p.app.blank
           /\ Wake(p, sfs).app.locked = p.app.locked
           /\ BlankIsWanted(p) => Safe(Wake(p, sfs), sfs)
  <1> DEFINE outs == Controlled(sfs)
             l == Request(p.lit, outs, TRUE)
             a == [p.app EXCEPT !.secondaryOff = @ /\ outs = {}]
             q == Wake(p, sfs)
  <1>1. q = [lit |-> l, app |-> a]
    BY DEF Wake
  <1>2. l \in [Outputs -> BOOLEAN]
    BY DEF Request, Pairs
  <1>3. /\ a \in Apps /\ (a.secondaryOff => p.app.secondaryOff) /\ a.cfg = p.app.cfg
        /\ a.blank = p.app.blank /\ a.locked = p.app.locked
    BY DEF Pairs, Apps
  <1>4. ASSUME NEW i \in DOMAIN sfs PROVE l[sfs[i].output]
    <2>1. sfs[i].output \in Outputs
      BY SurfaceTypes
    <2>2. CASE sfs[i].control
      <3>1. sfs[i].output \in outs
        BY <2>2 DEF Controlled
      <3> QED
        BY <2>1, <3>1 DEF Request
    <2>3. CASE ~sfs[i].control
      <3>1. p.lit[sfs[i].output]
        BY <2>3 DEF DarkIsControlled, Dark
      <3> QED
        BY <2>1, <3>1 DEF Request
    <2> QED
      BY <2>2, <2>3
  <1> HIDE DEF l, a, outs
  <1>5. q \in Pairs /\ q.lit = l /\ q.app = a
    BY <1>1, <1>2, <1>3 DEF Pairs
  <1>6. Dark(q, sfs) = {}
    BY <1>4, <1>5 DEF Dark
  <1>7. BlankIsWanted(p) => Safe(q, sfs)
    BY <1>3, <1>5, <1>6, AllLitIsSafe DEF BlankIsWanted
  <1> QED
    BY <1>3, <1>5, <1>6, <1>7

(* The surface with the prompt keeps its light.                            *)
LEMMA SecondaryIsSafe ==
    ASSUME NEW p \in Pairs, NEW sfs \in Seq(Surfaces), Distinct(sfs),
           NEW foc \in 0..Len(sfs), Safe(p, sfs)
    PROVE  /\ PowerOffSecondary(p, sfs, foc) \in Pairs
           /\ Safe(PowerOffSecondary(p, sfs, foc), sfs)
  <1> DEFINE outs == {sfs[i].output :
                         i \in {j \in DOMAIN sfs : /\ sfs[j].control
                                                   /\ ~RendersShell(sfs, foc, p.app.cfg, j)}}
             l == Request(p.lit, outs, FALSE)
             a == [p.app EXCEPT !.secondaryOff = TRUE]
             q == PowerOffSecondary(p, sfs, foc)
             ui == Selected(sfs, foc, p.app.cfg)
  <1>1. \/ q = p
        \/ ~p.app.secondaryOff /\ outs # {} /\ q = [lit |-> l, app |-> a]
    BY DEF PowerOffSecondary
  <1>2. CASE q = p
    BY <1>2
  <1>3. CASE ~p.app.secondaryOff /\ outs # {} /\ q = [lit |-> l, app |-> a]
    <2>1. l \in [Outputs -> BOOLEAN] /\ a \in Apps
      BY DEF Request, Pairs, Apps
    <2>2. a.secondaryOff /\ a.cfg = p.app.cfg /\ a.blank = p.app.blank /\ a.locked = p.app.locked
      BY DEF Pairs, Apps
    <2>3. sfs # <<>>
      <3>1. DOMAIN sfs # {}
        BY <1>3
      <3> QED
        BY <3>1
    <2>4. ui \in DOMAIN sfs /\ \A i \in DOMAIN sfs : sfs[i].output = p.app.cfg.named => ui = i
      BY <2>3, OneIsSelected
    <2>5. RendersShell(sfs, foc, p.app.cfg, ui)
      BY DEF RendersShell
    <2> HIDE DEF ui
    <2>6. sfs[ui].output \in Outputs /\ sfs[ui].output \notin outs
      <3>1. sfs[ui].output \in Outputs
        BY <2>4, SurfaceTypes
      <3> QED
        BY <2>4, <2>5, <3>1 DEF Distinct
    <2>7. ASSUME NEW i \in DOMAIN sfs, ~l[sfs[i].output]
          PROVE  sfs[i].control \/ ~p.lit[sfs[i].output]
      <3>1. sfs[i].output \in Outputs
        BY SurfaceTypes
      <3>2. CASE sfs[i].output \in outs
        <4>1. PICK j \in DOMAIN sfs : sfs[j].control /\ sfs[i].output = sfs[j].output
          BY <3>2
        <4> QED
          BY <4>1 DEF Distinct
      <3>3. CASE sfs[i].output \notin outs
        BY <2>7, <3>1, <3>3 DEF Request
      <3> QED
        BY <3>2, <3>3
    <2>8. l[sfs[ui].output] = p.lit[sfs[ui].output]
      BY <2>6 DEF Request
    <2> HIDE DEF l, a, outs
    <2>9. q \in Pairs /\ q.lit = l /\ q.app = a
      BY <1>3, <2>1 DEF Pairs
    <2>10. DarkIsControlled(q, sfs)
      BY <2>7, <2>9 DEF Safe, DarkIsControlled, Dark
    <2>11. DarkIsKnown(q, sfs) /\ (BlankIsWanted(p) => BlankIsWanted(q))
      BY <2>2, <2>9 DEF DarkIsKnown, BlankIsWanted
    <2>12. ~p.app.blank => p.lit[sfs[ui].output]
      BY <1>3, <2>4 DEF Safe, DarkIsKnown, Dark
    <2>13. ~q.app.blank => ui \notin Dark(q, sfs)
      BY <2>2, <2>8, <2>9, <2>12 DEF Dark
    <2>14. SomeIsLit(q, sfs)
      BY <2>4, <2>13 DEF SomeIsLit
    <2>15. NamedIsLit(q, sfs)
      BY <2>2, <2>4, <2>9, <2>13 DEF NamedIsLit, Dark
    <2> QED
      BY <2>9, <2>10, <2>11, <2>14, <2>15 DEF Safe
  <1> QED
    BY <1>1, <1>2, <1>3

(* What Safe reads of the app.                                             *)
LEMMA SafeReads ==
    ASSUME NEW p, NEW q, NEW sfs, Safe(p, sfs), q.lit = p.lit,
           q.app.blank = p.app.blank, p.app.secondaryOff => q.app.secondaryOff,
           p.app.locked => q.app.locked, q.app.cfg = p.app.cfg
    PROVE  Safe(q, sfs)
  <1>1. Dark(q, sfs) = Dark(p, sfs)
    BY DEF Dark
  <1> QED
    BY <1>1
    DEF Safe, DarkIsControlled, DarkIsKnown, BlankIsWanted, SomeIsLit, NamedIsLit

LEMMA ReadyIsSafe ==
    ASSUME NEW p \in Pairs, NEW sfs \in Seq(Surfaces), Distinct(sfs),
           NEW foc \in 0..Len(sfs), Safe(p, sfs)
    PROVE  NotifyReady(p, sfs, foc) \in Pairs /\ Safe(NotifyReady(p, sfs, foc), sfs)
  <1> DEFINE r == [p EXCEPT !.app.ready = TRUE]
  <1>1. /\ r \in Pairs /\ r.lit = p.lit /\ r.app.blank = p.app.blank
        /\ r.app.secondaryOff = p.app.secondaryOff /\ r.app.locked = p.app.locked
        /\ r.app.cfg = p.app.cfg
    BY DEF Pairs, Apps
  <1>2. NotifyReady(p, sfs, foc) \in {p, PowerOffSecondary(r, sfs, foc)}
    BY DEF NotifyReady
  <1> HIDE DEF r
  <1>3. Safe(r, sfs)
    BY <1>1, SafeReads
  <1> QED
    BY <1>1, <1>2, <1>3, SecondaryIsSafe

-----------------------------------------------------------------------------
(* A handler leaves the pair that it has computed.                         *)

LEMMA NowIsPair ==
    ASSUME PowerInv
    PROVE  /\ Now \in Pairs /\ Now.lit = lit /\ Now.app = app /\ Safe(Now, surfaces)
           /\ surfaces \in Seq(Surfaces) /\ Distinct(surfaces) /\ focused \in 0..Len(surfaces)
           /\ app \in Apps /\ lit \in [Outputs -> BOOLEAN]
           /\ DOMAIN surfaces = 1..Len(surfaces) /\ Len(surfaces) \in Nat
           /\ stopped \in BOOLEAN
  BY LenProperties DEF PowerInv, TypeOK, Now, Pairs

LEMMA Leaves ==
    ASSUME NEW p \in Pairs, NEW sfs \in Seq(Surfaces), Distinct(sfs), NEW foc \in 0..Len(sfs),
           Safe(p, sfs), Become(p), surfaces' = sfs, focused' = foc,
           stopped' \in BOOLEAN, stopped' => Dark(p, sfs) = {}
    PROVE  PowerInv'
  <1>1. Now' = p
    BY DEF Now, Become, Pairs
  <1>2. TypeOK'
    BY DEF TypeOK, Become, Pairs, Distinct
  <1>3. Safe(p, surfaces') /\ (stopped' => Dark(p, surfaces') = {})
    OBVIOUS
  <1> QED
    BY <1>1, <1>2, <1>3 DEF PowerInv

(* A handler that leaves the surfaces alone.                               *)
LEMMA LeavesSurfaces ==
    ASSUME PowerInv, NEW p \in Pairs, Safe(p, surfaces), Become(p), surfaces' = surfaces,
           NEW foc \in 0..Len(surfaces), focused' = foc, stopped' \in BOOLEAN,
           stopped' => Dark(p, surfaces) = {}
    PROVE  PowerInv'
  BY NowIsPair, Leaves

-----------------------------------------------------------------------------
(* Outputs that come and go.                                               *)

LEMMA NewOutputStep ==
    ASSUME PowerInv, NEW o \in Outputs, NewOutput(o)
    PROVE  PowerInv'
  <1> DEFINE n == Len(surfaces)
             s == [output |-> o, sized |-> FALSE, control |-> ControlEnabled(app.cfg)]
             sfs == Append(surfaces, s)
             goesDark == \/ app.blank /\ s.control
                         \/ /\ app.secondaryOff /\ s.control
                            /\ ~RendersShell(sfs, focused, app.cfg, Len(sfs))
             l == [lit EXCEPT ![o] = ~goesDark]
             q == [lit |-> l, app |-> app]
  <1>1. /\ o \notin Connected /\ surfaces' = sfs /\ lit' = l
        /\ focused' = focused /\ app' = app /\ ~stopped /\ stopped' = stopped
    BY DEF NewOutput
  <1>2. /\ Safe(Now, surfaces) /\ Now.lit = lit /\ Now.app = app
        /\ surfaces \in Seq(Surfaces) /\ Distinct(surfaces) /\ focused \in 0..n
        /\ app \in Apps /\ lit \in [Outputs -> BOOLEAN]
        /\ DOMAIN surfaces = 1..n /\ n \in Nat
    BY NowIsPair
  <1>3. ControlEnabled(app.cfg) \in BOOLEAN
    BY <1>2 DEF ControlEnabled, SecondaryEnabled, Apps, ConfigRecords
  <1>4. s \in Surfaces /\ s.output = o
    BY <1>3 DEF Surfaces
  <1>5. goesDark \in BOOLEAN /\ (goesDark => s.control)
    OBVIOUS
  <1>6. goesDark => \/ app.blank
                    \/ app.secondaryOff /\ ~RendersShell(sfs, focused, app.cfg, Len(sfs))
    OBVIOUS
  <1> HIDE DEF s, goesDark
  <1>7. /\ sfs \in Seq(Surfaces) /\ sfs # <<>> /\ Len(sfs) = n + 1 /\ DOMAIN sfs = 1..(n + 1)
        /\ \A i \in 1..n : sfs[i] = surfaces[i]
        /\ sfs[n + 1] = s
    BY <1>2, <1>4, AppendProperties, LenProperties
  <1>8. \A i \in 1..n : surfaces[i].output # o /\ surfaces[i].output \in Outputs
    BY <1>1, <1>2, SurfaceTypes DEF Connected
  <1> HIDE DEF sfs
  <1>9. Distinct(sfs)
    <2> SUFFICES ASSUME NEW i \in 1..(n + 1), NEW j \in 1..(n + 1), sfs[i].output = sfs[j].output
                 PROVE  i = j
      BY <1>7 DEF Distinct
    <2>1. CASE i = n + 1 \/ j = n + 1
      BY <1>2, <1>4, <1>7, <1>8, <2>1
    <2>2. CASE i # n + 1 /\ j # n + 1
      <3>1. i \in 1..n /\ j \in 1..n
        BY <1>2, <2>2
      <3> QED
        BY <1>2, <1>7, <3>1 DEF Distinct
    <2> QED
      BY <2>1, <2>2
  <1>10. focused \in 0..Len(sfs)
    BY <1>2, <1>7
  <1>11. /\ l \in [Outputs -> BOOLEAN] /\ l[o] = ~goesDark
         /\ \A i \in 1..n : l[surfaces[i].output] = lit[surfaces[i].output]
    BY <1>2, <1>5, <1>8
  <1> HIDE DEF l
  <1>12. q \in Pairs /\ q.lit = l /\ q.app = app /\ Become(q)
    BY <1>1, <1>2, <1>11 DEF Pairs, Become
  <1> HIDE DEF q
  <1>13. /\ \A i \in 1..n : i \in Dark(q, sfs) <=> i \in Dark(Now, surfaces)
         /\ (n + 1) \in Dark(q, sfs) <=> goesDark
         /\ Dark(Now, surfaces) \subseteq 1..n
    BY <1>2, <1>4, <1>7, <1>11, <1>12 DEF Dark
  <1>14. ASSUME NEW i \in Dark(q, sfs)
         PROVE  (i \in Dark(Now, surfaces) /\ i \in 1..n) \/ (i = n + 1 /\ goesDark)
    BY <1>2, <1>7, <1>13 DEF Dark
  <1>15. DarkIsControlled(q, sfs)
    BY <1>2, <1>4, <1>5, <1>7, <1>14 DEF Safe, DarkIsControlled
  <1>16. DarkIsKnown(q, sfs) /\ BlankIsWanted(q)
    BY <1>2, <1>6, <1>12, <1>14 DEF Safe, DarkIsKnown, BlankIsWanted
  <1>17. SomeIsLit(q, sfs)
    <2> SUFFICES ASSUME ~q.app.blank, Dark(q, sfs) = DOMAIN sfs PROVE FALSE
      BY DEF SomeIsLit
    <2>0. ~app.blank /\ Dark(q, sfs) = 1..(n + 1)
      BY <1>7, <1>12
    <2>a. \A i \in 1..n : i \in 1..(n + 1)
      BY <1>2
    <2>1. Dark(Now, surfaces) = 1..n
      BY <1>13, <2>0, <2>a
    <2>2. surfaces = <<>>
      BY <1>2, <2>0, <2>1 DEF Safe, SomeIsLit
    <2>3. n = 0
      BY <2>2
    <2>4. Selected(sfs, focused, app.cfg) = n + 1
      <3>1. Selected(sfs, focused, app.cfg) \in 1..(n + 1)
        BY <1>7, <1>9, <1>10, OneIsSelected
      <3> QED
        BY <2>3, <3>1
    <2>5. RendersShell(sfs, focused, app.cfg, Len(sfs))
      BY <1>7, <2>4 DEF RendersShell
    <2> QED
      BY <1>2, <1>6, <1>13, <2>0, <2>5
  <1>18. NamedIsLit(q, sfs)
    <2> SUFFICES ASSUME app.cfg.single, ~app.blank, NEW i \in Dark(q, sfs),
                        sfs[i].output = app.cfg.named
                 PROVE  FALSE
      BY <1>12 DEF NamedIsLit
    <2>1. CASE i \in Dark(Now, surfaces) /\ i \in 1..n
      BY <1>2, <1>7, <2>1 DEF Safe, NamedIsLit
    <2>2. CASE i = n + 1 /\ goesDark
      <3>1. Selected(sfs, focused, app.cfg) = Len(sfs)
        <4>1. i \in DOMAIN sfs
          BY DEF Dark
        <4> QED
          BY <1>7, <1>9, <1>10, <2>2, <4>1, OneIsSelected, ZenonT(60)
      <3>2. RendersShell(sfs, focused, app.cfg, Len(sfs))
        BY <3>1 DEF RendersShell
      <3> QED
        BY <1>6, <2>2, <3>2
    <2> QED
      BY <1>14, <2>1, <2>2
  <1>19. Safe(q, sfs)
    BY <1>15, <1>16, <1>17, <1>18 DEF Safe
  <1>20. stopped' \in BOOLEAN /\ ~stopped'
    BY <1>1, NowIsPair
  <1> QED
    BY <1>1, <1>7, <1>9, <1>10, <1>12, <1>19, <1>20, Leaves

LEMMA OutputDestroyedStep ==
    ASSUME PowerInv, NEW o \in Outputs, OutputDestroyed(o)
    PROVE  PowerInv'
  <1> DEFINE gone == CHOOSE i \in DOMAIN surfaces : surfaces[i].output = o
             sfs == RemoveAt(surfaces, gone)
             foc == IF focused = gone THEN 0
                    ELSE IF focused > gone THEN focused - 1 ELSE focused
             q == If(app.secondaryOff, PowerOffSecondary(Wake(Now, sfs), sfs, foc), Now)
  <1>1. /\ o \in Connected /\ surfaces' = sfs /\ focused' = foc /\ Become(q)
        /\ ~stopped /\ stopped' = stopped
    BY DEF OutputDestroyed
  <1>2. /\ Now \in Pairs /\ Safe(Now, surfaces) /\ Now.app = app
        /\ surfaces \in Seq(Surfaces) /\ Distinct(surfaces) /\ focused \in 0..Len(surfaces)
        /\ DOMAIN surfaces = 1..Len(surfaces) /\ Len(surfaces) \in Nat
    BY NowIsPair
  <1>3. gone \in 1..Len(surfaces)
    BY <1>1, <1>2 DEF Connected
  <1> HIDE DEF gone
  <1>4. /\ sfs \in Seq(Surfaces) /\ Distinct(sfs) /\ Len(sfs) = Len(surfaces) - 1
        /\ \A i \in DOMAIN sfs : \E j \in DOMAIN surfaces : sfs[i] = surfaces[j]
    BY <1>2, <1>3, WithoutOne
  <1>5. foc \in 0..Len(sfs)
    BY <1>2, <1>3, <1>4
  <1> HIDE DEF sfs, foc
  <1>s. stopped' \in BOOLEAN /\ ~stopped'
    BY <1>1, NowIsPair
  <1>6. DarkIsControlled(Now, sfs)
    BY <1>2, <1>4 DEF Safe, DarkIsControlled, Dark
  <1>7. CASE app.secondaryOff
    <2>1. Wake(Now, sfs) \in Pairs /\ Safe(Wake(Now, sfs), sfs)
      BY <1>2, <1>4, <1>6, WakeLights DEF Safe
    <2>2. q \in Pairs /\ Safe(q, sfs)
      BY <1>4, <1>5, <1>7, <2>1, SecondaryIsSafe DEF If
    <2> HIDE DEF q
    <2> QED
      BY <1>1, <1>4, <1>5, <1>s, <2>2, Leaves
  <1>8. CASE ~app.secondaryOff
    <2>1. q = Now
      BY <1>8 DEF If
    <2>2. Dark(Now, surfaces) = {} \/ app.blank
      BY <1>2, <1>8 DEF Safe, DarkIsKnown
    <2>3. Dark(Now, surfaces) = {} => Dark(Now, sfs) = {}
      BY <1>4 DEF Dark
    <2>4. Safe(Now, sfs)
      <3>1. CASE Dark(Now, surfaces) = {}
        BY <1>2, <1>4, <2>3, <3>1, AllLitIsSafe DEF Safe
      <3>2. CASE app.blank
        BY <1>2, <1>6, <3>2
        DEF Safe, DarkIsKnown, BlankIsWanted, SomeIsLit, NamedIsLit
      <3> QED
        BY <2>2, <3>1, <3>2
    <2> HIDE DEF q
    <2>5. Become(Now)
      BY <1>1, <2>1
    <2> QED
      BY <1>1, <1>2, <1>4, <1>5, <1>s, <2>4, <2>5, Leaves
  <1> QED
    BY <1>7, <1>8

-----------------------------------------------------------------------------
(* Surfaces that change in place.                                          *)

LEMMA SameOutputs ==
    ASSUME NEW sfs \in Seq(Surfaces), Distinct(sfs),
           NEW t \in Seq(Surfaces), Len(t) = Len(sfs),
           \A i \in DOMAIN sfs : t[i].output = sfs[i].output
    PROVE  /\ Distinct(t) /\ DOMAIN t = DOMAIN sfs
           /\ \A p : Dark(p, t) = Dark(p, sfs)
           /\ \A p : Safe(p, sfs) /\ DarkIsControlled(p, t) => Safe(p, t)
  <1>1. DOMAIN t = 1..Len(t) /\ DOMAIN sfs = 1..Len(sfs)
    BY SurfaceTypes
  <1>2. DOMAIN t = DOMAIN sfs
    BY <1>1
  <1>3. t # <<>> => sfs # <<>>
    <2>1. t # <<>> => 1 \in DOMAIN t
      BY SurfaceTypes
    <2> QED
      BY <1>2, <2>1
  <1>4. Distinct(t)
    BY <1>2 DEF Distinct
  <1>5. ASSUME NEW p PROVE Dark(p, t) = Dark(p, sfs)
    BY <1>2 DEF Dark
  <1>6. ASSUME NEW p, Safe(p, sfs), DarkIsControlled(p, t) PROVE Safe(p, t)
    <2>1. Dark(p, t) = Dark(p, sfs)
      BY <1>5
    <2>2. DarkIsKnown(p, t) /\ BlankIsWanted(p) /\ SomeIsLit(p, t)
      BY <1>2, <1>3, <1>6, <2>1 DEF Safe, DarkIsKnown, SomeIsLit
    <2>3. NamedIsLit(p, t)
      BY <1>6, <2>1 DEF Safe, NamedIsLit, Dark
    <2> QED
      BY <1>6, <2>2, <2>3 DEF Safe
  <1> QED
    BY <1>2, <1>4, <1>5, <1>6

LEMMA OneChanges ==
    ASSUME NEW sfs \in Seq(Surfaces), NEW i \in DOMAIN sfs,
           NEW s \in Surfaces, s.output = sfs[i].output
    PROVE  LET t == [sfs EXCEPT ![i] = s]
           IN  /\ t \in Seq(Surfaces) /\ Len(t) = Len(sfs)
               /\ \A j \in DOMAIN sfs : /\ t[j] = IF j = i THEN s ELSE sfs[j]
                                        /\ t[j].output = sfs[j].output
  <1>1. i \in 1..Len(sfs) /\ DOMAIN sfs = 1..Len(sfs)
    BY SurfaceTypes
  <1> QED
    BY <1>1, ExceptSeq

LEMMA ConfigureStep ==
    ASSUME PowerInv, NEW i \in DOMAIN surfaces, Configure(i)
    PROVE  PowerInv'
  <1> DEFINE s == [surfaces[i] EXCEPT !.sized = TRUE]
             t == [surfaces EXCEPT ![i] = s]
  <1>1. /\ surfaces' = t /\ Become(NotifyReady(Now, t, focused)) /\ focused' = focused
        /\ ~stopped /\ stopped' = stopped
    BY DEF Configure
  <1>2. s \in Surfaces /\ s.output = surfaces[i].output /\ s.control = surfaces[i].control
    <2>1. surfaces[i] \in Surfaces
      BY NowIsPair, SurfaceTypes
    <2> QED
      BY <2>1 DEF Surfaces
  <1> HIDE DEF s
  <1>3. /\ t \in Seq(Surfaces) /\ Len(t) = Len(surfaces)
        /\ \A j \in DOMAIN surfaces : t[j] = IF j = i THEN s ELSE surfaces[j]
        /\ \A j \in DOMAIN surfaces : t[j].output = surfaces[j].output
    BY <1>2, NowIsPair, OneChanges
  <1> HIDE DEF t
  <1>4. Distinct(t) /\ Dark(Now, t) = Dark(Now, surfaces)
    BY <1>3, NowIsPair, SameOutputs
  <1>5. DarkIsControlled(Now, t)
    BY <1>2, <1>3, <1>4, NowIsPair DEF Safe, DarkIsControlled, Dark
  <1>6. Safe(Now, t)
    BY <1>3, <1>5, NowIsPair, SameOutputs
  <1>7. focused \in 0..Len(t) /\ Now \in Pairs /\ stopped' \in BOOLEAN /\ ~stopped'
    BY <1>1, <1>3, NowIsPair
  <1>8. NotifyReady(Now, t, focused) \in Pairs /\ Safe(NotifyReady(Now, t, focused), t)
    BY <1>3, <1>4, <1>6, <1>7, ReadyIsSafe
  <1> QED
    BY <1>1, <1>3, <1>4, <1>7, <1>8, Leaves

LEMMA ControlLostStep ==
    ASSUME PowerInv, NEW i \in DOMAIN surfaces, ControlLost(i)
    PROVE  PowerInv'
  <1> DEFINE s == [surfaces[i] EXCEPT !.control = FALSE]
             t == [surfaces EXCEPT ![i] = s]
  <1>1. /\ surfaces' = t /\ lit[surfaces[i].output]
        /\ focused' = focused /\ app' = app /\ lit' = lit /\ ~stopped /\ stopped' = stopped
    BY DEF ControlLost
  <1>2. s \in Surfaces /\ s.output = surfaces[i].output
    <2>1. surfaces[i] \in Surfaces
      BY NowIsPair, SurfaceTypes
    <2> QED
      BY <2>1 DEF Surfaces
  <1> HIDE DEF s
  <1>3. /\ t \in Seq(Surfaces) /\ Len(t) = Len(surfaces)
        /\ \A j \in DOMAIN surfaces : t[j] = IF j = i THEN s ELSE surfaces[j]
        /\ \A j \in DOMAIN surfaces : t[j].output = surfaces[j].output
    BY <1>2, NowIsPair, OneChanges
  <1> HIDE DEF t
  <1>4. Distinct(t) /\ Dark(Now, t) = Dark(Now, surfaces)
    BY <1>3, NowIsPair, SameOutputs
  <1>5. i \notin Dark(Now, surfaces)
    BY <1>1, NowIsPair DEF Dark
  <1>6. DarkIsControlled(Now, t)
    BY <1>3, <1>4, <1>5, NowIsPair DEF Safe, DarkIsControlled, Dark
  <1>7. Safe(Now, t) /\ Become(Now)
    BY <1>1, <1>3, <1>6, NowIsPair, SameOutputs DEF Become
  <1>8. focused \in 0..Len(t) /\ Now \in Pairs /\ stopped' \in BOOLEAN /\ ~stopped'
    BY <1>1, <1>3, NowIsPair
  <1> QED
    BY <1>1, <1>3, <1>4, <1>7, <1>8, Leaves

-----------------------------------------------------------------------------
(* The lock, activity and the idle deadline.                               *)

LEMMA LockedStep ==
    ASSUME PowerInv, Locked
    PROVE  PowerInv'
  <1> DEFINE p == [Now EXCEPT !.app.locked = TRUE,
                              !.app.blank = @ /\ ~app.cfg.screenOff,
                              !.app.due = @ /\ ~app.cfg.screenOff]
             q == NotifyReady(p, surfaces, focused)
  <1>1. /\ ~app.locked /\ Become(q) /\ surfaces' = surfaces /\ focused' = focused
        /\ ~stopped /\ stopped' = stopped
    BY DEF Locked
  <1>2. ~app.blank
    BY <1>1, NowIsPair DEF Safe, BlankIsWanted
  <1>3. /\ p \in Pairs /\ p.lit = Now.lit /\ p.app.blank = FALSE /\ p.app.locked
        /\ p.app.secondaryOff = app.secondaryOff /\ p.app.cfg = app.cfg
    BY <1>2, NowIsPair DEF Pairs, Apps, ConfigRecords
  <1> HIDE DEF p
  <1>4. Now.app.blank = FALSE
    BY <1>2, NowIsPair DEF Apps
  <1>5. Safe(p, surfaces)
    BY <1>3, <1>4, NowIsPair, SafeReads
  <1>6. q \in Pairs /\ Safe(q, surfaces)
    BY <1>3, <1>5, NowIsPair, ReadyIsSafe
  <1> HIDE DEF q
  <1>7. focused \in 0..Len(surfaces) /\ stopped' \in BOOLEAN /\ ~stopped'
    BY <1>1, NowIsPair
  <1> QED
    BY <1>1, <1>6, <1>7, LeavesSurfaces

LEMMA FocusStep ==
    ASSUME PowerInv, NEW i \in DOMAIN surfaces, Focus(i)
    PROVE  PowerInv'
  <1>1. Become(Now) /\ surfaces' = surfaces /\ focused' = i /\ ~stopped /\ stopped' = stopped
    BY NowIsPair DEF Focus, Become
  <1>2. /\ Now \in Pairs /\ Safe(Now, surfaces) /\ i \in 0..Len(surfaces)
        /\ stopped' \in BOOLEAN /\ ~stopped'
    BY <1>1, NowIsPair
  <1> QED
    BY <1>1, <1>2, LeavesSurfaces

LEMMA ActivityStep ==
    ASSUME PowerInv, Activity
    PROVE  PowerInv'
  <1> DEFINE p == [Now EXCEPT !.app.blank = @ /\ ~app.cfg.screenOff,
                              !.app.due = @ /\ ~app.cfg.screenOff]
             q == If(app.cfg.screenOff /\ app.blank,
                     PowerOffSecondary(Wake(p, surfaces), surfaces, focused), p)
  <1>1. /\ Become(q) /\ surfaces' = surfaces /\ focused' = focused
        /\ ~stopped /\ stopped' = stopped
    BY DEF Activity
  <1>2. app.blank => app.cfg.screenOff
    BY NowIsPair DEF Safe, BlankIsWanted
  <1>3. /\ p \in Pairs /\ p.lit = lit /\ p.app.blank = FALSE /\ p.app.locked = app.locked
        /\ p.app.secondaryOff = app.secondaryOff /\ p.app.cfg = app.cfg
    <2> DEFINE b == app.blank /\ ~app.cfg.screenOff
               d == app.due /\ ~app.cfg.screenOff
               a == [app EXCEPT !.blank = b, !.due = d]
    <2>1. b = FALSE /\ b \in BOOLEAN /\ d \in BOOLEAN
      BY <1>2
    <2>2. p = [Now EXCEPT !.app = a]
      BY NowIsPair DEF Pairs, Apps
    <2> HIDE DEF b, d, p
    <2>3. /\ a \in Apps /\ a.blank = FALSE /\ a.locked = app.locked
          /\ a.secondaryOff = app.secondaryOff /\ a.cfg = app.cfg
      BY <2>1, NowIsPair DEF Apps
    <2> HIDE DEF a
    <2>4. p \in Pairs /\ p.lit = lit /\ p.app = a
      BY <2>2, <2>3, NowIsPair DEF Pairs
    <2> QED
      BY <2>3, <2>4
  <1> HIDE DEF p
  <1>4. CASE app.blank
    <2>1. Dark(p, surfaces) = Dark(Now, surfaces)
      BY <1>3, NowIsPair DEF Dark
    <2>2. DarkIsControlled(p, surfaces) /\ BlankIsWanted(p)
      BY <1>3, <2>1, NowIsPair DEF Safe, DarkIsControlled, BlankIsWanted
    <2>3. Wake(p, surfaces) \in Pairs /\ Safe(Wake(p, surfaces), surfaces)
      BY <1>3, <2>2, NowIsPair, WakeLights
    <2>4. q = PowerOffSecondary(Wake(p, surfaces), surfaces, focused)
      BY <1>2, <1>4 DEF If
    <2> HIDE DEF q
    <2>5. q \in Pairs /\ Safe(q, surfaces)
      BY <2>3, <2>4, NowIsPair, SecondaryIsSafe
    <2>6. focused \in 0..Len(surfaces) /\ stopped' \in BOOLEAN /\ ~stopped'
      BY <1>1, NowIsPair
    <2> QED
      BY <1>1, <2>5, <2>6, LeavesSurfaces
  <1>5. CASE ~app.blank
    <2>1. q = p
      BY <1>5 DEF If
    <2> HIDE DEF q
    <2>2. Now.app.blank = FALSE
      BY <1>5, NowIsPair DEF Apps
    <2>3. Safe(p, surfaces)
      BY <1>3, <2>2, NowIsPair, SafeReads
    <2>4. focused \in 0..Len(surfaces) /\ stopped' \in BOOLEAN /\ ~stopped'
      BY <1>1, NowIsPair
    <2> QED
      BY <1>1, <1>3, <2>1, <2>3, <2>4, LeavesSurfaces
  <1> QED
    BY <1>4, <1>5

LEMMA DeadlineStep ==
    ASSUME PowerInv, DeadlinePasses
    PROVE  PowerInv'
  <1> DEFINE q == [Now EXCEPT !.app.due = TRUE]
  <1>1. /\ app' = [app EXCEPT !.due = TRUE] /\ lit' = lit
        /\ surfaces' = surfaces /\ focused' = focused /\ ~stopped /\ stopped' = stopped
    BY DEF DeadlinePasses
  <1>2. /\ q \in Pairs /\ q.lit = lit /\ q.app = [app EXCEPT !.due = TRUE]
        /\ q.app.blank = app.blank /\ q.app.secondaryOff = app.secondaryOff
        /\ q.app.locked = app.locked /\ q.app.cfg = app.cfg
    BY NowIsPair DEF Pairs, Apps
  <1> HIDE DEF q
  <1>3. Become(q)
    BY <1>1, <1>2 DEF Become
  <1>4. Safe(q, surfaces)
    BY <1>2, NowIsPair, SafeReads
  <1>5. focused \in 0..Len(surfaces) /\ stopped' \in BOOLEAN /\ ~stopped'
    BY <1>1, NowIsPair
  <1> QED
    BY <1>1, <1>2, <1>3, <1>4, <1>5, LeavesSurfaces

LEMMA DarkenIsSafe ==
    ASSUME NEW p \in Pairs, NEW sfs \in Seq(Surfaces), Distinct(sfs),
           p.app.blank, BlankIsWanted(p), DarkIsControlled(p, sfs)
    PROVE  /\ Darken(p, sfs) \in Pairs /\ Darken(p, sfs).app = p.app
           /\ Safe(Darken(p, sfs), sfs)
  <1> DEFINE l == Request(p.lit, Controlled(sfs), FALSE)
             q == Darken(p, sfs)
  <1>1. l \in [Outputs -> BOOLEAN]
    BY DEF Request, Pairs
  <1>2. q \in Pairs /\ q.lit = l /\ q.app = p.app
    BY <1>1 DEF Darken, Pairs
  <1>3. ASSUME NEW i \in DOMAIN sfs, ~l[sfs[i].output]
        PROVE  sfs[i].control
    <2>1. sfs[i].output \in Outputs
      BY SurfaceTypes
    <2>2. CASE sfs[i].output \in Controlled(sfs)
      <3>1. PICK j \in DOMAIN sfs : sfs[j].control /\ sfs[i].output = sfs[j].output
        BY <2>2 DEF Controlled
      <3> QED
        BY <3>1 DEF Distinct
    <2>3. CASE sfs[i].output \notin Controlled(sfs)
      BY <1>3, <2>1, <2>3 DEF Request, DarkIsControlled, Dark
    <2> QED
      BY <2>2, <2>3
  <1> HIDE DEF l, q
  <1>4. DarkIsControlled(q, sfs)
    BY <1>2, <1>3 DEF DarkIsControlled, Dark
  <1>5. Safe(q, sfs)
    BY <1>2, <1>4 DEF Safe, DarkIsKnown, BlankIsWanted, SomeIsLit, NamedIsLit
  <1> QED
    BY <1>2, <1>5 DEF q

LEMMA AdvanceStep ==
    ASSUME PowerInv, AdvanceOutputPower
    PROVE  PowerInv'
  <1> DEFINE p == [Now EXCEPT !.app.blank = TRUE]
             q == Darken(p, surfaces)
  <1>1. /\ Become(q) /\ app.locked /\ app.cfg.screenOff
        /\ surfaces' = surfaces /\ focused' = focused /\ ~stopped /\ stopped' = stopped
    BY DEF AdvanceOutputPower
  <1>2. /\ p \in Pairs /\ p.lit = lit /\ p.app.blank
        /\ p.app.locked = app.locked /\ p.app.cfg = app.cfg
    BY NowIsPair DEF Pairs, Apps
  <1> HIDE DEF p
  <1>3. Dark(p, surfaces) = Dark(Now, surfaces)
    BY <1>2, NowIsPair DEF Dark
  <1>4. DarkIsControlled(p, surfaces) /\ BlankIsWanted(p)
    BY <1>1, <1>2, <1>3, NowIsPair DEF Safe, DarkIsControlled, BlankIsWanted
  <1>5. q \in Pairs /\ Safe(q, surfaces)
    BY <1>2, <1>4, NowIsPair, DarkenIsSafe
  <1> HIDE DEF q
  <1>6. focused \in 0..Len(surfaces) /\ stopped' \in BOOLEAN /\ ~stopped'
    BY <1>1, NowIsPair
  <1> QED
    BY <1>1, <1>5, <1>6, LeavesSurfaces

-----------------------------------------------------------------------------
(* Reloads, the emergency UI and the end.                                  *)

(* Monitors that are all lit stay lit when they are asked to.              *)
LEMMA AllLitWakes ==
    ASSUME NEW p \in Pairs, NEW sfs \in Seq(Surfaces), Dark(p, sfs) = {}
    PROVE  /\ Wake(p, sfs) \in Pairs
           /\ Dark(Wake(p, sfs), sfs) = {}
           /\ Wake(p, sfs).app.cfg = p.app.cfg
           /\ Wake(p, sfs).app.blank = p.app.blank
           /\ Wake(p, sfs).app.locked = p.app.locked
  <1>1. DarkIsControlled(p, sfs)
    BY DEF DarkIsControlled
  <1> QED
    BY <1>1, WakeLights

LEMMA ReloadStep ==
    ASSUME PowerInv, NEW c \in Configs, Reload(c)
    PROVE  PowerInv'
  <1> DEFINE wakeAll == app.blank /\ ~c.screenOff
             wakeSecondary == app.secondaryOff
             sfs == [i \in DOMAIN surfaces |-> [surfaces[i] EXCEPT !.control = ControlEnabled(c)]]
             p1 == [Now EXCEPT !.app = SetDelay(app, c)]
             p2 == If((wakeAll \/ wakeSecondary) /\ ~ControlEnabled(c), Wake(p1, surfaces), p1)
             p3 == If(p2.app.blank /\ c.screenOff, Darken(p2, sfs), p2)
             p4 == If(wakeSecondary, Wake(p3, sfs), p3)
             p5 == If(wakeAll, Wake(p4, sfs), p4)
             q == PowerOffSecondary(p5, sfs, focused)
  <1>1. /\ surfaces' = sfs /\ Become(q) /\ focused' = focused /\ ~stopped /\ stopped' = stopped
    BY DEF Reload
  <1>2. c \in ConfigRecords /\ ControlEnabled(c) \in BOOLEAN
    BY ConfigsAssumption DEF ConfigRecords, ControlEnabled, SecondaryEnabled
  <1>3. ~ControlEnabled(c) => ~c.screenOff
    BY DEF ControlEnabled
  <1>4. /\ sfs \in Seq(Surfaces) /\ Len(sfs) = Len(surfaces)
        /\ \A i \in DOMAIN surfaces : /\ sfs[i].output = surfaces[i].output
                                      /\ sfs[i].control = ControlEnabled(c)
    <2>1. \A i \in DOMAIN surfaces : surfaces[i] \in Surfaces
      BY NowIsPair, SurfaceTypes
    <2>2. \A i \in DOMAIN surfaces : /\ sfs[i] \in Surfaces
                                     /\ sfs[i].output = surfaces[i].output
                                     /\ sfs[i].control = ControlEnabled(c)
      BY <1>2, <2>1 DEF Surfaces
    <2>3. DOMAIN sfs = 1..Len(surfaces) /\ Len(surfaces) \in Nat
      BY NowIsPair
    <2>4. sfs \in [1..Len(surfaces) -> Surfaces]
      BY <2>2, <2>3, NowIsPair
    <2>5. sfs \in Seq(Surfaces)
      BY <2>3, <2>4, SeqDef
    <2> HIDE DEF sfs
    <2>6. Len(sfs) = Len(surfaces)
      BY <2>3, <2>5, LenProperties
    <2> QED
      BY <2>2, <2>5, <2>6
  <1>5. /\ p1 \in Pairs /\ p1.lit = lit /\ p1.app.cfg = c
        /\ p1.app.locked = app.locked /\ p1.app.secondaryOff = app.secondaryOff
        /\ p1.app.blank = (app.blank /\ c.screenOff)
    <2> DEFINE stays == app.blank /\ c.screenOff
               a == [app EXCEPT !.cfg = c, !.due = FALSE, !.blank = stays]
    <2>1. stays \in BOOLEAN
      OBVIOUS
    <2>2. p1 = [Now EXCEPT !.app = a]
      BY DEF SetDelay
    <2> HIDE DEF stays, p1
    <2>3. /\ a \in Apps /\ a.cfg = c /\ a.locked = app.locked
          /\ a.secondaryOff = app.secondaryOff /\ a.blank = stays
      BY <1>2, <2>1, NowIsPair DEF Apps
    <2> HIDE DEF a
    <2>4. p1 \in Pairs /\ p1.lit = lit /\ p1.app = a
      BY <2>2, <2>3, NowIsPair DEF Pairs
    <2> QED
      BY <2>3, <2>4 DEF stays
  <1> HIDE DEF sfs, p1
  <1>6. /\ Distinct(sfs) /\ DOMAIN sfs = DOMAIN surfaces
        /\ \A p : Dark(p, sfs) = Dark(p, surfaces)
    BY <1>4, NowIsPair, SameOutputs, SMTT(60)
  <1>7. Dark(p1, surfaces) = Dark(Now, surfaces)
    <2>1. p1.lit = Now.lit
      <3>1. Now.lit = lit
        BY NowIsPair
      <3> QED
        BY <1>5, <3>1
    <2> QED
      BY <2>1 DEF Dark
  <1>8. BlankIsWanted(p1) /\ DarkIsControlled(p1, surfaces)
    <2>1. BlankIsWanted(Now) /\ DarkIsControlled(Now, surfaces)
      BY NowIsPair DEF Safe
    <2>2. BlankIsWanted(p1)
      BY <1>5, <2>1, NowIsPair DEF BlankIsWanted
    <2> QED
      BY <1>7, <2>1, <2>2 DEF DarkIsControlled
  <1>9. Dark(p1, surfaces) # {} => app.blank \/ wakeSecondary
    <2>1. DarkIsKnown(Now, surfaces)
      BY NowIsPair DEF Safe
    <2>2. Dark(Now, surfaces) # {} => app.blank \/ app.secondaryOff
      BY <2>1, NowIsPair DEF DarkIsKnown
    <2> QED
      BY <1>7, <2>2
  <1>10. p5 \in Pairs /\ Safe(p5, sfs)
    <2>1. CASE ~ControlEnabled(c)
      <3>1. /\ p2 \in Pairs /\ Dark(p2, sfs) = {} /\ p2.app.blank = p1.app.blank
        <4>1. CASE wakeAll \/ wakeSecondary
          <5>1. p2 = Wake(p1, surfaces)
            BY <2>1, <4>1 DEF If
          <5> QED
            BY <1>5, <1>6, <1>8, <5>1, NowIsPair, WakeLights
        <4>2. CASE ~(wakeAll \/ wakeSecondary)
          <5>1. p2 = p1 /\ Dark(p1, surfaces) = {}
            BY <1>3, <1>9, <2>1, <4>2 DEF If
          <5> QED
            BY <1>5, <1>6, <5>1
        <4> QED
          BY <4>1, <4>2
      <3> HIDE DEF p2
      <3>2. p3 = p2
        BY <1>3, <2>1 DEF If
      <3> HIDE DEF p3
      <3>3. p4 \in Pairs /\ Dark(p4, sfs) = {} /\ p4.app.blank = p1.app.blank
        BY <1>4, <3>1, <3>2, AllLitWakes DEF If
      <3> HIDE DEF p4
      <3>4. p5 \in Pairs /\ Dark(p5, sfs) = {} /\ p5.app.blank = p1.app.blank
        BY <1>4, <3>3, AllLitWakes DEF If
      <3> HIDE DEF p5
      <3>5. BlankIsWanted(p5)
        BY <1>3, <1>5, <2>1, <3>4 DEF BlankIsWanted
      <3> QED
        BY <1>4, <3>4, <3>5, AllLitIsSafe
    <2>2. CASE ControlEnabled(c)
      <3>1. p2 = p1
        BY <2>2 DEF If
      <3> HIDE DEF p2
      <3>2. \A p : DarkIsControlled(p, sfs)
        BY <1>4, <1>6, <2>2 DEF DarkIsControlled, Dark
      <3>3. CASE p1.app.blank
        <4>1. p3 = Darken(p1, sfs) /\ ~wakeAll
          BY <1>5, <3>1, <3>3 DEF If
        <4> HIDE DEF p3
        <4>2. p3 \in Pairs /\ p3.app = p1.app /\ Safe(p3, sfs)
          BY <1>4, <1>5, <1>6, <1>8, <3>2, <3>3, <4>1, DarkenIsSafe
        <4>3. p4 \in Pairs /\ Safe(p4, sfs)
          <5>1. Wake(p3, sfs) \in Pairs /\ Safe(Wake(p3, sfs), sfs)
            BY <1>4, <4>2, WakeLights DEF Safe
          <5> QED
            BY <4>2, <5>1 DEF If
        <4> HIDE DEF p4
        <4> QED
          BY <4>1, <4>3 DEF If
      <3>4. CASE ~p1.app.blank
        <4>1. p3 = p1
          BY <3>1, <3>4 DEF If
        <4> HIDE DEF p3
        <4>2. Wake(p1, sfs) \in Pairs /\ Dark(Wake(p1, sfs), sfs) = {}
              /\ Wake(p1, sfs).app.blank = p1.app.blank
          BY <1>4, <1>5, <3>2, WakeLights
        <4>3. /\ p4 \in Pairs /\ p4.app.blank = p1.app.blank
              /\ wakeSecondary => Dark(p4, sfs) = {}
              /\ ~wakeSecondary => p4 = p1
          BY <1>5, <4>1, <4>2 DEF If
        <4> HIDE DEF p4
        <4>4. Wake(p4, sfs) \in Pairs /\ Dark(Wake(p4, sfs), sfs) = {}
              /\ Wake(p4, sfs).app.blank = p4.app.blank
          BY <1>4, <3>2, <4>3, WakeLights
        <4>5. /\ p5 \in Pairs /\ p5.app.blank = p1.app.blank
              /\ wakeAll => Dark(p5, sfs) = {}
              /\ ~wakeAll => p5 = p4
          BY <4>3, <4>4 DEF If
        <4>6. ~wakeAll /\ ~wakeSecondary => Dark(p1, sfs) = {}
          BY <1>5, <1>6, <1>9, <3>4
        <4> HIDE DEF p5
        <4>7. Dark(p5, sfs) = {} /\ BlankIsWanted(p5)
          BY <3>4, <4>3, <4>5, <4>6 DEF BlankIsWanted
        <4> QED
          BY <1>4, <4>5, <4>7, AllLitIsSafe
      <3> QED
        BY <3>3, <3>4
    <2> QED
      BY <2>1, <2>2
  <1> HIDE DEF p2, p3, p4, p5
  <1>11. focused \in 0..Len(sfs) /\ stopped' \in BOOLEAN /\ ~stopped'
    BY <1>1, <1>4, NowIsPair
  <1>12. q \in Pairs /\ Safe(q, sfs)
    BY <1>4, <1>6, <1>10, <1>11, SecondaryIsSafe
  <1> HIDE DEF q
  <1> QED
    BY <1>1, <1>4, <1>6, <1>11, <1>12, Leaves

LEMMA EmergencyStep ==
    ASSUME PowerInv, Emergency
    PROVE  PowerInv'
  <1> DEFINE p == If(app.secondaryOff, Wake(Now, surfaces), Now)
             q == [p EXCEPT !.app.emergency = TRUE, !.app.secondaryOff = FALSE,
                            !.app.cfg.single = FALSE, !.app.cfg.secondary = FALSE,
                            !.app.cfg.named = NoOutput]
  <1>1. /\ Become(q) /\ surfaces' = surfaces /\ focused' = focused
        /\ ~stopped /\ stopped' = stopped
    BY DEF Emergency
  <1>2. /\ p \in Pairs /\ Safe(p, surfaces)
        /\ Dark(p, surfaces) # {} => p.app.blank
    <2>1. CASE app.secondaryOff
      BY <2>1, NowIsPair, WakeLights DEF Safe, If
    <2>2. CASE ~app.secondaryOff
      BY <2>2, NowIsPair DEF Safe, DarkIsKnown, If
    <2> QED
      BY <2>1, <2>2
  <1> HIDE DEF p
  <1>3. /\ q \in Pairs /\ q.lit = p.lit /\ q.app.blank = p.app.blank
        /\ q.app.locked = p.app.locked
        /\ q.app.cfg.screenOff = p.app.cfg.screenOff /\ q.app.cfg.single = FALSE
    <2> DEFINE q1 == [p EXCEPT !.app.emergency = TRUE]
               q2 == [q1 EXCEPT !.app.secondaryOff = FALSE]
               q3 == [q2 EXCEPT !.app.cfg.single = FALSE]
               q4 == [q3 EXCEPT !.app.cfg.secondary = FALSE]
               q5 == [q4 EXCEPT !.app.cfg.named = NoOutput]
               Same(x) == /\ x \in Pairs /\ x.lit = p.lit /\ x.app.blank = p.app.blank
                          /\ x.app.locked = p.app.locked
                          /\ x.app.cfg.screenOff = p.app.cfg.screenOff
    <2>1. q = q5
      OBVIOUS
    <2> HIDE DEF q
    <2>2. Same(q1)
      BY <1>2 DEF Pairs, Apps
    <2> HIDE DEF q1
    <2>3. Same(q2)
      BY <2>2 DEF Pairs, Apps
    <2> HIDE DEF q2
    <2>4. Same(q3) /\ q3.app.cfg.single = FALSE
      BY <2>3 DEF Pairs, Apps, ConfigRecords
    <2> HIDE DEF q3
    <2>5. Same(q4) /\ q4.app.cfg.single = FALSE
      BY <2>4 DEF Pairs, Apps, ConfigRecords
    <2> HIDE DEF q4
    <2>6. Same(q5) /\ q5.app.cfg.single = FALSE
      BY <2>5 DEF Pairs, Apps, ConfigRecords
    <2> HIDE DEF q5
    <2> QED
      BY <2>1, <2>6
  <1> HIDE DEF q
  <1>4. Dark(q, surfaces) = Dark(p, surfaces)
    BY <1>3 DEF Dark
  <1>5. Safe(q, surfaces)
    BY <1>2, <1>3, <1>4
    DEF Safe, DarkIsControlled, DarkIsKnown, BlankIsWanted, SomeIsLit, NamedIsLit
  <1>6. focused \in 0..Len(surfaces) /\ stopped' \in BOOLEAN /\ ~stopped'
    BY <1>1, NowIsPair
  <1> QED
    BY <1>1, <1>3, <1>5, <1>6, LeavesSurfaces

LEMMA ShutdownStep ==
    ASSUME PowerInv, Shutdown
    PROVE  PowerInv'
  <1> DEFINE w == Wake(Now, surfaces)
             v == [w EXCEPT !.app.secondaryOff = FALSE]
             q == If(app.blank \/ app.secondaryOff, v, Now)
  <1>1. /\ Become(q) /\ surfaces' = surfaces /\ focused' = focused /\ stopped' = TRUE
    BY DEF Shutdown
  <1>2. w \in Pairs /\ Dark(w, surfaces) = {} /\ BlankIsWanted(w)
    BY NowIsPair, WakeLights DEF Safe
  <1> HIDE DEF w
  <1>3. /\ v \in Pairs /\ v.lit = w.lit /\ v.app.blank = w.app.blank
        /\ v.app.locked = w.app.locked /\ v.app.cfg = w.app.cfg
    BY <1>2 DEF Pairs, Apps
  <1> HIDE DEF v
  <1>4. Dark(v, surfaces) = {} /\ BlankIsWanted(v)
    BY <1>2, <1>3 DEF Dark, BlankIsWanted
  <1>5. app.blank \/ app.secondaryOff \/ Dark(Now, surfaces) = {}
    BY NowIsPair DEF Safe, DarkIsKnown
  <1>6. q \in Pairs /\ Dark(q, surfaces) = {} /\ BlankIsWanted(q)
    BY <1>3, <1>4, <1>5, NowIsPair DEF If, Safe
  <1> HIDE DEF q
  <1>7. Safe(q, surfaces)
    BY <1>6, NowIsPair, AllLitIsSafe
  <1>8. focused \in 0..Len(surfaces) /\ stopped' \in BOOLEAN
    BY <1>1, NowIsPair
  <1> QED
    BY <1>1, <1>6, <1>7, <1>8, LeavesSurfaces

-----------------------------------------------------------------------------
LEMMA PowerInit == Init => PowerInv
  <1> SUFFICES ASSUME Init PROVE PowerInv
    OBVIOUS
  <1>1. PICK o \in Outputs, c \in Configs :
           /\ surfaces = <<[output |-> o, sized |-> FALSE, control |-> ControlEnabled(c)]>>
           /\ app = [cfg |-> c, locked |-> FALSE, ready |-> FALSE, due |-> FALSE,
                     emergency |-> FALSE, blank |-> FALSE, secondaryOff |-> FALSE]
    BY DEF Init
  <1>2. c \in ConfigRecords /\ ControlEnabled(c) \in BOOLEAN
    BY ConfigsAssumption DEF ConfigRecords, ControlEnabled, SecondaryEnabled
  <1>3. surfaces \in Seq(Surfaces) /\ Len(surfaces) = 1 /\ DOMAIN surfaces = {1}
    BY <1>1, <1>2 DEF Surfaces
  <1>4. app \in Apps /\ ~app.blank
    BY <1>1, <1>2 DEF Apps
  <1>5. TypeOK
    <2>1. Distinct(surfaces)
      BY <1>3 DEF Distinct
    <2>2. focused \in 0..Len(surfaces)
      BY <1>3 DEF Init
    <2>3. lit \in [Outputs -> BOOLEAN] /\ stopped \in BOOLEAN
      BY DEF Init
    <2> QED
      BY <1>3, <1>4, <2>1, <2>2, <2>3 DEF TypeOK
  <1>6. \A i \in DOMAIN surfaces : lit[surfaces[i].output]
    BY <1>3, SurfaceTypes DEF Init
  <1>7. Dark(Now, surfaces) = {} /\ BlankIsWanted(Now)
    BY <1>4, <1>6 DEF Dark, Now, BlankIsWanted
  <1>8. Safe(Now, surfaces)
    BY <1>3, <1>7, AllLitIsSafe
  <1> QED
    BY <1>5, <1>7, <1>8 DEF PowerInv

LEMMA PowerStep == PowerInv /\ [Next]_vars => PowerInv'
  <1> SUFFICES ASSUME PowerInv, [Next]_vars PROVE PowerInv'
    OBVIOUS
  <1>1. CASE UNCHANGED vars
    BY <1>1
    DEF vars, PowerInv, TypeOK, Now, Distinct, Safe, DarkIsControlled, DarkIsKnown,
        BlankIsWanted, SomeIsLit, NamedIsLit, Dark
  <1>2. CASE Next
    BY <1>2, NewOutputStep, OutputDestroyedStep, ConfigureStep, FocusStep, ControlLostStep,
       ReloadStep, LockedStep, ActivityStep, DeadlineStep, AdvanceStep, EmergencyStep,
       ShutdownStep
    DEF Next
  <1> QED
    BY <1>1, <1>2

(* The inductive invariant: whatever is dark is controlled and known to be *)
(* dark, blanking is configured, and unless everything was blanked some    *)
(* monitor, and the one named in the configuration, is lit.                *)
THEOREM PowerInvHolds == Spec => []PowerInv
  <1> QED
    BY PowerInit, PowerStep, PTL DEF Spec

(* If every monitor is dark the curtain knows it, may light them and still *)
(* controls one, so that the next input does; and a prompt bound to a      *)
(* named monitor is not darkened alone, however many monitors there are.   *)
THEOREM NobodyIsStuckInTheDark == Spec => []NeverStuckDark
  <1>1. PowerInv => NeverStuckDark
    <2> SUFFICES ASSUME PowerInv PROVE NeverStuckDark
      OBVIOUS
    <2>1. /\ Safe(Now, surfaces) /\ Now.lit = lit /\ Now.app = app
          /\ surfaces \in Seq(Surfaces)
      BY NowIsPair
    <2>2. ASSUME surfaces # <<>>, LitNow = {}
          PROVE  app.blank /\ app.cfg.screenOff /\ Controlled(surfaces) # {}
      <3>1. Dark(Now, surfaces) = DOMAIN surfaces
        BY <2>1, <2>2 DEF Dark, LitNow, Connected
      <3>2. app.blank
        BY <2>1, <2>2, <3>1 DEF Safe, SomeIsLit
      <3>3. 1 \in DOMAIN surfaces
        BY <2>1, <2>2, SurfaceTypes
      <3>4. surfaces[1].control
        BY <2>1, <3>1, <3>3 DEF Safe, DarkIsControlled
      <3> QED
        BY <2>1, <3>2, <3>3, <3>4 DEF Safe, BlankIsWanted, Controlled
    <2>3. ASSUME app.cfg.single, app.cfg.named \in Connected, ~app.blank
          PROVE  lit[app.cfg.named]
      <3>1. PICK i \in DOMAIN surfaces : surfaces[i].output = app.cfg.named
        BY <2>3 DEF Connected
      <3>2. i \notin Dark(Now, surfaces)
        BY <2>1, <2>3, <3>1 DEF Safe, NamedIsLit
      <3> QED
        BY <2>1, <3>1, <3>2 DEF Dark
    <2> QED
      BY <2>2, <2>3 DEF NeverStuckDark
  <1> QED
    BY <1>1, PowerInvHolds, PTL

(* A curtain that has shut down leaves every monitor lit.                  *)
THEOREM ReleasedSessionIsLit == Spec => []LitAfterUnlock
  <1>1. PowerInv => LitAfterUnlock
    <2> SUFFICES ASSUME PowerInv, stopped PROVE LitNow = Connected
      BY DEF LitAfterUnlock
    <2>1. Dark(Now, surfaces) = {} /\ Now.lit = lit
      BY NowIsPair DEF PowerInv
    <2>2. \A i \in DOMAIN surfaces : lit[surfaces[i].output]
      BY <2>1 DEF Dark
    <2> QED
      BY <2>2 DEF LitNow, Connected
  <1> QED
    BY <1>1, PowerInvHolds, PTL
=============================================================================
