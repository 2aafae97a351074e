---------------------------- MODULE SceneProofs ----------------------------
(***************************************************************************)
(* A redraw always finds the buffer it draws from, and once the loaders    *)
(* are done it leaves the right image and the prompt where they belong.    *)
(***************************************************************************)
EXTENDS Scene, SequenceTheorems, FiniteSetTheorems, WellFoundedInduction, TLAPS

AppFields == DOMAIN Fresh
SurfaceFields == DOMAIN NewSurface(None)
StateFields == {"a", "S", "C", "due", "odd", "error"}

Surface(s, out, size) == DOMAIN s = SurfaceFields /\ s.out = out /\ s.size = size

\* A sequence of surfaces, each with one of the outputs
Surfaces(S) ==
    /\ S \in Seq({S[i] : i \in DOMAIN S})
    /\ \A i \in DOMAIN S : DOMAIN S[i] = SurfaceFields /\ S[i].out \in Outputs

\* What a handler has reached, when it began with the outputs and sizes of Z
Fits(st, Z) ==
    /\ DOMAIN st = StateFields
    /\ DOMAIN st.a = AppFields
    /\ st.a.broken = FALSE
    /\ st.S = [i \in DOMAIN Z |-> st.S[i]]
    /\ \A i \in DOMAIN Z : Surface(st.S[i], Z[i].out, Z[i].size)

SceneInv ==
    /\ DOMAIN app = AppFields
    /\ app.broken = FALSE
    /\ Surfaces(surf)

-----------------------------------------------------------------------------
(* The parts of a state that a step of drawing changes.                    *)

LEMMA NothingHasNoSize == Nothing.size = 0
BY DEF Nothing

LEMMA FieldsOfApp ==
    AppFields = {"path", "own", "slides", "generated", "look", "asset", "single", "named",
                 "layers", "backdrops", "asStored", "ready", "locked", "pending", "started",
                 "emergency", "focused", "failed", "broken"}
BY DEF AppFields, Fresh

LEMMA FieldsOfSurface ==
    SurfaceFields = {"out", "size", "path", "bg", "base", "fresh", "pool", "shown"}
BY DEF SurfaceFields, NewSurface

\* PutSurface replaces one surface, and keeps the others and the app.
LEMMA PutFits ==
    ASSUME NEW st, NEW Z, Fits(st, Z), NEW i \in DOMAIN Z, NEW s,
           Surface(s, Z[i].out, Z[i].size)
    PROVE  /\ Fits(PutSurface(st, i, s), Z)
           /\ PutSurface(st, i, s).S[i] = s
           /\ PutSurface(st, i, s).a = st.a
           /\ PutSurface(st, i, s).error = st.error
<1>1. DOMAIN st = StateFields /\ DOMAIN st.S = DOMAIN Z
  BY DEF Fits
<1>2. PutSurface(st, i, s) = [st EXCEPT !.S = [st.S EXCEPT ![i] = s]]
  BY DEF PutSurface
<1> DEFINE t == PutSurface(st, i, s)
           T == [st.S EXCEPT ![i] = s]
<1>3. t.S = T /\ t.a = st.a /\ t.error = st.error /\ DOMAIN t = StateFields
  BY <1>1, <1>2 DEF StateFields
<1>4. T = [j \in DOMAIN Z |-> IF j = i THEN s ELSE st.S[j]]
  BY <1>1
<1> HIDE DEF t, T
<1>5. t.S = [j \in DOMAIN Z |-> IF j = i THEN s ELSE st.S[j]]
  BY <1>3, <1>4
<1>6. t.S[i] = s /\ t.S = [j \in DOMAIN Z |-> t.S[j]]
  BY <1>5
<1>7. \A j \in DOMAIN Z : Surface(t.S[j], Z[j].out, Z[j].size)
  BY <1>5 DEF Fits
<1>8. Fits(t, Z)
  BY <1>3, <1>6, <1>7 DEF Fits
<1> QED
  BY <1>3, <1>6, <1>8 DEF t

\* What becomes of the history does not matter.
LEMMA OddFits ==
    ASSUME NEW st, NEW Z, Fits(st, Z), NEW o
    PROVE  /\ Fits([st EXCEPT !.odd = o], Z)
           /\ [st EXCEPT !.odd = o].S = st.S
           /\ [st EXCEPT !.odd = o].a = st.a
           /\ [st EXCEPT !.odd = o].error = st.error
BY DEF Fits, StateFields

LEMMA PendingFits ==
    ASSUME NEW st, NEW Z, Fits(st, Z), NEW p
    PROVE  /\ Fits([st EXCEPT !.a.pending = p], Z)
           /\ [st EXCEPT !.a.pending = p].S = st.S
           /\ [st EXCEPT !.a.pending = p].error = st.error
BY FieldsOfApp DEF Fits, StateFields

LEMMA ErrorFits ==
    ASSUME NEW st, NEW Z, Fits(st, Z), NEW e
    PROVE  /\ Fits([st EXCEPT !.error = e], Z)
           /\ [st EXCEPT !.error = e].S = st.S
BY DEF Fits, StateFields

\* A surface is as it was but for its frames.
LEMMA WithBaseFits ==
    ASSUME NEW a, NEW s, NEW out, NEW size, Surface(s, out, size), NEW p, NEW l
    PROVE  /\ Surface(WithBase(a, s, p, l), out, size)
           /\ WithBase(a, s, p, l).base.size = size
BY FieldsOfSurface DEF Surface, WithBase

LEMMA ShowsFits ==
    ASSUME NEW s, NEW out, NEW size, Surface(s, out, size), NEW p, NEW b
    PROVE  Surface(Shows(s, p, b), out, size)
BY FieldsOfSurface DEF Surface, Shows

LEMMA WithoutFramesFits ==
    ASSUME NEW s, NEW out, NEW size, Surface(s, out, size)
    PROVE  Surface(WithoutFrames(s), out, size)
BY FieldsOfSurface DEF Surface, WithoutFrames

LEMMA BgFits ==
    ASSUME NEW s, NEW out, NEW size, Surface(s, out, size), NEW b
    PROVE  /\ Surface([s EXCEPT !.bg = b], out, size)
           /\ [s EXCEPT !.bg = b].bg = b
           /\ [s EXCEPT !.bg = b].base = s.base
BY FieldsOfSurface DEF Surface

-----------------------------------------------------------------------------
(* Drawing one surface.                                                    *)

LEMMA BaseWithoutBackgroundFits ==
    ASSUME NEW st, NEW Z, Fits(st, Z), NEW i \in DOMAIN Z
    PROVE  /\ Fits(BaseWithoutBackground(st, i), Z)
           /\ BaseWithoutBackground(st, i).S[i].base.size = Z[i].size
<1> DEFINE a == st.a
           s == st.S[i]
           d == st.S[First(Donors(a, st.S, i))]
           A == WithBase(a, s, Wanted(a, s), TRUE)
           B == WithBase(a, s, d.base.picture, d.base.layers)
           D == WithBase(a, s, Wanted(a, s), HasLayers(a) /\ a.ready)
           scene == Cached(a, st.C, s, "scene")
           donors == Donors(a, st.S, i) # {}
           sA == PutSurface(st, i, A)
           sB == PutSurface(st, i, B)
           sD == PutSurface(st, i, D)
           tD == [sD EXCEPT !.a.pending = @ \/ LayersWait(a)]
<1>1. Surface(s, Z[i].out, Z[i].size)
  BY DEF Fits
<1>2. /\ Surface(A, Z[i].out, Z[i].size) /\ A.base.size = Z[i].size
      /\ Surface(B, Z[i].out, Z[i].size) /\ B.base.size = Z[i].size
      /\ Surface(D, Z[i].out, Z[i].size) /\ D.base.size = Z[i].size
  <2> HIDE DEF a, s, d, A, B, D
  <2>1. Surface(A, Z[i].out, Z[i].size) /\ A.base.size = Z[i].size
    <3> DEFINE l == TRUE
    <3> HIDE DEF l
    <3>1. A = WithBase(a, s, Wanted(a, s), l)
      BY DEF A, l
    <3> QED
      BY <1>1, <3>1, WithBaseFits
  <2>2. Surface(B, Z[i].out, Z[i].size) /\ B.base.size = Z[i].size
    BY <1>1, WithBaseFits DEF B
  <2>3. Surface(D, Z[i].out, Z[i].size) /\ D.base.size = Z[i].size
    <3> DEFINE l == HasLayers(a) /\ a.ready
    <3> HIDE DEF l
    <3>1. D = WithBase(a, s, Wanted(a, s), l)
      BY DEF D, l
    <3> QED
      BY <1>1, <3>1, WithBaseFits
  <2> QED
    BY <2>1, <2>2, <2>3
<1>3. BaseWithoutBackground(st, i) =
        CASE scene -> sA [] ~scene /\ donors -> sB [] OTHER -> tD
  BY DEF BaseWithoutBackground
<1> HIDE DEF A, B, D, scene, donors, a, s, d
<1>4. /\ Fits(sA, Z) /\ sA.S[i].base.size = Z[i].size
      /\ Fits(sB, Z) /\ sB.S[i].base.size = Z[i].size
      /\ Fits(sD, Z) /\ sD.S[i].base.size = Z[i].size
  BY <1>2, PutFits
<1> HIDE DEF sA, sB, sD
<1>5. Fits(tD, Z) /\ tD.S = sD.S
  BY <1>4, PendingFits
<1> HIDE DEF tD
<1> QED
  BY <1>3, <1>4, <1>5

\* Afterwards the bare picture has the size of its surface.
LEMMA PrepareBackgroundFits ==
    ASSUME NEW st, NEW Z, Fits(st, Z), NEW i \in DOMAIN Z
    PROVE  /\ Fits(PrepareBackground(st, i), Z)
           /\ PrepareBackground(st, i).S[i].bg.size = Z[i].size
<1> DEFINE a == st.a
           s == st.S[i]
           picture == IF Cached(a, st.C, s, "plain") THEN Wanted(a, s) ELSE a.asset
           path == Selected(a, s)
           b == [size |-> s.size, picture |-> picture]
           new == [s EXCEPT !.bg = b, !.path = path]
           o == st.odd \/ Lasts(st, i, picture)
           put == PutSurface(st, i, new)
           t == [put EXCEPT !.odd = o]
<1>1. Surface(s, Z[i].out, Z[i].size) /\ DOMAIN st = StateFields /\ DOMAIN st.S = DOMAIN Z
  BY DEF Fits
<1>2. CASE ~StaleBackground(a, s)
  <2>1. PrepareBackground(st, i) = st
    BY <1>2 DEF PrepareBackground
  <2>2. s.bg.size = Z[i].size
    BY <1>1, <1>2 DEF StaleBackground, Surface
  <2> QED
    BY <2>1, <2>2
<1>3. CASE StaleBackground(a, s)
  <2>1. PrepareBackground(st, i) =
          [st EXCEPT !.S[i].bg = b, !.S[i].path = path, !.odd = @ \/ Lasts(st, i, picture)]
    BY <1>3 DEF PrepareBackground
  <2> HIDE DEF path, picture, b
  <2>2. [st EXCEPT !.S[i].bg = b, !.S[i].path = path, !.odd = @ \/ Lasts(st, i, picture)] = t
    BY <1>1 DEF PutSurface, StateFields
  <2>3. Surface(new, Z[i].out, Z[i].size) /\ new.bg = b
    BY <1>1, FieldsOfSurface DEF Surface
  <2>4. b.size = Z[i].size
    BY <1>1 DEF b, Surface
  <2> HIDE DEF new, o, b
  <2>5. Fits(put, Z) /\ put.S[i] = new
    BY <2>3, PutFits
  <2> HIDE DEF put
  <2>6. Fits(t, Z) /\ t.S = put.S
    BY <2>5, OddFits
  <2> QED
    BY <2>1, <2>2, <2>3, <2>4, <2>5, <2>6
<1> QED
  BY <1>2, <1>3

\* With the bare picture in place there is always a frame for the prompt.
LEMMA PrepareSceneBaseFits ==
    ASSUME NEW st, NEW Z, Fits(st, Z), NEW i \in DOMAIN Z, NEW refreshed,
           Z[i].size # 0, st.S[i].bg.size = Z[i].size
    PROVE  /\ Fits(PrepareSceneBase(st, i, refreshed), Z)
           /\ PrepareSceneBase(st, i, refreshed).S[i].base.size = Z[i].size
<1> DEFINE s == st.S[i]
           kept == ~refreshed /\ s.base.size = s.size /\ s.fresh
           gone == [s EXCEPT !.bg = Nothing]
           D == WithBase(st.a, s, s.bg.picture, HasLayers(st.a) /\ st.a.ready)
           sD == PutSurface(st, i, D)
           tD == [sD EXCEPT !.a.pending = @ \/ LayersWait(st.a)]
<1>1. Surface(s, Z[i].out, Z[i].size) /\ s.size = Z[i].size
  BY DEF Fits, Surface
<1>2. s.bg # Nothing
  BY NothingHasNoSize
<1>3. CASE kept
  <2>1. PrepareSceneBase(st, i, refreshed) = PutSurface(st, i, gone)
    BY <1>3 DEF PrepareSceneBase
  <2>2. Surface(gone, Z[i].out, Z[i].size) /\ gone.base = s.base
    BY <1>1, BgFits
  <2> HIDE DEF gone
  <2>3. Fits(PutSurface(st, i, gone), Z) /\ PutSurface(st, i, gone).S[i] = gone
    BY <2>2, PutFits
  <2> QED
    BY <1>1, <1>3, <2>1, <2>2, <2>3
<1>4. CASE ~kept /\ BaseMatches(st.a, s)
  <2>1. PrepareSceneBase(st, i, refreshed) = st
    BY <1>4 DEF PrepareSceneBase
  <2> QED
    BY <1>1, <1>4, <2>1 DEF BaseMatches
<1>5. CASE ~kept /\ ~BaseMatches(st.a, s) /\ CanDoWithoutBackground(st, i)
  <2>1. PrepareSceneBase(st, i, refreshed) = BaseWithoutBackground(st, i)
    BY <1>5 DEF PrepareSceneBase
  <2> QED
    BY <2>1, BaseWithoutBackgroundFits
<1>6. CASE ~kept /\ ~BaseMatches(st.a, s) /\ ~CanDoWithoutBackground(st, i)
  <2>1. PrepareSceneBase(st, i, refreshed) = tD
    BY <1>2, <1>6 DEF PrepareSceneBase
  <2> HIDE DEF s
  <2>2. Surface(D, Z[i].out, Z[i].size) /\ D.base.size = Z[i].size
    BY <1>1, WithBaseFits
  <2> HIDE DEF D
  <2>3. Fits(sD, Z) /\ sD.S[i] = D
    BY <2>2, PutFits
  <2> HIDE DEF sD
  <2>4. Fits(tD, Z) /\ tD.S = sD.S
    BY <2>3, PendingFits
  <2> QED
    BY <2>1, <2>2, <2>3, <2>4
<1> QED
  BY <1>3, <1>4, <1>5, <1>6

\* A surface that shows something only is not one whose size is missing.
LEMMA CommitPromptFits ==
    ASSUME NEW st, NEW Z, Fits(st, Z), NEW i \in DOMAIN Z,
           st.S[i].base.size = Z[i].size
    PROVE  Fits(CommitPrompt(st, i), Z)
<1>1. Surface(st.S[i], Z[i].out, Z[i].size) /\ st.S[i].size = Z[i].size
  BY DEF Fits, Surface
<1>2. Surface(Shows(st.S[i], "all", st.S[i].base), Z[i].out, Z[i].size)
  BY <1>1, ShowsFits
<1>3. Fits(PutSurface(st, i, Shows(st.S[i], "all", st.S[i].base)), Z)
  BY <1>2, PutFits
<1> QED
  BY <1>1, <1>3 DEF CommitPrompt

LEMMA DrawPromptFits ==
    ASSUME NEW st, NEW Z, Fits(st, Z), NEW i \in DOMAIN Z, Z[i].size # 0
    PROVE  Fits(DrawPrompt(st, i), Z)
<1> DEFINE stale == StaleBackground(st.a, st.S[i])
           p == PrepareBackground(st, i)
           q == PrepareSceneBase(p, i, stale)
           w == BaseWithoutBackground(st, i)
           t == IF BaseMatches(st.a, st.S[i]) THEN st
                ELSE IF CanDoWithoutBackground(st, i) THEN w ELSE q
<1>1. DrawPrompt(st, i) = CommitPrompt(t, i)
  BY DEF DrawPrompt
<1>2. BaseMatches(st.a, st.S[i]) => st.S[i].base.size = Z[i].size
  BY DEF BaseMatches, Fits, Surface
<1>3. Fits(w, Z) /\ w.S[i].base.size = Z[i].size
  BY BaseWithoutBackgroundFits
<1>4. Fits(p, Z) /\ p.S[i].bg.size = Z[i].size
  BY PrepareBackgroundFits
<1> HIDE DEF w, p, stale
<1>5. Fits(q, Z) /\ q.S[i].base.size = Z[i].size
  BY <1>4, PrepareSceneBaseFits
<1> HIDE DEF q
<1>6. Fits(t, Z) /\ t.S[i].base.size = Z[i].size
  BY <1>2, <1>3, <1>5
<1> HIDE DEF t
<1> QED
  BY <1>1, <1>6, CommitPromptFits

LEMMA DrawPictureFits ==
    ASSUME NEW st, NEW Z, Fits(st, Z), NEW i \in DOMAIN Z
    PROVE  Fits(DrawPicture(st, i), Z)
<1> DEFINE p == PrepareBackground(st, i)
           b == [picture |-> p.S[i].bg.picture, layers |-> FALSE]
           new == Shows(p.S[i], "none", b)
           refreshed == StaleBackground(st.a, st.S[i])
<1>1. Fits(p, Z)
  BY PrepareBackgroundFits
<1>2. DrawPicture(st, i) = CommitPicture(p, i, refreshed)
  BY DEF DrawPicture
<1> HIDE DEF p, refreshed
<1>3. Surface(p.S[i], Z[i].out, Z[i].size)
  BY <1>1 DEF Fits
<1> HIDE DEF b
<1>4. Surface(new, Z[i].out, Z[i].size)
  BY <1>3, ShowsFits
<1> HIDE DEF new
<1>5. Fits(PutSurface(p, i, new), Z)
  BY <1>1, <1>4, PutFits
<1>6. CommitPicture(p, i, refreshed) \in {p, PutSurface(p, i, new)}
  BY DEF CommitPicture, new, b
<1> QED
  BY <1>1, <1>2, <1>5, <1>6

LEMMA RenderSurfaceFits ==
    ASSUME NEW st, NEW Z, Fits(st, Z), NEW i \in DOMAIN Z, Z[i].size # 0, NEW fails
    PROVE  Fits(RenderSurface(st, i, fails), Z)
BY ErrorFits, DrawPromptFits, DrawPictureFits DEF RenderSurface

-----------------------------------------------------------------------------
(* Drawing with the emergency UI as the fallback.                          *)

LEMMA ActivateEmergencyFits ==
    ASSUME NEW st, NEW Z, Fits(st, Z)
    PROVE  Fits(ActivateEmergency(st), Z)
<1> DEFINE t == ActivateEmergency(st)
<1>1. DOMAIN st.S = DOMAIN Z
  BY DEF Fits
<1>2. /\ DOMAIN t = StateFields /\ DOMAIN t.a = AppFields /\ t.a.broken = FALSE
      /\ t.S = [i \in DOMAIN st.S |-> WithoutFrames(st.S[i])]
  BY FieldsOfApp DEF ActivateEmergency, Fits, StateFields
<1> HIDE DEF t
<1>3. \A i \in DOMAIN Z : t.S[i] = WithoutFrames(st.S[i])
  BY <1>1, <1>2
<1>4. t.S = [i \in DOMAIN Z |-> t.S[i]]
  BY <1>1, <1>2, <1>3
<1>5. \A i \in DOMAIN Z : Surface(t.S[i], Z[i].out, Z[i].size)
  BY <1>3, WithoutFramesFits DEF Fits
<1>6. Fits(t, Z)
  BY <1>2, <1>4, <1>5 DEF Fits
<1> QED
  BY <1>6 DEF t

LEMMA GiveUpFits ==
    ASSUME NEW st, NEW Z, Fits(st, Z)
    PROVE  Fits(GiveUp(st), Z)
BY FieldsOfApp DEF GiveUp, Fits, StateFields

LEMMA RenderWithFallbackFits ==
    ASSUME NEW st, NEW Z, Fits(st, Z), NEW i \in DOMAIN Z, Z[i].size # 0, NEW plan
    PROVE  Fits(RenderWithFallback(st, i, plan), Z)
<1> DEFINE t == RenderSurface(st, i, {plan.at})
           e == [ActivateEmergency(t) EXCEPT !.error = "none"]
           fails == IF plan.again THEN {plan.at} ELSE {}
           r == RenderSurface(e, i, fails)
<1>1. Fits(t, Z)
  BY RenderSurfaceFits
<1> HIDE DEF t
<1>2. Fits(ActivateEmergency(t), Z)
  BY <1>1, ActivateEmergencyFits
<1>3. Fits(e, Z)
  BY <1>2, ErrorFits
<1> HIDE DEF e, fails
<1>4. Fits(r, Z)
  BY <1>3, RenderSurfaceFits
<1> HIDE DEF r
<1>5. Fits(GiveUp(r), Z) /\ Fits(GiveUp(t), Z)
  BY <1>1, <1>4, GiveUpFits
<1>6. Fallback(t, i, plan) \in {GiveUp(r), GiveUp(t)}
  BY DEF Fallback, r, e, fails
<1>7. RenderWithFallback(st, i, plan) \in {st, Fallback(t, i, plan)}
  BY DEF RenderWithFallback, t
<1> QED
  BY <1>5, <1>6, <1>7

LEMMA RenderNextFits ==
    ASSUME NEW st, NEW Z, Fits(st, Z), NEW i \in DOMAIN Z, NEW plan
    PROVE  Fits(RenderNext(st, i, plan), Z)
<1>1. st.S[i].size = Z[i].size
  BY DEF Fits, Surface
<1>2. Z[i].size # 0 => Fits(RenderWithFallback(st, i, plan), Z)
  BY RenderWithFallbackFits
<1> QED
  BY <1>1, <1>2 DEF RenderNext

LEMMA DrawDirtyFits ==
    ASSUME NEW st, NEW Z, Fits(st, Z), NEW i \in DOMAIN Z, Z[i].size # 0
    PROVE  Fits(DrawDirty(st, i), Z)
<1> DEFINE s == st.S[i]
           shown == [s.shown EXCEPT !.prompt = IF @ = "none" THEN "part" ELSE @]
           new == [s EXCEPT !.shown = shown]
           t == [st EXCEPT !.S[i].shown.prompt = IF @ = "none" THEN "part" ELSE @]
<1>1. Surface(s, Z[i].out, Z[i].size) /\ DOMAIN st = StateFields /\ DOMAIN st.S = DOMAIN Z
  BY DEF Fits
<1>2. t = PutSurface(st, i, new)
  BY <1>1 DEF PutSurface, StateFields
<1>3. Surface(new, Z[i].out, Z[i].size)
  <2> HIDE DEF shown
  <2> QED
    BY <1>1, FieldsOfSurface DEF Surface
<1> HIDE DEF new
<1>4. Fits(t, Z)
  BY <1>2, <1>3, PutFits
<1>5. Fits(GiveUp(RenderSurface(st, i, {})), Z)
  <2>1. Fits(RenderSurface(st, i, {}), Z)
    BY RenderSurfaceFits
  <2> QED
    BY <2>1, GiveUpFits
<1>6. DrawDirty(st, i) \in {GiveUp(RenderSurface(st, i, {})), t}
  BY DEF DrawDirty
<1> QED
  BY <1>4, <1>5, <1>6

-----------------------------------------------------------------------------
(* All surfaces, one after the other: a function defined by recursion on a *)
(* prefix of the surfaces exists, and each of its values fits.             *)

LEMMA LeastOf ==
    ASSUME NEW S \in SUBSET Nat, S # {}
    PROVE  \E x \in S : \A y \in S : x <= y
<1> DEFINE Below == {ss \in Nat \X Nat : ss[1] < ss[2]}
<1>1. IsWellFoundedOn(Below, Nat)
  BY NatLessThanWellFounded DEF OpToRel
<1>2. PICK x \in S : \A y \in S : <<y, x>> \notin Below
  <2> HIDE DEF Below
  <2> QED
    BY <1>1, WFMin
<1>3. ASSUME NEW y \in S, ~(x <= y) PROVE FALSE
  <2>1. x \in Nat /\ y \in Nat /\ y < x
    BY <1>3
  <2>2. <<y, x>> \in Below
    BY <2>1
  <2> QED
    BY <1>2, <2>2
<1> QED
  BY <1>3

\* Induction on the prefixes of 1..N
LEMMA UpTo ==
    ASSUME NEW N \in Nat, NEW Good \in SUBSET (0..N), 0 \in Good,
           \A m \in 0..N : m \in Good /\ m < N => m + 1 \in Good
    PROVE  N \in Good
<1> DEFINE Bad == {m \in 0..N : m \notin Good}
<1>1. SUFFICES ASSUME N \notin Good PROVE FALSE
  OBVIOUS
<1>2. PICK b \in Bad : \A c \in Bad : b <= c
  <2>1. Bad \in SUBSET Nat /\ Bad # {}
    BY <1>1
  <2> HIDE DEF Bad
  <2> QED
    BY <2>1, LeastOf
<1>3. b \in 1..N /\ b - 1 \in 0..N /\ b - 1 < N /\ (b - 1) + 1 = b
  BY <1>2
<1>4. b - 1 \in Good
  BY <1>2, <1>3
<1> QED
  BY <1>2, <1>3, <1>4

LEMMA LengthFits ==
    ASSUME NEW Z, Surfaces(Z), NEW st, Fits(st, Z)
    PROVE  Len(Z) \in Nat /\ DOMAIN Z = 1..Len(Z) /\ Len(st.S) = Len(Z)
<1>1. Len(Z) \in Nat /\ DOMAIN Z = 1..Len(Z)
  BY LenProperties DEF Surfaces
<1> DEFINE R == {st.S[i] : i \in 1..Len(Z)}
<1>2. st.S = [i \in 1..Len(Z) |-> st.S[i]]
  BY <1>1 DEF Fits
<1>3. st.S \in [1..Len(Z) -> R]
  BY <1>2
<1>4. st.S \in Seq(R) /\ DOMAIN st.S = 1..Len(Z)
  <2> HIDE DEF R
  <2> QED
    BY <1>1, <1>3, SeqDef
<1>5. DOMAIN st.S = 1..Len(st.S) /\ Len(st.S) \in Nat
  <2> HIDE DEF R
  <2> QED
    BY <1>4, LenProperties
<1> QED
  BY <1>1, <1>4, <1>5

\* What a sequence of drawings can be, and that there is one
Step(st, i, plan, dirty) == IF dirty THEN DrawNextDirty(st, i) ELSE RenderNext(st, i, plan)

Runs(g, st, plan, dirty, m) ==
    g = [n \in 0..m |-> IF n = 0 THEN st ELSE Step(g[n - 1], n, plan, dirty)]

LEMMA DrawingsExist ==
    ASSUME NEW N \in Nat, NEW st, NEW plan, NEW dirty
    PROVE  \E g : Runs(g, st, plan, dirty, N)
<1> DEFINE Good == {m \in 0..N : \E g : Runs(g, st, plan, dirty, m)}
<1>1. 0 \in Good
  <2> DEFINE g == [n \in 0..0 |-> st]
  <2>1. Runs(g, st, plan, dirty, 0)
    BY DEF Runs
  <2> HIDE DEF g
  <2> QED
    BY <2>1
<1>2. ASSUME NEW m \in 0..N, m \in Good, m < N PROVE m + 1 \in Good
  <2>1. PICK g : Runs(g, st, plan, dirty, m)
    BY <1>2
  <2> DEFINE next == Step(g[m], m + 1, plan, dirty)
             h == [n \in 0..(m + 1) |-> IF n = m + 1 THEN next ELSE g[n]]
  <2>2. m \in 0..m /\ m + 1 \in 0..N
    BY <1>2
  <2>3. ASSUME NEW n \in 0..(m + 1)
        PROVE  h[n] = IF n = 0 THEN st ELSE Step(h[n - 1], n, plan, dirty)
    <3>1. CASE n = m + 1
      <4>1. h[n] = next /\ h[n - 1] = g[m] /\ n # 0
        BY <3>1, <2>2
      <4> QED
        BY <3>1, <4>1
    <3>2. CASE n = 0
      <4>1. h[0] = g[0]
        BY <2>2
      <4>2. g[0] = st
        BY <2>1, <2>2 DEF Runs
      <4> QED
        BY <3>2, <4>1, <4>2
    <3>3. CASE n # m + 1 /\ n # 0
      <4>1. n \in 0..m /\ n - 1 \in 0..m
        BY <3>3, <2>2
      <4>2. h[n] = g[n] /\ h[n - 1] = g[n - 1]
        BY <4>1, <2>2
      <4>3. g[n] = Step(g[n - 1], n, plan, dirty)
        BY <2>1, <4>1, <3>3 DEF Runs
      <4> QED
        BY <3>3, <4>2, <4>3
    <3> QED
      BY <3>1, <3>2, <3>3
  <2>4. Runs(h, st, plan, dirty, m + 1)
    <3>1. h = [n \in 0..(m + 1) |-> h[n]]
      OBVIOUS
    <3> HIDE DEF h
    <3> QED
      BY <2>3, <3>1 DEF Runs
  <2> HIDE DEF h
  <2> QED
    BY <2>2, <2>4
<1>3. Good \in SUBSET (0..N)
  OBVIOUS
<1>4. N \in Good
  <2> HIDE DEF Good
  <2> QED
    BY <1>1, <1>2, <1>3, UpTo
<1> QED
  BY <1>4

\* Whatever is drawn one after the other fits, the prompt alone or all of it.
LEMMA RunsFit ==
    ASSUME NEW st, NEW plan, NEW dirty \in BOOLEAN, NEW Z, Surfaces(Z), Fits(st, Z),
           dirty => Z = surf,
           NEW f, Runs(f, st, plan, dirty, Len(Z))
    PROVE  Fits(f[Len(Z)], Z)
<1> DEFINE N == Len(Z)
           Good == {m \in 0..N : Fits(f[m], Z)}
<1>1. N \in Nat /\ DOMAIN Z = 1..N
  BY LengthFits
<1> HIDE DEF N
<1>2. Runs(f, st, plan, dirty, N)
  BY DEF N
<1>3. 0 \in Good
  BY <1>1, <1>2 DEF Runs
<1>4. ASSUME NEW m \in 0..N, m \in Good, m < N PROVE m + 1 \in Good
  <2>1. m + 1 \in 0..N /\ m + 1 # 0 /\ (m + 1) - 1 = m /\ m + 1 \in DOMAIN Z
    BY <1>1, <1>4
  <2>2. f[m + 1] = Step(f[m], m + 1, plan, dirty)
    BY <1>2, <2>1 DEF Runs
  <2>3. Fits(f[m], Z)
    BY <1>4
  <2>4. Fits(RenderNext(f[m], m + 1, plan), Z)
    BY <2>1, <2>3, RenderNextFits
  <2>5. dirty => Fits(DrawNextDirty(f[m], m + 1), Z)
    BY <2>1, <2>3, DrawDirtyFits DEF DrawNextDirty
  <2>6. Fits(f[m + 1], Z)
    BY <2>2, <2>4, <2>5 DEF Step
  <2> QED
    BY <2>1, <2>6
<1>5. Good \in SUBSET (0..N)
  OBVIOUS
<1>6. N \in Good
  <2> HIDE DEF Good
  <2> QED
    BY <1>1, <1>3, <1>4, <1>5, UpTo
<1> QED
  BY <1>6 DEF N

LEMMA RenderAllFits ==
    ASSUME NEW st, NEW Z, Surfaces(Z), Fits(st, Z), NEW plan
    PROVE  Fits(RenderAll(st, plan), Z)
<1> DEFINE f == CHOOSE g : Runs(g, st, plan, FALSE, Len(Z))
<1>1. Len(Z) \in Nat /\ Len(st.S) = Len(Z)
  BY LengthFits
<1>2. Runs(f, st, plan, FALSE, Len(Z))
  <2>1. \E g : Runs(g, st, plan, FALSE, Len(Z))
    BY <1>1, DrawingsExist
  <2> QED
    BY <2>1
<1>3. RenderAll(st, plan) = IF ~st.a.ready THEN [st EXCEPT !.a.pending = TRUE] ELSE f[Len(Z)]
  BY <1>1 DEF RenderAll, Runs, Step
<1> HIDE DEF f
<1>4. Fits(f[Len(Z)], Z)
  BY <1>2, RunsFit
<1>5. Fits([st EXCEPT !.a.pending = TRUE], Z)
  BY PendingFits
<1> QED
  BY <1>3, <1>4, <1>5

LEMMA DrawAllDirtyFits ==
    ASSUME NEW st, Surfaces(surf), Fits(st, surf)
    PROVE  Fits(DrawAllDirty(st), surf)
<1> DEFINE f == CHOOSE g : Runs(g, st, Smooth, TRUE, Len(surf))
<1>1. Len(surf) \in Nat /\ Len(st.S) = Len(surf)
  BY LengthFits
<1>2. Runs(f, st, Smooth, TRUE, Len(surf))
  <2>1. \E g : Runs(g, st, Smooth, TRUE, Len(surf))
    BY <1>1, DrawingsExist
  <2> QED
    BY <2>1
<1>3. DrawAllDirty(st) = IF ~st.a.ready THEN [st EXCEPT !.a.pending = TRUE] ELSE f[Len(surf)]
  BY <1>1 DEF DrawAllDirty, Runs, Step
<1> HIDE DEF f
<1>4. Fits(f[Len(surf)], surf)
  BY <1>2, RunsFit
<1>5. Fits([st EXCEPT !.a.pending = TRUE], surf)
  BY PendingFits
<1> QED
  BY <1>3, <1>4, <1>5

-----------------------------------------------------------------------------
(* What a handler begins with, and ends in.                                *)

\* A handler that keeps the shape of the surfaces
LEMMA Becoming ==
    ASSUME NEW st, NEW Z, Surfaces(Z), Fits(st, Z), Becomes(st)
    PROVE  SceneInv'
<1>1. app' = st.a /\ surf' = st.S
  BY DEF Becomes
<1>2. /\ DOMAIN st.a = AppFields /\ st.a.broken = FALSE
      /\ \A i \in DOMAIN Z : DOMAIN st.S[i] = SurfaceFields /\ st.S[i].out \in Outputs
  BY DEF Fits, Surface, Surfaces
<1>3. DOMAIN st.S = DOMAIN Z
  BY DEF Fits
<1>4. st.S \in Seq({st.S[i] : i \in DOMAIN st.S})
  <2>1. Len(Z) \in Nat /\ DOMAIN Z = 1..Len(Z)
    BY LengthFits
  <2> DEFINE R == {st.S[i] : i \in DOMAIN st.S}
  <2>2. st.S \in [1..Len(Z) -> R]
    BY <1>3, <2>1 DEF Fits
  <2> HIDE DEF R
  <2>3. st.S \in Seq(R)
    BY <2>1, <2>2, SeqDef
  <2> QED
    BY <2>3 DEF R
<1>5. Surfaces(st.S)
  BY <1>2, <1>3, <1>4 DEF Surfaces
<1> QED
  BY <1>1, <1>2, <1>5 DEF SceneInv, Surfaces

LEMMA NowFits ==
    ASSUME SceneInv
    PROVE  Fits(Now, surf)
<1>1. surf = [i \in DOMAIN surf |-> surf[i]]
  <2> DEFINE R == {surf[i] : i \in DOMAIN surf}
  <2>1. surf \in Seq(R)
    BY DEF SceneInv, Surfaces
  <2> HIDE DEF R
  <2>2. surf \in [1..Len(surf) -> R]
    BY <2>1, LenProperties, SeqDef
  <2> QED
    BY <2>2
<1> QED
  BY <1>1 DEF Now, Fits, SceneInv, Surfaces, Surface, StateFields

LEMMA StartedFits ==
    ASSUME NEW st, NEW Z, Fits(st, Z), NEW b
    PROVE  Fits([st EXCEPT !.a.started = b], Z)
BY FieldsOfApp DEF Fits, StateFields

LEMMA DueFits ==
    ASSUME NEW st, NEW Z, Fits(st, Z), NEW d
    PROVE  Fits([st EXCEPT !.due = d], Z)
BY DEF Fits, StateFields

\* All surfaces replaced at once
LEMMA SurfacesFit ==
    ASSUME NEW st, NEW Z, Fits(st, Z), NEW S, S = [i \in DOMAIN Z |-> S[i]],
           \A i \in DOMAIN Z : Surface(S[i], Z[i].out, Z[i].size)
    PROVE  Fits([st EXCEPT !.S = S], Z)
BY DEF Fits, StateFields

LEMMA AppFits ==
    ASSUME NEW st, NEW Z, Fits(st, Z), NEW a, DOMAIN a = AppFields, a.broken = FALSE
    PROVE  Fits([st EXCEPT !.a = a], Z)
BY DEF Fits, StateFields

-----------------------------------------------------------------------------
(* Readiness.                                                              *)

LEMMA RefreshAfterReadyFits ==
    ASSUME NEW st, NEW Z, Fits(st, Z)
    PROVE  Fits(RefreshAfterReady(st), Z)
<1> DEFINE S == [i \in DOMAIN st.S |-> [st.S[i] EXCEPT !.base = Nothing, !.fresh = FALSE]]
           t == [st EXCEPT !.S = S]
<1>1. DOMAIN st.S = DOMAIN Z /\ DOMAIN st = StateFields
  BY DEF Fits
<1>2. \A i \in DOMAIN Z : Surface(S[i], Z[i].out, Z[i].size)
  BY <1>1, FieldsOfSurface DEF Fits, Surface
<1>3. S = [i \in DOMAIN Z |-> S[i]]
  BY <1>1
<1>4. RefreshAfterReady(st) \in {st, [t EXCEPT !.a.pending = TRUE]}
  BY <1>1 DEF RefreshAfterReady, StateFields
<1> HIDE DEF S
<1>5. Fits(t, Z)
  BY <1>2, <1>3, SurfacesFit
<1> HIDE DEF t
<1>6. Fits([t EXCEPT !.a.pending = TRUE], Z)
  BY <1>5, PendingFits
<1> QED
  BY <1>4, <1>6

LEMMA MaybeReadyFits ==
    ASSUME NEW st, NEW Z, Fits(st, Z)
    PROVE  Fits(MaybeReady(st), Z)
<1> DEFINE t == [st EXCEPT !.a.ready = TRUE]
<1>1. Fits(t, Z)
  BY FieldsOfApp DEF Fits, StateFields
<1>2. Fits(RefreshAfterReady(t), Z)
  <2> HIDE DEF t
  <2> QED
    BY <1>1, RefreshAfterReadyFits
<1> QED
  BY <1>2 DEF MaybeReady

LEMMA FlushPendingFits ==
    ASSUME NEW st, NEW Z, Surfaces(Z), Fits(st, Z), NEW plan
    PROVE  Fits(FlushPending(st, plan), Z)
<1> DEFINE t == [st EXCEPT !.a.pending = FALSE]
<1>1. Fits(t, Z)
  BY PendingFits
<1>2. Fits(RenderAll(t, plan), Z)
  <2> HIDE DEF t
  <2> QED
    BY <1>1, RenderAllFits
<1> QED
  BY <1>2 DEF FlushPending

LEMMA ReadiesFits ==
    ASSUME NEW st, NEW Z, Surfaces(Z), Fits(st, Z), NEW plan
    PROVE  Fits(Readies(st, plan), Z)
<1>1. Fits(MaybeReady(st), Z)
  BY MaybeReadyFits
<1>2. Fits(FlushPending(MaybeReady(st), plan), Z)
  BY <1>1, FlushPendingFits
<1> QED
  BY <1>2 DEF Readies

-----------------------------------------------------------------------------
(* One lemma per handler: none of them breaks the curtain.                 *)

LEMMA NewSurfaceFields ==
    ASSUME NEW o \in Outputs
    PROVE  DOMAIN NewSurface(o) = SurfaceFields /\ NewSurface(o).out = o
BY FieldsOfSurface DEF NewSurface

LEMMA StepNewOutput ==
    ASSUME SceneInv, NEW o \in Outputs, NewOutput(o)
    PROVE  SceneInv'
<1> DEFINE new == NewSurface(o)
           T == Append(surf, new)
           R == {surf[i] : i \in DOMAIN surf} \cup {new}
<1>1. DOMAIN new = SurfaceFields /\ new.out = o
  BY NewSurfaceFields
<1> HIDE DEF new
<1>2. /\ surf \in Seq(R) /\ Len(surf) \in Nat /\ DOMAIN surf = 1..Len(surf)
      /\ \A i \in DOMAIN surf : DOMAIN surf[i] = SurfaceFields /\ surf[i].out \in Outputs
  <2> DEFINE Q == {surf[i] : i \in DOMAIN surf}
  <2>1. surf \in Seq(Q) /\ Q \subseteq R
    BY DEF SceneInv, Surfaces
  <2> HIDE DEF Q, R
  <2>2. surf \in Seq(R)
    BY <2>1, SeqDef
  <2> QED
    BY <2>2, LenProperties DEF SceneInv, Surfaces
<1>3. /\ T \in Seq(R) /\ Len(T) = Len(surf) + 1
      /\ \A i \in 1..Len(surf) : T[i] = surf[i]
      /\ T[Len(surf) + 1] = new
  <2>1. new \in R
    OBVIOUS
  <2> HIDE DEF R
  <2> QED
    BY <1>2, <2>1, AppendProperties
<1>4. DOMAIN T = 1..(Len(surf) + 1)
  <2> HIDE DEF R
  <2> QED
    BY <1>3, LenProperties
<1> HIDE DEF T
<1>5. \A i \in DOMAIN T : DOMAIN T[i] = SurfaceFields /\ T[i].out \in Outputs
  <2> SUFFICES ASSUME NEW i \in 1..(Len(surf) + 1)
               PROVE  DOMAIN T[i] = SurfaceFields /\ T[i].out \in Outputs
    BY <1>4
  <2>1. CASE i \in 1..Len(surf)
    BY <2>1, <1>2, <1>3
  <2>2. CASE i = Len(surf) + 1
    BY <2>2, <1>1, <1>3
  <2> QED
    BY <1>2, <2>1, <2>2
<1>6. T \in Seq({T[i] : i \in DOMAIN T})
  <2> DEFINE P == {T[i] : i \in DOMAIN T}
  <2>1. T \in [1..(Len(surf) + 1) -> P]
    <3>1. T \in [1..Len(T) -> R] /\ Len(T) \in Nat
      <4> HIDE DEF R
      <4> QED
        BY <1>3, LenProperties, SeqDef
    <3> HIDE DEF R
    <3> QED
      BY <1>3, <1>4, <3>1
  <2> HIDE DEF P
  <2>2. T \in Seq(P)
    BY <1>2, <2>1, SeqDef
  <2> QED
    BY <2>2 DEF P
<1>7. surf' = T /\ app' = [app EXCEPT !.started = FALSE]
  BY DEF NewOutput, T, new
<1>8. DOMAIN app' = AppFields /\ app'.broken = FALSE
  BY <1>7, FieldsOfApp DEF SceneInv
<1> QED
  BY <1>5, <1>6, <1>7, <1>8 DEF SceneInv, Surfaces

LEMMA StepOutputDestroyed ==
    ASSUME SceneInv, NEW i \in DOMAIN surf, OutputDestroyed(i)
    PROVE  SceneInv'
<1> DEFINE R == {surf[k] : k \in DOMAIN surf}
           T == RemoveAt(surf, i)
<1>1. surf \in Seq(R) /\ Len(surf) \in Nat /\ DOMAIN surf = 1..Len(surf)
  <2>1. surf \in Seq(R)
    BY DEF SceneInv, Surfaces
  <2> HIDE DEF R
  <2> QED
    BY <2>1, LenProperties
<1>2. T \in Seq(R)
  <2> HIDE DEF R
  <2>1. SubSeq(surf, 1, i - 1) \in Seq(R)
    BY <1>1, SubSeqProperties
  <2>2. SubSeq(surf, i + 1, Len(surf)) \in Seq(R)
    BY <1>1, SubSeqProperties
  <2>3. SubSeq(surf, 1, i - 1) \o SubSeq(surf, i + 1, Len(surf)) \in Seq(R)
    BY <2>1, <2>2, ConcatProperties
  <2> QED
    BY <2>3 DEF RemoveAt
<1> HIDE DEF T
<1>3. T \in [1..Len(T) -> R] /\ Len(T) \in Nat /\ DOMAIN T = 1..Len(T)
  <2> HIDE DEF R
  <2> QED
    BY <1>2, LenProperties, SeqDef
<1>4. \A k \in DOMAIN T : DOMAIN T[k] = SurfaceFields /\ T[k].out \in Outputs
  <2>1. \A r \in R : DOMAIN r = SurfaceFields /\ r.out \in Outputs
    BY DEF SceneInv, Surfaces
  <2> HIDE DEF R
  <2> QED
    BY <1>3, <2>1
<1>5. T \in Seq({T[k] : k \in DOMAIN T})
  <2> DEFINE P == {T[k] : k \in DOMAIN T}
  <2>1. T \in [1..Len(T) -> P]
    <3> HIDE DEF R
    <3> QED
      BY <1>3
  <2> HIDE DEF P
  <2>2. T \in Seq(P)
    BY <1>3, <2>1, SeqDef
  <2> QED
    BY <2>2 DEF P
<1>6. surf' = T
  BY DEF OutputDestroyed, T
<1>7. DOMAIN app' = AppFields /\ app'.broken = FALSE
  BY FieldsOfApp DEF SceneInv, OutputDestroyed
<1> QED
  BY <1>4, <1>5, <1>6, <1>7 DEF SceneInv, Surfaces

\* A surface that is given another size is still one.
LEMMA ResizedFits ==
    ASSUME SceneInv, NEW i \in DOMAIN surf, NEW z
    PROVE  /\ Surfaces([surf EXCEPT ![i].size = z])
           /\ DOMAIN [surf EXCEPT ![i].size = z] = DOMAIN surf
           /\ [surf EXCEPT ![i].size = z][i].size = z
           /\ Fits([Now EXCEPT !.S = [surf EXCEPT ![i].size = z]], [surf EXCEPT ![i].size = z])
<1> DEFINE Z == [surf EXCEPT ![i].size = z]
           t == [Now EXCEPT !.S = Z]
           P == {Z[k] : k \in DOMAIN Z}
<1>1. Len(surf) \in Nat /\ DOMAIN surf = 1..Len(surf) /\ Fits(Now, surf) /\ Surfaces(surf)
  BY NowFits, LengthFits DEF SceneInv
<1>2. Z = [k \in DOMAIN surf |-> IF k = i THEN [surf[i] EXCEPT !.size = z] ELSE surf[k]]
  OBVIOUS
<1>3. DOMAIN Z = DOMAIN surf /\ Z = [k \in DOMAIN Z |-> Z[k]]
  BY <1>2
<1> HIDE DEF Z
<1>4. \A k \in DOMAIN Z : /\ DOMAIN Z[k] = SurfaceFields /\ Z[k].out \in Outputs
                          /\ k = i => Z[k].size = z
  BY <1>1, <1>2, <1>3, FieldsOfSurface DEF Surfaces
<1>5. Z \in Seq(P)
  <2>1. Z \in [1..Len(surf) -> P]
    BY <1>1, <1>3
  <2> HIDE DEF P
  <2> QED
    BY <1>1, <2>1, SeqDef
<1>6. Surfaces(Z)
  BY <1>4, <1>5 DEF Surfaces
<1>7. \A k \in DOMAIN Z : Surface(Z[k], Z[k].out, Z[k].size)
  BY <1>4 DEF Surface
<1>8. t.S = Z /\ DOMAIN t = StateFields /\ t.a = Now.a
  BY DEF Now, StateFields
<1>9. Fits(t, Z)
  BY <1>1, <1>3, <1>7, <1>8 DEF Fits
<1> QED
  BY <1>3, <1>4, <1>6, <1>9 DEF Z

LEMMA StepConfigureSurface ==
    ASSUME SceneInv, NEW i \in DOMAIN surf, NEW z, NEW plan, ConfigureSurface(i, z, plan)
    PROVE  SceneInv'
<1> DEFINE Z == [surf EXCEPT ![i].size = z]
           one == [Now EXCEPT !.S = Z]
           two == [one EXCEPT !.due = Due(jobs', events)]
           st == [two EXCEPT !.a.started = @ \/ StartsLoading(app, Z)]
           r == RenderWithFallback(st, i, plan)
           q == Resized(r, i, jobs')
<1>1. surf[i].out \in Outputs
  BY DEF SceneInv, Surfaces
<1>2. z # 0
  BY <1>1, ModesAssumption DEF ConfigureSurface
<1>3. Becomes(Readies(q, plan))
  <2>1. Becomes(Readies(Resized(RenderWithFallback(
            [Now EXCEPT !.S = Z, !.due = Due(jobs', events),
                        !.a.started = @ \/ StartsLoading(app, Z)], i, plan), i, jobs'), plan))
    BY DEF ConfigureSurface
  <2>2. [Now EXCEPT !.S = Z, !.due = Due(jobs', events),
                    !.a.started = @ \/ StartsLoading(app, Z)] = st
    BY DEF Now
  <2> HIDE DEF Z, st
  <2> QED
    BY <2>1, <2>2 DEF q, r
<1>4. Surfaces(Z) /\ DOMAIN Z = DOMAIN surf /\ Z[i].size = z /\ Fits(one, Z)
  BY ResizedFits
<1> HIDE DEF Z, one
<1>5. Fits(two, Z)
  <2> DEFINE d == Due(jobs', events)
  <2> HIDE DEF d
  <2> SUFFICES Fits([one EXCEPT !.due = d], Z)
    BY DEF d
  <2> QED
    BY <1>4, DueFits
<1> HIDE DEF two
<1>6. Fits(st, Z)
  BY <1>5, StartedFits
<1> HIDE DEF st
<1>7. Fits(r, Z)
  BY <1>2, <1>4, <1>6, RenderWithFallbackFits
<1> HIDE DEF r
<1>8. Fits(q, Z)
  BY <1>7, OddFits DEF Resized
<1> HIDE DEF q
<1>9. Fits(Readies(q, plan), Z)
  BY <1>4, <1>8, ReadiesFits
<1> QED
  BY <1>3, <1>4, <1>9, Becoming

LEMMA StepReconfigureSurface ==
    ASSUME SceneInv, NEW i \in DOMAIN surf, NEW plan, ReconfigureSurface(i, plan)
    PROVE  SceneInv'
<1> DEFINE two == [Now EXCEPT !.due = Due(jobs', events)]
           st == [two EXCEPT !.a.started = @ \/ StartsLoading(app, surf)]
           r == RenderWithFallback(st, i, plan)
<1>1. Becomes(Readies(r, plan)) /\ surf[i].size # 0
  <2>1. Becomes(Readies(RenderWithFallback(
            [Now EXCEPT !.due = Due(jobs', events),
                        !.a.started = @ \/ StartsLoading(app, surf)], i, plan), plan))
        /\ surf[i].size # 0
    BY DEF ReconfigureSurface
  <2>2. [Now EXCEPT !.due = Due(jobs', events),
                    !.a.started = @ \/ StartsLoading(app, surf)] = st
    BY DEF Now
  <2> HIDE DEF st
  <2> QED
    BY <2>1, <2>2 DEF r
<1>2. Fits(Now, surf) /\ Surfaces(surf)
  BY NowFits DEF SceneInv
<1>3. Fits(two, surf)
  <2> DEFINE d == Due(jobs', events)
  <2> HIDE DEF d
  <2> SUFFICES Fits([Now EXCEPT !.due = d], surf)
    BY DEF d
  <2> QED
    BY <1>2, DueFits
<1> HIDE DEF two
<1>4. Fits(st, surf)
  BY <1>3, StartedFits
<1> HIDE DEF st
<1>5. Fits(r, surf)
  BY <1>1, <1>4, RenderWithFallbackFits
<1> HIDE DEF r
<1>6. Fits(Readies(r, plan), surf)
  BY <1>2, <1>5, ReadiesFits
<1> QED
  BY <1>1, <1>2, <1>6, Becoming

LEMMA StepRescale ==
    ASSUME SceneInv, NEW i \in DOMAIN surf, NEW z, NEW plan, Rescale(i, z, plan)
    PROVE  SceneInv'
<1> DEFINE Z == [surf EXCEPT ![i].size = z]
           st == [Now EXCEPT !.S = Z]
           r == RenderSurface(st, i, {plan.at})
           q == Resized(GiveUp(r), i, jobs)
<1>1. surf[i].out \in Outputs
  BY DEF SceneInv, Surfaces
<1>2. z # 0
  BY <1>1, ModesAssumption DEF Rescale
<1>3. Becomes(q)
  <2>1. Becomes(Resized(GiveUp(RenderSurface([Now EXCEPT !.S[i].size = z], i, {plan.at})), i, jobs))
    BY DEF Rescale
  <2>2. [Now EXCEPT !.S[i].size = z] = st
    BY DEF Now
  <2> HIDE DEF st
  <2> QED
    BY <2>1, <2>2 DEF q, r
<1>4. Surfaces(Z) /\ DOMAIN Z = DOMAIN surf /\ Z[i].size = z /\ Fits(st, Z)
  BY ResizedFits
<1> HIDE DEF Z, st
<1>5. Fits(r, Z)
  BY <1>2, <1>4, RenderSurfaceFits
<1> HIDE DEF r
<1>6. Fits(GiveUp(r), Z)
  BY <1>5, GiveUpFits
<1>7. Fits(q, Z)
  BY <1>6, OddFits DEF Resized
<1> HIDE DEF q
<1> QED
  BY <1>3, <1>4, <1>7, Becoming

LEMMA StepLocked ==
    ASSUME SceneInv, NEW plan, Locked(plan)
    PROVE  SceneInv'
<1> DEFINE st == [Now EXCEPT !.a.locked = TRUE]
<1>1. Fits(Now, surf) /\ Surfaces(surf)
  BY NowFits DEF SceneInv
<1>2. Fits(st, surf)
  BY <1>1, FieldsOfApp DEF Fits, StateFields
<1>3. Becomes(FlushPending(MaybeReady(st), plan))
  BY DEF Locked
<1> HIDE DEF st
<1>4. Fits(MaybeReady(st), surf)
  BY <1>2, MaybeReadyFits
<1>5. Fits(FlushPending(MaybeReady(st), plan), surf)
  BY <1>1, <1>4, FlushPendingFits
<1> QED
  BY <1>1, <1>3, <1>5, Becoming

LEMMA StepFocus ==
    ASSUME SceneInv, NEW i, NEW plan, Focus(i, plan)
    PROVE  SceneInv'
<1> DEFINE st == [Now EXCEPT !.a.focused = i]
           moved == PrimaryIndex(st.a, surf) # PrimaryIndex(app, surf)
           t == IF moved THEN RenderAll(st, plan) ELSE st
<1>1. Fits(Now, surf) /\ Surfaces(surf)
  BY NowFits DEF SceneInv
<1>2. Fits(st, surf)
  BY <1>1, FieldsOfApp DEF Fits, StateFields
<1>3. Becomes(t)
  BY DEF Focus
<1> HIDE DEF st, moved
<1>4. Fits(t, surf)
  BY <1>1, <1>2, RenderAllFits
<1> HIDE DEF t
<1> QED
  BY <1>1, <1>3, <1>4, Becoming

LEMMA StepTick ==
    ASSUME SceneInv, NEW plan, Tick(plan)
    PROVE  SceneInv'
<1>1. Fits(Now, surf) /\ Surfaces(surf)
  BY NowFits DEF SceneInv
<1>2. Fits(RenderAll(Now, plan), surf)
  BY <1>1, RenderAllFits
<1>3. Becomes(RenderAll(Now, plan))
  BY DEF Tick
<1> QED
  BY <1>1, <1>2, <1>3, Becoming

LEMMA StepKeyPressed ==
    ASSUME SceneInv, KeyPressed
    PROVE  SceneInv'
<1>1. Fits(Now, surf) /\ Surfaces(surf)
  BY NowFits DEF SceneInv
<1>2. Fits(DrawAllDirty(Now), surf)
  BY <1>1, DrawAllDirtyFits
<1>3. Becomes(DrawAllDirty(Now))
  BY DEF KeyPressed
<1> QED
  BY <1>1, <1>2, <1>3, Becoming

LEMMA StepShellChanges ==
    ASSUME SceneInv, NEW asStored, NEW plan, ShellChanges(asStored, plan)
    PROVE  SceneInv'
<1> DEFINE S == [i \in DOMAIN surf |-> [surf[i] EXCEPT !.fresh = FALSE]]
           one == [Now EXCEPT !.a.asStored = asStored]
           st == [one EXCEPT !.S = S]
<1>1. Fits(Now, surf) /\ Surfaces(surf)
  BY NowFits DEF SceneInv
<1>2. Fits(one, surf) /\ one.S = surf /\ DOMAIN one = StateFields
  BY <1>1, FieldsOfApp DEF Fits, StateFields, Now
<1>3. \A i \in DOMAIN surf : Surface(S[i], surf[i].out, surf[i].size)
  BY <1>1, FieldsOfSurface DEF Surfaces, Surface
<1>4. Becomes(RenderAll(st, plan))
  <2>1. Becomes(RenderAll([Now EXCEPT !.a.asStored = asStored,
                !.S = [i \in DOMAIN @ |-> [@[i] EXCEPT !.fresh = FALSE]]], plan))
    BY DEF ShellChanges
  <2>2. [Now EXCEPT !.a.asStored = asStored,
                !.S = [i \in DOMAIN @ |-> [@[i] EXCEPT !.fresh = FALSE]]] = st
    BY DEF Now
  <2> HIDE DEF st
  <2> QED
    BY <2>1, <2>2
<1>5. S = [i \in DOMAIN surf |-> S[i]]
  OBVIOUS
<1> HIDE DEF one, S
<1>6. Fits(st, surf)
  BY <1>2, <1>3, <1>5, SurfacesFit
<1> HIDE DEF st
<1>7. Fits(RenderAll(st, plan), surf)
  BY <1>1, <1>6, RenderAllFits
<1> QED
  BY <1>1, <1>4, <1>7, Becoming

\* The slide show and the configuration: every frame goes, then all is drawn.
LEMMA NewSourceKeeps ==
    ASSUME SceneInv, NEW a, DOMAIN a = AppFields, a.broken = FALSE, NEW plan,
           WithNewSource(a, plan)
    PROVE  SceneInv'
<1> DEFINE bare == [a EXCEPT !.started = FALSE]
           S == [i \in DOMAIN surf |-> WithoutFrames(surf[i])]
           d == Now.due \cup Due(NewJobs(bare, surf), <<>>)
           one == [Now EXCEPT !.a = bare]
           two == [one EXCEPT !.odd = FALSE]
           three == [two EXCEPT !.S = S]
           st == [three EXCEPT !.due = d]
           r == RenderAll(st, plan)
           t == [r EXCEPT !.a.started = StartsLoading(r.a, r.S)]
<1>1. Fits(Now, surf) /\ Surfaces(surf)
  BY NowFits DEF SceneInv
<1>2. DOMAIN bare = AppFields /\ bare.broken = FALSE
  BY FieldsOfApp
<1>3. Becomes(t)
  <2>1. \E x \in {RenderAll([Now EXCEPT !.a = bare, !.odd = FALSE,
                    !.S = [i \in DOMAIN @ |-> WithoutFrames(@[i])],
                    !.due = @ \cup Due(NewJobs(bare, surf), <<>>)], plan)} : ThenLoads(x)
    BY DEF WithNewSource
  <2>2. [Now EXCEPT !.a = bare, !.odd = FALSE,
                    !.S = [i \in DOMAIN @ |-> WithoutFrames(@[i])],
                    !.due = @ \cup Due(NewJobs(bare, surf), <<>>)] = st
    BY DEF Now
  <2> HIDE DEF st, bare
  <2>3. ThenLoads(r)
    BY <2>1, <2>2
  <2> QED
    BY <2>3 DEF ThenLoads
<1>4. \A i \in DOMAIN surf : Surface(S[i], surf[i].out, surf[i].size)
  <2> SUFFICES ASSUME NEW i \in DOMAIN surf
               PROVE  Surface(S[i], surf[i].out, surf[i].size)
    OBVIOUS
  <2>1. Surface(surf[i], surf[i].out, surf[i].size)
    BY <1>1 DEF Surfaces, Surface
  <2> QED
    BY <2>1, WithoutFramesFits
<1>5. S = [i \in DOMAIN surf |-> S[i]]
  OBVIOUS
<1> HIDE DEF bare, d
<1>6. Fits(one, surf)
  BY <1>1, <1>2, AppFits
<1> HIDE DEF one
<1>7. Fits(two, surf)
  <2> DEFINE o == FALSE
  <2> HIDE DEF o
  <2> SUFFICES Fits([one EXCEPT !.odd = o], surf)
    BY DEF o
  <2> QED
    BY <1>6, OddFits
<1> HIDE DEF two, S
<1>8. Fits(three, surf)
  BY <1>4, <1>5, <1>7, SurfacesFit
<1> HIDE DEF three
<1>9. Fits(st, surf)
  BY <1>8, DueFits
<1> HIDE DEF st
<1>10. Fits(r, surf)
  BY <1>1, <1>9, RenderAllFits
<1> HIDE DEF r
<1>11. Fits(t, surf)
  BY <1>10, StartedFits
<1> HIDE DEF t
<1> QED
  BY <1>1, <1>3, <1>11, Becoming

LEMMA ConfiguredFields ==
    ASSUME NEW a, DOMAIN a = AppFields, a.broken = FALSE, NEW c, NEW sl
    PROVE  DOMAIN Configured(a, c, sl) = AppFields /\ Configured(a, c, sl).broken = FALSE
BY FieldsOfApp DEF Configured

LEMMA StepAdvanceSlides ==
    ASSUME SceneInv, NEW plan, AdvanceSlides(plan)
    PROVE  SceneInv'
<1>1. PICK sl \in Advanced(app.slides) :
        WithNewSource([app EXCEPT !.slides = sl, !.path = sl.order[sl.at]], plan)
  BY DEF AdvanceSlides
<1> DEFINE a == [app EXCEPT !.slides = sl, !.path = sl.order[sl.at]]
<1>2. DOMAIN a = AppFields /\ a.broken = FALSE
  BY FieldsOfApp DEF SceneInv
<1> HIDE DEF a
<1>3. WithNewSource(a, plan)
  BY <1>1 DEF a
<1> QED
  BY <1>2, <1>3, NewSourceKeeps

LEMMA StepReload ==
    ASSUME SceneInv, NEW c, NEW plan, Reload(c, plan)
    PROVE  SceneInv'
<1>1. PICK sl \in (IF c.slides THEN Starts ELSE {<<>>}) :
        WithNewSource([Configured(app, c, sl) EXCEPT !.asStored = TRUE], plan)
  BY DEF Reload
<1> DEFINE b == Configured(app, c, sl)
           a == [b EXCEPT !.asStored = TRUE]
<1>2. DOMAIN b = AppFields /\ b.broken = FALSE
  BY ConfiguredFields DEF SceneInv
<1> HIDE DEF b
<1>3. DOMAIN a = AppFields /\ a.broken = FALSE
  BY <1>2, FieldsOfApp
<1> HIDE DEF a
<1>4. WithNewSource(a, plan)
  BY <1>1 DEF a, b
<1> QED
  BY <1>3, <1>4, NewSourceKeeps

\* A loader's frames: a surface that takes one loses its old ones.
LEMMA StepBuffersReady ==
    ASSUME SceneInv, NEW e, NEW plan, BuffersReady(e, plan)
    PROVE  SceneInv'
<1> DEFINE taken == {i \in DOMAIN surf : Takes(app, surf[i], e)}
           S == [i \in DOMAIN surf |->
                    IF i \in taken THEN Installed(surf[i], e)
                    ELSE IF Selected(app, surf[i]) = e.src /\ surf[i].size = 0
                    THEN [surf[i] EXCEPT !.bg = Nothing] ELSE surf[i]]
           d == Due(jobs, Tail(events))
           o == odd \/ \E i \in DOMAIN surf : Mistaken(app, surf[i], e)
           one == [Now EXCEPT !.S = S]
           two == [one EXCEPT !.due = d]
           st == [two EXCEPT !.odd = o]
           t == IF taken = {} THEN st ELSE RenderAll(st, plan)
<1>1. Fits(Now, surf) /\ Surfaces(surf)
  BY NowFits DEF SceneInv
<1>2. Becomes(t)
  <2>1. [Now EXCEPT
            !.S = [i \in DOMAIN @ |->
                    IF i \in taken THEN Installed(@[i], e)
                    ELSE IF Selected(app, @[i]) = e.src /\ @[i].size = 0
                    THEN [@[i] EXCEPT !.bg = Nothing] ELSE @[i]],
            !.due = d,
            !.odd = @ \/ \E i \in DOMAIN surf : Mistaken(app, surf[i], e)] = st
    <3> HIDE DEF taken
    <3> QED
      BY DEF Now
  <2> HIDE DEF st
  <2> QED
    BY <2>1 DEF BuffersReady
<1> HIDE DEF taken
<1>3. \A i \in DOMAIN surf : Surface(S[i], surf[i].out, surf[i].size)
  <2> SUFFICES ASSUME NEW i \in DOMAIN surf
               PROVE  Surface(S[i], surf[i].out, surf[i].size)
    OBVIOUS
  <2>1. Surface(surf[i], surf[i].out, surf[i].size)
    BY <1>1 DEF Surfaces, Surface
  <2>2. Surface(Installed(surf[i], e), surf[i].out, surf[i].size)
    BY <2>1, FieldsOfSurface DEF Installed, Surface
  <2>3. Surface([surf[i] EXCEPT !.bg = Nothing], surf[i].out, surf[i].size)
    BY <2>1, BgFits
  <2> QED
    BY <2>1, <2>2, <2>3
<1>4. S = [i \in DOMAIN surf |-> S[i]]
  OBVIOUS
<1> HIDE DEF S, d, o
<1>5. Fits(one, surf)
  BY <1>1, <1>3, <1>4, SurfacesFit
<1> HIDE DEF one
<1>6. Fits(two, surf)
  BY <1>5, DueFits
<1> HIDE DEF two
<1>7. Fits(st, surf)
  BY <1>6, OddFits
<1> HIDE DEF st
<1>8. Fits(t, surf)
  BY <1>1, <1>7, RenderAllFits
<1> HIDE DEF t
<1> QED
  BY <1>1, <1>2, <1>8, Becoming

LEMMA StepDrainEvent ==
    ASSUME SceneInv, NEW plan, DrainEvent(plan)
    PROVE  SceneInv'
<1> DEFINE e == Head(events)
<1>1. AssetReady(e) \/ UNCHANGED <<app, surf>> \/ BuffersReady(e, plan)
  BY DEF DrainEvent
<1>2. CASE AssetReady(e)
  <2>1. DOMAIN app' = AppFields /\ app'.broken = FALSE /\ surf' = surf
    <3> DEFINE p == Picture(e.src, e.look)
    <3>1. app' \in {[app EXCEPT !.asset = p], app} /\ surf' = surf
      BY <1>2 DEF AssetReady
    <3> HIDE DEF p
    <3> QED
      BY <3>1, FieldsOfApp DEF SceneInv
  <2> QED
    BY <2>1 DEF SceneInv, Surfaces
<1>3. CASE UNCHANGED <<app, surf>>
  BY <1>3 DEF SceneInv, Surfaces
<1>4. CASE BuffersReady(e, plan)
  <2> HIDE DEF e
  <2> QED
    BY <1>4, StepBuffersReady
<1> QED
  BY <1>1, <1>2, <1>3, <1>4

-----------------------------------------------------------------------------
LEMMA SceneInvInit == Init => SceneInv
<1> SUFFICES ASSUME Init PROVE SceneInv
  OBVIOUS
<1>1. PICK l \in Launches :
        /\ \E sl \in (IF l.config.slides THEN Starts ELSE {<<>>}) :
            app = Configured(Fresh, l.config, sl)
        /\ surf = [i \in DOMAIN l.outputs |-> NewSurface(l.outputs[i])]
  BY DEF Init
<1>2. DOMAIN app = AppFields /\ app.broken = FALSE
  <2>1. DOMAIN Fresh = AppFields /\ Fresh.broken = FALSE
    BY DEF AppFields, Fresh
  <2> QED
    BY <1>1, <2>1, ConfiguredFields
<1> DEFINE out == l.outputs
           R == {surf[i] : i \in DOMAIN surf}
<1>3. out \in Seq(Outputs)
  BY LaunchesAssumption
<1> HIDE DEF out
<1>4. Len(out) \in Nat /\ DOMAIN out = 1..Len(out) /\ \A i \in DOMAIN out : out[i] \in Outputs
  BY <1>3, LenProperties, ElementOfSeq
<1>5. surf = [i \in 1..Len(out) |-> NewSurface(out[i])]
  BY <1>1, <1>4 DEF out
<1>6. surf \in Seq(R)
  <2>1. surf \in [1..Len(out) -> R]
    BY <1>5
  <2> HIDE DEF R
  <2> QED
    BY <1>4, <2>1, SeqDef
<1>7. \A i \in DOMAIN surf : DOMAIN surf[i] = SurfaceFields /\ surf[i].out \in Outputs
  BY <1>4, <1>5, NewSurfaceFields
<1> QED
  BY <1>2, <1>6, <1>7 DEF SceneInv, Surfaces

LEMMA SceneInvNext == SceneInv /\ [Next]_vars => SceneInv'
<1> SUFFICES ASSUME SceneInv, [Next]_vars PROVE SceneInv'
  OBVIOUS
<1>1. CASE \E o \in Outputs : NewOutput(o)
  BY <1>1, StepNewOutput
<1>2. CASE \E i \in DOMAIN surf : OutputDestroyed(i)
  BY <1>2, StepOutputDestroyed
<1>3. CASE UNCHANGED <<app, surf>>
  BY <1>3 DEF SceneInv, Surfaces
<1>4. CASE KeyPressed
  BY <1>4, StepKeyPressed
<1>5. CASE \E plan \in Plans(surf) :
              \/ Locked(plan) \/ Tick(plan) \/ AdvanceSlides(plan) \/ DrainEvent(plan)
              \/ \E c \in Configs : Reload(c, plan)
              \/ \E asStored \in BOOLEAN : ShellChanges(asStored, plan)
              \/ \E i \in DOMAIN surf : Focus(i, plan) \/ ReconfigureSurface(i, plan)
              \/ \E i \in DOMAIN surf, z \in Sizes :
                    ConfigureSurface(i, z, plan) \/ Rescale(i, z, plan)
  <2> PICK plan \in Plans(surf) :
              \/ Locked(plan) \/ Tick(plan) \/ AdvanceSlides(plan) \/ DrainEvent(plan)
              \/ \E c \in Configs : Reload(c, plan)
              \/ \E asStored \in BOOLEAN : ShellChanges(asStored, plan)
              \/ \E i \in DOMAIN surf : Focus(i, plan) \/ ReconfigureSurface(i, plan)
              \/ \E i \in DOMAIN surf, z \in Sizes :
                    ConfigureSurface(i, z, plan) \/ Rescale(i, z, plan)
    BY <1>5
  <2>1. CASE Locked(plan)
    BY <2>1, StepLocked
  <2>2. CASE Tick(plan)
    BY <2>2, StepTick
  <2>3. CASE AdvanceSlides(plan)
    BY <2>3, StepAdvanceSlides
  <2>4. CASE DrainEvent(plan)
    BY <2>4, StepDrainEvent
  <2>5. CASE \E c \in Configs : Reload(c, plan)
    BY <2>5, StepReload
  <2>6. CASE \E asStored \in BOOLEAN : ShellChanges(asStored, plan)
    BY <2>6, StepShellChanges
  <2>7. CASE \E i \in DOMAIN surf : Focus(i, plan) \/ ReconfigureSurface(i, plan)
    BY <2>7, StepFocus, StepReconfigureSurface
  <2>8. CASE \E i \in DOMAIN surf, z \in Sizes :
                ConfigureSurface(i, z, plan) \/ Rescale(i, z, plan)
    BY <2>8, StepConfigureSurface, StepRescale
  <2> QED
    BY <2>1, <2>2, <2>3, <2>4, <2>5, <2>6, <2>7, <2>8
<1>6. ASSUME \/ \E k \in Elsewhere : StoredElsewhere(k)
             \/ \E j \in jobs : LookUp(j) \/ RenderBuffers(j) \/ Store(j)
             \/ UNCHANGED vars
      PROVE  UNCHANGED <<app, surf>>
  BY <1>6 DEF StoredElsewhere, LookUp, RenderBuffers, Store, vars
<1> QED
  BY <1>1, <1>2, <1>3, <1>4, <1>5, <1>6 DEF Next

\* For every set of outputs, images, sizes and configurations: the surfaces keep
\* their shape, and no redraw has come to one of the two error paths.
THEOREM SceneInvHolds == Spec => []SceneInv
<1> QED
  BY SceneInvInit, SceneInvNext, PTL DEF Spec

\* prepare_background and prepare_scene_base never fail to find a buffer.
THEOREM RedrawsFindTheirBuffers == Spec => []BuffersAreThere
<1>1. SceneInv => BuffersAreThere
  BY DEF SceneInv, BuffersAreThere
<1> QED
  BY <1>1, SceneInvHolds, PTL

-----------------------------------------------------------------------------
(* What a frame shows.  Unless one of the known races is on record, every   *)
(* frame that a redraw may use again shows the picture wanted on its        *)
(* surface, or a loader is going to replace it, and every surface can still *)
(* get its picture.  `old` allows for frames of another size: a surface     *)
(* keeps them while a handler gives it a new one.                           *)

FrameOK(a, due, s, f, old) ==
    /\ s.path = Selected(a, s)
    /\ \/ f.picture = Wanted(a, s)
       \/ Selected(a, s) \in Unreadable
       \/ /\ Selected(a, s) # None /\ f.size = s.size
          /\ ~a.started \/ <<Selected(a, s), s.size>> \in due
       \/ old /\ f.size # s.size

Served(a, s, C, J) ==
    \/ ~a.started \/ Selected(a, s) \in Unreadable \cup {None} \/ s.size = 0
    \/ a.asset = Wanted(a, s) \/ Cached(a, C, s, "plain")
    \/ \E j \in J : /\ ~j.preload /\ Picture(j.src, j.look) = Wanted(a, s)
                    /\ s.size \in j.sizes

LayersOK(a, s) ==
    s.fresh => (s.base.layers => HasLayers(a)) /\ (a.ready /\ HasLayers(a) => s.base.layers)

\* A slide show, somewhere in its sequence
Show(sl) ==
    /\ DOMAIN sl = {"order", "at"}
    /\ sl.order \in [1..Cardinality(Paths) -> Paths] /\ sl.at \in 1..Cardinality(Paths)

\* The picture at hand is of the selected image, except in a slide show.
AssetOK(a) ==
    /\ a.slides # <<>> \/ a.asset.src \in {None, a.path}
    /\ a.path = None => a.asset.src = None
    /\ a.asset.src = None => a.asset = Picture(None, a.look)
    /\ a.slides = <<>> \/ Show(a.slides)

Sound(st, J, s, old) ==
    /\ LayersOK(st.a, s)
    /\ \/ st.odd
       \/ /\ old \/ Served(st.a, s, st.C, J)
          /\ \A f \in Frames(s) : FrameOK(st.a, st.due, s, f, old)

\* W is what a handler draws with: the surfaces it began with as Z, the cache,
\* what is due, the loaders, and whether they were started.  R has the surface
\* that was given a new size.
Good(st, W, R) ==
    /\ AssetOK(st.a)
    /\ st.C = W.C /\ st.due = W.due /\ st.a.started = W.started
    /\ \A i \in DOMAIN W.Z : Sound(st, W.J, st.S[i], i \in R)

\* The same in all that decides on pictures and prompts
Like(a, b) ==
    /\ b.path = a.path /\ b.own = a.own /\ b.slides = a.slides /\ b.generated = a.generated
    /\ b.look = a.look /\ b.asset = a.asset /\ b.layers = a.layers /\ b.backdrops = a.backdrops
    /\ b.asStored = a.asStored /\ b.ready = a.ready /\ b.started = a.started
    /\ b.emergency = a.emergency /\ b.single = a.single /\ b.named = a.named
    /\ b.focused = a.focused

\* What drawing the surface i may change while nothing fails
Draws(st, t, i) ==
    /\ t.C = st.C /\ t.due = st.due /\ t.error = st.error
    /\ Like(st.a, t.a) /\ t.a.failed = st.a.failed
    /\ \A k \in DOMAIN st.S \ {i} : t.S[k] = st.S[k]
    /\ st.odd => t.odd

LEMMA SelectedByOutput ==
    ASSUME NEW a, NEW s, NEW t, t.out = s.out
    PROVE  Selected(a, t) = Selected(a, s) /\ Wanted(a, t) = Wanted(a, s)
BY DEF Selected, Wanted

LEMMA CachedByOutput ==
    ASSUME NEW a, NEW C, NEW s, NEW t, t.out = s.out, t.size = s.size, NEW kind
    PROVE  Cached(a, C, t, kind) <=> Cached(a, C, s, kind)
BY SelectedByOutput DEF Cached

LEMMA ServedByOutput ==
    ASSUME NEW a, NEW C, NEW J, NEW s, NEW t, t.out = s.out, t.size = s.size
    PROVE  Served(a, t, C, J) <=> Served(a, s, C, J)
BY SelectedByOutput, CachedByOutput DEF Served

LEMMA LikeSelects ==
    ASSUME NEW a, NEW b, Like(a, b), NEW s
    PROVE  /\ Selected(b, s) = Selected(a, s)
           /\ Wanted(b, s) = Wanted(a, s)
           /\ HasLayers(b) <=> HasLayers(a)
BY DEF Like, Selected, Wanted, HasLayers

LEMMA LikeCaches ==
    ASSUME NEW a, NEW b, Like(a, b), NEW s, NEW C, NEW kind
    PROVE  Cached(b, C, s, kind) <=> Cached(a, C, s, kind)
<1>1. Selected(b, s) = Selected(a, s) /\ (HasLayers(b) <=> HasLayers(a))
  BY LikeSelects
<1> QED
  BY <1>1 DEF Like, Cached

LEMMA LikeServes ==
    ASSUME NEW a, NEW b, Like(a, b), NEW s, NEW C, NEW J
    PROVE  Served(b, s, C, J) <=> Served(a, s, C, J)
<1>1. /\ Selected(b, s) = Selected(a, s) /\ Wanted(b, s) = Wanted(a, s)
      /\ Cached(b, C, s, "plain") <=> Cached(a, C, s, "plain")
  BY LikeSelects, LikeCaches
<1>2. b.started = a.started /\ b.asset = a.asset
  BY DEF Like
<1> QED
  BY <1>1, <1>2 DEF Served

LEMMA LikeFrames ==
    ASSUME NEW a, NEW b, Like(a, b), NEW s, NEW due, NEW f, NEW old
    PROVE  /\ FrameOK(b, due, s, f, old) <=> FrameOK(a, due, s, f, old)
           /\ LayersOK(b, s) <=> LayersOK(a, s)
<1>1. /\ Selected(b, s) = Selected(a, s) /\ Wanted(b, s) = Wanted(a, s)
      /\ HasLayers(b) <=> HasLayers(a)
  BY LikeSelects
<1>2. b.started = a.started /\ b.ready = a.ready
  BY DEF Like
<1> QED
  BY <1>1, <1>2 DEF FrameOK, LayersOK

\* What is sound stays so when nothing that decides on it changes.
LEMMA SoundStays ==
    ASSUME NEW st, NEW t, Like(st.a, t.a), t.C = st.C, t.due = st.due, st.odd => t.odd,
           NEW J, NEW s, NEW old, Sound(st, J, s, old)
    PROVE  Sound(t, J, s, old)
<1>1. LayersOK(t.a, s)
  BY LikeFrames DEF Sound
<1>2. Served(t.a, s, t.C, J) <=> Served(st.a, s, st.C, J)
  BY LikeServes
<1>3. \A f : FrameOK(t.a, t.due, s, f, old) <=> FrameOK(st.a, st.due, s, f, old)
  BY LikeFrames
<1> QED
  BY <1>1, <1>2, <1>3 DEF Sound

LEMMA PendingIsLike ==
    ASSUME NEW a, DOMAIN a = AppFields, NEW p
    PROVE  Like(a, [a EXCEPT !.pending = p])
BY FieldsOfApp DEF Like

LEMMA FailedIsLike ==
    ASSUME NEW a, DOMAIN a = AppFields, NEW p
    PROVE  Like(a, [a EXCEPT !.failed = p])
BY FieldsOfApp DEF Like

LEMMA AssetStays ==
    ASSUME NEW a, NEW b, Like(a, b), AssetOK(a)
    PROVE  AssetOK(b)
BY DEF Like, AssetOK

\* Drawing a surface soundly keeps the others sound.
LEMMA DrawsGood ==
    ASSUME NEW W, NEW R, NEW st, NEW t, NEW i \in DOMAIN W.Z, Fits(st, W.Z), Good(st, W, R),
           Draws(st, t, i), Sound(t, W.J, t.S[i], i \in R)
    PROVE  Good(t, W, R) /\ Like(st.a, t.a)
<1>1. Like(st.a, t.a)
  BY DEF Draws
<1>2. AssetOK(t.a)
  BY <1>1, AssetStays DEF Good
<1>3. t.C = W.C /\ t.due = W.due /\ t.a.started = W.started
  BY <1>1 DEF Draws, Good, Like
<1>4. ASSUME NEW k \in DOMAIN W.Z, k # i PROVE Sound(t, W.J, t.S[k], k \in R)
  <2>1. t.S[k] = st.S[k]
    BY <1>4 DEF Draws, Fits
  <2> DEFINE old == k \in R
  <2>2. Sound(st, W.J, st.S[k], old)
    BY DEF Good
  <2> HIDE DEF old
  <2>3. Sound(t, W.J, st.S[k], old)
    BY <1>1, <2>2, SoundStays DEF Draws
  <2> QED
    BY <2>1, <2>3 DEF old
<1> QED
  BY <1>1, <1>2, <1>3, <1>4 DEF Good

\* What decides on pictures and prompts, or is drawn from, stays the same.
LEMMA GoodStays ==
    ASSUME NEW W, NEW R, NEW st, Good(st, W, R), NEW t, Like(st.a, t.a),
           t.S = st.S, t.C = st.C, t.due = st.due, st.odd => t.odd
    PROVE  Good(t, W, R)
<1>1. AssetOK(t.a)
  BY AssetStays DEF Good
<1>2. ASSUME NEW k \in DOMAIN W.Z PROVE Sound(t, W.J, t.S[k], k \in R)
  <2> DEFINE old == k \in R
  <2>1. Sound(st, W.J, st.S[k], old)
    BY DEF Good
  <2> HIDE DEF old
  <2>2. Sound(t, W.J, st.S[k], old)
    BY <2>1, SoundStays
  <2> QED
    BY <2>2 DEF old
<1> QED
  BY <1>1, <1>2 DEF Good, Like

LEMMA DrawsAgain ==
    ASSUME NEW st, NEW t, NEW u, NEW i, DOMAIN t.S = DOMAIN st.S,
           Draws(st, t, i), Draws(t, u, i)
    PROVE  Draws(st, u, i)
BY DEF Draws, Like


-----------------------------------------------------------------------------
(* Drawing one surface.                                                    *)

\* A surface with a frame of the prompt that may be used again
LEMMA WithBaseSound ==
    ASSUME NEW st, NEW J, NEW old, NEW s, DOMAIN s = SurfaceFields, Sound(st, J, s, old),
           NEW p, NEW l, l => HasLayers(st.a), st.a.ready /\ HasLayers(st.a) => l,
           \/ st.odd \/ p = Wanted(st.a, s) \/ Selected(st.a, s) \in Unreadable
           \/ /\ Selected(st.a, s) # None
              /\ ~st.a.started \/ <<Selected(st.a, s), s.size>> \in st.due
    PROVE  Sound(st, J, WithBase(st.a, s, p, l), old) /\ WithBase(st.a, s, p, l).fresh
<1> DEFINE b == [size |-> s.size, picture |-> p, layers |-> l]
           t == WithBase(st.a, s, p, l)
<1>1. /\ t.out = s.out /\ t.size = s.size /\ t.fresh = TRUE /\ t.bg = Nothing
      /\ t.path = Selected(st.a, s) /\ t.base = b
  BY FieldsOfSurface DEF WithBase
<1>2. b.size = s.size /\ b.picture = p /\ b.layers = l
  OBVIOUS
<1> HIDE DEF t, b
<1>3. Selected(st.a, t) = Selected(st.a, s) /\ Wanted(st.a, t) = Wanted(st.a, s)
  BY <1>1, SelectedByOutput
<1>4. Served(st.a, t, st.C, J) <=> Served(st.a, s, st.C, J)
  BY <1>1, ServedByOutput
<1>5. LayersOK(st.a, t)
  BY <1>1, <1>2 DEF LayersOK
<1>6. \A f \in Frames(t) : f = b
  BY <1>1 DEF Frames
<1>7. st.odd \/ FrameOK(st.a, st.due, t, b, old)
  BY <1>1, <1>2, <1>3 DEF FrameOK
<1>8. st.odd \/ \A f \in Frames(t) : FrameOK(st.a, st.due, t, f, old)
  BY <1>6, <1>7
<1>9. st.odd \/ old \/ Served(st.a, t, st.C, J)
  BY <1>4 DEF Sound
<1>10. Sound(st, J, t, old)
  BY <1>5, <1>8, <1>9 DEF Sound
<1> QED
  BY <1>1, <1>10 DEF t

\* A surface without some of its frames
LEMMA LessSound ==
    ASSUME NEW st, NEW J, NEW old, NEW s, Sound(st, J, s, old),
           NEW t, t.out = s.out, t.size = s.size, t.path = s.path,
           t.fresh => s.fresh /\ t.base = s.base, t.bg \in {s.bg, Nothing}
    PROVE  Sound(st, J, t, old)
<1>1. Selected(st.a, t) = Selected(st.a, s) /\ Wanted(st.a, t) = Wanted(st.a, s)
  BY SelectedByOutput
<1>2. Served(st.a, t, st.C, J) <=> Served(st.a, s, st.C, J)
  BY ServedByOutput
<1>3. LayersOK(st.a, t)
  BY DEF LayersOK, Sound
<1>4. Frames(t) \subseteq Frames(s)
  BY DEF Frames
<1>5. \A f : FrameOK(st.a, st.due, s, f, old) => FrameOK(st.a, st.due, t, f, old)
  BY <1>1 DEF FrameOK
<1> QED
  BY <1>2, <1>3, <1>4, <1>5 DEF Sound

LEMMA PutDraws ==
    ASSUME NEW st, NEW Z, Fits(st, Z), NEW i \in DOMAIN Z, NEW s,
           Surface(s, Z[i].out, Z[i].size)
    PROVE  /\ Draws(st, PutSurface(st, i, s), i)
           /\ PutSurface(st, i, s).odd = st.odd
           /\ PutSurface(st, i, s).S[i] = s
           /\ PutSurface(st, i, s).a = st.a
           /\ PutSurface(st, i, s).C = st.C
           /\ PutSurface(st, i, s).due = st.due
<1> DEFINE t == PutSurface(st, i, s)
           T == [st.S EXCEPT ![i] = s]
<1>1. DOMAIN st = StateFields /\ DOMAIN st.S = DOMAIN Z /\ DOMAIN st.a = AppFields
  BY DEF Fits
<1>2. t = [st EXCEPT !.S = T]
  BY DEF PutSurface
<1> HIDE DEF T
<1>3. /\ t.S = T /\ t.a = st.a /\ t.error = st.error /\ t.C = st.C /\ t.due = st.due
      /\ t.odd = st.odd
  BY <1>1, <1>2 DEF StateFields
<1> HIDE DEF t
<1>4. \A k \in DOMAIN st.S \ {i} : T[k] = st.S[k]
  BY DEF T
<1>5. T[i] = s
  BY <1>1 DEF T
<1>6. Like(st.a, t.a)
  BY <1>3 DEF Like
<1> QED
  BY <1>3, <1>4, <1>5, <1>6 DEF Draws, t

LEMMA PendingDraws ==
    ASSUME NEW st, NEW Z, Fits(st, Z), NEW i, NEW p
    PROVE  /\ Draws(st, [st EXCEPT !.a.pending = p], i)
           /\ [st EXCEPT !.a.pending = p].odd = st.odd
<1>1. DOMAIN st = StateFields /\ DOMAIN st.a = AppFields
  BY DEF Fits
<1> DEFINE a == [st.a EXCEPT !.pending = p]
           t == [st EXCEPT !.a.pending = p]
<1>2. /\ t.S = st.S /\ t.C = st.C /\ t.due = st.due /\ t.error = st.error /\ t.odd = st.odd
      /\ t.a = a
  BY <1>1 DEF StateFields
<1>3. Like(st.a, a) /\ a.failed = st.a.failed
  BY <1>1, PendingIsLike, FieldsOfApp
<1> HIDE DEF a, t
<1>4. Draws(st, t, i)
  BY <1>2, <1>3 DEF Draws
<1> QED
  BY <1>2, <1>4 DEF t

LEMMA FirstIsOne ==
    ASSUME NEW I \in SUBSET Nat, I # {}
    PROVE  First(I) \in I
BY LeastOf DEF First

LEMMA DomainIsNat ==
    ASSUME NEW Z, Surfaces(Z), NEW st, Fits(st, Z)
    PROVE  DOMAIN Z \in SUBSET (Nat \ {0}) /\ DOMAIN st.S = DOMAIN Z
<1>1. Len(Z) \in Nat /\ DOMAIN Z = 1..Len(Z)
  BY LengthFits
<1> QED
  BY <1>1 DEF Fits

\* The frame of another surface is as good on this one.
LEMMA DonorSound ==
    ASSUME NEW W, Surfaces(W.Z), NEW st, Fits(st, W.Z), NEW i \in DOMAIN W.Z,
           NEW R \in SUBSET {i}, Good(st, W, R), Donors(st.a, st.S, i) # {}
    PROVE  LET d == st.S[First(Donors(st.a, st.S, i))]
           IN  /\ d.base.layers => HasLayers(st.a)
               /\ st.a.ready /\ HasLayers(st.a) => d.base.layers
               /\ \/ st.odd \/ d.base.picture = Wanted(st.a, st.S[i])
                  \/ Selected(st.a, st.S[i]) \in Unreadable
                  \/ /\ Selected(st.a, st.S[i]) # None
                     /\ \/ ~st.a.started
                        \/ <<Selected(st.a, st.S[i]), st.S[i].size>> \in st.due
<1> DEFINE j == First(Donors(st.a, st.S, i))
           d == st.S[j]
           s == st.S[i]
           old == j \in R
<1>1. j \in Donors(st.a, st.S, i)
  BY DomainIsNat, FirstIsOne DEF Donors
<1> HIDE DEF j
<1>2. /\ j \in DOMAIN W.Z /\ j # i /\ d.fresh /\ d.path = Selected(st.a, s)
      /\ d.base.size = s.size
  BY <1>1, DomainIsNat DEF Donors
<1>3. Sound(st, W.J, d, old) /\ ~old
  BY <1>2 DEF Good
<1>4. d.base \in Frames(d)
  BY <1>2 DEF Frames
<1> HIDE DEF old
<1>5. st.odd \/ FrameOK(st.a, st.due, d, d.base, old)
  BY <1>3, <1>4 DEF Sound
<1>6. LayersOK(st.a, d)
  BY <1>3 DEF Sound
<1>7. CASE st.odd
  BY <1>2, <1>6, <1>7 DEF LayersOK, j
<1>8. CASE ~st.odd
  <2>1. Selected(st.a, d) = Selected(st.a, s) /\ Wanted(st.a, d) = Wanted(st.a, s)
    BY <1>2, <1>5, <1>8 DEF FrameOK, Wanted
  <2> QED
    BY <1>2, <1>3, <1>5, <1>6, <1>8, <2>1 DEF FrameOK, LayersOK, j
<1> QED
  BY <1>7, <1>8

\* What a surface is replaced by is sound if it was so before.
LEMMA PutSound ==
    ASSUME NEW st, NEW Z, Fits(st, Z), NEW i \in DOMAIN Z, NEW J, NEW old,
           NEW s, Surface(s, Z[i].out, Z[i].size), Sound(st, J, s, old)
    PROVE  LET t == PutSurface(st, i, s)
           IN  /\ Fits(t, Z) /\ Draws(st, t, i) /\ (t.odd <=> st.odd)
               /\ Sound(t, J, t.S[i], old) /\ t.S[i] = s
<1> DEFINE t == PutSurface(st, i, s)
<1>1. Fits(t, Z) /\ Draws(st, t, i) /\ t.odd = st.odd /\ t.S[i] = s
  BY PutFits, PutDraws
<1> HIDE DEF t
<1>2. Sound(t, J, s, old)
  BY <1>1, SoundStays DEF Draws
<1> QED
  BY <1>1, <1>2 DEF t

LEMMA ThenPending ==
    ASSUME NEW st, NEW Z, Fits(st, Z), NEW i, NEW J, NEW old, NEW u, Fits(u, Z),
           Draws(st, u, i), u.odd <=> st.odd, Sound(u, J, u.S[i], old), NEW p
    PROVE  LET t == [u EXCEPT !.a.pending = p]
           IN  /\ Draws(st, t, i) /\ (t.odd <=> st.odd)
               /\ Sound(t, J, t.S[i], old) /\ t.S = u.S
<1> DEFINE t == [u EXCEPT !.a.pending = p]
<1>1. Draws(u, t, i) /\ t.odd = u.odd /\ t.S = u.S
  BY PendingDraws, PendingFits
<1> HIDE DEF t
<1>2. Sound(t, J, t.S[i], old)
  BY <1>1, SoundStays DEF Draws
<1>3. DOMAIN u.S = DOMAIN st.S
  BY DEF Fits
<1>4. Draws(st, t, i)
  BY <1>1, <1>3, DrawsAgain
<1> QED
  BY <1>1, <1>2, <1>4 DEF t

LEMMA BaseWithoutBackgroundSound ==
    ASSUME NEW W, Surfaces(W.Z), NEW st, Fits(st, W.Z), NEW i \in DOMAIN W.Z,
           NEW R \in SUBSET {i}, Good(st, W, R)
    PROVE  LET t == BaseWithoutBackground(st, i)
           IN  /\ Draws(st, t, i) /\ (t.odd <=> st.odd)
               /\ Sound(t, W.J, t.S[i], i \in R) /\ t.S[i].fresh
<1> DEFINE a == st.a
           s == st.S[i]
           d == st.S[First(Donors(a, st.S, i))]
           old == i \in R
           l == TRUE
           m == HasLayers(a) /\ a.ready
           A == WithBase(a, s, Wanted(a, s), l)
           B == WithBase(a, s, d.base.picture, d.base.layers)
           D == WithBase(a, s, Wanted(a, s), m)
           scene == Cached(a, st.C, s, "scene")
           donors == Donors(a, st.S, i) # {}
           sA == PutSurface(st, i, A)
           sB == PutSurface(st, i, B)
           sD == PutSurface(st, i, D)
           tD == [sD EXCEPT !.a.pending = @ \/ LayersWait(a)]
<1>1. BaseWithoutBackground(st, i) =
        CASE scene -> sA [] ~scene /\ donors -> sB [] OTHER -> tD
  BY DEF BaseWithoutBackground
<1>2. Surface(s, W.Z[i].out, W.Z[i].size) /\ Sound(st, W.J, s, old)
  BY DEF Fits, Good
<1>3. DOMAIN s = SurfaceFields
  BY <1>2 DEF Surface
<1>4. l /\ (m <=> HasLayers(a) /\ a.ready)
  OBVIOUS
<1>5. scene => HasLayers(a)
  BY DEF Cached
<1> HIDE DEF a, s, l, m, old, scene, donors
<1>6. scene => Sound(st, W.J, A, old) /\ A.fresh
  BY <1>2, <1>3, <1>4, <1>5, WithBaseSound DEF a
<1>7. donors => Sound(st, W.J, B, old) /\ B.fresh
  <2> SUFFICES ASSUME donors PROVE Sound(st, W.J, B, old) /\ B.fresh
    OBVIOUS
  <2>1. d.base.layers => HasLayers(a)
    BY DonorSound DEF a, donors
  <2>2. a.ready /\ HasLayers(a) => d.base.layers
    BY DonorSound DEF a, donors
  <2>3. \/ st.odd \/ d.base.picture = Wanted(a, s) \/ Selected(a, s) \in Unreadable
        \/ /\ Selected(a, s) # None
           /\ ~a.started \/ <<Selected(a, s), s.size>> \in st.due
    BY DonorSound DEF a, s, donors
  <2> HIDE DEF d
  <2> QED
    BY <1>2, <1>3, <2>1, <2>2, <2>3, WithBaseSound DEF a
<1>8. Sound(st, W.J, D, old) /\ D.fresh
  BY <1>2, <1>3, <1>4, WithBaseSound DEF a
<1>9. /\ Surface(A, W.Z[i].out, W.Z[i].size) /\ Surface(B, W.Z[i].out, W.Z[i].size)
      /\ Surface(D, W.Z[i].out, W.Z[i].size)
  <2> HIDE DEF d
  <2> QED
    BY <1>2, WithBaseFits
<1> HIDE DEF A, B, D
<1>10. LET t == tD
       IN  /\ Draws(st, t, i) /\ (t.odd <=> st.odd)
           /\ Sound(t, W.J, t.S[i], old) /\ t.S[i].fresh
  <2>1. /\ Fits(sD, W.Z) /\ Draws(st, sD, i) /\ (sD.odd <=> st.odd)
        /\ Sound(sD, W.J, sD.S[i], old) /\ sD.S[i] = D
    BY <1>8, <1>9, PutSound
  <2> DEFINE p == sD.a.pending \/ LayersWait(a)
  <2> HIDE DEF sD, p
  <2> SUFFICES LET t == [sD EXCEPT !.a.pending = p]
               IN  /\ Draws(st, t, i) /\ (t.odd <=> st.odd)
                   /\ Sound(t, W.J, t.S[i], old) /\ t.S[i].fresh
    BY DEF p
  <2> QED
    BY <1>8, <2>1, ThenPending
<1> HIDE DEF tD
<1>11. scene => /\ Draws(st, sA, i) /\ (sA.odd <=> st.odd)
                /\ Sound(sA, W.J, sA.S[i], old) /\ sA.S[i].fresh
  BY <1>6, <1>9, PutSound
<1>12. donors => /\ Draws(st, sB, i) /\ (sB.odd <=> st.odd)
                 /\ Sound(sB, W.J, sB.S[i], old) /\ sB.S[i].fresh
  BY <1>7, <1>9, PutSound
<1> HIDE DEF sA, sB
<1> QED
  BY <1>1, <1>10, <1>11, <1>12 DEF old

LEMMA NothingDraws ==
    ASSUME NEW st, NEW i
    PROVE  Draws(st, st, i)
BY DEF Draws, Like

LEMMA OddDraws ==
    ASSUME NEW st, NEW Z, Fits(st, Z), NEW i, NEW o, st.odd => o
    PROVE  Draws(st, [st EXCEPT !.odd = o], i) /\ ([st EXCEPT !.odd = o].odd <=> o)
<1>1. DOMAIN st = StateFields
  BY DEF Fits
<1> DEFINE t == [st EXCEPT !.odd = o]
<1>2. /\ t.S = st.S /\ t.C = st.C /\ t.due = st.due /\ t.error = st.error /\ t.odd = o
      /\ t.a = st.a
  BY <1>1 DEF StateFields
<1> HIDE DEF t
<1>3. Draws(st, t, i)
  BY <1>2 DEF Draws, Like
<1> QED
  BY <1>2, <1>3 DEF t

\* Without an image the asset is the background that is wanted.
LEMMA NoImage ==
    ASSUME NEW a, AssetOK(a), NEW s, Selected(a, s) = None
    PROVE  a.asset = Wanted(a, s)
<1>1. a.path = None
  BY DEF Selected
<1> QED
  BY <1>1 DEF AssetOK, Wanted

\* What prepare_background draws from is right, on its way, or on record.
LEMMA PrepareBackgroundSound ==
    ASSUME NEW W, Surfaces(W.Z), NEW st, Fits(st, W.Z), NEW i \in DOMAIN W.Z,
           NEW R \in SUBSET {i}, Good(st, W, R)
    PROVE  LET t == PrepareBackground(st, i)
           IN  Draws(st, t, i) /\ Sound(t, W.J, t.S[i], i \in R)
<1> DEFINE a == st.a
           s == st.S[i]
           old == i \in R
           picture == IF Cached(a, st.C, s, "plain") THEN Wanted(a, s) ELSE a.asset
           path == Selected(a, s)
           b == [size |-> s.size, picture |-> picture]
           new == [s EXCEPT !.bg = b, !.path = path]
           o == st.odd \/ Lasts(st, i, picture)
           u == [st EXCEPT !.odd = o]
           t == PutSurface(u, i, new)
<1>1. /\ Surface(s, W.Z[i].out, W.Z[i].size) /\ Sound(st, W.J, s, old) /\ AssetOK(a)
      /\ DOMAIN st = StateFields /\ DOMAIN st.S = DOMAIN W.Z
  BY DEF Fits, Good
<1>2. CASE ~StaleBackground(a, s)
  <2>1. PrepareBackground(st, i) = st
    BY <1>2 DEF PrepareBackground
  <2> QED
    BY <1>1, <2>1, NothingDraws
<1>3. CASE StaleBackground(a, s)
  <2>1. PrepareBackground(st, i) = t
    <3>1. PrepareBackground(st, i) =
            [st EXCEPT !.S[i].bg = b, !.S[i].path = path, !.odd = @ \/ Lasts(st, i, picture)]
      BY <1>3 DEF PrepareBackground
    <3> HIDE DEF path, picture, b
    <3>2. [st EXCEPT !.S[i].bg = b, !.S[i].path = path, !.odd = @ \/ Lasts(st, i, picture)]
            = [st EXCEPT !.S = [st.S EXCEPT ![i] = new], !.odd = o]
      BY <1>1 DEF StateFields
    <3> HIDE DEF new, o
    <3>3. [st EXCEPT !.S = [st.S EXCEPT ![i] = new], !.odd = o] = t
      BY <1>1 DEF PutSurface, StateFields
    <3> QED
      BY <3>1, <3>2, <3>3
  <2>2. picture = Wanted(a, s) \/ Selected(a, s) # None
    BY <1>1, NoImage
  <2>3. \/ o \/ picture = Wanted(a, s) \/ Selected(a, s) \in Unreadable
        \/ Selected(a, s) # None /\ (~a.started \/ <<Selected(a, s), s.size>> \in st.due)
    <3> HIDE DEF picture
    <3> QED
      BY <2>2 DEF Lasts
  <2>4. st.odd => o
    OBVIOUS
  <2>5. /\ new.out = s.out /\ new.size = s.size /\ new.bg = b /\ new.path = Selected(a, s)
        /\ new.base = s.base /\ new.fresh = s.fresh /\ DOMAIN new = SurfaceFields
    BY <1>1, FieldsOfSurface DEF Surface
  <2>6. b.size = s.size /\ b.picture = picture
    OBVIOUS
  <2>7. Surface(new, W.Z[i].out, W.Z[i].size)
    BY <1>1, <2>5 DEF Surface
  <2> HIDE DEF a, s, picture, path, b, new, o, old
  <2>8. Fits(u, W.Z) /\ Draws(st, u, i) /\ (u.odd <=> o)
    BY <2>4, OddFits, OddDraws
  <2> HIDE DEF u
  <2>9. Sound(u, W.J, s, old) /\ Like(a, u.a) /\ u.due = st.due
    BY <1>1, <2>8, SoundStays DEF Draws, a
  <2>10. Sound(u, W.J, new, old)
    <3>1. /\ Selected(u.a, s) = Selected(a, s) /\ Wanted(u.a, s) = Wanted(a, s)
          /\ u.a.started = a.started
      BY <2>9, LikeSelects DEF Like
    <3>2. Selected(u.a, new) = Selected(a, s) /\ Wanted(u.a, new) = Wanted(a, s)
      BY <2>5, <3>1, SelectedByOutput
    <3>3. Served(u.a, new, u.C, W.J) <=> Served(u.a, s, u.C, W.J)
      BY <2>5, ServedByOutput
    <3>4. LayersOK(u.a, new)
      BY <2>5, <2>9 DEF LayersOK, Sound
    <3>5. u.odd \/ FrameOK(u.a, u.due, new, b, old)
      BY <2>3, <2>5, <2>6, <2>8, <2>9, <3>1, <3>2 DEF FrameOK
    <3>6. \A f \in Frames(new) : f = b \/ f \in Frames(s)
      BY <2>5 DEF Frames
    <3>7. \A f : FrameOK(u.a, u.due, s, f, old) => FrameOK(u.a, u.due, new, f, old)
      BY <2>5, <3>1, <3>2 DEF FrameOK
    <3> QED
      BY <2>9, <3>3, <3>4, <3>5, <3>6, <3>7 DEF Sound
  <2>11. Draws(u, t, i) /\ t.S[i] = new /\ t.a = u.a /\ t.C = u.C /\ t.due = u.due /\ t.odd = u.odd
    BY <2>7, <2>8, PutDraws
  <2> HIDE DEF t
  <2>12. DOMAIN u.S = DOMAIN st.S
    BY <1>1, <2>8 DEF Fits
  <2>13. Draws(st, t, i)
    BY <2>8, <2>11, <2>12, DrawsAgain
  <2>14. Sound(t, W.J, new, old)
    BY <2>10, <2>11, SoundStays DEF Draws
  <2> QED
    BY <2>1, <2>11, <2>13, <2>14 DEF old
<1> QED
  BY <1>2, <1>3

\* The frame made from the bare picture is as good as that.
LEMMA PrepareSceneBaseSound ==
    ASSUME NEW W, Surfaces(W.Z), NEW st, Fits(st, W.Z), NEW i \in DOMAIN W.Z,
           NEW R \in SUBSET {i}, Good(st, W, R), NEW refreshed,
           W.Z[i].size # 0, st.S[i].bg.size = W.Z[i].size
    PROVE  LET t == PrepareSceneBase(st, i, refreshed)
           IN  /\ Draws(st, t, i) /\ (t.odd <=> st.odd)
               /\ Sound(t, W.J, t.S[i], i \in R) /\ t.S[i].fresh
<1> DEFINE a == st.a
           s == st.S[i]
           old == i \in R
           m == HasLayers(a) /\ a.ready
           kept == ~refreshed /\ s.base.size = s.size /\ s.fresh
           gone == [s EXCEPT !.bg = Nothing]
           D == WithBase(a, s, s.bg.picture, m)
           u == PutSurface(st, i, D)
           p == u.a.pending \/ LayersWait(a)
<1>1. Surface(s, W.Z[i].out, W.Z[i].size) /\ s.size = W.Z[i].size /\ Sound(st, W.J, s, old)
  BY DEF Fits, Surface, Good
<1>2. s.bg # Nothing
  BY NothingHasNoSize
<1>3. CASE kept
  <2>1. PrepareSceneBase(st, i, refreshed) = PutSurface(st, i, gone)
    BY <1>3 DEF PrepareSceneBase
  <2>2. Surface(gone, W.Z[i].out, W.Z[i].size)
    BY <1>1, BgFits
  <2>3. /\ gone.out = s.out /\ gone.size = s.size /\ gone.path = s.path /\ gone.bg = Nothing
        /\ gone.base = s.base /\ gone.fresh = s.fresh
    BY <1>1, FieldsOfSurface DEF Surface
  <2> HIDE DEF gone, s, old
  <2>4. Sound(st, W.J, gone, old)
    BY <1>1, <2>3, LessSound
  <2> DEFINE t == PutSurface(st, i, gone)
  <2>5. /\ Draws(st, t, i) /\ (t.odd <=> st.odd)
        /\ Sound(t, W.J, t.S[i], old) /\ t.S[i] = gone
    BY <2>2, <2>4, PutSound
  <2> HIDE DEF t
  <2> QED
    BY <1>3, <2>1, <2>3, <2>5 DEF old, t
<1>4. CASE ~kept /\ BaseMatches(a, s)
  <2>1. PrepareSceneBase(st, i, refreshed) = st
    BY <1>4 DEF PrepareSceneBase
  <2> QED
    BY <1>1, <1>4, <2>1, NothingDraws DEF BaseMatches
<1>5. CASE ~kept /\ ~BaseMatches(a, s) /\ CanDoWithoutBackground(st, i)
  <2>1. PrepareSceneBase(st, i, refreshed) = BaseWithoutBackground(st, i)
    BY <1>5 DEF PrepareSceneBase
  <2> QED
    BY <2>1, BaseWithoutBackgroundSound
<1>6. CASE ~kept /\ ~BaseMatches(a, s) /\ ~CanDoWithoutBackground(st, i)
  <2>1. PrepareSceneBase(st, i, refreshed) = [u EXCEPT !.a.pending = p]
    BY <1>2, <1>6 DEF PrepareSceneBase
  <2>2. s.bg \in Frames(s)
    BY <1>2 DEF Frames
  <2>3. m <=> HasLayers(a) /\ a.ready
    OBVIOUS
  <2> HIDE DEF old, s, m, a
  <2>4. st.odd \/ FrameOK(a, st.due, s, s.bg, old)
    BY <1>1, <2>2 DEF Sound, a
  <2>5. \/ st.odd \/ s.bg.picture = Wanted(a, s) \/ Selected(a, s) \in Unreadable
        \/ /\ Selected(a, s) # None
           /\ ~a.started \/ <<Selected(a, s), s.size>> \in st.due
    BY <1>1, <2>4 DEF FrameOK, s
  <2>6. DOMAIN s = SurfaceFields
    BY <1>1 DEF Surface
  <2>7. Sound(st, W.J, D, old) /\ D.fresh
    BY <1>1, <2>3, <2>5, <2>6, WithBaseSound DEF a
  <2>8. Surface(D, W.Z[i].out, W.Z[i].size)
    BY <1>1, WithBaseFits
  <2> HIDE DEF D
  <2>9. /\ Fits(u, W.Z) /\ Draws(st, u, i) /\ (u.odd <=> st.odd)
        /\ Sound(u, W.J, u.S[i], old) /\ u.S[i] = D
    BY <2>7, <2>8, PutSound
  <2> DEFINE t == [u EXCEPT !.a.pending = p]
  <2> HIDE DEF u, p
  <2>10. /\ Draws(st, t, i) /\ (t.odd <=> st.odd)
         /\ Sound(t, W.J, t.S[i], old) /\ t.S = u.S
    BY <2>9, ThenPending
  <2> QED
    BY <2>1, <2>7, <2>9, <2>10 DEF old
<1> QED
  BY <1>3, <1>4, <1>5, <1>6

\* Showing a frame changes none.
LEMMA ShowsSound ==
    ASSUME NEW st, NEW Z, Fits(st, Z), NEW i \in DOMAIN Z, NEW J, NEW old,
           Sound(st, J, st.S[i], old), NEW prompt, NEW b
    PROVE  LET t == PutSurface(st, i, Shows(st.S[i], prompt, b))
           IN  /\ Draws(st, t, i) /\ (t.odd <=> st.odd) /\ Sound(t, J, t.S[i], old)
               /\ t.S[i].base = st.S[i].base /\ t.S[i].fresh = st.S[i].fresh
               /\ t.S[i].bg = st.S[i].bg
               /\ t.S[i].shown = [prompt |-> prompt, picture |-> b.picture,
                                  layers |-> prompt = "all" /\ b.layers]
<1> DEFINE s == st.S[i]
           new == Shows(s, prompt, b)
<1>1. Surface(s, Z[i].out, Z[i].size)
  BY DEF Fits
<1>2. Surface(new, Z[i].out, Z[i].size)
  BY <1>1, ShowsFits
<1>3. /\ new.out = s.out /\ new.size = s.size /\ new.path = s.path /\ new.bg = s.bg
      /\ new.base = s.base /\ new.fresh = s.fresh
      /\ new.shown = [prompt |-> prompt, picture |-> b.picture,
                      layers |-> prompt = "all" /\ b.layers]
  BY <1>1, FieldsOfSurface DEF Surface, Shows
<1> HIDE DEF new
<1>4. Sound(st, J, new, old)
  BY <1>3, LessSound
<1> QED
  BY <1>2, <1>3, <1>4, PutSound DEF new

LEMMA CommitPromptSound ==
    ASSUME NEW st, NEW Z, Fits(st, Z), NEW i \in DOMAIN Z, NEW J, NEW old,
           Sound(st, J, st.S[i], old), st.S[i].base.size = Z[i].size
    PROVE  LET t == CommitPrompt(st, i)
           IN  /\ Draws(st, t, i) /\ (t.odd <=> st.odd) /\ Sound(t, J, t.S[i], old)
               /\ t.S[i].base = st.S[i].base /\ t.S[i].fresh = st.S[i].fresh
               /\ st.error = "none" =>
                    t.S[i].shown = [prompt |-> "all", picture |-> st.S[i].base.picture,
                                    layers |-> "all" = "all" /\ st.S[i].base.layers]
<1>1. st.S[i].size = Z[i].size
  BY DEF Fits, Surface
<1>2. CommitPrompt(st, i) =
        IF st.error # "none" THEN st
        ELSE PutSurface(st, i, Shows(st.S[i], "all", st.S[i].base))
  BY <1>1 DEF CommitPrompt
<1>3. CASE st.error # "none"
  BY <1>2, <1>3, NothingDraws
<1>4. CASE st.error = "none"
  <2> DEFINE b == st.S[i].base
             prompt == "all"
             t == PutSurface(st, i, Shows(st.S[i], prompt, b))
  <2> HIDE DEF prompt, b
  <2>1. /\ Draws(st, t, i) /\ (t.odd <=> st.odd) /\ Sound(t, J, t.S[i], old)
        /\ t.S[i].base = st.S[i].base /\ t.S[i].fresh = st.S[i].fresh
        /\ t.S[i].shown = [prompt |-> prompt, picture |-> b.picture,
                           layers |-> prompt = "all" /\ b.layers]
    BY ShowsSound
  <2>2. CommitPrompt(st, i) = t
    BY <1>2, <1>4 DEF prompt, b
  <2> HIDE DEF t
  <2> QED
    BY <2>1, <2>2 DEF prompt, b
<1> QED
  BY <1>3, <1>4

LEMMA DrawPromptSound ==
    ASSUME NEW W, Surfaces(W.Z), NEW st, Fits(st, W.Z), NEW i \in DOMAIN W.Z,
           NEW R \in SUBSET {i}, Good(st, W, R), W.Z[i].size # 0
    PROVE  LET t == DrawPrompt(st, i)
           IN  /\ Draws(st, t, i) /\ Sound(t, W.J, t.S[i], i \in R) /\ t.S[i].fresh
               /\ (PrepareBackground(st, i).odd <=> st.odd) => (t.odd <=> st.odd)
               /\ st.error = "none" =>
                    t.S[i].shown = [prompt |-> "all", picture |-> t.S[i].base.picture,
                                    layers |-> "all" = "all" /\ t.S[i].base.layers]
<1> DEFINE stale == StaleBackground(st.a, st.S[i])
           old == i \in R
           p == PrepareBackground(st, i)
           q == PrepareSceneBase(p, i, stale)
           w == BaseWithoutBackground(st, i)
           matches == BaseMatches(st.a, st.S[i])
           t == IF matches THEN st ELSE IF CanDoWithoutBackground(st, i) THEN w ELSE q
           v == CommitPrompt(t, i)
<1>1. DrawPrompt(st, i) = v
  BY DEF DrawPrompt
<1>2. matches => st.S[i].base.size = W.Z[i].size /\ st.S[i].fresh
  BY DEF BaseMatches, Fits, Surface
<1>3. Sound(st, W.J, st.S[i], old) /\ Draws(st, st, i)
  BY NothingDraws DEF Good
<1>4. /\ Fits(w, W.Z) /\ w.S[i].base.size = W.Z[i].size
      /\ Draws(st, w, i) /\ (w.odd <=> st.odd) /\ Sound(w, W.J, w.S[i], old) /\ w.S[i].fresh
  BY BaseWithoutBackgroundFits, BaseWithoutBackgroundSound
<1>5. /\ Fits(p, W.Z) /\ p.S[i].bg.size = W.Z[i].size
      /\ Draws(st, p, i) /\ Sound(p, W.J, p.S[i], old)
  BY PrepareBackgroundFits, PrepareBackgroundSound
<1> HIDE DEF w, p, stale, matches
<1>6. Good(p, W, R)
  BY <1>5, DrawsGood DEF old
<1>7. /\ Fits(q, W.Z) /\ q.S[i].base.size = W.Z[i].size
      /\ Draws(p, q, i) /\ (q.odd <=> p.odd) /\ Sound(q, W.J, q.S[i], old) /\ q.S[i].fresh
  BY <1>5, <1>6, PrepareSceneBaseFits, PrepareSceneBaseSound
<1> HIDE DEF q, old
<1>8. Draws(st, q, i)
  <2>1. DOMAIN p.S = DOMAIN st.S
    BY <1>5 DEF Fits
  <2> QED
    BY <1>5, <1>7, <2>1, DrawsAgain
<1>9. /\ Fits(t, W.Z) /\ t.S[i].base.size = W.Z[i].size
      /\ Draws(st, t, i) /\ Sound(t, W.J, t.S[i], old) /\ t.S[i].fresh
      /\ (p.odd <=> st.odd) => (t.odd <=> st.odd)
  BY <1>2, <1>3, <1>4, <1>7, <1>8
<1> HIDE DEF t
<1>10. /\ Draws(t, v, i) /\ (v.odd <=> t.odd) /\ Sound(v, W.J, v.S[i], old)
       /\ v.S[i].base = t.S[i].base /\ v.S[i].fresh = t.S[i].fresh
       /\ t.error = "none" =>
            v.S[i].shown = [prompt |-> "all", picture |-> t.S[i].base.picture,
                            layers |-> "all" = "all" /\ t.S[i].base.layers]
  BY <1>9, CommitPromptSound
<1> HIDE DEF v
<1>11. Draws(st, v, i) /\ t.error = st.error
  <2>1. DOMAIN t.S = DOMAIN st.S
    BY <1>9 DEF Fits
  <2> QED
    BY <1>9, <1>10, <2>1, DrawsAgain DEF Draws
<1> QED
  BY <1>1, <1>9, <1>10, <1>11 DEF old, p

LEMMA DrawPictureSound ==
    ASSUME NEW W, Surfaces(W.Z), NEW st, Fits(st, W.Z), NEW i \in DOMAIN W.Z,
           NEW R \in SUBSET {i}, Good(st, W, R)
    PROVE  LET t == DrawPicture(st, i)
           IN  /\ Draws(st, t, i) /\ Sound(t, W.J, t.S[i], i \in R)
               /\ t.odd <=> PrepareBackground(st, i).odd
               /\ t.S[i].bg.size = W.Z[i].size
<1> DEFINE p == PrepareBackground(st, i)
           b == [picture |-> p.S[i].bg.picture, layers |-> FALSE]
           none == "none"
           t == PutSurface(p, i, Shows(p.S[i], none, b))
           old == i \in R
           refreshed == StaleBackground(st.a, st.S[i])
<1>1. /\ Fits(p, W.Z) /\ p.S[i].bg.size = W.Z[i].size
      /\ Draws(st, p, i) /\ Sound(p, W.J, p.S[i], old)
  BY PrepareBackgroundFits, PrepareBackgroundSound
<1>2. DrawPicture(st, i) \in {p, t}
  <2>1. DrawPicture(st, i) = CommitPicture(p, i, refreshed)
    BY DEF DrawPicture
  <2> HIDE DEF p, refreshed
  <2> QED
    BY <2>1 DEF CommitPicture
<1> HIDE DEF p, b, old, none
<1>3. Draws(p, t, i) /\ (t.odd <=> p.odd) /\ Sound(t, W.J, t.S[i], old)
  BY <1>1, ShowsSound
<1>4. t.S[i].bg = p.S[i].bg
  <2>1. Surface(p.S[i], W.Z[i].out, W.Z[i].size)
    BY <1>1 DEF Fits
  <2>2. Surface(Shows(p.S[i], none, b), W.Z[i].out, W.Z[i].size)
    BY <2>1, ShowsFits
  <2>3. t.S[i] = Shows(p.S[i], none, b)
    BY <1>1, <2>2, PutFits
  <2> QED
    BY <2>1, <2>3, FieldsOfSurface DEF Shows, Surface
<1> HIDE DEF t
<1>5. Draws(st, t, i)
  <2>1. DOMAIN p.S = DOMAIN st.S
    BY <1>1 DEF Fits
  <2> QED
    BY <1>1, <1>3, <2>1, DrawsAgain
<1>6. CASE DrawPicture(st, i) = p
  BY <1>1, <1>6 DEF old, p
<1>7. CASE DrawPicture(st, i) = t
  BY <1>1, <1>3, <1>4, <1>5, <1>7 DEF old, p
<1> QED
  BY <1>2, <1>6, <1>7

LEMMA RenderSurfaceGood ==
    ASSUME NEW W, Surfaces(W.Z), NEW st, Fits(st, W.Z), NEW i \in DOMAIN W.Z,
           NEW R \in SUBSET {i}, Good(st, W, R), W.Z[i].size # 0, NEW fails
    PROVE  Good(RenderSurface(st, i, fails), W, R)
<1>1. Good(DrawPrompt(st, i), W, R)
  <2> DEFINE t == DrawPrompt(st, i)
  <2>1. Draws(st, t, i) /\ Sound(t, W.J, t.S[i], i \in R)
    BY DrawPromptSound
  <2> HIDE DEF t
  <2> QED
    BY <2>1, DrawsGood DEF t
<1>2. Good(DrawPicture(st, i), W, R)
  <2> DEFINE t == DrawPicture(st, i)
  <2>1. Draws(st, t, i) /\ Sound(t, W.J, t.S[i], i \in R)
    BY DrawPictureSound
  <2> HIDE DEF t
  <2> QED
    BY <2>1, DrawsGood DEF t
<1>3. Good([st EXCEPT !.error = "draw"], W, R)
  <2> DEFINE t == [st EXCEPT !.error = "draw"]
  <2>1. t.a = st.a /\ t.S = st.S /\ t.C = st.C /\ t.due = st.due /\ t.odd = st.odd
    BY DEF Fits, StateFields
  <2> HIDE DEF t
  <2> QED
    BY <2>1, GoodStays DEF t, Like
<1> QED
  BY <1>1, <1>2, <1>3 DEF RenderSurface

-----------------------------------------------------------------------------
(* The emergency UI, and all surfaces.                                     *)

\* The emergency UI wants no image, and starts without frames.
LEMMA ActivateEmergencyGood ==
    ASSUME NEW W, Surfaces(W.Z), NEW st, Fits(st, W.Z), NEW R, Good(st, W, R)
    PROVE  Good(ActivateEmergency(st), W, R)
<1> DEFINE t == ActivateEmergency(st)
<1>1. /\ t.a.path = None /\ t.a.own = [o \in Outputs |-> None] /\ t.a.slides = <<>>
      /\ t.a.look = EmergencyLook /\ t.a.asset = Picture(None, EmergencyLook)
      /\ t.a.started = st.a.started /\ t.C = st.C /\ t.due = st.due
      /\ t.S = [i \in DOMAIN st.S |-> WithoutFrames(st.S[i])]
  BY FieldsOfApp DEF ActivateEmergency, Fits, StateFields
<1> HIDE DEF t
<1>2. AssetOK(t.a)
  BY <1>1 DEF AssetOK, Picture
<1>3. ASSUME NEW i \in DOMAIN W.Z PROVE Sound(t, W.J, t.S[i], i \in R)
  <2> DEFINE s == t.S[i]
  <2>1. s = WithoutFrames(st.S[i]) /\ Surface(st.S[i], W.Z[i].out, W.Z[i].size)
    BY <1>1 DEF Fits
  <2>2. s.bg = Nothing /\ s.fresh = FALSE /\ s.out = W.Z[i].out
    BY <2>1, FieldsOfSurface DEF WithoutFrames, Surface
  <2>3. W.Z[i].out \in Outputs
    BY DEF Surfaces
  <2> HIDE DEF s
  <2>4. Selected(t.a, s) = None
    BY <1>1, <2>2, <2>3 DEF Selected
  <2>5. Frames(s) = {} /\ LayersOK(t.a, s)
    BY <2>2 DEF Frames, LayersOK
  <2>6. Served(t.a, s, t.C, W.J)
    BY <2>4 DEF Served
  <2> QED
    BY <2>5, <2>6 DEF Sound, s
<1> QED
  BY <1>1, <1>2, <1>3 DEF Good, t

LEMMA GiveUpGood ==
    ASSUME NEW W, NEW st, Fits(st, W.Z), NEW R, Good(st, W, R)
    PROVE  Good(GiveUp(st), W, R)
<1> DEFINE t == [st EXCEPT !.a.failed = st.error]
<1>1. /\ t.S = st.S /\ t.C = st.C /\ t.due = st.due /\ t.odd = st.odd
      /\ t.a = [st.a EXCEPT !.failed = st.error]
  BY DEF Fits, StateFields
<1>2. Like(st.a, t.a)
  BY <1>1, FailedIsLike DEF Fits
<1> HIDE DEF t
<1>3. Good(t, W, R)
  BY <1>1, <1>2, GoodStays
<1> QED
  BY <1>3 DEF GiveUp, t

LEMMA RenderWithFallbackGood ==
    ASSUME NEW W, Surfaces(W.Z), NEW st, Fits(st, W.Z), NEW i \in DOMAIN W.Z,
           NEW R \in SUBSET {i}, Good(st, W, R), W.Z[i].size # 0, NEW plan
    PROVE  Good(RenderWithFallback(st, i, plan), W, R)
<1> DEFINE t == RenderSurface(st, i, {plan.at})
           u == ActivateEmergency(t)
           e == [u EXCEPT !.error = "none"]
           fails == IF plan.again THEN {plan.at} ELSE {}
           r == RenderSurface(e, i, fails)
<1>1. Fits(t, W.Z) /\ Good(t, W, R)
  BY RenderSurfaceFits, RenderSurfaceGood
<1> HIDE DEF t
<1>2. Fits(u, W.Z) /\ Good(u, W, R)
  BY <1>1, ActivateEmergencyFits, ActivateEmergencyGood
<1> HIDE DEF u
<1>3. Fits(e, W.Z) /\ Good(e, W, R)
  <2>1. Fits(e, W.Z)
    BY <1>2, ErrorFits
  <2>2. e.a = u.a /\ e.S = u.S /\ e.C = u.C /\ e.due = u.due /\ e.odd = u.odd
    BY <1>2 DEF Fits, StateFields
  <2> HIDE DEF e
  <2> QED
    BY <1>2, <2>1, <2>2, GoodStays DEF Like
<1> HIDE DEF e, fails
<1>4. Fits(r, W.Z) /\ Good(r, W, R)
  BY <1>3, RenderSurfaceFits, RenderSurfaceGood
<1> HIDE DEF r
<1>5. Good(GiveUp(r), W, R) /\ Good(GiveUp(t), W, R)
  BY <1>1, <1>4, GiveUpGood
<1>6. Fallback(t, i, plan) \in {GiveUp(r), GiveUp(t)}
  BY DEF Fallback, r, e, u, fails
<1>7. RenderWithFallback(st, i, plan) \in {st, Fallback(t, i, plan)}
  BY DEF RenderWithFallback, t
<1> QED
  BY <1>5, <1>6, <1>7

LEMMA RenderNextGood ==
    ASSUME NEW W, Surfaces(W.Z), NEW st, Fits(st, W.Z), NEW i \in DOMAIN W.Z,
           Good(st, W, {}), NEW plan
    PROVE  Good(RenderNext(st, i, plan), W, {})
<1>1. st.S[i].size = W.Z[i].size
  BY DEF Fits, Surface
<1>2. W.Z[i].size # 0 => Good(RenderWithFallback(st, i, plan), W, {})
  BY RenderWithFallbackGood
<1> QED
  BY <1>1, <1>2 DEF RenderNext

LEMMA DrawDirtyGood ==
    ASSUME NEW W, Surfaces(W.Z), NEW st, Fits(st, W.Z), NEW i \in DOMAIN W.Z,
           Good(st, W, {}), W.Z[i].size # 0
    PROVE  Good(DrawDirty(st, i), W, {})
<1> DEFINE s == st.S[i]
           old == i \in {}
           shown == [s.shown EXCEPT !.prompt = IF @ = "none" THEN "part" ELSE @]
           new == [s EXCEPT !.shown = shown]
           t == PutSurface(st, i, new)
<1>1. /\ Surface(s, W.Z[i].out, W.Z[i].size) /\ Sound(st, W.J, s, old)
      /\ DOMAIN st = StateFields /\ DOMAIN st.S = DOMAIN W.Z
  BY DEF Fits, Good
<1>2. [st EXCEPT !.S[i].shown.prompt = IF @ = "none" THEN "part" ELSE @] = t
  BY <1>1 DEF PutSurface, StateFields
<1> HIDE DEF shown
<1>3. /\ new.out = s.out /\ new.size = s.size /\ new.path = s.path /\ new.bg = s.bg
      /\ new.base = s.base /\ new.fresh = s.fresh /\ DOMAIN new = SurfaceFields
  BY <1>1, FieldsOfSurface DEF Surface
<1> HIDE DEF new, old
<1>4. Surface(new, W.Z[i].out, W.Z[i].size)
  BY <1>1, <1>3 DEF Surface
<1>5. Sound(st, W.J, new, old)
  BY <1>1, <1>3, LessSound
<1>6. Draws(st, t, i) /\ Sound(t, W.J, t.S[i], old)
  BY <1>4, <1>5, PutSound
<1> HIDE DEF t
<1>7. Good(t, W, {})
  BY <1>6, DrawsGood DEF old
<1>8. Good(GiveUp(RenderSurface(st, i, {})), W, {})
  <2> DEFINE r == RenderSurface(st, i, {})
  <2>1. Fits(r, W.Z) /\ Good(r, W, {})
    BY RenderSurfaceFits, RenderSurfaceGood
  <2> HIDE DEF r
  <2> QED
    BY <2>1, GiveUpGood DEF r
<1> QED
  BY <1>2, <1>7, <1>8 DEF DrawDirty

\* Whatever is drawn one after the other is good, the prompt alone or all of it.
LEMMA RunsGood ==
    ASSUME NEW W, Surfaces(W.Z), NEW st, Fits(st, W.Z), Good(st, W, {}),
           NEW plan, NEW dirty \in BOOLEAN, dirty => W.Z = surf,
           NEW f, Runs(f, st, plan, dirty, Len(W.Z))
    PROVE  Good(f[Len(W.Z)], W, {})
<1> DEFINE N == Len(W.Z)
           Fine == {m \in 0..N : Fits(f[m], W.Z) /\ Good(f[m], W, {})}
<1>1. N \in Nat /\ DOMAIN W.Z = 1..N
  BY LengthFits
<1> HIDE DEF N
<1>2. Runs(f, st, plan, dirty, N)
  BY DEF N
<1>3. 0 \in Fine
  BY <1>1, <1>2 DEF Runs
<1>4. ASSUME NEW m \in 0..N, m \in Fine, m < N PROVE m + 1 \in Fine
  <2>1. m + 1 \in 0..N /\ m + 1 # 0 /\ (m + 1) - 1 = m /\ m + 1 \in DOMAIN W.Z
    BY <1>1, <1>4
  <2>2. f[m + 1] = Step(f[m], m + 1, plan, dirty)
    BY <1>2, <2>1 DEF Runs
  <2>3. Fits(f[m], W.Z) /\ Good(f[m], W, {})
    BY <1>4
  <2>4. /\ Fits(RenderNext(f[m], m + 1, plan), W.Z)
        /\ Good(RenderNext(f[m], m + 1, plan), W, {})
    BY <2>1, <2>3, RenderNextFits, RenderNextGood
  <2>5. dirty => /\ Fits(DrawNextDirty(f[m], m + 1), W.Z)
                 /\ Good(DrawNextDirty(f[m], m + 1), W, {})
    BY <2>1, <2>3, DrawDirtyFits, DrawDirtyGood DEF DrawNextDirty
  <2>6. Fits(f[m + 1], W.Z) /\ Good(f[m + 1], W, {})
    BY <2>2, <2>4, <2>5 DEF Step
  <2> QED
    BY <2>1, <2>6
<1>5. Fine \in SUBSET (0..N)
  OBVIOUS
<1>6. N \in Fine
  <2> HIDE DEF Fine
  <2> QED
    BY <1>1, <1>3, <1>4, <1>5, UpTo
<1> QED
  BY <1>6 DEF N

LEMMA PendingGood ==
    ASSUME NEW W, NEW st, Fits(st, W.Z), NEW R, Good(st, W, R), NEW p
    PROVE  Good([st EXCEPT !.a.pending = p], W, R)
<1> DEFINE t == [st EXCEPT !.a.pending = p]
<1>1. /\ t.S = st.S /\ t.C = st.C /\ t.due = st.due /\ t.odd = st.odd
      /\ t.a = [st.a EXCEPT !.pending = p]
  BY DEF Fits, StateFields
<1>2. Like(st.a, t.a)
  BY <1>1, PendingIsLike DEF Fits
<1> HIDE DEF t
<1> QED
  BY <1>1, <1>2, GoodStays DEF t

LEMMA RenderAllGood ==
    ASSUME NEW W, Surfaces(W.Z), NEW st, Fits(st, W.Z), Good(st, W, {}), NEW plan
    PROVE  Good(RenderAll(st, plan), W, {})
<1> DEFINE f == CHOOSE g : Runs(g, st, plan, FALSE, Len(W.Z))
<1>1. Len(W.Z) \in Nat /\ Len(st.S) = Len(W.Z)
  BY LengthFits
<1>2. Runs(f, st, plan, FALSE, Len(W.Z))
  <2>1. \E g : Runs(g, st, plan, FALSE, Len(W.Z))
    BY <1>1, DrawingsExist
  <2> QED
    BY <2>1
<1>3. RenderAll(st, plan) =
        IF ~st.a.ready THEN [st EXCEPT !.a.pending = TRUE] ELSE f[Len(W.Z)]
  BY <1>1 DEF RenderAll, Runs, Step
<1> HIDE DEF f
<1>4. Good(f[Len(W.Z)], W, {})
  BY <1>2, RunsGood
<1>5. Good([st EXCEPT !.a.pending = TRUE], W, {})
  BY PendingGood
<1> QED
  BY <1>3, <1>4, <1>5

LEMMA DrawAllDirtyGood ==
    ASSUME NEW W, Surfaces(W.Z), W.Z = surf, NEW st, Fits(st, W.Z), Good(st, W, {})
    PROVE  Good(DrawAllDirty(st), W, {})
<1> DEFINE f == CHOOSE g : Runs(g, st, Smooth, TRUE, Len(W.Z))
<1>1. Len(W.Z) \in Nat /\ Len(st.S) = Len(W.Z)
  BY LengthFits
<1>2. Runs(f, st, Smooth, TRUE, Len(W.Z))
  <2>1. \E g : Runs(g, st, Smooth, TRUE, Len(W.Z))
    BY <1>1, DrawingsExist
  <2> QED
    BY <2>1
<1>3. DrawAllDirty(st) = IF ~st.a.ready THEN [st EXCEPT !.a.pending = TRUE] ELSE f[Len(W.Z)]
  BY <1>1 DEF DrawAllDirty, Runs, Step
<1> HIDE DEF f
<1>4. Good(f[Len(W.Z)], W, {})
  BY <1>2, RunsGood
<1>5. Good([st EXCEPT !.a.pending = TRUE], W, {})
  BY PendingGood
<1> QED
  BY <1>3, <1>4, <1>5

-----------------------------------------------------------------------------
(* A redraw once the loaders are done.                                     *)

Settled(st, W) ==
    /\ Fits(st, W.Z) /\ Good(st, W, {})
    /\ ~st.odd /\ st.error = "none" /\ st.a.failed = "none" /\ st.a.ready
    /\ W.due = {} /\ W.J = {}
    /\ \A i \in DOMAIN W.Z : W.started \/ Selected(st.a, W.Z[i]) = None

LEMMA SettledSelects ==
    ASSUME NEW st, NEW W, Settled(st, W), NEW i \in DOMAIN W.Z
    PROVE  st.a.started \/ Selected(st.a, st.S[i]) = None
<1>1. st.S[i].out = W.Z[i].out
  BY DEF Settled, Fits, Surface
<1> QED
  BY <1>1, SelectedByOutput DEF Settled, Good

\* Nothing is on its way any more: what is kept is right.
LEMMA SettledFrames ==
    ASSUME NEW st, NEW W, Settled(st, W), NEW i \in DOMAIN W.Z, NEW f \in Frames(st.S[i])
    PROVE  f.picture = Wanted(st.a, st.S[i]) \/ Selected(st.a, st.S[i]) \in Unreadable
<1> DEFINE old == i \in {}
<1>1. Sound(st, W.J, st.S[i], old) /\ ~old
  BY DEF Settled, Good
<1> HIDE DEF old
<1>2. FrameOK(st.a, st.due, st.S[i], f, old)
  BY <1>1 DEF Sound, Settled
<1>3. st.due = {}
  BY DEF Settled, Good
<1> QED
  BY <1>1, <1>2, <1>3, SettledSelects DEF FrameOK

LEMMA SettledLayers ==
    ASSUME NEW st, NEW W, Settled(st, W), NEW i \in DOMAIN W.Z, st.S[i].fresh
    PROVE  st.S[i].base.layers <=> HasLayers(st.a)
BY DEF Settled, Good, Sound, LayersOK

\* What is drawn is right too, and no race decides on it.
LEMMA SettledIsEven ==
    ASSUME NEW st, NEW W, Settled(st, W), NEW i \in DOMAIN W.Z, W.Z[i].size # 0
    PROVE  PrepareBackground(st, i).odd <=> st.odd
<1> DEFINE a == st.a
           s == st.S[i]
           picture == IF Cached(a, st.C, s, "plain") THEN Wanted(a, s) ELSE a.asset
           o == st.odd \/ Lasts(st, i, picture)
           old == i \in {}
<1>1. Sound(st, W.J, s, old) /\ ~old /\ AssetOK(a) /\ s.size # 0 /\ W.J = {}
  BY DEF Settled, Good, Fits, Surface
<1> HIDE DEF old
<1>2. Served(a, s, st.C, W.J)
  BY <1>1 DEF Sound, Settled
<1>3. ~Lasts(st, i, picture)
  <2>1. Selected(a, s) = None => a.asset = Wanted(a, s)
    BY <1>1, NoImage
  <2> QED
    BY <1>1, <1>2, <2>1 DEF Served, Lasts
<1>4. PrepareBackground(st, i).odd \in {st.odd, o}
  BY DEF PrepareBackground, Settled, Fits, StateFields
<1> QED
  BY <1>3, <1>4 DEF o

LEMMA RoleStays ==
    ASSUME NEW W, NEW st, NEW t, Fits(st, W.Z), Fits(t, W.Z), Like(st.a, t.a),
           NEW i \in DOMAIN W.Z
    PROVE  RendersShell(t.a, t.S, i) <=> RendersShell(st.a, st.S, i)
<1>1. DOMAIN t.S = DOMAIN W.Z /\ DOMAIN st.S = DOMAIN W.Z
  BY DEF Fits
<1>2. \A k \in DOMAIN W.Z : t.S[k].out = st.S[k].out /\ t.S[k].size = st.S[k].size
  BY DEF Fits, Surface
<1>3. t.a.named = st.a.named /\ t.a.focused = st.a.focused /\ t.a.single = st.a.single
  BY DEF Like
<1>4. Named(t.a, t.S) = Named(st.a, st.S) /\ Sized(t.S) = Sized(st.S)
  BY <1>1, <1>2, <1>3 DEF Named, Sized
<1>5. t.S # <<>> /\ st.S # <<>>
  BY <1>1
<1>6. PrimaryIndex(t.a, t.S) = PrimaryIndex(st.a, st.S)
  BY <1>3, <1>4, <1>5 DEF PrimaryIndex
<1> QED
  BY <1>3, <1>6 DEF RendersShell

\* z is the surface before it was drawn
Done(st, i, z) == RightPicture(st.a, st.S, i) /\ RightPrompt(st.a, st.S, i, z)

LEMMA DoneStays ==
    ASSUME NEW W, NEW st, NEW t, Fits(st, W.Z), Fits(t, W.Z), Like(st.a, t.a),
           NEW i \in DOMAIN W.Z, t.S[i] = st.S[i], NEW z, Done(st, i, z)
    PROVE  Done(t, i, z)
<1>1. RendersShell(t.a, t.S, i) <=> RendersShell(st.a, st.S, i)
  BY RoleStays
<1>2. /\ Selected(t.a, st.S[i]) = Selected(st.a, st.S[i])
      /\ Wanted(t.a, st.S[i]) = Wanted(st.a, st.S[i])
      /\ HasLayers(t.a) <=> HasLayers(st.a)
  BY LikeSelects
<1> QED
  BY <1>1, <1>2 DEF Done, RightPicture, RightPrompt

LEMMA DrawsSettled ==
    ASSUME NEW st, NEW W, Settled(st, W), NEW i \in DOMAIN W.Z, NEW t, Fits(t, W.Z),
           Draws(st, t, i), Sound(t, W.J, t.S[i], i \in {}), t.odd <=> st.odd
    PROVE  Settled(t, W) /\ Like(st.a, t.a)
<1>1. Good(t, W, {}) /\ Like(st.a, t.a)
  BY DrawsGood DEF Settled
<1>2. \A k \in DOMAIN W.Z : W.started \/ Selected(t.a, W.Z[k]) = None
  BY <1>1, LikeSelects DEF Settled
<1>3. t.error = "none" /\ t.a.failed = "none" /\ t.a.ready
  BY <1>1 DEF Settled, Draws, Like
<1> QED
  BY <1>1, <1>2, <1>3 DEF Settled

LEMMA PromptIsRight ==
    ASSUME NEW W, Surfaces(W.Z), NEW st, Settled(st, W), NEW i \in DOMAIN W.Z, W.Z[i].size # 0,
           RendersShell(st.a, st.S, i)
    PROVE  LET t == DrawPrompt(st, i)
           IN  Settled(t, W) /\ Draws(st, t, i) /\ Done(t, i, st.S[i])
<1> DEFINE t == DrawPrompt(st, i)
           s == t.S[i]
<1>1. Fits(st, W.Z) /\ Good(st, W, {}) /\ st.error = "none"
  BY DEF Settled
<1>2. Fits(t, W.Z)
  BY <1>1, DrawPromptFits
<1>3. /\ Draws(st, t, i) /\ Sound(t, W.J, t.S[i], i \in {}) /\ t.S[i].fresh
      /\ (PrepareBackground(st, i).odd <=> st.odd) => (t.odd <=> st.odd)
      /\ s.shown = [prompt |-> "all", picture |-> s.base.picture,
                    layers |-> "all" = "all" /\ s.base.layers]
  BY <1>1, DrawPromptSound
<1> HIDE DEF t
<1>4. t.odd <=> st.odd
  BY <1>3, SettledIsEven
<1>5. Settled(t, W) /\ Like(st.a, t.a)
  BY <1>2, <1>3, <1>4, DrawsSettled
<1>6. RendersShell(t.a, t.S, i)
  BY <1>1, <1>2, <1>5, RoleStays
<1>7. s.base \in Frames(s)
  BY <1>3 DEF Frames
<1>8. s.base.picture = Wanted(t.a, s) \/ Selected(t.a, s) \in Unreadable
  BY <1>5, <1>7, SettledFrames
<1>9. s.base.layers <=> HasLayers(t.a)
  BY <1>3, <1>5, SettledLayers
<1>10. s.shown.prompt = "all" /\ s.shown.picture = s.base.picture
       /\ (s.shown.layers <=> s.base.layers)
  <2> DEFINE l == "all" = "all" /\ s.base.layers
  <2>1. l <=> s.base.layers
    OBVIOUS
  <2> HIDE DEF s
  <2>2. s.shown = [prompt |-> "all", picture |-> s.base.picture, layers |-> l]
    BY <1>3
  <2> HIDE DEF l
  <2>3. s.shown.prompt = "all" /\ s.shown.picture = s.base.picture /\ s.shown.layers = l
    BY <2>2
  <2> QED
    BY <2>1, <2>3
<1>11. Done(t, i, st.S[i])
  BY <1>6, <1>8, <1>9, <1>10 DEF Done, RightPicture, RightPrompt
<1> QED
  BY <1>3, <1>5, <1>11 DEF t

\* A surface without its bare picture commits a new one.
LEMMA EmptySurfaceIsBared ==
    ASSUME NEW W, NEW st, Fits(st, W.Z), NEW i \in DOMAIN W.Z, W.Z[i].size # 0,
           st.S[i].bg = Nothing
    PROVE  DrawPicture(st, i).S[i].shown.prompt = "none"
<1> DEFINE p == PrepareBackground(st, i)
           b == [picture |-> p.S[i].bg.picture, layers |-> FALSE]
<1>1. StaleBackground(st.a, st.S[i])
  BY NothingHasNoSize DEF StaleBackground, Fits, Surface
<1>2. Fits(p, W.Z)
  BY PrepareBackgroundFits
<1> HIDE DEF p
<1>3. DrawPicture(st, i) = PutSurface(p, i, Shows(p.S[i], "none", b))
  BY <1>1 DEF DrawPicture, CommitPicture, p
<1>4. /\ DOMAIN p = StateFields /\ i \in DOMAIN p.S /\ DOMAIN p.S[i] = SurfaceFields
  BY <1>2 DEF Fits, Surface
<1>5. PutSurface(p, i, Shows(p.S[i], "none", b)).S[i] = Shows(p.S[i], "none", b)
  BY <1>4 DEF PutSurface, StateFields
<1>6. Shows(p.S[i], "none", b).shown.prompt = "none"
  BY <1>4 DEF Shows, SurfaceFields, NewSurface
<1> QED
  BY <1>3, <1>5, <1>6

LEMMA PictureIsRight ==
    ASSUME NEW W, Surfaces(W.Z), NEW st, Settled(st, W), NEW i \in DOMAIN W.Z, W.Z[i].size # 0,
           ~RendersShell(st.a, st.S, i)
    PROVE  LET t == DrawPicture(st, i)
           IN  Settled(t, W) /\ Draws(st, t, i) /\ Done(t, i, st.S[i])
<1> DEFINE t == DrawPicture(st, i)
           s == t.S[i]
<1>1. Fits(st, W.Z) /\ Good(st, W, {})
  BY DEF Settled
<1>2. Fits(t, W.Z)
  BY <1>1, DrawPictureFits
<1>3. /\ Draws(st, t, i) /\ Sound(t, W.J, t.S[i], i \in {})
      /\ t.odd <=> PrepareBackground(st, i).odd
      /\ s.bg.size = W.Z[i].size
  BY <1>1, DrawPictureSound
<1> HIDE DEF t
<1>4. t.odd <=> st.odd
  BY <1>3, SettledIsEven
<1>5. Settled(t, W) /\ Like(st.a, t.a)
  BY <1>2, <1>3, <1>4, DrawsSettled
<1>6. ~RendersShell(t.a, t.S, i)
  BY <1>1, <1>2, <1>5, RoleStays
<1>7. s.bg \in Frames(s)
  BY <1>3, NothingHasNoSize DEF Frames
<1>8. s.bg.picture = Wanted(t.a, s) \/ Selected(t.a, s) \in Unreadable
  BY <1>5, <1>7, SettledFrames
<1>9. st.S[i].bg = Nothing => s.shown.prompt = "none"
  BY <1>1, EmptySurfaceIsBared DEF t
<1>10. Done(t, i, st.S[i])
  BY <1>6, <1>8, <1>9 DEF Done, RightPicture, RightPrompt
<1> QED
  BY <1>3, <1>5, <1>10 DEF t

LEMMA DrawnIsRight ==
    ASSUME NEW W, Surfaces(W.Z), NEW st, Settled(st, W), NEW i \in DOMAIN W.Z
    PROVE  LET t == RenderNext(st, i, Smooth)
           IN  /\ Settled(t, W) /\ Draws(st, t, i)
               /\ W.Z[i].size # 0 => Done(t, i, st.S[i])
<1> DEFINE r == RenderSurface(st, i, {0})
<1>1. Fits(st, W.Z) /\ st.S[i].size = W.Z[i].size /\ st.a.failed = "none"
  BY DEF Settled, Fits, Surface
<1>2. CASE W.Z[i].size = 0
  <2>1. RenderNext(st, i, Smooth) = st
    BY <1>1, <1>2 DEF RenderNext
  <2> QED
    BY <1>2, <2>1, NothingDraws
<1>3. CASE W.Z[i].size # 0
  <2>1. i # 0
    BY <1>1, DomainIsNat
  <2>2. r = IF RendersShell(st.a, st.S, i) THEN DrawPrompt(st, i) ELSE DrawPicture(st, i)
    BY <2>1 DEF RenderSurface
  <2>3. Settled(r, W) /\ Draws(st, r, i) /\ Done(r, i, st.S[i])
    <3>1. CASE RendersShell(st.a, st.S, i)
      BY <1>3, <2>2, <3>1, PromptIsRight
    <3>2. CASE ~RendersShell(st.a, st.S, i)
      BY <1>3, <2>2, <3>2, PictureIsRight
    <3> QED
      BY <3>1, <3>2
  <2>4. RenderNext(st, i, Smooth) = Fallback(r, i, Smooth)
    BY <1>1, <1>3 DEF RenderNext, RenderWithFallback, Smooth
  <2> HIDE DEF r
  <2>5. Fallback(r, i, Smooth) = r
    BY <2>3 DEF Fallback, GiveUp, Settled
  <2> QED
    BY <2>3, <2>4, <2>5
<1> QED
  BY <1>2, <1>3

\* A full redraw draws every surface with a size, and none twice.
LEMMA RedrawDone ==
    ASSUME NEW W, Surfaces(W.Z), NEW st, Settled(st, W)
    PROVE  Right(st.S, RenderAll(st, Smooth))
<1> DEFINE N == Len(W.Z)
           f == CHOOSE g : Runs(g, st, Smooth, FALSE, N)
           Fine == {m \in 0..N :
                      /\ Settled(f[m], W)
                      /\ \A k \in 1..N : k <= m /\ W.Z[k].size # 0 => Done(f[m], k, st.S[k])
                      /\ \A k \in 1..N : k > m => f[m].S[k] = st.S[k]}
<1>1. N \in Nat /\ DOMAIN W.Z = 1..N /\ Len(st.S) = N /\ st.a.ready
  BY LengthFits DEF Settled
<1>2. Runs(f, st, Smooth, FALSE, N)
  <2>1. \E g : Runs(g, st, Smooth, FALSE, N)
    BY <1>1, DrawingsExist
  <2> QED
    BY <2>1
<1>3. RenderAll(st, Smooth) = f[N]
  BY <1>1 DEF RenderAll, Runs, Step
<1> HIDE DEF f, N
<1>4. 0 \in Fine
  <2>1. f[0] = st
    BY <1>1, <1>2 DEF Runs
  <2> QED
    BY <1>1, <2>1
<1>5. ASSUME NEW m \in 0..N, m \in Fine, m < N PROVE m + 1 \in Fine
  <2>1. m + 1 \in 0..N /\ m + 1 # 0 /\ (m + 1) - 1 = m /\ m + 1 \in DOMAIN W.Z
    BY <1>1, <1>5
  <2> DEFINE s == f[m]
             t == RenderNext(s, m + 1, Smooth)
  <2>2. f[m + 1] = t
    BY <1>2, <2>1 DEF Runs, Step
  <2>3. Settled(s, W)
    BY <1>5
  <2> HIDE DEF s
  <2>4. Settled(t, W) /\ Draws(s, t, m + 1) /\ (W.Z[m + 1].size # 0 => Done(t, m + 1, s.S[m + 1]))
    BY <2>1, <2>3, DrawnIsRight
  <2> HIDE DEF t
  <2>5. \A k \in 1..N : k # m + 1 => t.S[k] = s.S[k]
    BY <1>1, <2>3, <2>4 DEF Draws, Settled, Fits
  <2>6. ASSUME NEW k \in 1..N, k <= m + 1, W.Z[k].size # 0 PROVE Done(t, k, st.S[k])
    <3>1. CASE k = m + 1
      <4>1. s.S[k] = st.S[k]
        BY <1>1, <1>5, <2>1, <3>1 DEF s
      <4> QED
        BY <2>4, <2>6, <3>1, <4>1
    <3>2. CASE k # m + 1
      <4>1. k <= m /\ k \in DOMAIN W.Z
        BY <1>1, <1>5, <2>6, <3>2
      <4>2. Done(s, k, st.S[k])
        BY <1>5, <2>6, <4>1 DEF s
      <4>3. t.S[k] = s.S[k] /\ Like(s.a, t.a) /\ Fits(s, W.Z) /\ Fits(t, W.Z)
        BY <2>3, <2>4, <2>5, <3>2 DEF Draws, Settled
      <4> QED
        BY <4>1, <4>2, <4>3, DoneStays
    <3> QED
      BY <3>1, <3>2
  <2>7. ASSUME NEW k \in 1..N, k > m + 1 PROVE t.S[k] = st.S[k]
    <3>1. k > m /\ k # m + 1
      BY <1>1, <2>7
    <3>2. s.S[k] = st.S[k]
      BY <1>5, <3>1 DEF s
    <3> QED
      BY <2>5, <3>1, <3>2
  <2> QED
    BY <2>1, <2>2, <2>4, <2>6, <2>7
<1>6. Fine \in SUBSET (0..N)
  OBVIOUS
<1>7. N \in Fine
  <2> HIDE DEF Fine
  <2> QED
    BY <1>1, <1>4, <1>5, <1>6, UpTo
<1>8. \A i \in Sized(f[N].S) : i \in 1..N /\ W.Z[i].size # 0
  <2>1. Fits(f[N], W.Z)
    BY <1>7 DEF Settled
  <2> QED
    BY <1>1, <2>1 DEF Sized, Fits, Surface
<1> QED
  BY <1>1, <1>3, <1>7, <1>8 DEF Right, Done

-----------------------------------------------------------------------------
(* Sizes, readiness and loaders.                                           *)

Safe(a, s, C, J, d, o, old) ==
    /\ LayersOK(a, s)
    /\ \/ o
       \/ /\ old \/ Served(a, s, C, J)
          /\ \A f \in Frames(s) : FrameOK(a, d, s, f, old)

LEMMA SoundIsSafe ==
    ASSUME NEW st, NEW J, NEW s, NEW old
    PROVE  Sound(st, J, s, old) <=> Safe(st.a, s, st.C, J, st.due, st.odd, old)
BY DEF Sound, Safe

\* A surface that gets another size keeps frames of other sizes.
LEMMA NewSizeSafe ==
    ASSUME NEW a, NEW s, DOMAIN s = SurfaceFields, NEW C, NEW J, NEW d, NEW o,
           NEW was, was = FALSE, Safe(a, s, C, J, d, o, was), NEW z, z # s.size,
           NEW old, old = TRUE
    PROVE  Safe(a, [s EXCEPT !.size = z], C, J, d, o, old)
<1> DEFINE t == [s EXCEPT !.size = z]
<1>1. /\ t.out = s.out /\ t.size = z /\ t.path = s.path /\ t.bg = s.bg
      /\ t.base = s.base /\ t.fresh = s.fresh
  BY FieldsOfSurface
<1> HIDE DEF t
<1>2. Selected(a, t) = Selected(a, s) /\ Wanted(a, t) = Wanted(a, s)
  BY <1>1, SelectedByOutput
<1>3. Frames(t) = Frames(s) /\ LayersOK(a, t)
  BY <1>1 DEF Frames, LayersOK, Safe
<1>4. \A f : FrameOK(a, d, s, f, was) => FrameOK(a, d, t, f, old)
  BY <1>1, <1>2 DEF FrameOK
<1> QED
  BY <1>3, <1>4 DEF Safe, t

\* What the resized surface may have wrong is put on record.
LEMMA ResizedGood ==
    ASSUME NEW W, NEW st, Fits(st, W.Z), NEW i \in DOMAIN W.Z, Good(st, W, {i})
    PROVE  Good(Resized(st, i, W.J), W, {})
<1> DEFINE s == st.S[i]
           left1 == LeftBehind(st.a, s)
           alone == Unserved(st, s, W.J)
           o == st.odd \/ left1 \/ alone
           t == [st EXCEPT !.odd = o]
<1>1. Resized(st, i, W.J) = t
  BY DEF Resized
<1>2. t.a = st.a /\ t.S = st.S /\ t.C = st.C /\ t.due = st.due /\ t.odd = o
  BY DEF Fits, StateFields
<1> HIDE DEF t
<1>3. ASSUME NEW k \in DOMAIN W.Z, k # i PROVE Sound(t, W.J, t.S[k], k \in {})
  <2> DEFINE was == k \in {i}
             old == k \in {}
  <2>1. Sound(st, W.J, st.S[k], was) /\ (was <=> old)
    BY <1>3 DEF Good
  <2> HIDE DEF was, old
  <2>2. Sound(t, W.J, st.S[k], was)
    BY <1>2, <2>1, SoundStays DEF Like
  <2>3. Sound(t, W.J, st.S[k], old)
    BY <2>1, <2>2 DEF Sound, FrameOK
  <2> QED
    BY <1>2, <2>3 DEF old
<1>4. Sound(t, W.J, s, i \in {})
  <2> DEFINE was == i \in {i}
             old == i \in {}
  <2>1. Sound(st, W.J, s, was) /\ was /\ ~old
    BY DEF Good
  <2> HIDE DEF was, old, s
  <2>2. LayersOK(t.a, s)
    BY <1>2, <2>1 DEF Sound
  <2>3. alone \/ Served(t.a, s, t.C, W.J)
    BY <1>2 DEF Unserved, Served
  <2>4. ASSUME NEW f \in Frames(s), ~st.odd, ~left1 PROVE FrameOK(t.a, t.due, s, f, old)
    <3>1. FrameOK(st.a, st.due, s, f, was)
      BY <2>1, <2>4 DEF Sound
    <3>2. f.size = s.size \/ f.picture = Wanted(st.a, s)
      BY <2>4 DEF LeftBehind
    <3> QED
      BY <1>2, <3>1, <3>2 DEF FrameOK
  <2> HIDE DEF left1, alone
  <2>5. Sound(t, W.J, s, old)
    BY <1>2, <2>2, <2>3, <2>4 DEF Sound
  <2> QED
    BY <2>5 DEF old
<1>5. \A k \in DOMAIN W.Z : Sound(t, W.J, t.S[k], k \in {})
  <2> SUFFICES ASSUME NEW k \in DOMAIN W.Z PROVE Sound(t, W.J, t.S[k], k \in {})
    OBVIOUS
  <2>1. CASE k = i
    BY <1>2, <1>4, <2>1
  <2> QED
    BY <1>3, <2>1
<1> QED
  BY <1>1, <1>2, <1>5 DEF Good

\* Layers that waited for readiness are drawn anew.
LEMMA ReadySafe ==
    ASSUME NEW a, DOMAIN a = AppFields, NEW b, b = [a EXCEPT !.ready = TRUE],
           NEW s, NEW C, NEW J, NEW d, NEW o, NEW old, Safe(a, s, C, J, d, o, old),
           HasLayers(a) => s.base.layers
    PROVE  Safe(b, s, C, J, d, o, old)
<1>1. /\ b.path = a.path /\ b.own = a.own /\ b.slides = a.slides /\ b.generated = a.generated
      /\ b.look = a.look /\ b.asset = a.asset /\ b.layers = a.layers
      /\ b.backdrops = a.backdrops /\ b.asStored = a.asStored /\ b.ready = TRUE
      /\ b.started = a.started /\ b.emergency = a.emergency
  BY FieldsOfApp
<1>2. /\ Selected(b, s) = Selected(a, s) /\ Wanted(b, s) = Wanted(a, s)
      /\ HasLayers(b) <=> HasLayers(a)
  BY <1>1 DEF Selected, Wanted, HasLayers
<1>3. Served(b, s, C, J) <=> Served(a, s, C, J)
  BY <1>1, <1>2 DEF Served, Cached
<1>4. \A f : FrameOK(b, d, s, f, old) <=> FrameOK(a, d, s, f, old)
  BY <1>1, <1>2 DEF FrameOK
<1>5. LayersOK(b, s)
  BY <1>2 DEF LayersOK, Safe
<1> QED
  BY <1>3, <1>4, <1>5 DEF Safe

LEMMA MaybeReadyGood ==
    ASSUME NEW W, NEW st, Fits(st, W.Z), NEW R, Good(st, W, R)
    PROVE  Good(MaybeReady(st), W, R)
<1> DEFINE b == [st.a EXCEPT !.ready = TRUE]
           t == [st EXCEPT !.a.ready = TRUE]
           stale == /\ HasLayers(t.a)
                    /\ \E i \in DOMAIN t.S : t.S[i].base = Nothing \/ ~t.S[i].base.layers
           bare(i) == [t.S[i] EXCEPT !.base = Nothing, !.fresh = FALSE]
           u == [t EXCEPT !.S = [i \in DOMAIN t.S |-> bare(i)], !.a.pending = TRUE]
<1>1. /\ t.a = b /\ t.S = st.S /\ t.C = st.C /\ t.due = st.due /\ t.odd = st.odd
      /\ DOMAIN t = StateFields /\ DOMAIN st.a = AppFields /\ DOMAIN st.S = DOMAIN W.Z
  BY DEF Fits, StateFields
<1>2. /\ b.path = st.a.path /\ b.asset = st.a.asset /\ b.slides = st.a.slides
      /\ b.look = st.a.look /\ b.started = st.a.started
      /\ HasLayers(b) <=> HasLayers(st.a)
  BY <1>1, FieldsOfApp DEF HasLayers
<1>3. AssetOK(b)
  BY <1>2 DEF AssetOK, Good
<1>4. MaybeReady(st) \in {st, RefreshAfterReady(t)}
  BY DEF MaybeReady
<1>5. RefreshAfterReady(t) = IF stale THEN u ELSE t
  BY DEF RefreshAfterReady
<1> HIDE DEF t, b
<1>6. CASE ~stale
  <2>1. ASSUME NEW i \in DOMAIN W.Z PROVE Sound(t, W.J, t.S[i], i \in R)
    <3> DEFINE old == i \in R
    <3>1. Sound(st, W.J, st.S[i], old)
      BY DEF Good
    <3> HIDE DEF old
    <3>2. Safe(st.a, st.S[i], st.C, W.J, st.due, st.odd, old)
      BY <3>1, SoundIsSafe
    <3>3. HasLayers(st.a) => st.S[i].base.layers
      BY <1>1, <1>2, <1>6
    <3>4. Safe(b, st.S[i], st.C, W.J, st.due, st.odd, old)
      BY <1>1, <3>2, <3>3, ReadySafe DEF b
    <3>5. Sound(t, W.J, t.S[i], old)
      BY <1>1, <3>4, SoundIsSafe
    <3> QED
      BY <3>5 DEF old
  <2>2. Good(t, W, R)
    BY <1>1, <1>2, <1>3, <2>1 DEF Good
  <2> QED
    BY <1>4, <1>5, <1>6, <2>2
<1>7. CASE stale
  <2> DEFINE T == [i \in DOMAIN t.S |-> bare(i)]
             c == [b EXCEPT !.pending = TRUE]
  <2>1. u.a = c /\ u.S = T /\ u.C = st.C /\ u.due = st.due /\ u.odd = st.odd
    BY <1>1 DEF StateFields
  <2> HIDE DEF u
  <2>2. DOMAIN b = AppFields
    BY <1>1 DEF b
  <2>3. Like(b, c)
    BY <2>2, PendingIsLike
  <2> HIDE DEF c
  <2>4. ASSUME NEW i \in DOMAIN W.Z PROVE Sound(u, W.J, u.S[i], i \in R)
    <3> DEFINE old == i \in R
               s == st.S[i]
               r == u.S[i]
    <3>1. Sound(st, W.J, s, old) /\ DOMAIN s = SurfaceFields
      BY DEF Good, Fits, Surface
    <3>2. /\ r.out = s.out /\ r.size = s.size /\ r.path = s.path /\ r.bg = s.bg /\ r.fresh = FALSE
          /\ r.base = Nothing
      <4>1. r = [s EXCEPT !.base = Nothing, !.fresh = FALSE]
        BY <1>1, <2>1
      <4> HIDE DEF r, s
      <4> QED
        BY <3>1, <4>1, FieldsOfSurface
    <3> HIDE DEF r, old, s
    <3>3. Sound(st, W.J, r, old)
      BY <3>1, <3>2, LessSound
    <3>4. Safe(st.a, r, st.C, W.J, st.due, st.odd, old)
      BY <3>3, SoundIsSafe
    <3>5. Safe(b, r, st.C, W.J, st.due, st.odd, old)
      <4> DEFINE a == st.a
      <4>1. /\ b.path = a.path /\ b.own = a.own /\ b.slides = a.slides
            /\ b.generated = a.generated /\ b.look = a.look /\ b.asset = a.asset
            /\ b.layers = a.layers /\ b.backdrops = a.backdrops /\ b.asStored = a.asStored
            /\ b.started = a.started /\ b.emergency = a.emergency
        BY <1>1, FieldsOfApp DEF b
      <4> HIDE DEF a
      <4>2. Selected(b, r) = Selected(a, r) /\ Wanted(b, r) = Wanted(a, r)
        BY <4>1 DEF Selected, Wanted
      <4>3. Served(b, r, st.C, W.J) <=> Served(a, r, st.C, W.J)
        BY <4>1, <4>2 DEF Served, Cached, HasLayers
      <4>4. \A f : FrameOK(b, st.due, r, f, old) <=> FrameOK(a, st.due, r, f, old)
        BY <4>1, <4>2 DEF FrameOK
      <4>5. LayersOK(b, r)
        BY <3>2 DEF LayersOK
      <4> QED
        BY <3>4, <4>3, <4>4, <4>5 DEF Safe, a
    <3>6. Sound([st EXCEPT !.a = b], W.J, r, old)
      <4> DEFINE x == [st EXCEPT !.a = b]
      <4>1. x.a = b /\ x.C = st.C /\ x.due = st.due /\ x.odd = st.odd
        BY DEF Fits, StateFields
      <4> HIDE DEF x
      <4>2. Sound(x, W.J, r, old)
        BY <3>5, <4>1, SoundIsSafe
      <4> QED
        BY <4>2 DEF x
    <3>7. Sound(u, W.J, r, old)
      <4> DEFINE x == [st EXCEPT !.a = b]
      <4>1. x.a = b /\ x.C = st.C /\ x.due = st.due /\ x.odd = st.odd
        BY DEF Fits, StateFields
      <4>2. Sound(x, W.J, r, old)
        BY <3>6
      <4> HIDE DEF x
      <4> QED
        BY <2>1, <2>3, <4>1, <4>2, SoundStays
    <3> QED
      BY <3>7 DEF r, old
  <2>5. Good(u, W, R)
    <3>1. AssetOK(c)
      BY <1>3, <2>3, AssetStays
    <3>2. c.started = st.a.started
      BY <1>2, <2>3 DEF Like
    <3> QED
      BY <2>1, <2>4, <3>1, <3>2 DEF Good
  <2> QED
    BY <1>4, <1>5, <1>7, <2>5
<1> QED
  BY <1>6, <1>7

LEMMA FlushPendingGood ==
    ASSUME NEW W, Surfaces(W.Z), NEW st, Fits(st, W.Z), Good(st, W, {}), NEW plan
    PROVE  Good(FlushPending(st, plan), W, {})
<1> DEFINE p == FALSE
           t == [st EXCEPT !.a.pending = p]
<1> HIDE DEF p
<1>1. Fits(t, W.Z) /\ Good(t, W, {})
  BY PendingFits, PendingGood
<1> HIDE DEF t
<1>2. Good(RenderAll(t, plan), W, {})
  BY <1>1, RenderAllGood
<1>3. FlushPending(st, plan) \in {st, RenderAll(t, plan)}
  BY DEF FlushPending, t, p
<1> QED
  BY <1>2, <1>3

LEMMA ReadiesGood ==
    ASSUME NEW W, Surfaces(W.Z), NEW st, Fits(st, W.Z), Good(st, W, {}), NEW plan
    PROVE  Good(Readies(st, plan), W, {})
<1>1. Fits(MaybeReady(st), W.Z) /\ Good(MaybeReady(st), W, {})
  BY MaybeReadyFits, MaybeReadyGood
<1>2. Good(FlushPending(MaybeReady(st), plan), W, {})
  BY <1>1, FlushPendingGood
<1> QED
  BY <1>2 DEF Readies

\* The same in all that decides on the pictures
Same(a, b) ==
    /\ b.path = a.path /\ b.own = a.own /\ b.slides = a.slides /\ b.generated = a.generated
    /\ b.look = a.look /\ b.asset = a.asset /\ b.layers = a.layers /\ b.backdrops = a.backdrops
    /\ b.ready = a.ready /\ b.started = a.started /\ b.emergency = a.emergency

LEMMA SameIsSafe ==
    ASSUME NEW a, NEW b, Same(a, b), NEW s, NEW C, NEW J, NEW d, NEW o, NEW old,
           Safe(a, s, C, J, d, o, old)
    PROVE  Safe(b, s, C, J, d, o, old)
<1>1. /\ b.path = a.path /\ b.own = a.own /\ b.slides = a.slides /\ b.generated = a.generated
      /\ b.look = a.look /\ b.asset = a.asset /\ b.layers = a.layers
      /\ b.backdrops = a.backdrops
      /\ b.ready = a.ready /\ b.started = a.started /\ b.emergency = a.emergency
  BY DEF Same
<1>2. /\ Selected(b, s) = Selected(a, s) /\ Wanted(b, s) = Wanted(a, s)
      /\ HasLayers(b) <=> HasLayers(a)
  BY <1>1 DEF Selected, Wanted, HasLayers
<1>3. Served(b, s, C, J) <=> Served(a, s, C, J)
  <2>1. Cached(b, C, s, "plain") <=> Cached(a, C, s, "plain")
    BY <1>1, <1>2 DEF Cached
  <2> QED
    BY <1>1, <1>2, <2>1 DEF Served
<1>4. \A f : FrameOK(b, d, s, f, old) <=> FrameOK(a, d, s, f, old)
  BY <1>1, <1>2 DEF FrameOK
<1>5. LayersOK(b, s) <=> LayersOK(a, s)
  BY <1>1, <1>2 DEF LayersOK
<1> QED
  BY <1>3, <1>4, <1>5 DEF Safe

LEMMA SameAsset ==
    ASSUME NEW a, NEW b, Same(a, b), AssetOK(a)
    PROVE  AssetOK(b)
BY DEF Same, AssetOK

\* What is stored, loaded or due may grow, and what is due of an image that
\* cannot be read need not be.
LEMMA MoreIsSafe ==
    ASSUME NEW a, NEW s, NEW C, NEW J, NEW d, NEW o, NEW old, Safe(a, s, C, J, d, o, old),
           NEW C2, NEW J2, NEW d2, NEW o2, o => o2,
           Served(a, s, C, J) => Served(a, s, C2, J2),
           \/ Selected(a, s) \in Unreadable \/ ~a.started
           \/ <<Selected(a, s), s.size>> \in d => <<Selected(a, s), s.size>> \in d2
    PROVE  Safe(a, s, C2, J2, d2, o2, old)
<1>1. \A f : FrameOK(a, d, s, f, old) => FrameOK(a, d2, s, f, old)
  BY DEF FrameOK
<1> QED
  BY <1>1 DEF Safe

LEMMA MoreServes ==
    ASSUME NEW a, NEW s, NEW C, NEW J, Served(a, s, C, J),
           NEW C2, C \subseteq C2, NEW J2, J \subseteq J2
    PROVE  Served(a, s, C2, J2)
<1>1. Cached(a, C, s, "plain") => Cached(a, C2, s, "plain")
  BY DEF Cached
<1> QED
  BY <1>1 DEF Served

\* Without frames, and with the loaders still to be started, all is well.
LEMMA BareIsSafe ==
    ASSUME NEW a, ~a.started, NEW s, ~s.fresh, s.bg = Nothing,
           NEW C, NEW J, NEW d, NEW o, NEW old
    PROVE  Safe(a, s, C, J, d, o, old)
<1>1. Frames(s) = {}
  BY DEF Frames
<1> QED
  BY <1>1 DEF Safe, Served, LayersOK

\* Nor does it hurt to forget that they were started.
LEMMA UnstartedIsSafe ==
    ASSUME NEW a, DOMAIN a = AppFields, NEW b, b = [a EXCEPT !.started = FALSE],
           NEW s, NEW C, NEW J, NEW d, NEW o, NEW old, Safe(a, s, C, J, d, o, old)
    PROVE  Safe(b, s, C, J, d, o, old)
<1>1. /\ b.path = a.path /\ b.own = a.own /\ b.slides = a.slides
      /\ b.look = a.look /\ b.asset = a.asset /\ b.layers = a.layers
      /\ b.ready = a.ready /\ b.started = FALSE /\ b.emergency = a.emergency
  BY FieldsOfApp
<1>2. /\ Selected(b, s) = Selected(a, s) /\ Wanted(b, s) = Wanted(a, s)
      /\ HasLayers(b) <=> HasLayers(a)
  BY <1>1 DEF Selected, Wanted, HasLayers
<1>3. \A f : FrameOK(a, d, s, f, old) => FrameOK(b, d, s, f, old)
  BY <1>1, <1>2 DEF FrameOK
<1>4. LayersOK(b, s) <=> LayersOK(a, s)
  BY <1>1, <1>2 DEF LayersOK
<1> QED
  BY <1>1, <1>3, <1>4 DEF Safe, Served

-----------------------------------------------------------------------------
(* What is due.                                                            *)

LEMMA DueOf ==
    ASSUME NEW J, NEW E, NEW p, NEW y
    PROVE  <<p, y>> \in Due(J, E) <=>
             \/ \E j \in J : j.src = p /\ y \in UnsentSizes(j)
             \/ \E k \in DOMAIN E : E[k].src = p /\ y \in E[k].sizes
<1> DEFINE x == <<p, y>>
           A == UNION {{<<j.src, z>> : z \in UnsentSizes(j)} : j \in J}
           B == UNION {{<<E[k].src, z>> : z \in E[k].sizes} : k \in DOMAIN E}
<1>1. Due(J, E) = A \cup B
  BY DEF Due
<1>2. x \in A <=> \E j \in J : \E z \in UnsentSizes(j) : x = <<j.src, z>>
  <2> HIDE DEF x
  <2> QED
    OBVIOUS
<1>3. x \in B <=> \E k \in DOMAIN E : \E z \in E[k].sizes : x = <<E[k].src, z>>
  <2> HIDE DEF x
  <2> QED
    OBVIOUS
<1>4. \A q, z : x = <<q, z>> <=> p = q /\ y = z
  OBVIOUS
<1> HIDE DEF x, A, B
<1>5. x \in A <=> \E j \in J : j.src = p /\ y \in UnsentSizes(j)
  BY <1>2, <1>4
<1>6. x \in B <=> \E k \in DOMAIN E : E[k].src = p /\ y \in E[k].sizes
  BY <1>3, <1>4
<1>7. x \in Due(J, E) <=> x \in A \/ x \in B
  BY <1>1
<1> QED
  BY <1>5, <1>6, <1>7 DEF x

JobFields == {"src", "look", "sizes", "preload", "phase"}

JobsOK(J) == \A j \in J : DOMAIN j = JobFields /\ (j.preload \/ j.src # None)

LEMMA LoaderFields ==
    ASSUME NEW a, NEW p, NEW Q, NEW r
    PROVE  LET j == Loader(a, p, Q, r)
           IN  /\ DOMAIN j = JobFields /\ j.src = p /\ j.look = a.look /\ j.sizes = Q
               /\ j.preload = r /\ j.phase = "lookup"
BY DEF Loader, JobFields

LEMMA NewJobsOK ==
    ASSUME NEW a, NEW S
    PROVE  JobsOK(NewJobs(a, S))
<1> SUFFICES ASSUME NEW j \in NewJobs(a, S)
             PROVE  DOMAIN j = JobFields /\ (j.preload \/ j.src # None)
  BY DEF JobsOK
<1>1. CASE j \in Specs(a, S)
  <2>1. PICK p \in {Selected(a, S[i]) : i \in ImageSurfaces(a, S)} :
            j = Loader(a, p, {S[i].size : i \in {k \in ImageSurfaces(a, S) :
                                                 Selected(a, S[k]) = p}}, FALSE)
    BY <1>1 DEF Specs
  <2> DEFINE Q == {S[i].size : i \in {k \in ImageSurfaces(a, S) : Selected(a, S[k]) = p}}
             r == FALSE
  <2>2. j = Loader(a, p, Q, r)
    BY <2>1
  <2>3. p # None
    BY <2>1 DEF ImageSurfaces
  <2> HIDE DEF Q, r
  <2> QED
    BY <2>2, <2>3, LoaderFields
<1>2. CASE j \in Preloads(a, S)
  <2> DEFINE p == NextPreload(a.slides)
             Q == {S[i].size : i \in Sized(S)}
             r == TRUE
  <2>1. j = Loader(a, p, Q, r)
    BY <1>2 DEF Preloads
  <2>2. r = TRUE
    OBVIOUS
  <2> HIDE DEF p, Q, r
  <2>3. DOMAIN j = JobFields /\ j.preload = r
    BY <2>1, LoaderFields
  <2> QED
    BY <2>2, <2>3
<1> QED
  BY <1>1, <1>2 DEF NewJobs

\* Once the loaders are started, every surface with an image has one that is
\* going to send it in its size.
LEMMA SpecsServe ==
    ASSUME NEW a, NEW S, StartsLoading(a, S), NEW k \in DOMAIN S, Selected(a, S[k]) # None
    PROVE  \E j \in NewJobs(a, S) :
              /\ ~j.preload /\ Picture(j.src, j.look) = Wanted(a, S[k])
              /\ S[k].size \in j.sizes /\ j.src = Selected(a, S[k])
              /\ S[k].size \in UnsentSizes(j)
<1> DEFINE p == Selected(a, S[k])
           Q == {S[i].size : i \in {n \in ImageSurfaces(a, S) : Selected(a, S[n]) = p}}
           r == FALSE
           j == Loader(a, p, Q, r)
<1>1. k \in ImageSurfaces(a, S)
  BY DEF ImageSurfaces
<1>2. j \in Specs(a, S)
  BY <1>1 DEF StartsLoading, Specs
<1>3. j \in NewJobs(a, S)
  BY <1>2 DEF NewJobs
<1>4. S[k].size \in Q /\ ~r
  BY <1>1
<1> HIDE DEF Q, r
<1>5. /\ j.src = p /\ j.look = a.look /\ j.sizes = Q /\ j.preload = r /\ j.phase = "lookup"
  BY LoaderFields
<1> HIDE DEF j
<1>6. Picture(j.src, j.look) = Wanted(a, S[k])
  BY <1>5 DEF Wanted
<1>7. S[k].size \in UnsentSizes(j)
  BY <1>4, <1>5 DEF UnsentSizes
<1> QED
  BY <1>3, <1>4, <1>5, <1>6, <1>7

\* Starting the loaders keeps all well.
LEMMA StartedIsSafe ==
    ASSUME NEW a, DOMAIN a = AppFields, NEW S, NEW k \in DOMAIN S,
           NEW b, b = [a EXCEPT !.started = a.started \/ StartsLoading(a, S)],
           NEW C, NEW J, NEW d, NEW o, NEW old, Safe(a, S[k], C, J, d, o, old),
           NEW J2, NewJobs(a, S) \subseteq J2, NEW E,
           a.started => J \subseteq J2 /\ d \subseteq Due(J2, E)
    PROVE  Safe(b, S[k], C, J2, Due(J2, E), o, old)
<1> DEFINE s == S[k]
           d2 == Due(J2, E)
<1>1. /\ b.path = a.path /\ b.own = a.own /\ b.slides = a.slides
      /\ b.look = a.look /\ b.asset = a.asset /\ b.layers = a.layers
      /\ b.ready = a.ready /\ b.emergency = a.emergency /\ b.generated = a.generated
      /\ b.backdrops = a.backdrops
  BY FieldsOfApp
<1>2. b.started <=> a.started \/ StartsLoading(a, S)
  BY FieldsOfApp
<1>3. /\ Selected(b, s) = Selected(a, s) /\ Wanted(b, s) = Wanted(a, s)
      /\ HasLayers(b) <=> HasLayers(a)
  BY <1>1 DEF Selected, Wanted, HasLayers
<1>4. LayersOK(b, s)
  BY <1>1, <1>3 DEF LayersOK, Safe
<1>5. StartsLoading(a, S) /\ Selected(a, s) # None =>
        /\ \E j \in J2 : /\ ~j.preload /\ Picture(j.src, j.look) = Wanted(b, s)
                         /\ s.size \in j.sizes
        /\ <<Selected(a, s), s.size>> \in d2
  <2> SUFFICES ASSUME StartsLoading(a, S), Selected(a, s) # None
               PROVE  /\ \E j \in J2 : /\ ~j.preload
                                       /\ Picture(j.src, j.look) = Wanted(b, s)
                                       /\ s.size \in j.sizes
                      /\ <<Selected(a, s), s.size>> \in d2
    OBVIOUS
  <2>1. PICK j \in NewJobs(a, S) :
              /\ ~j.preload /\ Picture(j.src, j.look) = Wanted(a, S[k])
              /\ S[k].size \in j.sizes /\ j.src = Selected(a, S[k])
              /\ S[k].size \in UnsentSizes(j)
    BY SpecsServe
  <2>2. j \in J2
    BY <2>1
  <2> QED
    BY <1>3, <2>1, <2>2, DueOf
<1> HIDE DEF d2, s
<1>6. old \/ o \/ Served(b, s, C, J2)
  <2>1. CASE StartsLoading(a, S)
    BY <1>3, <1>5, <2>1 DEF Served
  <2>2. CASE ~StartsLoading(a, S) /\ ~a.started
    BY <1>2, <2>2 DEF Served
  <2>3. CASE a.started
    <3>1. old \/ o \/ Served(a, s, C, J)
      BY DEF Safe, s
    <3>2. old \/ o \/ Served(a, s, C, J2)
      BY <2>3, <3>1, MoreServes
    <3>3. Cached(b, C, s, "plain") <=> Cached(a, C, s, "plain")
      BY <1>1, <1>3 DEF Cached
    <3> QED
      BY <1>1, <1>3, <2>3, <3>2, <3>3 DEF Served
  <2> QED
    BY <2>1, <2>2, <2>3
<1>7. ASSUME NEW f, FrameOK(a, d, s, f, old) PROVE FrameOK(b, d2, s, f, old)
  <2>1. a.started /\ <<Selected(a, s), s.size>> \in d => <<Selected(a, s), s.size>> \in d2
    BY DEF d2
  <2> QED
    BY <1>2, <1>3, <1>5, <1>7, <2>1 DEF FrameOK
<1>8. o \/ \A f \in Frames(s) : FrameOK(a, d, s, f, old)
  BY DEF Safe, s
<1>9. Safe(b, s, C, J2, d2, o, old)
  BY <1>4, <1>6, <1>7, <1>8 DEF Safe
<1> QED
  BY <1>9 DEF s, d2

-----------------------------------------------------------------------------
(* The invariant of the pictures, and what a handler begins and ends with. *)

EventOK(e) == e.src # None /\ (e.kind \in {"asset", "failed"} => e.sizes = {})
EventsOK(E) == \E T : E \in Seq(T) /\ \A e \in T : EventOK(e)

AllSafe(a, S, C, J, d, o) == \A i \in DOMAIN S : Safe(a, S[i], C, J, d, o, FALSE)

\* Every surface can still get its picture, and what it may draw from shows it,
\* unless a loader is going to replace it or a race is on record.
ImageInv ==
    /\ AssetOK(app) /\ JobsOK(jobs) /\ EventsOK(events)
    /\ AllSafe(app, surf, cache, jobs, Due(jobs, events), odd)

LEMMA OldOrNot ==
    ASSUME NEW a, NEW s, NEW C, NEW J, NEW d, NEW o, NEW x, NEW y, x => y,
           Safe(a, s, C, J, d, o, x)
    PROVE  Safe(a, s, C, J, d, o, y)
BY DEF Safe, FrameOK

LEMMA GoodFrom ==
    ASSUME NEW W, NEW st, AssetOK(st.a), st.C = W.C, st.due = W.due, st.a.started = W.started,
           NEW R, \A i \in DOMAIN W.Z : Safe(st.a, st.S[i], W.C, W.J, W.due, st.odd, i \in R)
    PROVE  Good(st, W, R)
<1>1. ASSUME NEW i \in DOMAIN W.Z PROVE Sound(st, W.J, st.S[i], i \in R)
  <2> DEFINE old == i \in R
  <2>1. Safe(st.a, st.S[i], st.C, W.J, st.due, st.odd, old)
    OBVIOUS
  <2> HIDE DEF old
  <2>2. Sound(st, W.J, st.S[i], old)
    BY <2>1, SoundIsSafe
  <2> QED
    BY <2>2 DEF old
<1> QED
  BY <1>1 DEF Good

LEMMA GoodFromAll ==
    ASSUME NEW W, NEW st, AssetOK(st.a), st.C = W.C, st.due = W.due, st.a.started = W.started,
           DOMAIN st.S = DOMAIN W.Z, AllSafe(st.a, st.S, W.C, W.J, W.due, st.odd)
    PROVE  Good(st, W, {})
<1>1. ASSUME NEW i \in DOMAIN W.Z PROVE Safe(st.a, st.S[i], W.C, W.J, W.due, st.odd, i \in {})
  <2> DEFINE x == FALSE
             y == i \in {}
  <2>1. Safe(st.a, st.S[i], W.C, W.J, W.due, st.odd, x) /\ (x => y)
    BY DEF AllSafe
  <2> HIDE DEF x, y
  <2>2. Safe(st.a, st.S[i], W.C, W.J, W.due, st.odd, y)
    BY <2>1, OldOrNot
  <2> QED
    BY <2>2 DEF y
<1> QED
  BY <1>1, GoodFrom

LEMMA GoodToAll ==
    ASSUME NEW W, NEW st, Fits(st, W.Z), Good(st, W, {})
    PROVE  AllSafe(st.a, st.S, W.C, W.J, W.due, st.odd)
<1> SUFFICES ASSUME NEW i \in DOMAIN st.S
             PROVE  Safe(st.a, st.S[i], W.C, W.J, W.due, st.odd, FALSE)
  BY DEF AllSafe
<1>1. i \in DOMAIN W.Z
  BY DEF Fits
<1> DEFINE x == FALSE
           y == i \in {}
<1>2. Sound(st, W.J, st.S[i], y) /\ (y => x) /\ st.C = W.C /\ st.due = W.due
  BY <1>1 DEF Good
<1> HIDE DEF x, y
<1>3. Safe(st.a, st.S[i], W.C, W.J, W.due, st.odd, y)
  BY <1>2, SoundIsSafe
<1>4. Safe(st.a, st.S[i], W.C, W.J, W.due, st.odd, x)
  BY <1>2, <1>3, OldOrNot
<1> QED
  BY <1>4 DEF x

LEMMA Ending ==
    ASSUME NEW W, NEW st, Fits(st, W.Z), Good(st, W, {}), Becomes(st),
           cache' = W.C, jobs' = W.J, Due(jobs', events') = W.due,
           JobsOK(jobs'), EventsOK(events')
    PROVE  ImageInv'
<1>1. app' = st.a /\ surf' = st.S /\ odd' = st.odd
  BY DEF Becomes
<1>2. AllSafe(st.a, st.S, W.C, W.J, W.due, st.odd)
  BY GoodToAll
<1>3. AllSafe(app', surf', cache', jobs', Due(jobs', events'), odd')
  BY <1>1, <1>2
<1>4. AssetOK(app')
  BY <1>1 DEF Good
<1> QED
  BY <1>3, <1>4 DEF ImageInv

\* A handler that draws what there is, without loaders
Was(W) ==
    W.Z = surf /\ W.C = cache /\ W.J = jobs /\ W.due = Due(jobs, events) /\ W.started = app.started

LEMMA GoodNow ==
    ASSUME ImageInv, NEW W, Was(W)
    PROVE  Good(Now, W, {})
<1>1. /\ Now.a = app /\ Now.S = surf /\ Now.C = cache /\ Now.due = Due(jobs, events)
      /\ Now.odd = odd
  BY DEF Now
<1>2. AssetOK(Now.a) /\ AllSafe(Now.a, Now.S, W.C, W.J, W.due, Now.odd)
  BY <1>1 DEF ImageInv, Was
<1> QED
  BY <1>1, <1>2, GoodFromAll DEF Was

LEMMA EndingAsItWas ==
    ASSUME ImageInv, NEW W, Was(W), NEW st, Fits(st, surf), Good(st, W, {}), Becomes(st),
           UNCHANGED <<jobs, events, cache>>
    PROVE  ImageInv'
<1>1. Due(jobs', events') = W.due /\ JobsOK(jobs') /\ EventsOK(events')
  BY DEF ImageInv, Was
<1> QED
  BY <1>1, Ending DEF Was

-----------------------------------------------------------------------------
(* One lemma per handler: each keeps the pictures safe.                    *)

LEMMA SameIsAllSafe ==
    ASSUME NEW a, NEW b, Same(a, b), NEW S, NEW C, NEW J, NEW d, NEW o,
           AllSafe(a, S, C, J, d, o)
    PROVE  AllSafe(b, S, C, J, d, o)
<1> DEFINE old == FALSE
<1>1. \A i \in DOMAIN S : Safe(a, S[i], C, J, d, o, old)
  BY DEF AllSafe
<1> HIDE DEF old
<1>2. \A i \in DOMAIN S : Safe(b, S[i], C, J, d, o, old)
  BY <1>1, SameIsSafe
<1> QED
  BY <1>2 DEF AllSafe, old

LEMMA ItWas == \E W : Was(W)
<1> DEFINE W == [Z |-> surf, C |-> cache, J |-> jobs, due |-> Due(jobs, events),
                 started |-> app.started]
<1>1. Was(W)
  BY DEF Was
<1> QED
  BY <1>1

LEMMA ImageTick ==
    ASSUME SceneInv, ImageInv, NEW plan, Tick(plan)
    PROVE  ImageInv'
<1>1. PICK W : Was(W)
  BY ItWas
<1>2. Surfaces(W.Z) /\ Fits(Now, W.Z) /\ W.Z = surf
  BY <1>1, NowFits DEF SceneInv, Was
<1>3. Good(Now, W, {})
  BY <1>1, GoodNow
<1> DEFINE st == RenderAll(Now, plan)
<1>4. Fits(st, surf) /\ Good(st, W, {})
  BY <1>2, <1>3, RenderAllFits, RenderAllGood
<1>5. Becomes(st) /\ UNCHANGED <<jobs, events, cache>>
  BY DEF Tick
<1> HIDE DEF st
<1> QED
  BY <1>1, <1>4, <1>5, EndingAsItWas


LEMMA ImageKeyPressed ==
    ASSUME SceneInv, ImageInv, KeyPressed
    PROVE  ImageInv'
<1>1. PICK W : Was(W)
  BY ItWas
<1>2. Surfaces(W.Z) /\ Fits(Now, W.Z) /\ W.Z = surf
  BY <1>1, NowFits DEF SceneInv, Was
<1>3. Good(Now, W, {})
  BY <1>1, GoodNow
<1> DEFINE st == DrawAllDirty(Now)
<1>4. Fits(st, surf) /\ Good(st, W, {})
  BY <1>2, <1>3, DrawAllDirtyFits, DrawAllDirtyGood
<1>5. Becomes(st) /\ UNCHANGED <<jobs, events, cache>>
  BY DEF KeyPressed
<1> HIDE DEF st
<1> QED
  BY <1>1, <1>4, <1>5, EndingAsItWas

LEMMA ImageFocus ==
    ASSUME SceneInv, ImageInv, NEW i, NEW plan, Focus(i, plan)
    PROVE  ImageInv'
<1>1. PICK W : Was(W)
  BY ItWas
<1> DEFINE a == [app EXCEPT !.focused = i]
           st == [Now EXCEPT !.a.focused = i]
           moved == PrimaryIndex(st.a, surf) # PrimaryIndex(app, surf)
           t == IF moved THEN RenderAll(st, plan) ELSE st
<1>2. Fits(Now, surf) /\ Surfaces(surf) /\ W.Z = surf
  BY <1>1, NowFits DEF SceneInv, Was
<1>3. Fits(st, surf)
  BY <1>2, FieldsOfApp DEF Fits, StateFields
<1>4. /\ st.a = a /\ st.S = surf /\ st.C = cache /\ st.due = Due(jobs, events) /\ st.odd = odd
      /\ Same(app, a)
  <2>1. Same(app, a)
    BY FieldsOfApp DEF SceneInv, Same
  <2> HIDE DEF a
  <2> QED
    BY <2>1 DEF Now, a
<1>5. Becomes(t) /\ UNCHANGED <<jobs, events, cache>>
  BY DEF Focus
<1> HIDE DEF st, moved, a
<1>6. AssetOK(st.a) /\ AllSafe(st.a, st.S, W.C, W.J, W.due, st.odd)
  BY <1>1, <1>4, SameAsset, SameIsAllSafe DEF ImageInv, Was
<1>7. Good(st, W, {})
  BY <1>1, <1>4, <1>6, GoodFromAll DEF Was, Same
<1>8. Fits(t, surf) /\ Good(t, W, {})
  BY <1>2, <1>3, <1>7, RenderAllFits, RenderAllGood
<1> HIDE DEF t
<1> QED
  BY <1>1, <1>5, <1>8, EndingAsItWas

LEMMA ImageLocked ==
    ASSUME SceneInv, ImageInv, NEW plan, Locked(plan)
    PROVE  ImageInv'
<1>1. PICK W : Was(W)
  BY ItWas
<1> DEFINE a == [app EXCEPT !.locked = TRUE]
           st == [Now EXCEPT !.a.locked = TRUE]
           t == FlushPending(MaybeReady(st), plan)
<1>2. Fits(Now, surf) /\ Surfaces(surf) /\ W.Z = surf
  BY <1>1, NowFits DEF SceneInv, Was
<1>3. Fits(st, surf)
  BY <1>2, FieldsOfApp DEF Fits, StateFields
<1>4. /\ st.a = a /\ st.S = surf /\ st.C = cache /\ st.due = Due(jobs, events) /\ st.odd = odd
      /\ Same(app, a)
  <2>1. Same(app, a)
    BY FieldsOfApp DEF SceneInv, Same
  <2> HIDE DEF a
  <2> QED
    BY <2>1 DEF Now, a
<1>5. Becomes(t) /\ UNCHANGED <<jobs, events, cache>>
  BY DEF Locked
<1> HIDE DEF st, a
<1>6. AssetOK(st.a) /\ AllSafe(st.a, st.S, W.C, W.J, W.due, st.odd)
  BY <1>1, <1>4, SameAsset, SameIsAllSafe DEF ImageInv, Was
<1>7. Good(st, W, {})
  BY <1>1, <1>4, <1>6, GoodFromAll DEF Was, Same
<1>8. Fits(MaybeReady(st), surf) /\ Good(MaybeReady(st), W, {})
  BY <1>2, <1>3, <1>7, MaybeReadyFits, MaybeReadyGood
<1>9. Fits(t, surf) /\ Good(t, W, {})
  BY <1>2, <1>8, FlushPendingFits, FlushPendingGood
<1> HIDE DEF t
<1> QED
  BY <1>1, <1>5, <1>9, EndingAsItWas

\* The stored scene does not count for Served, and no frame of the prompt is left.
LEMMA ImageShellChanges ==
    ASSUME SceneInv, ImageInv, NEW asStored, NEW plan, ShellChanges(asStored, plan)
    PROVE  ImageInv'
<1>1. PICK W : Was(W)
  BY ItWas
<1> DEFINE a == [app EXCEPT !.asStored = asStored]
           S == [i \in DOMAIN surf |-> [surf[i] EXCEPT !.fresh = FALSE]]
           one == [Now EXCEPT !.a.asStored = asStored]
           st == [one EXCEPT !.S = S]
           t == RenderAll(st, plan)
<1>2. Fits(Now, surf) /\ Surfaces(surf) /\ W.Z = surf
  BY <1>1, NowFits DEF SceneInv, Was
<1>3. Fits(one, surf) /\ one.S = surf /\ DOMAIN one = StateFields
  BY <1>2, FieldsOfApp DEF Fits, StateFields, Now
<1>4. \A i \in DOMAIN surf : Surface(S[i], surf[i].out, surf[i].size)
  BY <1>2, FieldsOfSurface DEF Surfaces, Surface
<1>5. Becomes(t) /\ UNCHANGED <<jobs, events, cache>>
  <2>1. Becomes(RenderAll([Now EXCEPT !.a.asStored = asStored,
                !.S = [i \in DOMAIN @ |-> [@[i] EXCEPT !.fresh = FALSE]]], plan))
    BY DEF ShellChanges
  <2>2. [Now EXCEPT !.a.asStored = asStored,
                !.S = [i \in DOMAIN @ |-> [@[i] EXCEPT !.fresh = FALSE]]] = st
    BY DEF Now
  <2> HIDE DEF st
  <2> QED
    BY <2>1, <2>2 DEF ShellChanges
<1>6. /\ st.a = a /\ st.S = S /\ st.C = cache /\ st.due = Due(jobs, events) /\ st.odd = odd
      /\ Same(app, a)
  <2>1. Same(app, a)
    BY FieldsOfApp DEF SceneInv, Same
  <2>2. /\ one.a = a /\ one.C = cache /\ one.due = Due(jobs, events) /\ one.odd = odd
    BY DEF Now
  <2> HIDE DEF a, one, S
  <2> QED
    BY <1>3, <2>1, <2>2 DEF StateFields
<1>7. \A i \in DOMAIN surf :
        /\ S[i].out = surf[i].out /\ S[i].size = surf[i].size /\ S[i].path = surf[i].path
        /\ S[i].bg = surf[i].bg /\ S[i].fresh = FALSE
  BY <1>2, FieldsOfSurface DEF Surfaces
<1>8. S = [i \in DOMAIN surf |-> S[i]]
  OBVIOUS
<1> HIDE DEF one, S
<1>9. Fits(st, surf)
  BY <1>3, <1>4, <1>8, SurfacesFit
<1> HIDE DEF st, a
<1>10. ASSUME NEW i \in DOMAIN surf
       PROVE  Safe(a, S[i], cache, jobs, Due(jobs, events), odd, FALSE)
  <2> DEFINE old == FALSE
             s == surf[i]
             r == S[i]
  <2>1. Safe(app, s, cache, jobs, Due(jobs, events), odd, old)
    BY DEF ImageInv, AllSafe
  <2>2. /\ r.out = s.out /\ r.size = s.size /\ r.path = s.path /\ r.bg = s.bg
        /\ r.fresh = FALSE
    BY <1>7
  <2> HIDE DEF old, s, r
  <2>3. Sound(Now, jobs, s, old)
    BY <2>1, SoundIsSafe DEF Now
  <2>4. Sound(Now, jobs, r, old)
    BY <2>2, <2>3, LessSound
  <2>5. Safe(app, r, cache, jobs, Due(jobs, events), odd, old)
    BY <2>4, SoundIsSafe DEF Now
  <2>6. Safe(a, r, cache, jobs, Due(jobs, events), odd, old)
    BY <1>6, <2>5, SameIsSafe
  <2> QED
    BY <2>6 DEF old, r
<1>11. AssetOK(st.a) /\ AllSafe(st.a, st.S, W.C, W.J, W.due, st.odd)
  <2>1. DOMAIN S = DOMAIN surf
    BY <1>8
  <2> QED
    BY <1>1, <1>6, <1>10, <2>1, SameAsset DEF ImageInv, AllSafe, Was
<1>12. Good(st, W, {})
  BY <1>1, <1>6, <1>8, <1>11, GoodFromAll DEF Was, Same
<1>13. Fits(t, surf) /\ Good(t, W, {})
  BY <1>2, <1>9, <1>12, RenderAllFits, RenderAllGood
<1> HIDE DEF t
<1> QED
  BY <1>1, <1>5, <1>13, EndingAsItWas

World(Z, C, J, d, x) == [Z |-> Z, C |-> C, J |-> J, due |-> d, started |-> x]

LEMMA WorldFields ==
    ASSUME NEW Z, NEW C, NEW J, NEW d, NEW x
    PROVE  LET W == World(Z, C, J, d, x)
           IN  W.Z = Z /\ W.C = C /\ W.J = J /\ W.due = d /\ W.started = x
BY DEF World

LEMMA DueGrows ==
    ASSUME NEW J, NEW J2, J \subseteq J2, NEW E
    PROVE  Due(J, E) \subseteq Due(J2, E)
BY DEF Due

\* The surface that gets a new size may keep frames of other sizes for a while.
LEMMA ResizedSafe ==
    ASSUME SceneInv, ImageInv, NEW i \in DOMAIN surf, NEW z, z # surf[i].size,
           NEW k \in DOMAIN surf
    PROVE  Safe(app, [surf EXCEPT ![i].size = z][k], cache, jobs, Due(jobs, events), odd,
                k \in {i})
<1> DEFINE was == FALSE
           old == k \in {i}
           d == Due(jobs, events)
           Z == [surf EXCEPT ![i].size = z]
           s == surf[k]
           t == [s EXCEPT !.size = z]
<1>1. Safe(app, s, cache, jobs, d, odd, was) /\ was = FALSE
  BY DEF ImageInv, AllSafe
<1>2. DOMAIN s = SurfaceFields
  BY DEF SceneInv, Surfaces
<1>3. /\ old = (k = i)
      /\ k = i => Z[k] = t
      /\ k # i => Z[k] = s
  OBVIOUS
<1>4. k = i => z # s.size
  OBVIOUS
<1> HIDE DEF was, old, Z, d, s
<1>5. CASE k = i
  <2>1. z # s.size /\ old = TRUE
    BY <1>3, <1>4, <1>5
  <2>2. Safe(app, t, cache, jobs, d, odd, old)
    BY <1>1, <1>2, <2>1, NewSizeSafe
  <2> QED
    BY <1>3, <1>5, <2>2 DEF Z, old, d
<1>6. CASE k # i
  <2>1. Safe(app, s, cache, jobs, d, odd, old)
    BY <1>1, OldOrNot
  <2> QED
    BY <1>3, <1>6, <2>1 DEF Z, old, d
<1> QED
  BY <1>5, <1>6

LEMMA ImageRescale ==
    ASSUME SceneInv, ImageInv, NEW i \in DOMAIN surf, NEW z, NEW plan, Rescale(i, z, plan)
    PROVE  ImageInv'
<1> DEFINE Z == [surf EXCEPT ![i].size = z]
           d == Due(jobs, events)
           st == [Now EXCEPT !.S = Z]
           r == RenderSurface(st, i, {plan.at})
           g == GiveUp(r)
           q == Resized(g, i, jobs)
<1>1. surf[i].out \in Outputs
  BY DEF SceneInv, Surfaces
<1>2. z # 0 /\ z # surf[i].size
  BY <1>1, ModesAssumption DEF Rescale
<1>3. Becomes(q) /\ UNCHANGED <<jobs, events, cache>>
  <2>1. Becomes(Resized(GiveUp(RenderSurface([Now EXCEPT !.S[i].size = z], i, {plan.at})), i, jobs))
    BY DEF Rescale
  <2>2. [Now EXCEPT !.S[i].size = z] = st
    BY DEF Now
  <2> HIDE DEF st
  <2> QED
    BY <2>1, <2>2 DEF q, r, g, Rescale
<1>4. Surfaces(Z) /\ DOMAIN Z = DOMAIN surf /\ Z[i].size = z /\ Fits(st, Z)
  BY ResizedFits
<1>5. /\ st.a = app /\ st.S = Z /\ st.C = cache /\ st.due = d /\ st.odd = odd
  BY DEF Now
<1>6. \A k \in DOMAIN surf : Safe(app, Z[k], cache, jobs, d, odd, k \in {i})
  BY <1>2, ResizedSafe
<1> HIDE DEF Z, st, d
<1> DEFINE W == World(Z, cache, jobs, d, app.started)
<1>7. W.Z = Z /\ W.C = cache /\ W.J = jobs /\ W.due = d /\ W.started = app.started
  BY WorldFields
<1> HIDE DEF W
<1>8. Good(st, W, {i})
  <2> DEFINE R == {i}
  <2>1. AssetOK(st.a)
    BY <1>5 DEF ImageInv
  <2>2. \A k \in DOMAIN W.Z : Safe(st.a, st.S[k], W.C, W.J, W.due, st.odd, k \in R)
    BY <1>4, <1>5, <1>6, <1>7
  <2> HIDE DEF R
  <2>3. Good(st, W, R)
    BY <1>5, <1>7, <2>1, <2>2, GoodFrom
  <2> QED
    BY <2>3 DEF R
<1>9. Fits(r, Z) /\ Good(r, W, {i})
  BY <1>2, <1>4, <1>7, <1>8, RenderSurfaceFits, RenderSurfaceGood
<1> HIDE DEF r
<1>10. Fits(g, Z) /\ Good(g, W, {i})
  BY <1>7, <1>9, GiveUpFits, GiveUpGood
<1> HIDE DEF g
<1>11. Fits(q, Z) /\ Good(q, W, {})
  BY <1>4, <1>7, <1>10, OddFits, ResizedGood DEF Resized
<1> HIDE DEF q
<1>12. /\ cache' = W.C /\ jobs' = W.J /\ Due(jobs', events') = W.due
       /\ JobsOK(jobs') /\ EventsOK(events')
  BY <1>3, <1>7 DEF ImageInv, d
<1> QED
  BY <1>3, <1>7, <1>11, <1>12, Ending

LEMMA ImageConfigureSurface ==
    ASSUME SceneInv, ImageInv, NEW i \in DOMAIN surf, NEW z, NEW plan,
           ConfigureSurface(i, z, plan)
    PROVE  ImageInv'
<1> DEFINE Z == [surf EXCEPT ![i].size = z]
           d == Due(jobs, events)
           d2 == Due(jobs', events)
           b == [app EXCEPT !.started = app.started \/ StartsLoading(app, Z)]
           one == [Now EXCEPT !.S = Z]
           two == [one EXCEPT !.due = d2]
           st == [two EXCEPT !.a.started = @ \/ StartsLoading(app, Z)]
           r == RenderWithFallback(st, i, plan)
           q == Resized(r, i, jobs')
           t == Readies(q, plan)
<1>1. surf[i].out \in Outputs
  BY DEF SceneInv, Surfaces
<1>2. z # 0 /\ z # surf[i].size
  BY <1>1, ModesAssumption DEF ConfigureSurface
<1>3. Becomes(t)
  <2>1. Becomes(Readies(Resized(RenderWithFallback(
            [Now EXCEPT !.S = Z, !.due = Due(jobs', events),
                        !.a.started = @ \/ StartsLoading(app, Z)], i, plan), i, jobs'), plan))
    BY DEF ConfigureSurface
  <2>2. [Now EXCEPT !.S = Z, !.due = Due(jobs', events),
                    !.a.started = @ \/ StartsLoading(app, Z)] = st
    BY DEF Now
  <2> HIDE DEF Z, st
  <2> QED
    BY <2>1, <2>2 DEF q, r
<1>4. jobs' = jobs \cup NewJobs(app, Z) /\ UNCHANGED <<events, cache>>
  BY DEF ConfigureSurface
<1>5. Surfaces(Z) /\ DOMAIN Z = DOMAIN surf /\ Z[i].size = z /\ Fits(one, Z)
  BY ResizedFits
<1>6. DOMAIN app = AppFields
  BY DEF SceneInv
<1>7. /\ st.a = b /\ st.S = Z /\ st.C = cache /\ st.due = d2 /\ st.odd = odd
  <2> HIDE DEF Z, d2
  <2> QED
    BY DEF Now
<1>8. \A k \in DOMAIN surf : Safe(app, Z[k], cache, jobs, d, odd, k \in {i})
  BY <1>2, ResizedSafe
<1> HIDE DEF Z, one, d2
<1>9. Fits(two, Z)
  BY <1>5, DueFits
<1> HIDE DEF two
<1>10. Fits(st, Z)
  BY <1>9, StartedFits
<1>11. AssetOK(b)
  BY <1>6, FieldsOfApp DEF ImageInv, AssetOK
<1> HIDE DEF st
<1>12. ASSUME NEW k \in DOMAIN Z PROVE Safe(b, Z[k], cache, jobs', d2, odd, k \in {i})
  <2> DEFINE old == k \in {i}
  <2>1. Safe(app, Z[k], cache, jobs, d, odd, old)
    BY <1>5, <1>8
  <2>2. /\ NewJobs(app, Z) \subseteq jobs' /\ jobs \subseteq jobs'
        /\ d \subseteq Due(jobs', events)
    BY <1>4, DueGrows
  <2> HIDE DEF old, d, b
  <2>3. Safe(b, Z[k], cache, jobs', Due(jobs', events), odd, old)
    BY <1>6, <2>1, <2>2, StartedIsSafe DEF b
  <2> QED
    BY <2>3 DEF old, d2
<1> HIDE DEF b
<1> DEFINE W == World(Z, cache, jobs', d2, b.started)
<1>13. W.Z = Z /\ W.C = cache /\ W.J = jobs' /\ W.due = d2 /\ W.started = b.started
  BY WorldFields
<1> HIDE DEF W
<1>14. Good(st, W, {i})
  <2> DEFINE R == {i}
  <2>1. \A k \in DOMAIN W.Z : Safe(st.a, st.S[k], W.C, W.J, W.due, st.odd, k \in R)
    BY <1>7, <1>12, <1>13
  <2> HIDE DEF R
  <2>2. Good(st, W, R)
    BY <1>7, <1>11, <1>13, <2>1, GoodFrom
  <2> QED
    BY <2>2 DEF R
<1>15. Fits(r, Z) /\ Good(r, W, {i})
  BY <1>2, <1>5, <1>10, <1>13, <1>14, RenderWithFallbackFits, RenderWithFallbackGood
<1> HIDE DEF r
<1>16. Fits(q, Z) /\ Good(q, W, {})
  BY <1>5, <1>13, <1>15, OddFits, ResizedGood DEF Resized
<1> HIDE DEF q
<1>17. Fits(t, Z) /\ Good(t, W, {})
  BY <1>5, <1>13, <1>16, ReadiesFits, ReadiesGood
<1> HIDE DEF t
<1>18. JobsOK(jobs') /\ EventsOK(events')
  <2>1. JobsOK(jobs) /\ JobsOK(NewJobs(app, Z)) /\ EventsOK(events)
    BY NewJobsOK DEF ImageInv
  <2> QED
    BY <1>4, <2>1 DEF JobsOK
<1>19. cache' = W.C /\ jobs' = W.J /\ Due(jobs', events') = W.due
  BY <1>4, <1>13 DEF d2
<1> QED
  BY <1>3, <1>13, <1>17, <1>18, <1>19, Ending

LEMMA ImageReconfigureSurface ==
    ASSUME SceneInv, ImageInv, NEW i \in DOMAIN surf, NEW plan, ReconfigureSurface(i, plan)
    PROVE  ImageInv'
<1> DEFINE d == Due(jobs, events)
           d2 == Due(jobs', events)
           b == [app EXCEPT !.started = app.started \/ StartsLoading(app, surf)]
           two == [Now EXCEPT !.due = d2]
           st == [two EXCEPT !.a.started = @ \/ StartsLoading(app, surf)]
           r == RenderWithFallback(st, i, plan)
           t == Readies(r, plan)
<1>1. Becomes(t) /\ surf[i].size # 0
  <2>1. Becomes(Readies(RenderWithFallback(
            [Now EXCEPT !.due = Due(jobs', events),
                        !.a.started = @ \/ StartsLoading(app, surf)], i, plan), plan))
        /\ surf[i].size # 0
    BY DEF ReconfigureSurface
  <2>2. [Now EXCEPT !.due = Due(jobs', events),
                    !.a.started = @ \/ StartsLoading(app, surf)] = st
    BY DEF Now
  <2> HIDE DEF st
  <2> QED
    BY <2>1, <2>2 DEF r
<1>2. jobs' = jobs \cup NewJobs(app, surf) /\ UNCHANGED <<events, cache>>
  BY DEF ReconfigureSurface
<1>3. Surfaces(surf) /\ Fits(Now, surf)
  BY NowFits DEF SceneInv
<1>4. DOMAIN app = AppFields
  BY DEF SceneInv
<1>5. st.a = b /\ st.S = surf /\ st.C = cache /\ st.due = d2 /\ st.odd = odd
  <2> HIDE DEF d2
  <2> QED
    BY DEF Now
<1> HIDE DEF d2
<1>6. Fits(two, surf)
  BY <1>3, DueFits
<1> HIDE DEF two
<1>7. Fits(st, surf)
  BY <1>6, StartedFits
<1>8. AssetOK(b)
  BY <1>4, FieldsOfApp DEF ImageInv, AssetOK
<1> HIDE DEF st
<1>9. AllSafe(b, surf, cache, jobs', d2, odd)
  <2> DEFINE old == FALSE
  <2>1. /\ NewJobs(app, surf) \subseteq jobs' /\ jobs \subseteq jobs'
        /\ d \subseteq Due(jobs', events)
    BY <1>2, DueGrows
  <2>2. \A k \in DOMAIN surf : Safe(app, surf[k], cache, jobs, d, odd, old)
    BY DEF ImageInv, AllSafe
  <2> HIDE DEF old, d, b
  <2>3. \A k \in DOMAIN surf : Safe(b, surf[k], cache, jobs', Due(jobs', events), odd, old)
    BY <1>4, <2>1, <2>2, StartedIsSafe DEF b
  <2> QED
    BY <2>3 DEF old, d2, AllSafe
<1> HIDE DEF b
<1> DEFINE W == World(surf, cache, jobs', d2, b.started)
<1>10. W.Z = surf /\ W.C = cache /\ W.J = jobs' /\ W.due = d2 /\ W.started = b.started
  BY WorldFields
<1> HIDE DEF W
<1>11. Good(st, W, {})
  BY <1>5, <1>8, <1>9, <1>10, GoodFromAll
<1>12. Fits(r, surf) /\ Good(r, W, {})
  BY <1>1, <1>3, <1>7, <1>10, <1>11, RenderWithFallbackFits, RenderWithFallbackGood
<1> HIDE DEF r
<1>13. Fits(t, surf) /\ Good(t, W, {})
  BY <1>3, <1>10, <1>12, ReadiesFits, ReadiesGood
<1> HIDE DEF t
<1>14. JobsOK(jobs') /\ EventsOK(events')
  <2>1. JobsOK(jobs) /\ JobsOK(NewJobs(app, surf)) /\ EventsOK(events)
    BY NewJobsOK DEF ImageInv
  <2> QED
    BY <1>2, <2>1 DEF JobsOK
<1>15. cache' = W.C /\ jobs' = W.J /\ Due(jobs', events') = W.due
  BY <1>2, <1>10 DEF d2
<1> QED
  BY <1>1, <1>10, <1>13, <1>14, <1>15, Ending

\* A new source: all frames go, and so does what is on record.
LEMMA ImageNewSource ==
    ASSUME SceneInv, ImageInv, NEW a, DOMAIN a = AppFields, a.broken = FALSE, AssetOK(a),
           NEW plan, WithNewSource(a, plan)
    PROVE  ImageInv'
<1> DEFINE bare == [a EXCEPT !.started = FALSE]
           S == [i \in DOMAIN surf |-> WithoutFrames(surf[i])]
           d == Now.due \cup Due(NewJobs(bare, surf), <<>>)
           d2 == Due(jobs', events)
           one == [Now EXCEPT !.a = bare]
           two == [one EXCEPT !.odd = FALSE]
           three == [two EXCEPT !.S = S]
           st == [three EXCEPT !.due = d]
           r == RenderAll(st, plan)
           begun == StartsLoading(r.a, r.S)
           b == [r.a EXCEPT !.started = r.a.started \/ StartsLoading(r.a, r.S)]
           t == [r EXCEPT !.a.started = begun]
           W == World(surf, cache, jobs, d, FALSE)
           W2 == World(surf, cache, jobs', d2, b.started)
<1>1. Fits(Now, surf) /\ Surfaces(surf)
  BY NowFits DEF SceneInv
<1>2. DOMAIN bare = AppFields /\ bare.broken = FALSE /\ bare.started = FALSE /\ AssetOK(bare)
  BY FieldsOfApp DEF AssetOK
<1>3. Becomes(t) /\ jobs' = jobs \cup NewJobs(r.a, r.S) /\ UNCHANGED <<events, cache>>
  <2>1. \E x \in {RenderAll([Now EXCEPT !.a = bare, !.odd = FALSE,
                    !.S = [i \in DOMAIN @ |-> WithoutFrames(@[i])],
                    !.due = @ \cup Due(NewJobs(bare, surf), <<>>)], plan)} : ThenLoads(x)
    BY DEF WithNewSource
  <2>2. [Now EXCEPT !.a = bare, !.odd = FALSE,
                    !.S = [i \in DOMAIN @ |-> WithoutFrames(@[i])],
                    !.due = @ \cup Due(NewJobs(bare, surf), <<>>)] = st
    BY DEF Now
  <2> HIDE DEF st, bare
  <2>3. ThenLoads(r)
    BY <2>1, <2>2
  <2> QED
    BY <2>3 DEF ThenLoads
<1>4. \A i \in DOMAIN surf : Surface(S[i], surf[i].out, surf[i].size)
  <2> SUFFICES ASSUME NEW i \in DOMAIN surf
               PROVE  Surface(S[i], surf[i].out, surf[i].size)
    OBVIOUS
  <2>1. Surface(surf[i], surf[i].out, surf[i].size)
    BY <1>1 DEF Surfaces, Surface
  <2> QED
    BY <2>1, WithoutFramesFits
<1>5. \A i \in DOMAIN surf : ~S[i].fresh /\ S[i].bg = Nothing
  BY <1>1, FieldsOfSurface DEF Surfaces, WithoutFrames
<1>6. S = [i \in DOMAIN surf |-> S[i]]
  OBVIOUS
<1>7. st.a = bare /\ st.S = S /\ st.C = cache /\ st.due = d
  <2> HIDE DEF bare, S, d
  <2> QED
    BY DEF Now
<1> HIDE DEF bare, d
<1>8. Fits(one, surf)
  BY <1>1, <1>2, AppFits
<1> HIDE DEF one
<1>9. Fits(two, surf)
  <2> DEFINE o == FALSE
  <2> HIDE DEF o
  <2> SUFFICES Fits([one EXCEPT !.odd = o], surf)
    BY DEF o
  <2> QED
    BY <1>8, OddFits
<1> HIDE DEF two, S
<1>10. Fits(three, surf)
  BY <1>4, <1>6, <1>9, SurfacesFit
<1> HIDE DEF three
<1>11. Fits(st, surf)
  BY <1>10, DueFits
<1> HIDE DEF st, W, W2
<1>12. W.Z = surf /\ W.C = cache /\ W.J = jobs /\ W.due = d /\ W.started = FALSE
  <2> DEFINE x == FALSE
  <2>1. W = World(surf, cache, jobs, d, x)
    BY DEF W
  <2>2. x = FALSE
    OBVIOUS
  <2> HIDE DEF x
  <2> QED
    BY <2>1, <2>2, WorldFields
<1>13. Good(st, W, {})
  <2> DEFINE old == FALSE
  <2> HIDE DEF old
  <2>1. \A i \in DOMAIN surf : Safe(st.a, st.S[i], W.C, W.J, W.due, st.odd, old)
    BY <1>2, <1>5, <1>7, BareIsSafe
  <2>2. DOMAIN st.S = DOMAIN surf
    BY <1>6, <1>7
  <2>3. AllSafe(st.a, st.S, W.C, W.J, W.due, st.odd)
    BY <2>1, <2>2 DEF AllSafe, old
  <2> QED
    BY <1>2, <1>7, <1>12, <2>2, <2>3, GoodFromAll
<1>14. Fits(r, surf) /\ Good(r, W, {})
  BY <1>1, <1>11, <1>12, <1>13, RenderAllFits, RenderAllGood
<1> HIDE DEF r
<1>15. /\ AllSafe(r.a, r.S, cache, jobs, d, r.odd) /\ AssetOK(r.a) /\ r.C = cache
       /\ r.a.started = FALSE /\ DOMAIN r.a = AppFields /\ DOMAIN r.S = DOMAIN surf
  BY <1>12, <1>14, GoodToAll DEF Good, Fits
<1>16. /\ t.S = r.S /\ t.C = cache /\ t.odd = r.odd /\ t.a = b /\ DOMAIN t = StateFields
  <2>1. DOMAIN r = StateFields
    BY <1>14 DEF Fits
  <2>2. t.S = r.S /\ t.C = r.C /\ t.odd = r.odd /\ DOMAIN t = StateFields
    BY <2>1 DEF StateFields
  <2>3. t.a = [r.a EXCEPT !.started = begun]
    BY <2>1 DEF StateFields
  <2>4. begun = (r.a.started \/ begun)
    BY <1>15 DEF begun, StartsLoading
  <2> QED
    BY <1>15, <2>2, <2>3, <2>4
<1>17. Fits(t, surf)
  <2> HIDE DEF begun
  <2> QED
    BY <1>14, StartedFits
<1> HIDE DEF t
<1>18. AssetOK(b)
  BY <1>15, FieldsOfApp DEF AssetOK
<1>19. AllSafe(b, r.S, cache, jobs', d2, r.odd)
  <2> DEFINE old == FALSE
  <2>1. NewJobs(r.a, r.S) \subseteq jobs' /\ ~r.a.started
    BY <1>3, <1>15
  <2>2. \A i \in DOMAIN r.S : Safe(r.a, r.S[i], cache, jobs, d, r.odd, old)
    BY <1>15 DEF AllSafe
  <2> HIDE DEF old, b
  <2>3. \A i \in DOMAIN r.S : Safe(b, r.S[i], cache, jobs', Due(jobs', events), r.odd, old)
    BY <1>15, <2>1, <2>2, StartedIsSafe DEF b
  <2> QED
    BY <2>3 DEF AllSafe, old, d2
<1>20. JobsOK(jobs') /\ EventsOK(events')
  <2>1. JobsOK(jobs) /\ JobsOK(NewJobs(r.a, r.S)) /\ EventsOK(events)
    BY NewJobsOK DEF ImageInv
  <2> QED
    BY <1>3, <2>1 DEF JobsOK
<1>21. app' = b /\ surf' = r.S /\ odd' = r.odd
  BY <1>3, <1>16 DEF Becomes
<1> HIDE DEF b
<1> QED
  BY <1>3, <1>18, <1>19, <1>20, <1>21 DEF ImageInv, d2

-----------------------------------------------------------------------------
(* Slide shows.                                                            *)

LEMMA PathsCount ==
    /\ Cardinality(Paths) \in Nat
    /\ \A p \in Paths : Cardinality(Paths) # 0
<1>1. Cardinality(Paths) \in Nat
  BY PathsAssumption, FS_CardinalityType
<1>2. Cardinality(Paths) = 0 => Paths = {}
  BY PathsAssumption, FS_EmptySet
<1> QED
  BY <1>1, <1>2

LEMMA StartIsShow ==
    ASSUME NEW p \in Paths, NEW o \in Orders(p)
    PROVE  Show([order |-> o, at |-> 1])
<1>1. o \in [1..Cardinality(Paths) -> Paths]
  BY DEF Orders
<1>2. 1 \in 1..Cardinality(Paths)
  BY PathsCount
<1> QED
  BY <1>1, <1>2 DEF Show

LEMMA ShowShows ==
    ASSUME NEW sl, Show(sl)
    PROVE  /\ sl.order[sl.at] \in Paths /\ sl # <<>> /\ Len(sl.order) = Cardinality(Paths)
           /\ Last(sl.order) \in Paths
<1> DEFINE N == Cardinality(Paths)
<1>1. sl.order \in [1..N -> Paths] /\ sl.at \in 1..N /\ N \in Nat
  BY PathsCount DEF Show
<1>2. sl # <<>>
  <2>1. DOMAIN sl = {"order", "at"}
    BY DEF Show
  <2>2. DOMAIN <<>> = {}
    OBVIOUS
  <2> QED
    BY <2>1, <2>2
<1> HIDE DEF N
<1>3. sl.order \in Seq(Paths) /\ Len(sl.order) = N
  <2>1. sl.order \in Seq(Paths)
    BY <1>1, SeqDef
  <2>2. DOMAIN sl.order = 1..Len(sl.order) /\ Len(sl.order) \in Nat
    BY <2>1, LenProperties
  <2>3. DOMAIN sl.order = 1..N
    BY <1>1
  <2>4. 1..N = 1..Len(sl.order)
    BY <2>2, <2>3
  <2>5. N = Len(sl.order)
    BY <1>1, <2>2, <2>4
  <2> QED
    BY <2>1, <2>5
<1>4. sl.order[N] \in Paths
  BY <1>1
<1> QED
  BY <1>1, <1>2, <1>3, <1>4 DEF Last, N

LEMMA AdvancedIsShow ==
    ASSUME NEW sl, Show(sl), NEW n \in Advanced(sl)
    PROVE  Show(n)
<1>1. sl.order \in [1..Cardinality(Paths) -> Paths] /\ sl.at \in 1..Cardinality(Paths)
  BY DEF Show
<1>2. Cardinality(Paths) \in Nat /\ Len(sl.order) = Cardinality(Paths) /\ Last(sl.order) \in Paths
  BY PathsCount, ShowShows
<1>3. CASE sl.at < Len(sl.order)
  <2> DEFINE x == sl.at + 1
  <2>1. n = [sl EXCEPT !.at = x]
    BY <1>3 DEF Advanced
  <2>2. x \in 1..Cardinality(Paths)
    BY <1>1, <1>2, <1>3
  <2> HIDE DEF x
  <2> QED
    BY <2>1, <2>2 DEF Show
<1>4. CASE ~(sl.at < Len(sl.order))
  <2>1. n \in {[order |-> o, at |-> 1] : o \in Orders(Last(sl.order))}
    BY <1>4 DEF Advanced
  <2> QED
    BY <1>2, <2>1, StartIsShow
<1> QED
  BY <1>3, <1>4

LEMMA ImageAdvanceSlides ==
    ASSUME SceneInv, ImageInv, NEW plan, AdvanceSlides(plan)
    PROVE  ImageInv'
<1>1. PICK sl \in Advanced(app.slides) :
        WithNewSource([app EXCEPT !.slides = sl, !.path = sl.order[sl.at]], plan)
  BY DEF AdvanceSlides
<1> DEFINE p == sl.order[sl.at]
           a == [app EXCEPT !.slides = sl, !.path = sl.order[sl.at]]
<1>2. Show(sl) /\ p \in Paths /\ sl # <<>> /\ p # None
  <2>1. Show(app.slides)
    BY DEF AdvanceSlides, ImageInv, AssetOK
  <2> QED
    BY <1>1, <2>1, AdvancedIsShow, ShowShows, NoneAssumption
<1>3. /\ DOMAIN a = AppFields /\ a.broken = FALSE
      /\ a.slides = sl /\ a.path = p /\ a.asset = app.asset /\ a.look = app.look
  BY FieldsOfApp DEF SceneInv
<1> HIDE DEF a
<1>4. AssetOK(a)
  BY <1>2, <1>3 DEF AssetOK, ImageInv
<1>5. WithNewSource(a, plan)
  BY <1>1 DEF a
<1> QED
  BY <1>3, <1>4, <1>5, ImageNewSource

\* Whatever is configured begins with the generated picture at hand.
LEMMA ConfiguredAsset ==
    ASSUME NEW a, DOMAIN a = AppFields, NEW c, NEW sl \in (IF c.slides THEN Starts ELSE {<<>>})
    PROVE  AssetOK(Configured(a, c, sl))
<1> DEFINE b == Configured(a, c, sl)
<1>1. /\ b.slides = IF c.slides THEN sl ELSE <<>>
      /\ b.asset = Picture(None, c.look) /\ b.look = c.look
  BY FieldsOfApp DEF Configured
<1>2. Picture(None, c.look).src = None
  BY DEF Picture
<1>3. b.slides = <<>> \/ Show(b.slides)
  <2> SUFFICES ASSUME c.slides PROVE Show(sl)
    BY <1>1
  <2>1. PICK p \in Paths : \E o \in Orders(p) : sl = [order |-> o, at |-> 1]
    BY DEF Starts
  <2> QED
    BY <2>1, StartIsShow
<1> HIDE DEF b
<1>4. AssetOK(b)
  BY <1>1, <1>2, <1>3 DEF AssetOK
<1> QED
  BY <1>4 DEF b

LEMMA ImageReload ==
    ASSUME SceneInv, ImageInv, NEW c, NEW plan, Reload(c, plan)
    PROVE  ImageInv'
<1>1. PICK sl \in (IF c.slides THEN Starts ELSE {<<>>}) :
        WithNewSource([Configured(app, c, sl) EXCEPT !.asStored = TRUE], plan)
  BY DEF Reload
<1> DEFINE b == Configured(app, c, sl)
           a == [b EXCEPT !.asStored = TRUE]
<1>2. DOMAIN b = AppFields /\ b.broken = FALSE /\ AssetOK(b)
  BY <1>1, ConfiguredFields, ConfiguredAsset DEF SceneInv
<1> HIDE DEF b
<1>3. DOMAIN a = AppFields /\ a.broken = FALSE /\ AssetOK(a)
  BY <1>2, FieldsOfApp DEF AssetOK
<1> HIDE DEF a
<1>4. WithNewSource(a, plan)
  BY <1>1 DEF a, b
<1> QED
  BY <1>3, <1>4, ImageNewSource

-----------------------------------------------------------------------------
(* Outputs.                                                                *)

LEMMA ImageNewOutput ==
    ASSUME SceneInv, ImageInv, NEW o \in Outputs, NewOutput(o)
    PROVE  ImageInv'
<1> DEFINE new == NewSurface(o)
           S == Append(surf, new)
           a == [app EXCEPT !.started = FALSE]
           d == Due(jobs, events)
<1>1. /\ app' = a /\ surf' = S /\ UNCHANGED <<jobs, events, cache, odd>>
  BY DEF NewOutput
<1>2. DOMAIN app = AppFields /\ a.started = FALSE
  BY FieldsOfApp DEF SceneInv
<1>3. AssetOK(a)
  BY <1>2, FieldsOfApp DEF ImageInv, AssetOK
<1>4. ~new.fresh /\ new.bg = Nothing
  BY DEF NewSurface
<1>5. \A k \in DOMAIN S : S[k] = new \/ (k \in DOMAIN surf /\ S[k] = surf[k])
  <2> DEFINE R == {surf[k] : k \in DOMAIN surf} \cup {new}
             Q == {surf[k] : k \in DOMAIN surf}
  <2>1. surf \in Seq(Q) /\ Q \subseteq R /\ new \in R
    BY DEF SceneInv, Surfaces
  <2> HIDE DEF Q, R, new
  <2>2. surf \in Seq(R)
    BY <2>1, SeqMonotonic
  <2>3. Len(surf) \in Nat /\ DOMAIN surf = 1..Len(surf)
    BY <2>2, LenProperties
  <2>4. /\ S \in Seq(R) /\ Len(S) = Len(surf) + 1
        /\ \A k \in 1..Len(surf) : S[k] = surf[k]
        /\ S[Len(surf) + 1] = new
    BY <2>1, <2>2, AppendProperties
  <2>5. DOMAIN S = 1..(Len(surf) + 1)
    BY <2>4, LenProperties
  <2> QED
    BY <2>3, <2>4, <2>5
<1> HIDE DEF S, new
<1>6. AllSafe(a, S, cache, jobs, d, odd)
  <2> DEFINE old == FALSE
  <2>1. \A k \in DOMAIN surf : Safe(app, surf[k], cache, jobs, d, odd, old)
    BY DEF ImageInv, AllSafe
  <2> HIDE DEF old, d
  <2>2. \A k \in DOMAIN surf : Safe(a, surf[k], cache, jobs, d, odd, old)
    BY <1>2, <2>1, UnstartedIsSafe
  <2>3. Safe(a, new, cache, jobs, d, odd, old)
    BY <1>2, <1>4, BareIsSafe
  <2>4. \A k \in DOMAIN S : Safe(a, S[k], cache, jobs, d, odd, old)
    BY <1>5, <2>2, <2>3
  <2> QED
    BY <2>4 DEF AllSafe, old
<1> HIDE DEF a
<1> QED
  BY <1>1, <1>3, <1>6 DEF ImageInv, d

LEMMA ImageOutputDestroyed ==
    ASSUME SceneInv, ImageInv, NEW i \in DOMAIN surf, OutputDestroyed(i)
    PROVE  ImageInv'
<1> DEFINE S == RemoveAt(surf, i)
           f == IF app.focused = i THEN 0
                ELSE IF app.focused > i THEN app.focused - 1 ELSE app.focused
           a == [app EXCEPT !.focused = f]
           d == Due(jobs, events)
           R == {surf[k] : k \in DOMAIN surf}
<1>1. app' = a /\ surf' = S /\ UNCHANGED <<jobs, events, cache, odd>>
  BY DEF OutputDestroyed
<1> HIDE DEF f
<1>2. Same(app, a)
  BY FieldsOfApp DEF SceneInv, Same
<1>3. S \in Seq(R)
  <2>1. surf \in Seq(R)
    BY DEF SceneInv, Surfaces
  <2> HIDE DEF R
  <2>2. Len(surf) \in Nat /\ DOMAIN surf = 1..Len(surf)
    BY <2>1, LenProperties
  <2>3. SubSeq(surf, 1, i - 1) \in Seq(R)
    BY <2>1, <2>2, SubSeqProperties, ElementOfSeq
  <2>4. SubSeq(surf, i + 1, Len(surf)) \in Seq(R)
    BY <2>1, <2>2, SubSeqProperties, ElementOfSeq
  <2>5. SubSeq(surf, 1, i - 1) \o SubSeq(surf, i + 1, Len(surf)) \in Seq(R)
    BY <2>3, <2>4, ConcatProperties
  <2> QED
    BY <2>5 DEF RemoveAt
<1> HIDE DEF S
<1>4. \A k \in DOMAIN S : S[k] \in R
  <2> HIDE DEF R
  <2> QED
    BY <1>3, LenProperties, ElementOfSeq
<1>5. AllSafe(app, S, cache, jobs, d, odd)
  <2> DEFINE old == FALSE
  <2>1. \A k \in DOMAIN surf : Safe(app, surf[k], cache, jobs, d, odd, old)
    BY DEF ImageInv, AllSafe
  <2> HIDE DEF old, d
  <2>2. \A k \in DOMAIN S : Safe(app, S[k], cache, jobs, d, odd, old)
    BY <1>4, <2>1
  <2> QED
    BY <2>2 DEF AllSafe, old
<1> HIDE DEF a
<1>6. AllSafe(a, S, cache, jobs, d, odd) /\ AssetOK(a)
  BY <1>2, <1>5, SameIsAllSafe, SameAsset DEF ImageInv
<1> QED
  BY <1>1, <1>6 DEF ImageInv, d

-----------------------------------------------------------------------------
(* The loaders and the other processes.                                    *)

\* What stays the same for a surface while loaders work
LEMMA ImageLoads ==
    ASSUME ImageInv, UNCHANGED <<app, surf>>, odd => odd', JobsOK(jobs'), EventsOK(events'),
           \A i \in DOMAIN surf :
              /\ Served(app, surf[i], cache, jobs) => Served(app, surf[i], cache', jobs')
              /\ \/ Selected(app, surf[i]) \in Unreadable
                 \/ <<Selected(app, surf[i]), surf[i].size>> \in Due(jobs, events)
                     => <<Selected(app, surf[i]), surf[i].size>> \in Due(jobs', events')
    PROVE  ImageInv'
<1> DEFINE old == FALSE
           d == Due(jobs, events)
           d2 == Due(jobs', events')
<1>1. \A i \in DOMAIN surf : Safe(app, surf[i], cache, jobs, d, odd, old)
  BY DEF ImageInv, AllSafe
<1> HIDE DEF old, d, d2
<1>2. \A i \in DOMAIN surf :
          \/ Selected(app, surf[i]) \in Unreadable
          \/ <<Selected(app, surf[i]), surf[i].size>> \in d
               => <<Selected(app, surf[i]), surf[i].size>> \in d2
  BY DEF d, d2
<1>3. \A i \in DOMAIN surf : Safe(app, surf[i], cache', jobs', d2, odd', old)
  <2> SUFFICES ASSUME NEW i \in DOMAIN surf
               PROVE  Safe(app, surf[i], cache', jobs', d2, odd', old)
    OBVIOUS
  <2> DEFINE s == surf[i]
             C2 == cache'
             J2 == jobs'
             o2 == odd'
  <2>1. Safe(app, s, cache, jobs, d, odd, old)
    BY <1>1
  <2>2. Served(app, s, cache, jobs) => Served(app, s, C2, J2)
    OBVIOUS
  <2>3. \/ Selected(app, s) \in Unreadable \/ ~app.started
        \/ <<Selected(app, s), s.size>> \in d => <<Selected(app, s), s.size>> \in d2
    BY <1>2
  <2>4. odd => o2
    OBVIOUS
  <2> HIDE DEF s, C2, J2, o2
  <2>5. Safe(app, s, C2, J2, d2, o2, old)
    BY <2>1, <2>2, <2>3, <2>4, MoreIsSafe
  <2> QED
    BY <2>5 DEF s, C2, J2, o2
<1>4. AllSafe(app, surf, cache', jobs', Due(jobs', events'), odd')
  BY <1>3 DEF AllSafe, old, d2
<1> QED
  BY <1>4 DEF ImageInv

LEMMA ImageStoredElsewhere ==
    ASSUME ImageInv, NEW k, StoredElsewhere(k)
    PROVE  ImageInv'
<1>1. /\ UNCHANGED <<app, surf, jobs, events, odd>> /\ cache \subseteq cache'
      /\ JobsOK(jobs') /\ EventsOK(events')
  BY DEF StoredElsewhere, ImageInv
<1>2. \A i \in DOMAIN surf :
        Served(app, surf[i], cache, jobs) => Served(app, surf[i], cache', jobs')
  BY <1>1, MoreServes
<1> QED
  BY <1>1, <1>2, ImageLoads

\* A loader that leaves what it brought in the cache, or goes on with the rest,
\* serves on.
LEMMA ServesOn ==
    ASSUME NEW a, NEW s, NEW C, NEW J, Served(a, s, C, J),
           NEW C2, C \subseteq C2, NEW J2, NEW j, J \ {j} \subseteq J2,
           \/ Selected(a, s) \in Unreadable
           \/ /\ ~j.preload /\ j.src = Selected(a, s) /\ j.look = a.look
              /\ s.size \in j.sizes
              /\ Selected(a, s) # None
             => \/ [src |-> j.src, size |-> s.size, look |-> j.look, kind |-> "plain"] \in C2
                \/ \E q \in J2 : ~q.preload /\ q.src = j.src /\ q.look = j.look
                                 /\ s.size \in q.sizes
    PROVE  Served(a, s, C2, J2)
<1>1. Cached(a, C, s, "plain") => Cached(a, C2, s, "plain")
  BY DEF Cached
<1>2. \A q : Picture(q.src, q.look) = Wanted(a, s) <=> q.src = Selected(a, s) /\ q.look = a.look
  BY DEF Picture, Wanted
<1>3. CASE \/ ~a.started \/ Selected(a, s) \in Unreadable \cup {None} \/ s.size = 0
           \/ a.asset = Wanted(a, s) \/ Cached(a, C, s, "plain")
  BY <1>1, <1>3 DEF Served
<1>4. CASE \E q \in J : /\ ~q.preload /\ Picture(q.src, q.look) = Wanted(a, s)
                        /\ s.size \in q.sizes
  <2> SUFFICES ASSUME Selected(a, s) \notin Unreadable \cup {None}
               PROVE  Served(a, s, C2, J2)
    BY DEF Served
  <2>1. PICK q \in J : /\ ~q.preload /\ Picture(q.src, q.look) = Wanted(a, s)
                       /\ s.size \in q.sizes
    BY <1>4
  <2>2. CASE q # j
    BY <2>1, <2>2 DEF Served
  <2>3. CASE q = j
    <3>1. j.src = Selected(a, s) /\ j.look = a.look /\ ~j.preload /\ s.size \in j.sizes
      BY <1>2, <2>1, <2>3
    <3>2. CASE [src |-> j.src, size |-> s.size, look |-> j.look, kind |-> "plain"] \in C2
      BY <3>1, <3>2 DEF Served, Cached
    <3>3. CASE \E r \in J2 : ~r.preload /\ r.src = j.src /\ r.look = j.look
                             /\ s.size \in r.sizes
      BY <1>2, <3>1, <3>3 DEF Served
    <3> QED
      BY <3>1, <3>2, <3>3
  <2> QED
    BY <2>2, <2>3
<1> QED
  BY <1>3, <1>4 DEF Served

\* Work that is done with leaves what it was due in the events.
LEMMA DueOn ==
    ASSUME NEW J, NEW E, NEW p, NEW z, <<p, z>> \in Due(J, E),
           NEW j, NEW J2, J \ {j} \subseteq J2,
           NEW E2, \A k \in DOMAIN E : k \in DOMAIN E2 /\ E2[k] = E[k],
           j.src = p /\ z \in UnsentSizes(j) => <<p, z>> \in Due(J2, E2)
    PROVE  <<p, z>> \in Due(J2, E2)
<1>1. CASE \E k \in DOMAIN E : E[k].src = p /\ z \in E[k].sizes
  BY <1>1, DueOf
<1>2. CASE \E q \in J : q.src = p /\ z \in UnsentSizes(q)
  BY <1>2, DueOf
<1> QED
  BY <1>1, <1>2, DueOf

LEMMA EventsGrow ==
    ASSUME NEW E, EventsOK(E), NEW e, EventOK(e)
    PROVE  /\ EventsOK(Append(E, e))
           /\ \A k \in DOMAIN E : k \in DOMAIN Append(E, e) /\ Append(E, e)[k] = E[k]
           /\ \E k \in DOMAIN Append(E, e) : Append(E, e)[k] = e
<1>1. PICK T : E \in Seq(T) /\ \A x \in T : EventOK(x)
  BY DEF EventsOK
<1> DEFINE U == T \cup {e}
           A == Append(E, e)
<1>2. T \subseteq U /\ e \in U /\ \A x \in U : EventOK(x)
  BY <1>1
<1> HIDE DEF U
<1>3. E \in Seq(U)
  BY <1>1, <1>2, SeqMonotonic
<1>4. Len(E) \in Nat /\ DOMAIN E = 1..Len(E)
  BY <1>3, LenProperties
<1>5. /\ A \in Seq(U) /\ Len(A) = Len(E) + 1
      /\ \A k \in 1..Len(E) : A[k] = E[k]
      /\ A[Len(E) + 1] = e
  BY <1>2, <1>3, AppendProperties
<1> HIDE DEF A
<1>6. DOMAIN A = 1..(Len(E) + 1)
  BY <1>5, LenProperties
<1>7. EventsOK(A)
  BY <1>2, <1>5 DEF EventsOK
<1>8. /\ \A k \in DOMAIN E : k \in DOMAIN A /\ A[k] = E[k]
      /\ Len(E) + 1 \in DOMAIN A
  BY <1>4, <1>5, <1>6
<1> QED
  BY <1>5, <1>7, <1>8 DEF A

LEMMA EventsAppend ==
    ASSUME NEW E, EventsOK(E), NEW e
    PROVE  E \o <<e>> = Append(E, e)
<1>1. PICK T : E \in Seq(T)
  BY DEF EventsOK
<1> DEFINE U == T \cup {e}
<1>2. T \subseteq U /\ e \in U
  OBVIOUS
<1> HIDE DEF U
<1>3. E \in Seq(U)
  BY <1>1, <1>2, SeqMonotonic
<1> QED
  BY <1>2, <1>3, AppendIsConcat

LEMMA SentFields ==
    ASSUME NEW j, NEW kind, NEW Q
    PROVE  /\ Sent(j, kind, Q).kind = kind /\ Sent(j, kind, Q).src = j.src
           /\ Sent(j, kind, Q).look = j.look /\ Sent(j, kind, Q).sizes = Q
BY DEF Sent

LEMMA ImageLookUp ==
    ASSUME SceneInv, ImageInv, NEW j \in jobs, LookUp(j)
    PROVE  ImageInv'
<1> DEFINE H == Hits(j)
           rest == [j EXCEPT !.sizes = @ \ H, !.phase = "render"]
           e == Sent(j, "cached", H)
<1>1. /\ j.phase = "lookup" /\ UNCHANGED <<app, surf, cache, odd>>
      /\ jobs' = (jobs \ {j}) \cup (IF j.preload /\ rest.sizes = {} THEN {} ELSE {rest})
      /\ events' = IF j.preload \/ H = {} THEN events ELSE Append(events, e)
  BY DEF LookUp
<1>2. DOMAIN j = JobFields /\ (j.preload \/ j.src # None) /\ JobsOK(jobs) /\ EventsOK(events)
  BY DEF ImageInv, JobsOK
<1>3. H = {z \in j.sizes : Key(j, z) \in cache}
  BY DEF Hits
<1> HIDE DEF H
<1>4. /\ DOMAIN rest = JobFields /\ rest.src = j.src /\ rest.look = j.look
      /\ rest.preload = j.preload /\ rest.sizes = j.sizes \ H /\ rest.phase = "render"
  BY <1>2 DEF JobFields
<1>5. e.src = j.src /\ e.sizes = H /\ e.kind = "cached"
  BY SentFields
<1> HIDE DEF rest, e
<1>6. JobsOK(jobs')
  BY <1>1, <1>2, <1>4 DEF JobsOK
<1>7. /\ EventsOK(events')
      /\ \A k \in DOMAIN events : k \in DOMAIN events' /\ events'[k] = events[k]
      /\ ~j.preload /\ H # {} => \E k \in DOMAIN events' : events'[k] = e
  <2>1. CASE j.preload \/ H = {}
    BY <1>1, <1>2, <2>1
  <2>2. CASE ~(j.preload \/ H = {})
    <3>1. EventOK(e)
      BY <1>2, <1>5, <2>2 DEF EventOK
    <3> QED
      BY <1>1, <1>2, <2>2, <3>1, EventsGrow
  <2> QED
    BY <2>1, <2>2
<1>8. ASSUME NEW i \in DOMAIN surf
      PROVE  /\ Served(app, surf[i], cache, jobs) => Served(app, surf[i], cache', jobs')
             /\ <<Selected(app, surf[i]), surf[i].size>> \in Due(jobs, events)
                  => <<Selected(app, surf[i]), surf[i].size>> \in Due(jobs', events')
  <2> DEFINE s == surf[i]
             J2 == jobs'
             E2 == events'
             C2 == cache'
             p == Selected(app, s)
             z == s.size
  <2>1. jobs \ {j} \subseteq J2 /\ (~j.preload => rest \in J2) /\ C2 = cache
    BY <1>1
  <2>2. /\ \A k \in DOMAIN events : k \in DOMAIN E2 /\ E2[k] = events[k]
        /\ ~j.preload /\ H # {} => \E k \in DOMAIN E2 : E2[k] = e
    BY <1>7
  <2> HIDE DEF s, J2, E2, C2
  <2>3. Served(app, s, cache, jobs) => Served(app, s, C2, J2)
    <3>1. ~j.preload /\ s.size \in j.sizes =>
             \/ [src |-> j.src, size |-> s.size, look |-> j.look, kind |-> "plain"] \in C2
             \/ \E q \in J2 : ~q.preload /\ q.src = j.src /\ q.look = j.look
                              /\ s.size \in q.sizes
      <4> SUFFICES ASSUME ~j.preload, s.size \in j.sizes, s.size \notin H
                   PROVE  \E q \in J2 : ~q.preload /\ q.src = j.src /\ q.look = j.look
                                        /\ s.size \in q.sizes
        BY <1>3, <2>1 DEF Key
      <4> QED
        BY <1>4, <2>1
    <3> QED
      BY <2>1, <3>1, ServesOn
  <2>4. j.src = p /\ z \in UnsentSizes(j) => <<p, z>> \in Due(J2, E2)
    <3> SUFFICES ASSUME j.src = p, z \in UnsentSizes(j) PROVE <<p, z>> \in Due(J2, E2)
      OBVIOUS
    <3>1. ~j.preload /\ z \in j.sizes
      BY DEF UnsentSizes
    <3>2. CASE z \in H
      <4>1. \E k \in DOMAIN E2 : E2[k].src = p /\ z \in E2[k].sizes
        BY <1>5, <2>2, <3>1, <3>2
      <4> QED
        BY <4>1, DueOf
    <3>3. CASE z \notin H
      <4>1. z \in UnsentSizes(rest) /\ rest.src = p /\ rest \in J2
        BY <1>4, <2>1, <3>1, <3>3 DEF UnsentSizes
      <4> QED
        BY <4>1, DueOf
    <3> QED
      BY <3>2, <3>3
  <2> HIDE DEF p, z
  <2>5. <<p, z>> \in Due(jobs, events) => <<p, z>> \in Due(J2, E2)
    BY <2>1, <2>2, <2>4, DueOn
  <2> QED
    BY <2>3, <2>5 DEF s, J2, E2, C2, p, z
<1> QED
  BY <1>1, <1>6, <1>7, <1>8, ImageLoads

LEMMA ImageRenderBuffers ==
    ASSUME SceneInv, ImageInv, NEW j \in jobs, RenderBuffers(j)
    PROVE  ImageInv'
<1> DEFINE next == [j EXCEPT !.phase = "store"]
           none == Sent(j, "failed", {})
           asset == Sent(j, "asset", {})
           drawn == Sent(j, "drawn", j.sizes)
           one == Append(events, asset)
<1>1. j.phase = "render" /\ UNCHANGED <<app, surf, cache, odd>>
  BY DEF RenderBuffers
<1>2. DOMAIN j = JobFields /\ (j.preload \/ j.src # None) /\ JobsOK(jobs) /\ EventsOK(events)
  BY DEF ImageInv, JobsOK
<1>3. /\ DOMAIN next = JobFields /\ next.src = j.src /\ next.look = j.look
      /\ next.preload = j.preload /\ next.sizes = j.sizes
  BY <1>2 DEF JobFields
<1>4. /\ ~j.preload => EventOK(none) /\ EventOK(asset) /\ EventOK(drawn)
      /\ drawn.src = j.src /\ drawn.sizes = j.sizes
  <2> DEFINE Q == {}
  <2>1. none = Sent(j, "failed", Q) /\ asset = Sent(j, "asset", Q)
    OBVIOUS
  <2>2. Q = {}
    OBVIOUS
  <2> HIDE DEF Q, none, asset, drawn
  <2>3. none.src = j.src /\ none.sizes = Q /\ asset.src = j.src /\ asset.sizes = Q
    BY <2>1, SentFields
  <2>4. drawn.src = j.src /\ drawn.sizes = j.sizes /\ drawn.kind = "drawn"
    BY SentFields DEF drawn
  <2> QED
    BY <1>2, <2>2, <2>3, <2>4 DEF EventOK
<1>5. CASE j.src \in Unreadable
  <2>1. /\ jobs' = jobs \ {j}
        /\ events' = IF j.preload THEN events ELSE Append(events, none)
    BY <1>5 DEF RenderBuffers
  <2>2. /\ EventsOK(events')
        /\ \A k \in DOMAIN events : k \in DOMAIN events' /\ events'[k] = events[k]
    <3> HIDE DEF none
    <3>1. CASE j.preload
      BY <1>2, <2>1, <3>1
    <3>2. CASE ~j.preload
      BY <1>2, <1>4, <2>1, <3>2, EventsGrow
    <3> QED
      BY <3>1, <3>2
  <2>3. JobsOK(jobs')
    BY <1>2, <2>1 DEF JobsOK
  <2>4. ASSUME NEW i \in DOMAIN surf
        PROVE  /\ Served(app, surf[i], cache, jobs) => Served(app, surf[i], cache', jobs')
               /\ \/ Selected(app, surf[i]) \in Unreadable
                  \/ <<Selected(app, surf[i]), surf[i].size>> \in Due(jobs, events)
                       => <<Selected(app, surf[i]), surf[i].size>> \in Due(jobs', events')
    <3> SUFFICES ASSUME Selected(app, surf[i]) \notin Unreadable
                 PROVE  /\ Served(app, surf[i], cache, jobs)
                             => Served(app, surf[i], cache', jobs')
                        /\ <<Selected(app, surf[i]), surf[i].size>> \in Due(jobs, events)
                             => <<Selected(app, surf[i]), surf[i].size>> \in Due(jobs', events')
      BY DEF Served
    <3> DEFINE s == surf[i]
               J2 == jobs'
               E2 == events'
               p == Selected(app, s)
               z == s.size
    <3>1. jobs \ {j} \subseteq J2 /\ j.src # p
      BY <1>5, <2>1
    <3>2. \A k \in DOMAIN events : k \in DOMAIN E2 /\ E2[k] = events[k]
      BY <2>2
    <3> HIDE DEF s, J2, E2
    <3>3. Served(app, s, cache, jobs) => Served(app, s, cache, J2)
      BY <3>1, ServesOn
    <3> HIDE DEF p, z
    <3>4. <<p, z>> \in Due(jobs, events) => <<p, z>> \in Due(J2, E2)
      BY <3>1, <3>2, DueOn
    <3> QED
      BY <1>1, <3>3, <3>4 DEF s, J2, E2, p, z
  <2> QED
    BY <1>1, <2>2, <2>3, <2>4, ImageLoads
<1>6. CASE j.src \notin Unreadable
  <2>1. /\ jobs' = (jobs \ {j}) \cup (IF j.sizes = {} THEN {} ELSE {next})
        /\ events' = IF j.preload THEN events
                     ELSE events \o <<asset>> \o (IF j.sizes = {} THEN <<>> ELSE <<drawn>>)
    BY <1>6 DEF RenderBuffers
  <2>2. /\ EventsOK(events')
        /\ \A k \in DOMAIN events : k \in DOMAIN events' /\ events'[k] = events[k]
        /\ ~j.preload /\ j.sizes # {} => \E k \in DOMAIN events' : events'[k] = drawn
    <3> HIDE DEF asset, drawn, one
    <3>1. CASE j.preload
      BY <1>2, <2>1, <3>1
    <3>2. CASE ~j.preload
      <4>1. /\ EventsOK(one)
            /\ \A k \in DOMAIN events : k \in DOMAIN one /\ one[k] = events[k]
        BY <1>2, <1>4, <3>2, EventsGrow DEF one
      <4>2. events \o <<asset>> = one
        BY <1>2, EventsAppend DEF one
      <4>3. CASE j.sizes = {}
        <5>1. events' = one \o <<>>
          BY <2>1, <3>2, <4>2, <4>3
        <5>2. one \o <<>> = one
          BY <4>1, ConcatEmptySeq DEF EventsOK
        <5> QED
          BY <4>1, <4>3, <5>1, <5>2
      <4>4. CASE j.sizes # {}
        <5>1. events' = one \o <<drawn>>
          BY <2>1, <3>2, <4>2, <4>4
        <5>2. one \o <<drawn>> = Append(one, drawn)
          BY <4>1, EventsAppend
        <5>4. EventsOK(one) /\ EventOK(drawn)
          BY <1>4, <3>2, <4>1
        <5>3. /\ EventsOK(Append(one, drawn))
              /\ \A k \in DOMAIN one : /\ k \in DOMAIN Append(one, drawn)
                                       /\ Append(one, drawn)[k] = one[k]
              /\ \E k \in DOMAIN Append(one, drawn) : Append(one, drawn)[k] = drawn
          BY <5>4, EventsGrow
        <5> QED
          BY <4>1, <5>1, <5>2, <5>3
      <4> QED
        BY <4>3, <4>4
    <3> QED
      BY <3>1, <3>2
  <2> HIDE DEF next, asset, drawn
  <2>3. JobsOK(jobs')
    BY <1>2, <1>3, <2>1 DEF JobsOK
  <2>4. ASSUME NEW i \in DOMAIN surf
        PROVE  /\ Served(app, surf[i], cache, jobs) => Served(app, surf[i], cache', jobs')
               /\ <<Selected(app, surf[i]), surf[i].size>> \in Due(jobs, events)
                    => <<Selected(app, surf[i]), surf[i].size>> \in Due(jobs', events')
    <3> DEFINE s == surf[i]
               J2 == jobs'
               E2 == events'
               p == Selected(app, s)
               z == s.size
    <3>1. jobs \ {j} \subseteq J2 /\ (j.sizes # {} => next \in J2)
      BY <2>1
    <3>2. /\ \A k \in DOMAIN events : k \in DOMAIN E2 /\ E2[k] = events[k]
          /\ ~j.preload /\ j.sizes # {} => \E k \in DOMAIN E2 : E2[k] = drawn
      BY <2>2
    <3> HIDE DEF s, J2, E2
    <3>3. Served(app, s, cache, jobs) => Served(app, s, cache, J2)
      <4>1. ~j.preload /\ s.size \in j.sizes =>
               \E q \in J2 : ~q.preload /\ q.src = j.src /\ q.look = j.look /\ s.size \in q.sizes
        BY <1>3, <3>1
      <4> QED
        BY <3>1, <4>1, ServesOn
    <3>4. j.src = p /\ z \in UnsentSizes(j) => <<p, z>> \in Due(J2, E2)
      <4> SUFFICES ASSUME j.src = p, z \in UnsentSizes(j) PROVE <<p, z>> \in Due(J2, E2)
        OBVIOUS
      <4>1. ~j.preload /\ z \in j.sizes
        BY DEF UnsentSizes
      <4>2. \E k \in DOMAIN E2 : E2[k].src = p /\ z \in E2[k].sizes
        BY <1>4, <3>2, <4>1
      <4> QED
        BY <4>2, DueOf
    <3> HIDE DEF p, z
    <3>5. <<p, z>> \in Due(jobs, events) => <<p, z>> \in Due(J2, E2)
      BY <3>1, <3>2, <3>4, DueOn
    <3> QED
      BY <1>1, <3>3, <3>5 DEF s, J2, E2, p, z
  <2> QED
    BY <1>1, <2>2, <2>3, <2>4, ImageLoads
<1> QED
  BY <1>5, <1>6

LEMMA ImageStore ==
    ASSUME SceneInv, ImageInv, NEW j \in jobs, Store(j)
    PROVE  ImageInv'
<1>1. /\ j.phase = "store" /\ UNCHANGED <<app, surf, events, odd>> /\ jobs' = jobs \ {j}
      /\ cache' = cache \cup {Key(j, z) : z \in j.sizes}
  BY DEF Store
<1>2. JobsOK(jobs') /\ EventsOK(events')
  BY <1>1 DEF ImageInv, JobsOK
<1>3. ASSUME NEW i \in DOMAIN surf
      PROVE  /\ Served(app, surf[i], cache, jobs) => Served(app, surf[i], cache', jobs')
             /\ <<Selected(app, surf[i]), surf[i].size>> \in Due(jobs, events)
                  => <<Selected(app, surf[i]), surf[i].size>> \in Due(jobs', events')
  <2> DEFINE s == surf[i]
             J2 == jobs'
             C2 == cache'
             p == Selected(app, s)
             z == s.size
  <2>1. jobs \ {j} \subseteq J2 /\ cache \subseteq C2 /\ UnsentSizes(j) = {}
    BY <1>1 DEF UnsentSizes
  <2>2. s.size \in j.sizes =>
          [src |-> j.src, size |-> s.size, look |-> j.look, kind |-> "plain"] \in C2
    BY <1>1 DEF Key
  <2> HIDE DEF s, J2, C2
  <2>3. Served(app, s, cache, jobs) => Served(app, s, C2, J2)
    <3>1. ~j.preload /\ s.size \in j.sizes =>
             \/ [src |-> j.src, size |-> s.size, look |-> j.look, kind |-> "plain"] \in C2
             \/ \E q \in J2 : ~q.preload /\ q.src = j.src /\ q.look = j.look
                              /\ s.size \in q.sizes
      BY <2>2
    <3>2. \/ Selected(app, s) \in Unreadable
          \/ /\ ~j.preload /\ j.src = Selected(app, s) /\ j.look = app.look
             /\ s.size \in j.sizes
             /\ Selected(app, s) # None
            => \/ [src |-> j.src, size |-> s.size, look |-> j.look, kind |-> "plain"] \in C2
               \/ \E q \in J2 : ~q.preload /\ q.src = j.src /\ q.look = j.look
                                /\ s.size \in q.sizes
      BY <3>1
    <3>3. jobs \ {j} \subseteq J2 /\ cache \subseteq C2
      BY <2>1
    <3> HIDE DEF p, z
    <3> QED
      BY <3>2, <3>3, ServesOn
  <2> HIDE DEF p, z
  <2>4. <<p, z>> \in Due(jobs, events) => <<p, z>> \in Due(J2, events)
    BY <2>1, DueOn
  <2> QED
    BY <1>1, <2>3, <2>4 DEF s, J2, C2, p, z
<1> QED
  BY <1>1, <1>2, <1>3, ImageLoads

-----------------------------------------------------------------------------
(* What the loaders bring.                                                 *)

LEMMA DrainDue ==
    ASSUME NEW E, EventsOK(E), E # <<>>, NEW J
    PROVE  /\ EventsOK(Tail(E)) /\ EventOK(Head(E))
           /\ \A p, z : /\ <<p, z>> \in Due(J, E)
                        /\ ~(Head(E).src = p /\ z \in Head(E).sizes)
                        => <<p, z>> \in Due(J, Tail(E))
<1>1. PICK T : E \in Seq(T) /\ \A x \in T : EventOK(x)
  BY DEF EventsOK
<1> DEFINE F == Tail(E)
           e == Head(E)
<1>2. /\ e \in T /\ F \in Seq(T) /\ Len(F) = Len(E) - 1
      /\ \A k \in 1..Len(F) : F[k] = E[k + 1]
  BY <1>1, HeadTailProperties
<1>3. /\ Len(E) \in Nat /\ DOMAIN E = 1..Len(E) /\ DOMAIN F = 1..Len(F) /\ Len(F) \in Nat
  BY <1>1, <1>2, LenProperties
<1>4. e = E[1]
  BY <1>1
<1> HIDE DEF F, e
<1>5. EventsOK(F) /\ EventOK(e)
  BY <1>1, <1>2 DEF EventsOK
<1>6. \A k \in DOMAIN E : k = 1 \/ (k - 1 \in DOMAIN F /\ F[k - 1] = E[k])
  BY <1>2, <1>3
<1>7. ASSUME NEW p, NEW z, <<p, z>> \in Due(J, E), ~(e.src = p /\ z \in e.sizes)
      PROVE  <<p, z>> \in Due(J, F)
  <2>1. CASE \E j \in J : j.src = p /\ z \in UnsentSizes(j)
    BY <2>1, DueOf
  <2>2. CASE \E k \in DOMAIN E : E[k].src = p /\ z \in E[k].sizes
    <3>1. PICK k \in DOMAIN E : E[k].src = p /\ z \in E[k].sizes
      BY <2>2
    <3>2. k # 1
      BY <1>4, <1>7, <3>1
    <3>3. \E m \in DOMAIN F : F[m].src = p /\ z \in F[m].sizes
      BY <1>6, <3>1, <3>2
    <3> QED
      BY <3>3, DueOf
  <2> QED
    BY <1>7, <2>1, <2>2, DueOf
<1> QED
  BY <1>5, <1>7 DEF F, e

\* The picture at hand changes: it was the selected one only if it still is.
LEMMA AssetServes ==
    ASSUME NEW a, DOMAIN a = AppFields, AssetOK(a), NEW e, a.path = e.src, e.src # None,
           e.look = a.look, NEW b, b = [a EXCEPT !.asset = Picture(e.src, e.look)],
           NEW s, NEW C, NEW J, Served(a, s, C, J)
    PROVE  Served(b, s, C, J)
<1> DEFINE p == Picture(e.src, e.look)
<1>1. /\ b.path = a.path /\ b.own = a.own /\ b.slides = a.slides /\ b.generated = a.generated
      /\ b.look = a.look /\ b.layers = a.layers /\ b.backdrops = a.backdrops
      /\ b.started = a.started /\ b.emergency = a.emergency /\ b.asset = p
      /\ b.asStored = a.asStored
  BY FieldsOfApp
<1>2. Selected(b, s) = Selected(a, s) /\ Wanted(b, s) = Wanted(a, s)
  BY <1>1 DEF Selected, Wanted
<1>3. Cached(b, C, s, "plain") <=> Cached(a, C, s, "plain")
  BY <1>1, <1>2 DEF Cached
<1>4. a.asset = Wanted(a, s) => Selected(a, s) = None \/ p = Wanted(a, s)
  <2> SUFFICES ASSUME a.asset = Wanted(a, s), Selected(a, s) # None
               PROVE  p = Wanted(a, s)
    OBVIOUS
  <2>1. a.asset.src = Selected(a, s)
    BY DEF Wanted, Picture
  <2>2. CASE a.slides # <<>>
    <3>1. Selected(a, s) = a.path
      BY <2>2 DEF Selected
    <3> QED
      BY <3>1 DEF Wanted
  <2>3. CASE a.slides = <<>>
    <3>1. Selected(a, s) = a.path
      BY <2>1, <2>3 DEF AssetOK
    <3> QED
      BY <3>1 DEF Wanted
  <2> QED
    BY <2>2, <2>3
<1> QED
  BY <1>1, <1>2, <1>3, <1>4 DEF Served

LEMMA ImageAssetReady ==
    ASSUME SceneInv, ImageInv, events # <<>>, events' = Tail(events),
           Head(events).kind = "asset", AssetReady(Head(events)), UNCHANGED <<jobs, cache>>
    PROVE  ImageInv'
<1> DEFINE e == Head(events)
           d == Due(jobs, events)
           d2 == Due(jobs, Tail(events))
           p == Picture(e.src, e.look)
           b == [app EXCEPT !.asset = p]
<1>1. /\ EventsOK(events') /\ EventOK(e)
      /\ \A q, z : <<q, z>> \in d /\ ~(e.src = q /\ z \in e.sizes) => <<q, z>> \in d2
  BY DrainDue DEF ImageInv
<1>2. e.src # None /\ e.sizes = {}
  BY <1>1 DEF EventOK
<1>3. \A q, z : <<q, z>> \in d => <<q, z>> \in d2
  BY <1>1, <1>2
<1>4. /\ app' = IF app.path = e.src THEN b ELSE app
      /\ odd' = (odd \/ (app.path = e.src /\ e.look # app.look))
      /\ UNCHANGED surf
  BY DEF AssetReady
<1>5. DOMAIN app = AppFields /\ AssetOK(app) /\ JobsOK(jobs)
  BY DEF SceneInv, ImageInv
<1> HIDE DEF e, d, d2
<1>6. CASE app.path # e.src
  <2>1. UNCHANGED <<app, surf>> /\ (odd => odd')
    BY <1>4, <1>6
  <2>2. \A i \in DOMAIN surf :
          <<Selected(app, surf[i]), surf[i].size>> \in Due(jobs, events)
            => <<Selected(app, surf[i]), surf[i].size>> \in Due(jobs', events')
    BY <1>3 DEF d, d2
  <2>3. \A i \in DOMAIN surf :
          Served(app, surf[i], cache, jobs) => Served(app, surf[i], cache', jobs')
    OBVIOUS
  <2> QED
    BY <1>1, <1>5, <2>1, <2>2, <2>3, ImageLoads
<1>7. CASE app.path = e.src
  <2> DEFINE o == odd \/ e.look # app.look
  <2>1. app' = b /\ surf' = surf /\ odd' = o
    BY <1>4, <1>7
  <2>2. /\ b.path = app.path /\ b.own = app.own /\ b.slides = app.slides
        /\ b.look = app.look /\ b.layers = app.layers /\ b.asset = p
        /\ b.started = app.started /\ b.emergency = app.emergency /\ b.ready = app.ready
    BY <1>5, FieldsOfApp
  <2>3. AssetOK(b)
    <3>1. p.src = e.src
      BY DEF Picture
    <3> HIDE DEF b, p
    <3> QED
      BY <1>2, <1>5, <1>7, <2>2, <3>1 DEF AssetOK
  <2>4. ASSUME NEW i \in DOMAIN surf PROVE Safe(b, surf[i], cache, jobs, d2, o, FALSE)
    <3> DEFINE old == FALSE
               s == surf[i]
    <3>1. Safe(app, s, cache, jobs, d, odd, old)
      BY DEF ImageInv, AllSafe, d
    <3> HIDE DEF old, s
    <3>2. e.look = app.look /\ Served(app, s, cache, jobs) => Served(b, s, cache, jobs)
      BY <1>2, <1>5, <1>7, AssetServes
    <3> HIDE DEF b, p
    <3>3. /\ Selected(b, s) = Selected(app, s) /\ Wanted(b, s) = Wanted(app, s)
          /\ HasLayers(b) <=> HasLayers(app)
      BY <2>2 DEF Selected, Wanted, HasLayers
    <3>4. \A f : FrameOK(app, d, s, f, old) => FrameOK(b, d2, s, f, old)
      BY <1>3, <2>2, <3>3 DEF FrameOK
    <3>5. LayersOK(b, s)
      BY <2>2, <3>1, <3>3 DEF LayersOK, Safe
    <3>6. o \/ odd \/ old \/ Served(b, s, cache, jobs)
      BY <3>1, <3>2 DEF Safe
    <3>7. odd \/ \A f \in Frames(s) : FrameOK(b, d2, s, f, old)
      BY <3>1, <3>4 DEF Safe
    <3>8. odd => o
      OBVIOUS
    <3> HIDE DEF o
    <3>9. Safe(b, s, cache, jobs, d2, o, old)
      BY <3>5, <3>6, <3>7, <3>8 DEF Safe
    <3> QED
      BY <3>9 DEF s, old
  <2>5. AllSafe(b, surf, cache, jobs, d2, o)
    BY <2>4 DEF AllSafe
  <2> HIDE DEF b, o
  <2> QED
    BY <1>1, <1>5, <2>1, <2>3, <2>5 DEF ImageInv, d2
<1> QED
  BY <1>6, <1>7

\* A surface that takes what arrives shows the selected image in its look, or a
\* mistake is on record; another one still waits for its own, or needs none.
LEMMA Arrival ==
    ASSUME NEW a, NEW s, DOMAIN s = SurfaceFields, NEW C, NEW J, NEW d, NEW o, NEW old,
           Safe(a, s, C, J, d, o, old), NEW e, NEW d2,
           \A q, z : <<q, z>> \in d /\ ~(e.src = q /\ z \in e.sizes) => <<q, z>> \in d2,
           NEW o2, o => o2, Mistaken(a, s, e) => o2,
           NEW r, r = IF Takes(a, s, e) THEN Installed(s, e)
                      ELSE IF Selected(a, s) = e.src /\ s.size = 0
                      THEN [s EXCEPT !.bg = Nothing] ELSE s
    PROVE  Safe(a, r, C, J, d2, o2, old)
<1>1. CASE Takes(a, s, e)
  <2> DEFINE b == [size |-> s.size, picture |-> Picture(e.src, e.look)]
  <2>1. /\ r.out = s.out /\ r.size = s.size /\ r.bg = b /\ r.path = e.src
        /\ r.fresh = FALSE
    BY <1>1, FieldsOfSurface DEF Installed
  <2>2. b.picture = Picture(e.src, e.look)
    OBVIOUS
  <2> HIDE DEF b
  <2>3. Selected(a, r) = e.src /\ Wanted(a, r) = Picture(e.src, a.look)
    BY <1>1, <2>1, SelectedByOutput DEF Takes, Wanted
  <2>4. o2 \/ e.look = a.look
    BY <1>1 DEF Takes, Mistaken
  <2>5. \A f \in Frames(r) : f = b
    BY <2>1 DEF Frames
  <2>6. o2 \/ FrameOK(a, d2, r, b, old)
    BY <2>1, <2>2, <2>3, <2>4 DEF FrameOK
  <2>7. o2 \/ old \/ Served(a, r, C, J)
    BY <2>1, ServedByOutput DEF Safe
  <2>8. LayersOK(a, r)
    BY <2>1 DEF LayersOK
  <2> QED
    BY <2>5, <2>6, <2>7, <2>8 DEF Safe
<1>2. CASE ~Takes(a, s, e)
  <2>1. /\ r.out = s.out /\ r.size = s.size /\ r.path = s.path /\ r.fresh = s.fresh
        /\ r.base = s.base /\ r.bg \in {s.bg, Nothing}
    BY <1>2, FieldsOfSurface
  <2>2. Selected(a, r) = Selected(a, s) /\ Wanted(a, r) = Wanted(a, s)
    BY <2>1, SelectedByOutput
  <2>3. Frames(r) \subseteq Frames(s)
    BY <2>1 DEF Frames
  <2>4. LayersOK(a, r)
    BY <2>1 DEF LayersOK, Safe
  <2>5. o2 \/ old \/ Served(a, r, C, J)
    BY <2>1, ServedByOutput DEF Safe
  <2>6. ASSUME NEW f \in Frames(s), ~o2 PROVE FrameOK(a, d2, r, f, old)
    <3>1. FrameOK(a, d, s, f, old)
      BY <2>6 DEF Safe
    <3>2. CASE e.src = Selected(a, s) /\ s.size \in e.sizes
      <4>1. f.picture = Wanted(a, s)
        BY <1>2, <2>6, <3>2 DEF Takes, Mistaken
      <4> QED
        BY <2>1, <2>2, <3>1, <4>1 DEF FrameOK
    <3>3. CASE ~(e.src = Selected(a, s) /\ s.size \in e.sizes)
      <4>1. <<Selected(a, s), s.size>> \in d => <<Selected(a, s), s.size>> \in d2
        BY <3>3
      <4> QED
        BY <2>1, <2>2, <3>1, <4>1 DEF FrameOK
    <3> QED
      BY <3>2, <3>3
  <2> QED
    BY <2>3, <2>4, <2>5, <2>6 DEF Safe
<1> QED
  BY <1>1, <1>2

LEMMA ImageBuffersReady ==
    ASSUME SceneInv, ImageInv, events # <<>>, events' = Tail(events), NEW plan,
           BuffersReady(Head(events), plan), UNCHANGED <<jobs, cache>>
    PROVE  ImageInv'
<1> DEFINE e == Head(events)
           taken == {i \in DOMAIN surf : Takes(app, surf[i], e)}
           new(i) == IF i \in taken THEN Installed(surf[i], e)
                     ELSE IF Selected(app, surf[i]) = e.src /\ surf[i].size = 0
                     THEN [surf[i] EXCEPT !.bg = Nothing] ELSE surf[i]
           S == [i \in DOMAIN surf |-> new(i)]
           d == Due(jobs, events)
           d2 == Due(jobs, Tail(events))
           o == odd \/ \E i \in DOMAIN surf : Mistaken(app, surf[i], e)
           one == [Now EXCEPT !.S = S]
           two == [one EXCEPT !.due = d2]
           st == [two EXCEPT !.odd = o]
           t == IF taken = {} THEN st ELSE RenderAll(st, plan)
           W == World(surf, cache, jobs, d2, app.started)
<1>1. Fits(Now, surf) /\ Surfaces(surf)
  BY NowFits DEF SceneInv
<1>2. Becomes(t)
  <2>1. [Now EXCEPT
            !.S = [i \in DOMAIN @ |->
                    IF i \in taken THEN Installed(@[i], e)
                    ELSE IF Selected(app, @[i]) = e.src /\ @[i].size = 0
                    THEN [@[i] EXCEPT !.bg = Nothing] ELSE @[i]],
            !.due = d2,
            !.odd = @ \/ \E i \in DOMAIN surf : Mistaken(app, surf[i], e)] = st
    <3> HIDE DEF taken, e
    <3> QED
      BY DEF Now
  <2> HIDE DEF st
  <2> QED
    BY <2>1 DEF BuffersReady
<1>3. /\ EventsOK(events') /\ JobsOK(jobs')
      /\ \A q, z : <<q, z>> \in d /\ ~(e.src = q /\ z \in e.sizes) => <<q, z>> \in d2
  BY DrainDue DEF ImageInv
<1> HIDE DEF e
<1>4. \A i \in DOMAIN surf :
        S[i] = IF Takes(app, surf[i], e) THEN Installed(surf[i], e)
               ELSE IF Selected(app, surf[i]) = e.src /\ surf[i].size = 0
               THEN [surf[i] EXCEPT !.bg = Nothing] ELSE surf[i]
  OBVIOUS
<1>5. \A i \in DOMAIN surf : Surface(S[i], surf[i].out, surf[i].size)
  <2> SUFFICES ASSUME NEW i \in DOMAIN surf
               PROVE  Surface(S[i], surf[i].out, surf[i].size)
    OBVIOUS
  <2>1. Surface(surf[i], surf[i].out, surf[i].size)
    BY <1>1 DEF Surfaces, Surface
  <2>2. Surface(Installed(surf[i], e), surf[i].out, surf[i].size)
    BY <2>1, FieldsOfSurface DEF Installed, Surface
  <2>3. Surface([surf[i] EXCEPT !.bg = Nothing], surf[i].out, surf[i].size)
    BY <2>1, BgFits
  <2> HIDE DEF S, taken
  <2> QED
    BY <1>4, <2>1, <2>2, <2>3
<1>6. S = [i \in DOMAIN surf |-> S[i]]
  OBVIOUS
<1> HIDE DEF S, taken, d, d2
<1>7. (odd => o) /\ \A i \in DOMAIN surf : Mistaken(app, surf[i], e) => o
  OBVIOUS
<1> HIDE DEF o
<1>8. st.a = app /\ st.S = S /\ st.C = cache /\ st.due = d2 /\ st.odd = o
  BY DEF Now
<1>9. Fits(one, surf)
  BY <1>1, <1>5, <1>6, SurfacesFit
<1> HIDE DEF one
<1>10. Fits(two, surf)
  BY <1>9, DueFits
<1> HIDE DEF two
<1>11. Fits(st, surf)
  BY <1>10, OddFits
<1> HIDE DEF st
<1>12. W.Z = surf /\ W.C = cache /\ W.J = jobs /\ W.due = d2 /\ W.started = app.started
  BY WorldFields
<1> HIDE DEF W
<1>13. AllSafe(app, S, cache, jobs, d2, o)
  <2> DEFINE old == FALSE
  <2>1. \A i \in DOMAIN surf : Safe(app, surf[i], cache, jobs, d, odd, old)
    BY DEF ImageInv, AllSafe, d
  <2> HIDE DEF old
  <2>2. ASSUME NEW i \in DOMAIN surf PROVE Safe(app, S[i], cache, jobs, d2, o, old)
    <3> DEFINE s == surf[i]
               r == S[i]
    <3>1. Safe(app, s, cache, jobs, d, odd, old) /\ DOMAIN s = SurfaceFields
      BY <1>1, <2>1 DEF Surfaces
    <3>2. /\ odd => o
          /\ Mistaken(app, s, e) => o
      BY <1>7
    <3>3. r = IF Takes(app, s, e) THEN Installed(s, e)
              ELSE IF Selected(app, s) = e.src /\ s.size = 0
              THEN [s EXCEPT !.bg = Nothing] ELSE s
      BY <1>4
    <3> HIDE DEF s, r
    <3>4. \A q, z : <<q, z>> \in d /\ ~(e.src = q /\ z \in e.sizes) => <<q, z>> \in d2
      BY <1>3
    <3>5. Safe(app, r, cache, jobs, d2, o, old)
      BY <3>1, <3>2, <3>3, <3>4, Arrival
    <3> QED
      BY <3>5 DEF r
  <2>3. DOMAIN S = DOMAIN surf
    BY <1>6
  <2> QED
    BY <2>2, <2>3 DEF AllSafe, old
<1>14. Good(st, W, {})
  <2>1. AssetOK(st.a) /\ DOMAIN st.S = DOMAIN W.Z
    BY <1>6, <1>8, <1>12 DEF ImageInv
  <2> QED
    BY <1>8, <1>12, <1>13, <2>1, GoodFromAll
<1>15. Fits(t, surf) /\ Good(t, W, {})
  BY <1>1, <1>11, <1>12, <1>14, RenderAllFits, RenderAllGood
<1> HIDE DEF t
<1>16. cache' = W.C /\ jobs' = W.J /\ Due(jobs', events') = W.due
  BY <1>12 DEF d2
<1> QED
  BY <1>2, <1>3, <1>12, <1>15, <1>16, Ending

LEMMA ImageDrainEvent ==
    ASSUME SceneInv, ImageInv, NEW plan, DrainEvent(plan)
    PROVE  ImageInv'
<1>1. events # <<>> /\ events' = Tail(events) /\ UNCHANGED <<jobs, cache>>
  BY DEF DrainEvent
<1>2. \/ Head(events).kind = "asset" /\ AssetReady(Head(events))
      \/ Head(events).kind = "failed" /\ UNCHANGED <<app, surf, odd>>
      \/ BuffersReady(Head(events), plan)
  BY DEF DrainEvent
<1>3. CASE Head(events).kind = "failed" /\ UNCHANGED <<app, surf, odd>>
  <2>1. /\ EventsOK(Tail(events)) /\ EventOK(Head(events))
        /\ \A p, z : /\ <<p, z>> \in Due(jobs, events)
                     /\ ~(Head(events).src = p /\ z \in Head(events).sizes)
                     => <<p, z>> \in Due(jobs, Tail(events))
    BY <1>1, DrainDue DEF ImageInv
  <2>2. Head(events).sizes = {}
    BY <1>3, <2>1 DEF EventOK
  <2>3. \A i \in DOMAIN surf :
          <<Selected(app, surf[i]), surf[i].size>> \in Due(jobs, events)
            => <<Selected(app, surf[i]), surf[i].size>> \in Due(jobs', events')
    BY <1>1, <2>1, <2>2
  <2>4. \A i \in DOMAIN surf :
          Served(app, surf[i], cache, jobs) => Served(app, surf[i], cache', jobs')
    BY <1>1
  <2>5. JobsOK(jobs') /\ EventsOK(events')
    BY <1>1, <2>1 DEF ImageInv
  <2> QED
    BY <1>3, <2>3, <2>4, <2>5, ImageLoads
<1> QED
  BY <1>1, <1>2, <1>3, ImageAssetReady, ImageBuffersReady

-----------------------------------------------------------------------------
LEMMA ImageInvInit == Init => ImageInv
<1> SUFFICES ASSUME Init PROVE ImageInv
  OBVIOUS
<1>1. PICK l \in Launches :
        /\ \E sl \in (IF l.config.slides THEN Starts ELSE {<<>>}) :
            app = Configured(Fresh, l.config, sl)
        /\ surf = [i \in DOMAIN l.outputs |-> NewSurface(l.outputs[i])]
  BY DEF Init
<1>2. jobs = {} /\ events = <<>> /\ odd = FALSE
  BY DEF Init
<1>3. AssetOK(app) /\ ~app.started
  <2>1. PICK sl \in (IF l.config.slides THEN Starts ELSE {<<>>}) :
            app = Configured(Fresh, l.config, sl)
    BY <1>1
  <2>2. DOMAIN Fresh = AppFields /\ Fresh.started = FALSE
    BY DEF AppFields, Fresh
  <2> DEFINE c == l.config
             f == Fresh
  <2>3. app = Configured(f, c, sl) /\ sl \in (IF c.slides THEN Starts ELSE {<<>>})
    BY <2>1
  <2> HIDE DEF c, f
  <2>4. AssetOK(app)
    BY <2>2, <2>3, ConfiguredAsset DEF f
  <2>5. app.started = f.started
    BY <2>2, <2>3, FieldsOfApp DEF Configured, f
  <2> QED
    BY <2>2, <2>4, <2>5 DEF f
<1>4. \A i \in DOMAIN surf : ~surf[i].fresh /\ surf[i].bg = Nothing
  BY <1>1 DEF NewSurface
<1>5. AllSafe(app, surf, cache, jobs, Due(jobs, events), odd)
  <2> DEFINE old == FALSE
  <2> HIDE DEF old
  <2>1. \A i \in DOMAIN surf : Safe(app, surf[i], cache, jobs, Due(jobs, events), odd, old)
    BY <1>3, <1>4, BareIsSafe
  <2> QED
    BY <2>1 DEF AllSafe, old
<1>6. JobsOK(jobs) /\ EventsOK(events)
  <2>1. <<>> \in Seq({})
    BY EmptySeq
  <2> QED
    BY <1>2, <2>1 DEF JobsOK, EventsOK
<1> QED
  BY <1>3, <1>5, <1>6 DEF ImageInv

LEMMA ImageInvNext == SceneInv /\ ImageInv /\ [Next]_vars => ImageInv'
<1> SUFFICES ASSUME SceneInv, ImageInv, [Next]_vars PROVE ImageInv'
  OBVIOUS
<1>1. CASE \E o \in Outputs : NewOutput(o)
  BY <1>1, ImageNewOutput
<1>2. CASE \E i \in DOMAIN surf : OutputDestroyed(i)
  BY <1>2, ImageOutputDestroyed
<1>3. CASE UNCHANGED vars
  BY <1>3 DEF vars, ImageInv
<1>4. CASE KeyPressed
  BY <1>4, ImageKeyPressed
<1>5. CASE \E plan \in Plans(surf) :
              \/ Locked(plan) \/ Tick(plan) \/ AdvanceSlides(plan) \/ DrainEvent(plan)
              \/ \E c \in Configs : Reload(c, plan)
              \/ \E asStored \in BOOLEAN : ShellChanges(asStored, plan)
              \/ \E i \in DOMAIN surf : Focus(i, plan) \/ ReconfigureSurface(i, plan)
              \/ \E i \in DOMAIN surf, z \in Sizes :
                    ConfigureSurface(i, z, plan) \/ Rescale(i, z, plan)
  <2> PICK plan \in Plans(surf) :
              \/ Locked(plan) \/ Tick(plan) \/ AdvanceSlides(plan) \/ DrainEvent(plan)
              \/ \E c \in Configs : Reload(c, plan)
              \/ \E asStored \in BOOLEAN : ShellChanges(asStored, plan)
              \/ \E i \in DOMAIN surf : Focus(i, plan) \/ ReconfigureSurface(i, plan)
              \/ \E i \in DOMAIN surf, z \in Sizes :
                    ConfigureSurface(i, z, plan) \/ Rescale(i, z, plan)
    BY <1>5
  <2>1. CASE Locked(plan)
    BY <2>1, ImageLocked
  <2>2. CASE Tick(plan)
    BY <2>2, ImageTick
  <2>3. CASE AdvanceSlides(plan)
    BY <2>3, ImageAdvanceSlides
  <2>4. CASE DrainEvent(plan)
    BY <2>4, ImageDrainEvent
  <2>5. CASE \E c \in Configs : Reload(c, plan)
    BY <2>5, ImageReload
  <2>6. CASE \E asStored \in BOOLEAN : ShellChanges(asStored, plan)
    BY <2>6, ImageShellChanges
  <2>7. CASE \E i \in DOMAIN surf : Focus(i, plan) \/ ReconfigureSurface(i, plan)
    BY <2>7, ImageFocus, ImageReconfigureSurface
  <2>8. CASE \E i \in DOMAIN surf, z \in Sizes :
                ConfigureSurface(i, z, plan) \/ Rescale(i, z, plan)
    BY <2>8, ImageConfigureSurface, ImageRescale
  <2> QED
    BY <2>1, <2>2, <2>3, <2>4, <2>5, <2>6, <2>7, <2>8
<1>6. CASE \E k \in Elsewhere : StoredElsewhere(k)
  BY <1>6, ImageStoredElsewhere
<1>7. CASE \E j \in jobs : LookUp(j) \/ RenderBuffers(j) \/ Store(j)
  BY <1>7, ImageLookUp, ImageRenderBuffers, ImageStore
<1> QED
  BY <1>1, <1>2, <1>3, <1>4, <1>5, <1>6, <1>7 DEF Next

\* For every set of outputs, images, sizes, configurations and loaders: what a
\* surface may draw from shows the picture selected for it, or a loader is going
\* to replace it, and no surface waits for a picture that nobody brings.
THEOREM ImageInvHolds == Spec => []ImageInv
<1>1. Init => SceneInv /\ ImageInv
  BY SceneInvInit, ImageInvInit
<1>2. SceneInv /\ ImageInv /\ [Next]_vars => (SceneInv /\ ImageInv)'
  BY SceneInvNext, ImageInvNext
<1> QED
  BY <1>1, <1>2, PTL DEF Spec

\* With the loaders done, what is safe is what RedrawDone asks for.
LEMMA QuietIsSettled ==
    ASSUME SceneInv, ImageInv, Running, app.ready, Quiet, ~odd
    PROVE  Right(surf, RenderAll(Now, Smooth))
<1> DEFINE W == World(surf, cache, jobs, Due(jobs, events), app.started)
<1>1. /\ W.Z = surf /\ W.C = cache /\ W.J = jobs /\ W.due = Due(jobs, events)
      /\ W.started = app.started
  BY WorldFields
<1> HIDE DEF W
<1>2. jobs = {} /\ Due(jobs, events) = {}
  <2>1. jobs = {} /\ DOMAIN events = {}
    BY DEF Quiet
  <2> QED
    BY <2>1 DEF Due
<1>3. Surfaces(W.Z) /\ Fits(Now, W.Z) /\ Good(Now, W, {})
  BY <1>1, NowFits, GoodNow DEF SceneInv, Was
<1>4. Now.a = app /\ Now.S = surf /\ Now.odd = odd /\ Now.error = "none"
  BY DEF Now
<1>5. \A i \in DOMAIN W.Z : W.started \/ Selected(Now.a, W.Z[i]) = None
  BY <1>1, <1>4 DEF Quiet, ImageSurfaces
<1>6. Settled(Now, W)
  BY <1>1, <1>2, <1>3, <1>4, <1>5 DEF Settled, Running
<1> QED
  BY <1>3, <1>4, <1>6, RedrawDone

\* Once the loaders are done and no race is on record, a full redraw leaves on
\* every output the image selected for it, in the treatment configured last, and
\* the prompt with its layers where it belongs.
THEOREM RedrawsAreRight == Spec => []RedrawIsRight
<1>1. SceneInv /\ ImageInv => RedrawIsRight
  BY QuietIsSettled DEF RedrawIsRight
<1> QED
  BY <1>1, SceneInvHolds, ImageInvHolds, PTL

=============================================================================
