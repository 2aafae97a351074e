-------------------------- MODULE ShellInputProofs --------------------------
(***************************************************************************)
(* The safety properties of ShellInput, for every set of themes, buttons   *)
(* and launches and every length of a password, and the first of           *)
(* ShellPicture, for every configuration.                                  *)
(*                                                                         *)
(* A handler computes a shell v from ui and draws it; drawing may fail,    *)
(* and then the shell is that of the emergency UI.  The lemmas follow this *)
(* division: what each function of the shell preserves, what each way of   *)
(* drawing leaves behind, and then one step per handler that puts the two  *)
(* together.                                                               *)
(*                                                                         *)
(* The second half is about the picture that ShellPicture makes of a       *)
(* shell, for every look of a theme: first which widgets a pass draws,     *)
(* then where they are.                                                    *)
(***************************************************************************)
EXTENDS ShellPicture, WellFoundedInduction, TLAPS

\* PromptCoherent, of a shell and a theme.
Coherent(u, t) ==
    /\ ~InputVisible(u, t) => u.secret = 0 /\ ~u.reveal /\ u.status = "Idle"
    /\ u.selected => u.secret > 0
    /\ u.reveal => t.eye
    /\ u.retry # "none" => u.status = "Rejected"

\* A theme that never hides the prompt finds it revealed, whatever was loaded before.
Good(u, t) ==
    /\ u \in ShellStates /\ t \in ThemeRecords
    /\ Coherent(u, t)
    /\ ~t.hides => u.revealed

\* The flags of a press belong to the button that is held down.
Follows(u, h) ==
    h.seen => /\ u.btnPressed \in {None, h.at}
              /\ u.eyePressed => h.at = "eye"

Bases == [mode: {"Rich", "Emergency"}, theme: Themes, revealed: BOOLEAN,
          focused: BOOLEAN, box: {"none", "plain", "red"}]

\* A static layer that serves a shell, whatever its box.
Serves(b, u, t) ==
    /\ b \in Bases
    /\ b.mode = u.mode /\ b.theme = t /\ b.revealed = u.revealed /\ b.focused = u.focused

Hands == [at: Places \cup {"up"}, seen: BOOLEAN]

ShellInv ==
    /\ theme \in Themes /\ app \in Apps /\ hand \in Hands
    /\ Good(ui, theme)
    /\ PendingIffInFlight
    /\ Serves(base, ui, theme) /\ pic.prompt = Prompt(ui)
    /\ pic = [prompt |-> pic.prompt, rest |-> pic.rest]
    /\ Follows(ui, hand)
    /\ hand.at = "up" => ~hand.seen
    /\ hand.at # "up" => asked = None

LEMMA ThemeIsARecord == ASSUME NEW t \in Themes PROVE t \in ThemeRecords
  BY ThemesAssumption

-----------------------------------------------------------------------------
(* Functions of the shell. *)

\* What a handler may make of a shell u under a theme t: the emergency UI and the focus
\* are not its business.
Keeps(u, v) == v.mode = u.mode /\ v.focused = u.focused

\* It does not press anything.
LetsBe(u, v) ==
    /\ v.btnPressed \in {None, u.btnPressed}
    /\ v.eyePressed => u.eyePressed

\* It neither edits the secret nor changes the verdict.
Same(u, v) == v.secret = u.secret /\ v.status = u.status /\ v.reveal = u.reveal

\* What the handlers are built from.
LEMMA RevealGood ==
  ASSUME NEW u, NEW t, Good(u, t)
  PROVE  LET v == Reveal(u)
         IN  Good(v, t) /\ Keeps(u, v) /\ LetsBe(u, v) /\ Same(u, v) /\ v.revealed
  BY DEF Good, Coherent, Reveal, InputVisible, ShellStates, Keeps, LetsBe, Same

LEMMA UnselectGood ==
  ASSUME NEW u, NEW t, Good(u, t)
  PROVE  LET v == Unselect(u)
         IN  /\ Good(v, t) /\ Keeps(u, v) /\ LetsBe(u, v) /\ Same(u, v)
             /\ ~v.selected /\ v.revealed = u.revealed
  BY DEF Good, Coherent, Unselect, InputVisible, ShellStates, Keeps, LetsBe, Same

LEMMA IdleGood ==
  ASSUME NEW u, NEW t, Good(u, t)
  PROVE  LET v == Idle(u)
         IN  /\ Good(v, t) /\ Keeps(u, v) /\ LetsBe(u, v)
             /\ v.secret = u.secret /\ v.reveal = u.reveal /\ v.status = "Idle"
             /\ v.revealed = u.revealed
  BY DEF Good, Coherent, Idle, InputVisible, ShellStates, Keeps, LetsBe

LEMMA SecretGood ==
  ASSUME NEW u, NEW t, Good(u, t), u.revealed, ~u.selected, NEW n \in 0..MaxSecret
  PROVE  LET v == [u EXCEPT !.secret = n]
         IN  /\ Good(v, t) /\ Keeps(u, v) /\ LetsBe(u, v)
             /\ v.status = u.status /\ v.revealed = u.revealed
  BY DEF Good, Coherent, InputVisible, ShellStates, Keeps, LetsBe

LEMMA EmptiedGood ==
  ASSUME NEW u, NEW t, Good(u, t)
  PROVE  LET v == Emptied(u)
         IN  /\ Good(v, t) /\ Keeps(u, v) /\ LetsBe(u, v)
             /\ v.secret = 0 /\ ~v.reveal /\ ~v.selected
             /\ v.status = u.status /\ v.revealed = u.revealed
  <1> DEFINE w == Unselect(u)
  <1>1. Good(w, t) /\ Keeps(u, w) /\ LetsBe(u, w) /\ Same(u, w) /\ ~w.selected
        /\ w.revealed = u.revealed
    BY UnselectGood
  <1>2. Emptied(u) = [w EXCEPT !.secret = 0, !.reveal = FALSE, !.eyePressed = FALSE]
    BY DEF Emptied
  <1> HIDE DEF w
  <1> DEFINE v == [w EXCEPT !.secret = 0, !.reveal = FALSE, !.eyePressed = FALSE]
  <1>3. v \in ShellStates
    <2>1. w \in ShellStates /\ 0 \in 0..MaxSecret
      BY <1>1, MaxSecretAssumption DEF Good
    <2>2. [w EXCEPT !.secret = 0] \in ShellStates
      BY <2>1 DEF ShellStates
    <2>3. v = [[w EXCEPT !.secret = 0] EXCEPT !.reveal = FALSE, !.eyePressed = FALSE]
      BY DEF v
    <2> QED BY <2>2, <2>3 DEF ShellStates
  <1>4. /\ v.secret = 0 /\ v.reveal = FALSE /\ v.eyePressed = FALSE
        /\ v.selected = w.selected /\ v.revealed = w.revealed /\ v.status = w.status
        /\ v.retry = w.retry /\ v.mode = w.mode /\ v.focused = w.focused
        /\ v.btnPressed = w.btnPressed
    BY <1>1 DEF Good, ShellStates
  <1> HIDE DEF v
  <1>5. Emptied(u) = v
    BY <1>2 DEF v
  <1>6. Coherent(v, t)
    BY <1>1, <1>4 DEF Good, Coherent, InputVisible
  <1> QED
    BY <1>1, <1>3, <1>4, <1>5, <1>6 DEF Good, Keeps, LetsBe, Same

LEMMA SettleGood ==
  ASSUME NEW u, NEW t, Good(u, t)
  PROVE  LET v == Settle(u)
         IN  /\ Good(v, t) /\ Keeps(u, v) /\ LetsBe(u, v)
             /\ v.secret = u.secret /\ v.reveal = u.reveal
             /\ v.status \in {u.status, "Idle"} /\ v.revealed = u.revealed
  BY IdleGood DEF Settle, Keeps, LetsBe, Good

-----------------------------------------------------------------------------
(* The keys. *)

LEMMA TypedGood ==
  ASSUME NEW u, NEW t, Good(u, t), ~Waiting(u)
  PROVE  LET v == Typed(u)
         IN  Good(v, t) /\ ~Waiting(v) /\ Keeps(u, v) /\ LetsBe(u, v) /\ v.reveal = u.reveal
  <1> DEFINE r == Reveal(u)
             n == IF u.selected THEN 1 ELSE u.secret + 1
             w == [Unselect(r) EXCEPT !.secret = n]
  <1>1. Good(r, t) /\ Keeps(u, r) /\ LetsBe(u, r) /\ Same(u, r) /\ r.revealed
    BY RevealGood
  <1>2. CASE ~Accepts(u)
    BY <1>1, <1>2 DEF Typed, Waiting, Same
  <1>3. CASE Accepts(u)
    <2>1. n \in 0..MaxSecret
      BY <1>3, MaxSecretAssumption DEF Accepts, Good, ShellStates
    <2>2. Typed(u) = Settle(w)
      BY <1>1, <1>3 DEF Typed, Unselect, Same, Reveal, Good, ShellStates
    <2>3. /\ Good(Unselect(r), t) /\ Keeps(r, Unselect(r)) /\ LetsBe(r, Unselect(r))
          /\ Same(r, Unselect(r)) /\ ~Unselect(r).selected /\ Unselect(r).revealed
      BY <1>1, UnselectGood
    <2> DEFINE q == Unselect(r)
    <2> HIDE DEF n, r, q
    <2>4. Good(w, t) /\ Keeps(q, w) /\ LetsBe(q, w) /\ w.status = q.status /\ w.reveal = q.reveal
      BY <2>1, <2>3, SecretGood DEF q, Good, ShellStates
    <2> HIDE DEF w
    <2> QED
      BY <1>1, <2>2, <2>3, <2>4, SettleGood DEF q, Keeps, LetsBe, Waiting, Same
  <1> QED BY <1>2, <1>3

LEMMA ErasedGood ==
  ASSUME NEW u, NEW t, Good(u, t), ~Waiting(u)
  PROVE  LET v == Erased(u)
         IN  Good(v, t) /\ ~Waiting(v) /\ Keeps(u, v) /\ LetsBe(u, v) /\ v.reveal = u.reveal
  <1> DEFINE r == Reveal(u)
             q == Unselect(r)
             n == IF u.selected \/ u.secret = 0 THEN 0 ELSE u.secret - 1
             w == [q EXCEPT !.secret = n]
  <1>1. Good(r, t) /\ Keeps(u, r) /\ LetsBe(u, r) /\ Same(u, r) /\ r.revealed
    BY RevealGood
  <1>2. /\ Good(q, t) /\ Keeps(r, q) /\ LetsBe(r, q) /\ Same(r, q) /\ ~q.selected /\ q.revealed
    BY <1>1, UnselectGood
  <1>3. n \in 0..MaxSecret
    BY MaxSecretAssumption DEF Good, ShellStates
  <1>4. Erased(u) = Settle(w)
    BY DEF Erased, Unselect, Reveal, Good, ShellStates
  <1> HIDE DEF n, r, q
  <1>5. Good(w, t) /\ Keeps(q, w) /\ LetsBe(q, w) /\ w.status = q.status /\ w.reveal = q.reveal
    BY <1>2, <1>3, SecretGood DEF Good, ShellStates
  <1> HIDE DEF w
  <1> QED
    BY <1>1, <1>2, <1>4, <1>5, SettleGood DEF Keeps, LetsBe, Waiting, Same

LEMMA ClearedGood ==
  ASSUME NEW u, NEW t, Good(u, t), ~Waiting(u)
  PROVE  LET v == Cleared(u)
         IN  Good(v, t) /\ ~Waiting(v) /\ Keeps(u, v) /\ LetsBe(u, v) /\ ~v.reveal
  <1> DEFINE r == Reveal(u)
             w == Emptied(r)
  <1>1. Good(r, t) /\ Keeps(u, r) /\ LetsBe(u, r) /\ Same(u, r)
    BY RevealGood
  <1>2. Good(w, t) /\ Keeps(r, w) /\ LetsBe(r, w) /\ w.status = r.status /\ ~w.reveal
    BY <1>1, EmptiedGood
  <1>3. Cleared(u) = Settle(w)
    BY DEF Cleared
  <1> HIDE DEF r, w
  <1> QED
    BY <1>1, <1>2, <1>3, SettleGood DEF Keeps, LetsBe, Waiting, Same

LEMMA SelectedGood ==
  ASSUME NEW u, NEW t, Good(u, t), ~Waiting(u)
  PROVE  LET v == [Reveal(u) EXCEPT !.selected = u.secret > 0]
         IN  Good(v, t) /\ ~Waiting(v) /\ Keeps(u, v) /\ LetsBe(u, v) /\ v.reveal = u.reveal
  <1> DEFINE r == Reveal(u)
  <1>1. Good(r, t) /\ Keeps(u, r) /\ LetsBe(u, r) /\ Same(u, r) /\ r.revealed
    BY RevealGood
  <1>2. r.secret = u.secret
    BY <1>1 DEF Same
  <1> HIDE DEF r
  <1>3. ASSUME NEW b \in BOOLEAN, b => r.secret > 0
        PROVE  LET v == [r EXCEPT !.selected = b]
               IN  Good(v, t) /\ Keeps(r, v) /\ LetsBe(r, v) /\ Same(r, v)
    BY <1>1, <1>3 DEF Good, Coherent, InputVisible, ShellStates, Keeps, LetsBe, Same
  <1>4. CASE u.secret > 0
    <2>1. [r EXCEPT !.selected = u.secret > 0] = [r EXCEPT !.selected = TRUE]
      BY <1>4, Zenon
    <2> QED BY <1>1, <1>2, <1>3, <1>4, <2>1 DEF r, Waiting, Keeps, LetsBe, Same
  <1>5. CASE ~(u.secret > 0)
    <2>1. [r EXCEPT !.selected = u.secret > 0] = [r EXCEPT !.selected = FALSE]
      <3>1. (u.secret > 0) = FALSE
        BY <1>5
      <3> QED BY <3>1, Zenon
    <2> QED BY <1>1, <1>2, <1>3, <1>5, <2>1 DEF r, Waiting, Keeps, LetsBe, Same
  <1> QED BY <1>4, <1>5

LEMMA EscapedGood ==
  ASSUME NEW u, NEW t, Good(u, t), ~Waiting(u)
  PROVE  LET v == Escaped(u, t)
         IN  Good(v, t) /\ ~Waiting(v) /\ Keeps(u, v) /\ LetsBe(u, v) /\ ~v.reveal
  <1> DEFINE e == Emptied(u)
             i == Idle(e)
  <1>1. /\ Good(e, t) /\ Keeps(u, e) /\ LetsBe(u, e)
        /\ e.secret = 0 /\ ~e.reveal /\ ~e.selected
    BY EmptiedGood
  <1>2. /\ Good(i, t) /\ Keeps(e, i) /\ LetsBe(e, i) /\ i.secret = e.secret
        /\ i.reveal = e.reveal /\ i.status = "Idle"
    BY <1>1, IdleGood
  <1>3. ~i.selected /\ i.retry = "none"
    BY <1>1 DEF Idle, Good, ShellStates
  <1>4. Escaped(u, t) = [i EXCEPT !.revealed = IF t.hides THEN FALSE ELSE i.revealed]
    BY DEF Escaped
  <1> HIDE DEF e, i
  <1>5. ASSUME NEW b \in BOOLEAN, ~t.hides => b
        PROVE  LET v == [i EXCEPT !.revealed = b]
               IN  Good(v, t) /\ ~Waiting(v) /\ Keeps(u, v) /\ LetsBe(u, v) /\ ~v.reveal
    <2> DEFINE v == [i EXCEPT !.revealed = b]
    <2>1. /\ v \in ShellStates /\ v.revealed = b /\ v.secret = 0 /\ ~v.reveal /\ ~v.selected
          /\ v.status = "Idle" /\ v.retry = "none" /\ v.mode = i.mode /\ v.focused = i.focused
          /\ v.btnPressed = i.btnPressed /\ v.eyePressed = i.eyePressed
      BY <1>1, <1>2, <1>3 DEF Good, ShellStates
    <2> HIDE DEF v
    <2>2. Good(v, t)
      BY <1>2, <1>5, <2>1 DEF Good, Coherent
    <2> QED
      BY <1>1, <1>2, <2>1, <2>2 DEF v, Waiting, Keeps, LetsBe
  <1>6. LET b == IF t.hides THEN FALSE ELSE i.revealed
        IN  b \in BOOLEAN /\ (~t.hides => b)
    BY <1>2 DEF Good, ShellStates
  <1> QED BY <1>4, <1>5, <1>6

LEMMA DismissedGood ==
  ASSUME NEW u, NEW t, Good(u, t), ~Waiting(u)
  PROVE  LET v == Unselect(Reveal(u))
         IN  Good(v, t) /\ ~Waiting(v) /\ Keeps(u, v) /\ LetsBe(u, v) /\ v.reveal = u.reveal
  <1> DEFINE r == Reveal(u)
  <1>1. Good(r, t) /\ Keeps(u, r) /\ LetsBe(u, r) /\ Same(u, r)
    BY RevealGood
  <1> HIDE DEF r
  <1>2. Good(Unselect(r), t) /\ Keeps(r, Unselect(r)) /\ LetsBe(r, Unselect(r))
        /\ Same(r, Unselect(r))
    BY <1>1, UnselectGood
  <1> QED BY <1>1, <1>2 DEF r, Waiting, Keeps, LetsBe, Same

LEMMA SubmittedGood ==
  ASSUME NEW u, NEW t, Good(u, t)
  PROVE  /\ Good(Submitted(u), t) /\ Waiting(Submitted(u))
         /\ Keeps(u, Submitted(u)) /\ LetsBe(u, Submitted(u))
         /\ Submitted(u).secret = u.secret
  BY DEF Good, Coherent, Submitted, Unselect, Reveal, InputVisible, ShellStates, Waiting, Keeps,
         LetsBe

LEMMA RejectedGood ==
  ASSUME NEW u, NEW t, Good(u, t), InputVisible(u, t), NEW delay \in BOOLEAN
  PROVE  LET v == RejectedWith(u, delay)
         IN  /\ Good(v, t) /\ ~Waiting(v) /\ Keeps(u, v) /\ LetsBe(u, v)
             /\ v.revealed = u.revealed /\ v.secret = 0 /\ v.status = "Rejected" /\ ~v.reveal
  <1> DEFINE e == Emptied(u)
             retry == IF delay THEN "running" ELSE "none"
             v == [e EXCEPT !.status = "Rejected", !.retry = retry]
  <1>1. /\ Good(e, t) /\ Keeps(u, e) /\ LetsBe(u, e) /\ e.secret = 0 /\ ~e.reveal /\ ~e.selected
        /\ e.revealed = u.revealed
    BY EmptiedGood
  <1>2. RejectedWith(u, delay) = v
    BY DEF RejectedWith
  <1>3. retry \in {"none", "running"}
    OBVIOUS
  <1> HIDE DEF e, retry
  <1>4. /\ v \in ShellStates /\ v.secret = e.secret /\ v.reveal = e.reveal
        /\ v.selected = e.selected /\ v.revealed = e.revealed /\ v.status = "Rejected"
        /\ v.mode = e.mode /\ v.focused = e.focused /\ v.btnPressed = e.btnPressed
        /\ v.eyePressed = e.eyePressed
    BY <1>1, <1>3 DEF Good, ShellStates
  <1> HIDE DEF v
  <1>5. Coherent(v, t)
    BY <1>1, <1>4 DEF Good, Coherent, InputVisible
  <1> QED
    BY <1>1, <1>2, <1>4, <1>5 DEF Good, Waiting, Keeps, LetsBe

-----------------------------------------------------------------------------
(* The pointer. *)

\* The pointer edits nothing.
LeavesText(u, v) == v.secret = u.secret /\ v.status = u.status

LEMMA DropExpiredGood ==
  ASSUME NEW u, NEW t, Good(u, t)
  PROVE  LET v == DropExpired(u)
         IN  /\ Good(v, t) /\ Keeps(u, v) /\ LeavesText(u, v) /\ v.reveal = u.reveal
             /\ v.btnPressed = u.btnPressed /\ v.eyePressed = u.eyePressed
             /\ v.revealed = u.revealed /\ v.selected = u.selected
  <1>1. NoConfirmation \in Confirmations
    BY DEF NoConfirmation, Confirmations
  <1> QED
    BY <1>1
    DEF DropExpired, Good, Coherent, InputVisible, ShellStates, Keeps, LeavesText

LEMMA LetGoGood ==
  ASSUME NEW u, NEW t, Good(u, t)
  PROVE  LET v == LetGo(u)
         IN  /\ Good(v, t) /\ Keeps(u, v) /\ LeavesText(u, v) /\ v.reveal = u.reveal
             /\ v.btnPressed = None /\ v.eyePressed = FALSE
             /\ v.revealed = u.revealed /\ v.selected = u.selected
  BY DEF LetGo, Good, Coherent, InputVisible, ShellStates, Keeps, LeavesText

LEMMA MovedGood ==
  ASSUME NEW u, NEW t, Good(u, t), NEW place
  PROVE  LET v == Moved(u, t, place)
         IN  /\ Good(v, t) /\ Keeps(u, v) /\ LeavesText(u, v) /\ v.reveal = u.reveal
             /\ LetsBe(u, v)
  <1>1. CASE Waiting(u)
    BY <1>1, LetGoGood DEF Moved, LetsBe
  <1>2. ASSUME NEW v, v \in {[u EXCEPT !.eyePressed = FALSE], [u EXCEPT !.btnPressed = None], u}
        PROVE  /\ Good(v, t) /\ Keeps(u, v) /\ LeavesText(u, v) /\ v.reveal = u.reveal
               /\ LetsBe(u, v)
    BY <1>2, ZenonT(60) DEF Good, Coherent, InputVisible, ShellStates, Keeps, LeavesText, LetsBe
  <1> QED BY <1>1, <1>2 DEF Moved

\* What a press leaves held down is what it was on.
LEMMA PressedGood ==
  ASSUME NEW u, NEW t, Good(u, t), NEW place
  PROVE  LET v == Pressed(u, t, place)
         IN  /\ Good(v, t) /\ Keeps(u, v) /\ LeavesText(u, v) /\ v.reveal = u.reveal
             /\ InputVisible(u, t) \/ place \in t.buttons =>
                   Follows(v, [at |-> place, seen |-> TRUE])
  <1> DEFINE d == DropExpired(u)
  <1>1. /\ Good(d, t) /\ Keeps(u, d) /\ LeavesText(u, d) /\ d.reveal = u.reveal
        /\ d.revealed = u.revealed
    BY DropExpiredGood
  <1>2. InputVisible(d, t) = InputVisible(u, t)
    BY <1>1 DEF InputVisible
  <1>3. Pressed(u, t, place) =
          IF Waiting(u) THEN LetGo(u)
          ELSE IF ButtonAt(t, place) # None
               THEN [d EXCEPT !.btnPressed = place, !.eyePressed = FALSE]
          ELSE IF ~InputVisible(d, t) THEN Reveal(d)
          ELSE [Unselect(d) EXCEPT !.eyePressed = OnEye(d, t, place), !.btnPressed = None]
    BY DEF Pressed
  <1> HIDE DEF d
  <1>4. CASE Waiting(u)
    BY <1>3, <1>4, LetGoGood DEF Follows
  <1>5. CASE ~Waiting(u) /\ ButtonAt(t, place) # None
    <2>1. place \in Buttons
      BY <1>5 DEF ButtonAt, Good, ThemeRecords
    <2>2. LET v == [d EXCEPT !.btnPressed = place, !.eyePressed = FALSE]
          IN  /\ Good(v, t) /\ Keeps(d, v) /\ LeavesText(d, v) /\ v.reveal = d.reveal
              /\ v.btnPressed = place /\ ~v.eyePressed
      BY <1>1, <2>1 DEF Good, Coherent, InputVisible, ShellStates, Keeps, LeavesText
    <2>3. Pressed(u, t, place) = [d EXCEPT !.btnPressed = place, !.eyePressed = FALSE]
      BY <1>3, <1>5
    <2> QED
      BY <1>1, <2>2, <2>3 DEF Keeps, LeavesText, Follows
  <1>6. CASE ~Waiting(u) /\ ButtonAt(t, place) = None /\ ~InputVisible(d, t)
    <2>1. place \notin t.buttons
      BY <1>6, NoneAssumption DEF ButtonAt, Good, ThemeRecords
    <2>2. LET v == Reveal(d) IN Good(v, t) /\ Keeps(d, v) /\ Same(d, v)
      BY <1>1, RevealGood
    <2> QED
      BY <1>1, <1>2, <1>3, <1>6, <2>1, <2>2 DEF Keeps, LeavesText, Same
  <1>7. CASE ~Waiting(u) /\ ButtonAt(t, place) = None /\ InputVisible(d, t)
    <2> DEFINE w == Unselect(d)
               eye == OnEye(d, t, place)
    <2>1. Good(w, t) /\ Keeps(d, w) /\ Same(d, w)
      BY <1>1, UnselectGood
    <2>2. eye \in BOOLEAN /\ (eye => place = "eye")
      BY DEF OnEye
    <2> HIDE DEF w, eye
    <2>3. LET v == [w EXCEPT !.eyePressed = eye, !.btnPressed = None]
          IN  /\ Good(v, t) /\ Keeps(w, v) /\ LeavesText(w, v) /\ v.reveal = w.reveal
              /\ v.eyePressed = eye /\ v.btnPressed = None
      BY <2>1, <2>2 DEF Good, Coherent, InputVisible, ShellStates, Keeps, LeavesText
    <2>4. Pressed(u, t, place) = [w EXCEPT !.eyePressed = eye, !.btnPressed = None]
      BY <1>3, <1>7 DEF w, eye
    <2> QED
      BY <1>1, <2>1, <2>2, <2>3, <2>4 DEF Keeps, LeavesText, Same, Follows
  <1> QED BY <1>4, <1>5, <1>6, <1>7

\* A release shows the password only for a press on the eye.
LEMMA ReleasedGood ==
  ASSUME NEW u, NEW t, Good(u, t), NEW place
  PROVE  LET v == Released(u, t, place)
         IN  /\ Good(v, t) /\ Keeps(u, v) /\ LeavesText(u, v)
             /\ v.reveal => u.reveal \/ u.eyePressed
  <1> DEFINE d == DropExpired(u)
  <1>1. /\ Good(d, t) /\ Keeps(u, d) /\ LeavesText(u, d) /\ d.reveal = u.reveal
        /\ d.eyePressed = u.eyePressed
    BY DropExpiredGood
  <1>2. Released(u, t, place) =
          IF Waiting(u) THEN LetGo(u)
          ELSE IF Clicked(d, t, place) THEN LetGo(Activated(d, t, place))
          ELSE IF ~InputVisible(d, t) THEN Reveal(d)
          ELSE [LetGo(d) EXCEPT
                  !.reveal = IF d.eyePressed /\ OnEye(d, t, place)
                             THEN ~LetGo(d).reveal ELSE LetGo(d).reveal]
    BY DEF Released
  <1> HIDE DEF d
  <1>3. CASE Waiting(u)
    BY <1>2, <1>3, LetGoGood
  <1>4. CASE ~Waiting(u) /\ Clicked(d, t, place)
    <2> DEFINE a == Activated(d, t, place)
               c == IF Fires(d, t, place) THEN NoConfirmation ELSE [button |-> place, over |-> FALSE]
    <2>1. place \in Buttons
      BY <1>4 DEF Clicked, ButtonAt, Good, ThemeRecords
    <2>2. c \in Confirmations
      BY <2>1 DEF NoConfirmation, Confirmations
    <2>3. a = [d EXCEPT !.confirm = c]
      BY DEF Activated
    <2> HIDE DEF a, c
    <2>4. Good(a, t) /\ Keeps(d, a) /\ LeavesText(d, a) /\ a.reveal = d.reveal
      BY <1>1, <2>2, <2>3 DEF Good, Coherent, InputVisible, ShellStates, Keeps, LeavesText
    <2>5. Released(u, t, place) = LetGo(a)
      BY <1>2, <1>4 DEF a
    <2>6. Good(LetGo(a), t) /\ Keeps(a, LetGo(a)) /\ LeavesText(a, LetGo(a))
          /\ LetGo(a).reveal = a.reveal
      BY <2>4, LetGoGood
    <2> QED
      BY <1>1, <2>4, <2>5, <2>6 DEF Keeps, LeavesText
  <1>5. CASE ~Waiting(u) /\ ~Clicked(d, t, place) /\ ~InputVisible(d, t)
    BY <1>1, <1>2, <1>5, RevealGood DEF Keeps, LeavesText, Same
  <1>6. CASE ~Waiting(u) /\ ~Clicked(d, t, place) /\ InputVisible(d, t)
    <2> DEFINE w == LetGo(d)
               r == IF d.eyePressed /\ OnEye(d, t, place) THEN ~w.reveal ELSE w.reveal
    <2>1. Good(w, t) /\ Keeps(d, w) /\ LeavesText(d, w) /\ w.reveal = d.reveal
          /\ w.revealed = d.revealed
      BY <1>1, LetGoGood
    <2>2. r \in BOOLEAN /\ (r => w.reveal \/ (d.eyePressed /\ t.eye))
      BY <2>1 DEF OnEye, Good, ShellStates
    <2>3. Released(u, t, place) = [w EXCEPT !.reveal = r]
      BY <1>2, <1>6
    <2>4. InputVisible(w, t)
      BY <1>6, <2>1 DEF InputVisible
    <2> HIDE DEF w, r
    <2>5. LET v == [w EXCEPT !.reveal = r]
          IN  Good(v, t) /\ Keeps(w, v) /\ LeavesText(w, v) /\ v.reveal = r
      BY <2>1, <2>2, <2>4 DEF Good, Coherent, InputVisible, ShellStates, Keeps, LeavesText
    <2> QED
      BY <1>1, <2>1, <2>2, <2>3, <2>5 DEF Keeps, LeavesText
  <1> QED BY <1>3, <1>4, <1>5, <1>6

-----------------------------------------------------------------------------
(* Drawing. *)

\* What every way of drawing a shell v leaves behind.
Drawn(v, t) ==
    /\ Good(ui', t) /\ Serves(base', ui', t)
    /\ pic'.prompt = Prompt(ui') /\ pic' = [prompt |-> pic'.prompt, rest |-> pic'.rest]
    /\ LetsBe(v, ui') /\ LeavesText(v, ui')
    /\ ui'.reveal => v.reveal

LEMMA EmergencyGood ==
  ASSUME NEW u, NEW t, Good(u, t)
  PROVE  LET v == ActivateEmergency(u)
         IN  Good(v, t) /\ LetsBe(u, v) /\ LeavesText(u, v) /\ ~v.reveal
  <1> DEFINE v == ActivateEmergency(u)
  <1>1. /\ v \in ShellStates /\ v.revealed /\ ~v.reveal /\ ~v.eyePressed
        /\ v.secret = u.secret /\ v.status = u.status /\ v.selected = u.selected
        /\ v.retry = u.retry /\ v.btnPressed = u.btnPressed
    BY DEF ActivateEmergency, Good, ShellStates
  <1> HIDE DEF v
  <1>2. Coherent(v, t)
    BY <1>1 DEF Good, Coherent, InputVisible
  <1> QED
    BY <1>1, <1>2 DEF v, Good, LetsBe, LeavesText

LEMMA StaticLayerServes ==
  ASSUME NEW u, NEW t \in Themes, u \in ShellStates,
         NEW box \in {"none", "plain", "red"}
  PROVE  Serves([StaticLayer(u, t) EXCEPT !.box = box], u, t)
  BY DEF Serves, Bases, StaticLayer, ShellStates

LEMMA LayersServe ==
  ASSUME NEW u, NEW t \in Themes, u \in ShellStates, NEW b \in Layers(u, t)
  PROVE  Serves(b, u, t)
  <1>1. PICK box \in {"none", "plain", "red"} : b = [StaticLayer(u, t) EXCEPT !.box = box]
    <2>1. StaticLayer(u, t) = [StaticLayer(u, t) EXCEPT !.box = StaticBox(u, t)]
      BY DEF StaticLayer
    <2>2. StaticBox(u, t) \in {"none", "plain", "red"}
      BY DEF StaticBox
    <2>3. CASE StoredLayers(u, t) = {}
      BY <2>1, <2>2, <2>3 DEF Layers
    <2>4. CASE StoredLayers(u, t) # {}
      <3> DEFINE box == IF InputVisible(u, t) THEN "plain" ELSE "none"
      <3>1. b \in StoredLayers(u, t)
        BY <2>4 DEF Layers
      <3>2. StoredLayers(u, t) = {[StaticLayer(u, t) EXCEPT !.box = box]}
        BY <2>4 DEF StoredLayers
      <3>3. b = [StaticLayer(u, t) EXCEPT !.box = box]
        <4> HIDE DEF box
        <4> QED BY <3>1, <3>2
      <3>4. box \in {"none", "plain", "red"}
        OBVIOUS
      <3> HIDE DEF box
      <3> QED BY <3>3, <3>4
    <2> QED BY <2>3, <2>4
  <1> QED BY <1>1, StaticLayerServes

LEMMA AllDrawn ==
  ASSUME NEW v, NEW t \in Themes, Good(v, t), NEW bump \in BOOLEAN,
         bump \/ Serves(base, v, t),
         DrawAll(v, t, bump)
  PROVE  Drawn(v, t)
  <1>1. v \in ShellStates
    BY DEF Good
  <1>2. CASE /\ ui' = v
             /\ IF bump THEN base' \in Layers(v, t) ELSE base' = base
             /\ pic' = [prompt |-> Prompt(v), rest |-> Rest(v)]
    <2>1. Serves(base', v, t)
      BY <1>1, <1>2, LayersServe
    <2>2. LetsBe(v, v)
      BY <1>1 DEF LetsBe, ShellStates
    <2> QED
      BY <1>2, <2>1, <2>2 DEF Drawn, LeavesText
  <1>3. CASE LET e == ActivateEmergency(v) IN
             /\ ui' = e /\ base' = StaticLayer(e, t)
             /\ pic' = [prompt |-> Prompt(e), rest |-> Rest(e)]
    <2> DEFINE e == ActivateEmergency(v)
    <2>1. Good(e, t) /\ LetsBe(v, e) /\ LeavesText(v, e) /\ ~e.reveal
      BY EmergencyGood
    <2> HIDE DEF e
    <2> DEFINE box == StaticBox(e, t)
               layer == StaticLayer(e, t)
    <2>2. layer = [StaticLayer(e, t) EXCEPT !.box = box]
      BY DEF StaticLayer
    <2>3. box \in {"none", "plain", "red"} /\ e \in ShellStates
      BY <2>1 DEF StaticBox, Good
    <2> HIDE DEF box, layer
    <2>4. Serves(layer, e, t)
      BY <2>2, <2>3, StaticLayerServes
    <2> QED
      BY <1>3, <2>1, <2>4 DEF e, layer, Drawn
  <1> QED BY <1>2, <1>3 DEF DrawAll

LEMMA PromptDrawn ==
  ASSUME NEW v, NEW t \in Themes, Good(v, t), Serves(base, v, t),
         pic = [prompt |-> pic.prompt, rest |-> pic.rest],
         DrawPrompt(v)
  PROVE  Drawn(v, t)
  <1>1. LetsBe(v, v)
    BY DEF Good, LetsBe, ShellStates
  <1>2. pic'.prompt = Prompt(v) /\ pic' = [prompt |-> pic'.prompt, rest |-> pic'.rest]
    <2>1. CASE v.mode = "Rich"
      <3>1. pic' = [prompt |-> Prompt(v), rest |-> pic.rest]
        BY <2>1 DEF DrawPrompt
      <3> QED BY <3>1
    <2>2. CASE v.mode # "Rich"
      BY <2>2 DEF DrawPrompt
    <2> QED BY <2>1, <2>2
  <1> QED
    BY <1>1, <1>2 DEF DrawPrompt, Drawn, LeavesText

\* A change of the prompt that does not bump leaves the static layer valid.
LEMMA ChangeDrawn ==
  ASSUME ShellInv, NEW v, Good(v, theme), Keeps(ui, v), NEW bump \in BOOLEAN,
         ~bump => v.revealed = ui.revealed,
         DrawChange(v, theme, bump)
  PROVE  Drawn(v, theme)
  <1>1. ~bump => Serves(base, v, theme)
    BY DEF ShellInv, Serves, Keeps
  <1> QED
    BY <1>1, AllDrawn, PromptDrawn DEF DrawChange, ShellInv

LEMMA PointerDrawn ==
  ASSUME ShellInv, NEW v, Good(v, theme), Keeps(ui, v), LeavesText(ui, v),
         DrawPointer(ui, v, theme)
  PROVE  Drawn(v, theme)
  <1> DEFINE bump == Bumps(ui, v)
  <1>1. bump \in BOOLEAN
    BY DEF Bumps
  <1>2. ~bump => v.revealed = ui.revealed /\ v.selected = ui.selected
    BY DEF Bumps
  <1>3. ~bump => Serves(base, v, theme)
    BY <1>2 DEF ShellInv, Serves, Keeps
  <1>4. DrawAll(v, theme, bump) \/ DrawChange(v, theme, bump)
        \/ /\ ~bump /\ ui.eyePressed = v.eyePressed /\ ui.reveal = v.reveal
           /\ DrawNothing(v) \/ DrawPrompt(v) \/ DrawAll(v, theme, FALSE)
    BY DEF DrawPointer
  <1> HIDE DEF bump
  <1>5. CASE DrawAll(v, theme, bump)
    BY <1>1, <1>3, <1>5, AllDrawn DEF ShellInv
  <1>6. CASE DrawChange(v, theme, bump)
    BY <1>1, <1>2, <1>6, ChangeDrawn
  <1>7. CASE /\ ~bump /\ ui.eyePressed = v.eyePressed /\ ui.reveal = v.reveal
             /\ DrawNothing(v)
    <2>1. LetsBe(v, v)
      BY DEF Good, LetsBe, ShellStates
    <2>2. Prompt(v) = Prompt(ui)
      BY <1>2, <1>7 DEF Prompt, Keeps, LeavesText
    <2> QED
      BY <1>3, <1>7, <2>1, <2>2 DEF DrawNothing, Drawn, LeavesText, ShellInv
  <1>8. CASE ~bump /\ DrawPrompt(v)
    BY <1>3, <1>8, PromptDrawn DEF ShellInv
  <1>9. CASE ~bump /\ DrawAll(v, theme, FALSE)
    BY <1>3, <1>9, AllDrawn DEF ShellInv
  <1> QED BY <1>4, <1>5, <1>6, <1>7, <1>8, <1>9

-----------------------------------------------------------------------------
(* The invariant. *)

\* What SubmittedTextIsFrozen and ReleaseNeedsItsPress say of one step.
Frozen == app.inFlight => ui'.secret = ui.secret \/ (ui'.secret = 0 /\ ui'.status = "Rejected")

Aimed ==
    hand.seen /\ hand'.at = "up" =>
        /\ asked' # None => asked' = hand.at
        /\ ui'.reveal /\ ~ui.reveal => hand.at = "eye"

LEMMA InitInv == Init => ShellInv
  <1> SUFFICES ASSUME Init PROVE ShellInv
    OBVIOUS
  <1>1. theme \in Themes /\ theme \in ThemeRecords
    BY ThemeIsARecord DEF Init
  <1>2. Good(Fresh(theme), theme)
    <2>1. NoConfirmation \in Confirmations
      BY DEF NoConfirmation, Confirmations
    <2>2. 0 \in 0..MaxSecret /\ theme.hides \in BOOLEAN
      BY <1>1, MaxSecretAssumption DEF ThemeRecords
    <2>3. Fresh(theme) \in ShellStates
      BY <2>1, <2>2 DEF Fresh, ShellStates
    <2> QED
      BY <1>1, <2>3 DEF Fresh, Good, Coherent, InputVisible
  <1>3. Serves(base, ui, theme)
    BY <1>1, <1>2, LayersServe DEF Init, Good
  <1>4. app \in Apps /\ ~app.inFlight
    BY LaunchesAssumption DEF Init, Apps
  <1>5. PendingIffInFlight
    BY <1>4 DEF Init, Fresh, PendingIffInFlight, Waiting
  <1> QED
    BY <1>1, <1>2, <1>3, <1>4, <1>5
    DEF Init, ShellInv, Follows, Hands, Places

\* A handler that leaves the pointer alone.
LEMMA HandlerStep ==
  ASSUME ShellInv, NEW v, theme' \in Themes, Drawn(v, theme'), LetsBe(ui, v),
         app' \in Apps, Waiting(v) <=> app'.inFlight,
         UNCHANGED <<hand, asked>>,
         app.inFlight => v.secret = ui.secret \/ (v.secret = 0 /\ v.status = "Rejected")
  PROVE  ShellInv' /\ Frozen /\ Aimed
  <1>1. PendingIffInFlight'
    BY DEF Drawn, LeavesText, PendingIffInFlight, Waiting
  <1>2. Follows(ui', hand')
    BY DEF ShellInv, Drawn, LetsBe, Follows
  <1>3. Frozen
    BY DEF Frozen, Drawn, LeavesText
  <1>4. Aimed
    BY DEF Aimed, ShellInv
  <1> QED
    BY <1>1, <1>2, <1>3, <1>4 DEF ShellInv, Drawn

LEMMA KeyStep ==
  ASSUME ShellInv, NEW v, Good(v, theme), ~Waiting(v), Keeps(ui, v), LetsBe(ui, v),
         NEW bump \in BOOLEAN, ~bump => v.revealed = ui.revealed,
         Listening, DrawChange(v, theme, bump),
         UNCHANGED <<theme, app, hand, asked>>
  PROVE  ShellInv' /\ Frozen /\ Aimed
  <1>1. Drawn(v, theme)
    BY ChangeDrawn
  <1>2. Drawn(v, theme') /\ theme' \in Themes /\ app' \in Apps
    BY <1>1 DEF ShellInv
  <1>3. ~app'.inFlight /\ ~app.inFlight
    BY DEF Listening
  <1> QED
    BY <1>2, <1>3, HandlerStep

\* A handler of the pointer, except for what becomes of the hand.
LEMMA PointerStep ==
  ASSUME ShellInv, NEW v, Good(v, theme), Keeps(ui, v), LeavesText(ui, v),
         DrawPointer(ui, v, theme), UNCHANGED <<theme, app>>,
         hand' \in Hands, Follows(v, hand'),
         hand'.at = "up" => ~hand'.seen,
         hand'.at # "up" => asked' = None,
         hand.seen /\ hand'.at = "up" =>
            /\ asked' # None => asked' = hand.at
            /\ v.reveal /\ ~ui.reveal => hand.at = "eye"
  PROVE  ShellInv' /\ Frozen /\ Aimed
  <1>1. Drawn(v, theme)
    BY PointerDrawn
  <1>2. PendingIffInFlight'
    BY <1>1 DEF ShellInv, Drawn, LeavesText, PendingIffInFlight, Waiting
  <1>3. Follows(ui', hand')
    BY <1>1 DEF Drawn, LetsBe, Follows, Good, ShellStates
  <1>4. Frozen
    BY <1>1 DEF Frozen, Drawn, LeavesText
  <1>5. Aimed
    BY <1>1 DEF Aimed, Drawn
  <1> QED
    BY <1>1, <1>2, <1>3, <1>4, <1>5 DEF ShellInv, Drawn

LEMMA NextInv == ShellInv /\ Next => ShellInv' /\ Frozen /\ Aimed
  <1> SUFFICES ASSUME ShellInv, Next PROVE ShellInv' /\ Frozen /\ Aimed
    OBVIOUS
  <1> DEFINE Goal == ShellInv' /\ Frozen /\ Aimed
  <1>0. Good(ui, theme) /\ theme \in Themes /\ app \in Apps /\ hand \in Hands
        /\ Waiting(ui) = app.inFlight /\ Serves(base, ui, theme)
    BY DEF ShellInv, PendingIffInFlight, Apps, Waiting
  <1>idle. Listening => ~Waiting(ui)
    BY <1>0 DEF Listening
  <1>1. CASE Type
    <2> DEFINE v == Typed(ui)
               bump == Bumps(ui, v) \/ (Accepts(ui) /\ Clears(ui))
    <2>1. Good(v, theme) /\ ~Waiting(v) /\ Keeps(ui, v) /\ LetsBe(ui, v)
      BY <1>0, <1>idle, <1>1, TypedGood DEF Type
    <2>2. bump \in BOOLEAN /\ (~bump => v.revealed = ui.revealed)
      BY DEF Bumps
    <2>3. Listening /\ DrawChange(v, theme, bump) /\ UNCHANGED <<theme, app, hand, asked>>
      BY <1>1 DEF Type
    <2> HIDE DEF v, bump
    <2> QED BY <2>1, <2>2, <2>3, KeyStep
  <1>2. CASE Backspace
    <2> DEFINE v == Erased(ui)
               bump == Bumps(ui, v) \/ Clears(ui)
    <2>1. Good(v, theme) /\ ~Waiting(v) /\ Keeps(ui, v) /\ LetsBe(ui, v)
      BY <1>0, <1>idle, <1>2, ErasedGood DEF Backspace
    <2>2. bump \in BOOLEAN /\ (~bump => v.revealed = ui.revealed)
      BY DEF Bumps
    <2>3. Listening /\ DrawChange(v, theme, bump) /\ UNCHANGED <<theme, app, hand, asked>>
      BY <1>2 DEF Backspace
    <2> HIDE DEF v, bump
    <2> QED BY <2>1, <2>2, <2>3, KeyStep
  <1>3. CASE ClearAll
    <2> DEFINE v == Cleared(ui)
               bump == Bumps(ui, v) \/ Clears(ui)
    <2>1. Good(v, theme) /\ ~Waiting(v) /\ Keeps(ui, v) /\ LetsBe(ui, v)
      BY <1>0, <1>idle, <1>3, ClearedGood DEF ClearAll
    <2>2. bump \in BOOLEAN /\ (~bump => v.revealed = ui.revealed)
      BY DEF Bumps
    <2>3. Listening /\ DrawChange(v, theme, bump) /\ UNCHANGED <<theme, app, hand, asked>>
      BY <1>3 DEF ClearAll
    <2> HIDE DEF v, bump
    <2> QED BY <2>1, <2>2, <2>3, KeyStep
  <1>4. CASE SelectAll
    <2> DEFINE v == [Reveal(ui) EXCEPT !.selected = ui.secret > 0]
               bump == Bumps(ui, v)
    <2>1. Good(v, theme) /\ ~Waiting(v) /\ Keeps(ui, v) /\ LetsBe(ui, v)
      BY <1>0, <1>idle, <1>4, SelectedGood DEF SelectAll
    <2>2. bump \in BOOLEAN /\ (~bump => v.revealed = ui.revealed)
      BY DEF Bumps
    <2>3. Listening /\ DrawChange(v, theme, bump) /\ UNCHANGED <<theme, app, hand, asked>>
      BY <1>4 DEF SelectAll
    <2> HIDE DEF v, bump
    <2> QED BY <2>1, <2>2, <2>3, KeyStep
  <1>5. CASE Escape
    <2> DEFINE v == Escaped(ui, theme)
               bump == Bumps(ui, v)
    <2>1. Good(v, theme) /\ ~Waiting(v) /\ Keeps(ui, v) /\ LetsBe(ui, v)
      BY <1>0, <1>idle, <1>5, EscapedGood DEF Escape
    <2>2. bump \in BOOLEAN /\ (~bump => v.revealed = ui.revealed)
      BY DEF Bumps
    <2>3. Listening /\ DrawChange(v, theme, bump) /\ UNCHANGED <<theme, app, hand, asked>>
      BY <1>5 DEF Escape
    <2> HIDE DEF v, bump
    <2> QED BY <2>1, <2>2, <2>3, KeyStep
  <1>6. CASE EnterCooling
    <2> DEFINE v == Unselect(Reveal(ui))
               bump == Bumps(ui, v)
    <2>1. Good(v, theme) /\ ~Waiting(v) /\ Keeps(ui, v) /\ LetsBe(ui, v)
      BY <1>0, <1>idle, <1>6, DismissedGood DEF EnterCooling
    <2>2. bump \in BOOLEAN /\ (~bump => v.revealed = ui.revealed)
      BY DEF Bumps
    <2>3. Listening /\ DrawChange(v, theme, bump) /\ UNCHANGED <<theme, app, hand, asked>>
      BY <1>6 DEF EnterCooling
    <2> HIDE DEF v, bump
    <2> QED BY <2>1, <2>2, <2>3, KeyStep
  <1>7. CASE EnterEmpty
    <2> DEFINE w == Submitted(ui)
               v == Idle(w)
               bump == Bumps(ui, v)
    <2>1. Good(w, theme) /\ Keeps(ui, w) /\ LetsBe(ui, w)
      BY <1>0, SubmittedGood
    <2>2. Good(v, theme) /\ Keeps(w, v) /\ LetsBe(w, v) /\ v.status = "Idle"
      BY <2>1, IdleGood
    <2>3. bump \in BOOLEAN /\ (~bump => v.revealed = ui.revealed)
      BY DEF Bumps
    <2>4. Listening /\ DrawChange(v, theme, bump) /\ UNCHANGED <<theme, app, hand, asked>>
      BY <1>7 DEF EnterEmpty
    <2> HIDE DEF w, v, bump
    <2>5. ~Waiting(v) /\ Keeps(ui, v) /\ LetsBe(ui, v)
      BY <2>1, <2>2 DEF Waiting, Keeps, LetsBe
    <2> QED BY <2>2, <2>3, <2>4, <2>5, KeyStep
  <1>8. CASE EnterWithoutSocket
    <2> DEFINE w == Submitted(ui)
               v == RejectedWith(w, FALSE)
    <2>1. Good(w, theme) /\ Keeps(ui, w) /\ LetsBe(ui, w) /\ w.revealed
      BY <1>0, SubmittedGood DEF Submitted, Unselect, Reveal, Good, ShellStates
    <2>2. InputVisible(w, theme)
      BY <2>1 DEF InputVisible
    <2>3. Good(v, theme) /\ ~Waiting(v) /\ Keeps(w, v) /\ LetsBe(w, v)
      BY <2>1, <2>2, RejectedGood
    <2>4. DrawAll(v, theme, TRUE) /\ ~app.inFlight /\ UNCHANGED <<theme, app, hand, asked>>
      BY <1>8 DEF EnterWithoutSocket, Listening
    <2> HIDE DEF w, v
    <2>5. Drawn(v, theme)
      BY <1>0, <2>3, <2>4, AllDrawn
    <2>6. LetsBe(ui, v)
      BY <2>1, <2>3 DEF LetsBe
    <2>7. theme' \in Themes /\ app' \in Apps /\ Drawn(v, theme')
      BY <1>0, <2>4, <2>5
    <2> QED BY <2>3, <2>4, <2>6, <2>7, HandlerStep
  <1>9. CASE Submit
    <2> DEFINE v == Submitted(ui)
               bump == Bumps(ui, v)
    <2>1. Good(v, theme) /\ Waiting(v) /\ Keeps(ui, v) /\ LetsBe(ui, v) /\ v.secret = ui.secret
      BY <1>0, SubmittedGood
    <2>2. bump \in BOOLEAN /\ (~bump => v.revealed = ui.revealed)
      BY DEF Bumps
    <2>3. /\ DrawChange(v, theme, bump) /\ app' = [app EXCEPT !.inFlight = TRUE]
          /\ UNCHANGED <<theme, hand, asked>>
      BY <1>9 DEF Submit
    <2> HIDE DEF v, bump
    <2>4. Drawn(v, theme)
      BY <2>1, <2>2, <2>3, ChangeDrawn
    <2>5. app' \in Apps /\ app'.inFlight
      BY <1>0, <2>3 DEF Apps
    <2>6. theme' \in Themes /\ Drawn(v, theme')
      BY <1>0, <2>3, <2>4
    <2> QED BY <2>1, <2>3, <2>5, <2>6, HandlerStep
  <1>10. CASE FocusChanges
    <2> DEFINE v == [ui EXCEPT !.focused = ~app.focus]
               bump == v.focused # ui.focused
    <2>0. (~app.focus) \in BOOLEAN
      BY <1>0 DEF Apps
    <2>1. /\ Good(v, theme) /\ LetsBe(ui, v) /\ v.secret = ui.secret /\ v.status = ui.status
          /\ v.mode = ui.mode /\ v.revealed = ui.revealed
      <3>1. ASSUME NEW b \in BOOLEAN
            PROVE  LET w == [ui EXCEPT !.focused = b]
                   IN  /\ Good(w, theme) /\ LetsBe(ui, w)
                       /\ w.secret = ui.secret /\ w.status = ui.status
                       /\ w.mode = ui.mode /\ w.revealed = ui.revealed
        BY <1>0 DEF Good, Coherent, InputVisible, ShellStates, LetsBe
      <3> QED BY <2>0, <3>1
    <2>2. DrawAll(v, theme, bump) /\ UNCHANGED <<theme, hand, asked>>
      BY <1>10 DEF FocusChanges
    <2>3. app' = [app EXCEPT !.focus = ~app.focus]
      BY <1>10 DEF FocusChanges
    <2>4. app' \in Apps /\ app'.inFlight = app.inFlight
      BY <1>0, <2>3 DEF Apps
    <2>5. bump \in BOOLEAN /\ (~bump => v.focused = ui.focused)
      OBVIOUS
    <2> HIDE DEF v, bump
    <2>6. ~bump => Serves(base, v, theme)
      BY <1>0, <2>1, <2>5 DEF Serves
    <2>7. Drawn(v, theme)
      BY <1>0, <2>1, <2>2, <2>5, <2>6, AllDrawn
    <2>8. theme' \in Themes /\ Drawn(v, theme')
      BY <1>0, <2>2, <2>7
    <2>9. Waiting(v) <=> app'.inFlight
      BY <1>0, <2>1, <2>4 DEF Waiting
    <2> QED BY <2>1, <2>2, <2>4, <2>8, <2>9, HandlerStep
  <1>11. ASSUME NEW delay \in BOOLEAN, AnswerRejected(delay) PROVE Goal
    <2> DEFINE v == RejectedWith(ui, delay)
               bump == ui.status # "Rejected"
    <2>1. /\ app.inFlight /\ DrawAll(v, theme, bump) /\ UNCHANGED <<theme, hand, asked>>
          /\ app' = [app EXCEPT !.inFlight = FALSE]
      BY <1>11 DEF AnswerRejected
    <2>2. InputVisible(ui, theme) /\ bump
      BY <1>0, <2>1 DEF Good, Coherent, Waiting
    <2>3. /\ Good(v, theme) /\ ~Waiting(v) /\ LetsBe(ui, v) /\ v.secret = 0 /\ v.status = "Rejected"
      BY <1>0, <2>2, RejectedGood
    <2>4. bump \in BOOLEAN
      OBVIOUS
    <2> HIDE DEF v, bump
    <2>5. Drawn(v, theme)
      BY <1>0, <2>1, <2>2, <2>3, <2>4, AllDrawn
    <2>6. theme' \in Themes /\ Drawn(v, theme') /\ app' \in Apps /\ ~app'.inFlight
      BY <1>0, <2>1, <2>5 DEF Apps
    <2> QED BY <2>1, <2>3, <2>6, HandlerStep
  <1>12. CASE AnswerBusy
    <2> DEFINE v == Idle(ui)
    <2>1. /\ Good(v, theme) /\ Keeps(ui, v) /\ LetsBe(ui, v) /\ v.secret = ui.secret
          /\ v.status = "Idle" /\ v.revealed = ui.revealed
      BY <1>0, IdleGood
    <2>2. DrawAll(v, theme, FALSE) /\ app' = [app EXCEPT !.inFlight = FALSE]
          /\ UNCHANGED <<theme, hand, asked>>
      BY <1>12 DEF AnswerBusy
    <2> HIDE DEF v
    <2>3. Serves(base, v, theme)
      BY <1>0, <2>1 DEF Serves, Keeps
    <2>4. Drawn(v, theme)
      BY <1>0, <2>1, <2>2, <2>3, AllDrawn
    <2>5. theme' \in Themes /\ Drawn(v, theme') /\ app' \in Apps /\ ~app'.inFlight /\ ~Waiting(v)
      BY <1>0, <2>1, <2>2, <2>4 DEF Apps, Waiting
    <2> QED BY <2>1, <2>2, <2>5, HandlerStep
  <1>13. ASSUME NEW place \in Places, Press(place) PROVE Goal
    <2> DEFINE v == Pressed(ui, theme, place)
               shown == InputVisible(ui, theme) \/ place \in theme.buttons
    <2>1. /\ Good(v, theme) /\ Keeps(ui, v) /\ LeavesText(ui, v)
          /\ shown => Follows(v, [at |-> place, seen |-> TRUE])
      BY <1>0, PressedGood
    <2>2. /\ DrawPointer(ui, v, theme) /\ asked' = None /\ UNCHANGED <<theme, app>>
          /\ hand' = [at |-> place, seen |-> shown]
      BY <1>13 DEF Press
    <2>3. shown \in BOOLEAN
      BY <1>0 DEF InputVisible, Good, ShellStates
    <2> HIDE DEF v, shown
    <2>4. hand' \in Hands /\ hand'.at # "up" /\ Follows(v, hand')
      BY <2>1, <2>2, <2>3, NoneAssumption DEF Hands, Places, Follows
    <2> QED BY <2>1, <2>2, <2>4, PointerStep
  <1>14. ASSUME NEW place \in Places, PressIgnored(place) PROVE Goal
    BY <1>14, NoneAssumption
    DEF PressIgnored, ShellInv, Frozen, Aimed, Hands, Places, Follows, PendingIffInFlight
  <1>15. ASSUME NEW place \in Places, Release(place) PROVE Goal
    <2> DEFINE v == Released(ui, theme, place)
    <2>1. /\ Good(v, theme) /\ Keeps(ui, v) /\ LeavesText(ui, v)
          /\ v.reveal => ui.reveal \/ ui.eyePressed
      BY <1>0, ReleasedGood
    <2>2. /\ DrawPointer(ui, v, theme) /\ UNCHANGED <<theme, app>>
          /\ hand' = [at |-> "up", seen |-> FALSE]
      BY <1>15 DEF Release
    <2>3. asked' # None => Clicked(ui, theme, place) /\ asked' = place
      BY <1>15 DEF Release
    <2> HIDE DEF v
    <2>4. hand' \in Hands /\ ~hand'.seen /\ Follows(v, hand') /\ hand'.at = "up"
      BY <2>2 DEF Hands, Follows
    <2>5. hand.seen => ui.btnPressed \in {None, hand.at} /\ (ui.eyePressed => hand.at = "eye")
      BY DEF ShellInv, Follows
    <2>6. asked' # None => asked' = ui.btnPressed /\ ui.btnPressed # None
      BY <2>3 DEF Clicked, ButtonAt
    <2> QED BY <2>1, <2>2, <2>4, <2>5, <2>6, PointerStep
  <1>16. CASE ReleaseIgnored
    BY <1>16
    DEF ReleaseIgnored, ShellInv, Frozen, Aimed, Hands, Places, Follows, PendingIffInFlight
  <1>17. ASSUME NEW place \in Places, Motion(place) PROVE Goal
    <2> DEFINE v == Moved(ui, theme, place)
    <2>1. /\ Good(v, theme) /\ Keeps(ui, v) /\ LeavesText(ui, v) /\ v.reveal = ui.reveal
          /\ LetsBe(ui, v)
      BY <1>0, MovedGood
    <2>2. DrawPointer(ui, v, theme) /\ UNCHANGED <<theme, app, hand, asked>>
      BY <1>17 DEF Motion
    <2> HIDE DEF v
    <2>3. hand' \in Hands /\ Follows(v, hand')
      BY <2>1, <2>2 DEF ShellInv, Follows, LetsBe
    <2>4. /\ hand'.at = "up" => ~hand'.seen
          /\ hand'.at # "up" => asked' = None
          /\ ~(hand.seen /\ hand'.at = "up")
      BY <2>2 DEF ShellInv
    <2> QED BY <2>1, <2>2, <2>3, <2>4, PointerStep
  <1>18. CASE Leave
    <2> DEFINE v == LetGo(ui)
    <2>1. /\ Good(v, theme) /\ Keeps(ui, v) /\ LeavesText(ui, v) /\ v.reveal = ui.reveal
          /\ v.btnPressed = None /\ v.eyePressed = FALSE
      BY <1>0, LetGoGood
    <2>2. DrawPointer(ui, v, theme) /\ UNCHANGED <<theme, app, hand, asked>>
      BY <1>18 DEF Leave
    <2> HIDE DEF v
    <2>3. hand' \in Hands /\ Follows(v, hand')
      BY <2>1, <2>2 DEF ShellInv, Follows
    <2>4. /\ hand'.at = "up" => ~hand'.seen
          /\ hand'.at # "up" => asked' = None
          /\ ~(hand.seen /\ hand'.at = "up")
      BY <2>2 DEF ShellInv
    <2> QED BY <2>1, <2>2, <2>3, <2>4, PointerStep
  <1>19. ASSUME NEW turned \in BOOLEAN, NEW due \in BOOLEAN, NEW counted \in BOOLEAN,
                Tick(turned, due, counted)
         PROVE  Goal
    <2> DEFINE v == DropExpired(ui)
               changed == turned \/ v # ui
               w == IF due THEN [v EXCEPT !.status = "Shown"] ELSE v
    <2>1. /\ Good(v, theme) /\ Keeps(ui, v) /\ LeavesText(ui, v) /\ LetsBe(ui, v)
          /\ v.revealed = ui.revealed
      BY <1>0, DropExpiredGood DEF LetsBe
    <2>2. UNCHANGED <<theme, app, hand, asked>>
      BY <1>19 DEF Tick
    <2>3. Serves(base, v, theme)
      BY <1>0, <2>1 DEF Serves, Keeps
    <2>4. CASE Waiting(ui)
      <3>1. /\ Good(w, theme) /\ Keeps(v, w) /\ LetsBe(v, w) /\ w.secret = v.secret
            /\ Waiting(w) /\ w.revealed = v.revealed
        <4>1. CASE due
          <5> HIDE DEF v
          <5>1. w = [v EXCEPT !.status = "Shown"]
            BY <4>1
          <5>2. Waiting(v)
            BY <2>1, <2>4 DEF LeavesText, Waiting
          <5> QED
            BY <2>1, <5>1, <5>2
            DEF Good, Coherent, InputVisible, ShellStates, Keeps, LetsBe, Waiting
        <4>2. CASE ~due
          <5> HIDE DEF v
          <5> QED
            BY <2>1, <2>4, <4>2 DEF Keeps, LetsBe, LeavesText, Waiting, Good, ShellStates
        <4> QED BY <4>1, <4>2
      <3>2. DrawAll(w, theme, FALSE) \/ DrawPrompt(w)
        <4>1. CASE due
          BY <1>19, <2>4, <4>1 DEF Tick, Waiting, Served
        <4>2. CASE ~due
          BY <1>19, <2>4, <4>2 DEF Tick, Waiting, Served
        <4> QED BY <4>1, <4>2
      <3> HIDE DEF v, w
      <3>3. Serves(base, w, theme) /\ LetsBe(ui, w) /\ w.secret = ui.secret
        BY <2>1, <2>3, <3>1 DEF Serves, Keeps, LetsBe, LeavesText
      <3>4. Drawn(w, theme)
        BY <1>0, <3>1, <3>2, <3>3, AllDrawn, PromptDrawn DEF ShellInv
      <3>5. theme' \in Themes /\ app' \in Apps /\ Drawn(w, theme') /\ app'.inFlight
        BY <1>0, <2>2, <2>4, <3>4
      <3> QED BY <2>2, <3>1, <3>3, <3>5, HandlerStep
    <2>5. CASE ~Waiting(ui) /\ Served(ui)
      <3> DEFINE i == Idle(v)
      <3>1. DrawAll(i, theme, TRUE)
        BY <1>19, <2>5 DEF Tick
      <3> HIDE DEF v
      <3>2. Good(i, theme) /\ LetsBe(v, i) /\ i.secret = v.secret /\ i.status = "Idle"
        BY <2>1, IdleGood
      <3> HIDE DEF i
      <3>3. Drawn(i, theme)
        BY <1>0, <3>1, <3>2, AllDrawn
      <3>4. LetsBe(ui, i) /\ ~Waiting(i)
        BY <2>1, <3>2 DEF LetsBe, Waiting
      <3>5. theme' \in Themes /\ app' \in Apps /\ Drawn(i, theme') /\ ~app'.inFlight /\ ~app.inFlight
        BY <1>0, <2>2, <2>5, <3>3
      <3> QED BY <2>2, <3>4, <3>5, HandlerStep
    <2>6. CASE ~Waiting(ui) /\ ~Served(ui)
      <3>1. \/ DrawAll(v, theme, FALSE)
            \/ v = ui /\ DrawNothing(v)
        BY <1>19, <2>6 DEF Tick
      <3> HIDE DEF v
      <3>2. Drawn(v, theme)
        <4>1. CASE DrawAll(v, theme, FALSE)
          BY <1>0, <2>1, <2>3, <4>1, AllDrawn
        <4>2. CASE v = ui /\ DrawNothing(v)
          BY <2>1, <4>2 DEF DrawNothing, Drawn, ShellInv, LeavesText
        <4> QED BY <3>1, <4>1, <4>2
      <3>3. ~Waiting(v) /\ v.secret = ui.secret
        BY <2>1, <2>6 DEF LeavesText, Waiting
      <3>4. theme' \in Themes /\ app' \in Apps /\ Drawn(v, theme') /\ ~app'.inFlight
        BY <1>0, <2>2, <2>6, <3>2
      <3> QED BY <2>1, <2>2, <3>3, <3>4, HandlerStep
    <2> QED BY <2>4, <2>5, <2>6
  <1>20. CASE CooldownEnds
    <2>1. /\ ui' = [ui EXCEPT !.retry = "over"] /\ ui.status = "Rejected"
          /\ UNCHANGED <<theme, app, base, pic, hand, asked>>
      BY <1>20 DEF CooldownEnds, Cooling
    <2>2. Good(ui', theme) /\ Keeps(ui, ui') /\ LetsBe(ui, ui') /\ LeavesText(ui, ui')
          /\ ui'.reveal = ui.reveal
      BY <1>0, <2>1
      DEF Good, Coherent, InputVisible, ShellStates, Keeps, LetsBe, LeavesText
    <2>3. Prompt(ui') = Prompt(ui) /\ ui'.revealed = ui.revealed
      BY <1>0, <2>1 DEF Prompt, Good, ShellStates
    <2> QED
      BY <1>0, <2>1, <2>2, <2>3
      DEF ShellInv, Frozen, Aimed, Follows, PendingIffInFlight, Waiting, Serves, Keeps, LetsBe,
          LeavesText
  <1>21. CASE ConfirmationEnds
    <2>1. /\ ui' = [ui EXCEPT !.confirm = [@ EXCEPT !.over = TRUE]]
          /\ UNCHANGED <<theme, app, base, pic, hand, asked>>
      BY <1>21 DEF ConfirmationEnds
    <2> DEFINE c == [ui.confirm EXCEPT !.over = TRUE]
    <2>2. c \in Confirmations
      BY <1>0 DEF Good, ShellStates, Confirmations
    <2>3. ui' = [ui EXCEPT !.confirm = c]
      BY <2>1
    <2> HIDE DEF c
    <2>4. Good(ui', theme) /\ Keeps(ui, ui') /\ LetsBe(ui, ui') /\ LeavesText(ui, ui')
          /\ ui'.reveal = ui.reveal
      BY <1>0, <2>2, <2>3
      DEF Good, Coherent, InputVisible, ShellStates, Keeps, LetsBe, LeavesText
    <2>5. Prompt(ui') = Prompt(ui) /\ ui'.revealed = ui.revealed
      BY <1>0, <2>3 DEF Prompt, Good, ShellStates
    <2> QED
      BY <1>0, <2>1, <2>4, <2>5
      DEF ShellInv, Frozen, Aimed, Follows, PendingIffInFlight, Waiting, Serves, Keeps, LetsBe,
          LeavesText
  <1>22. ASSUME NEW t \in Themes, ApplyTheme(t) PROVE Goal
    <2> DEFINE shows == ui.revealed \/ ~t.hides
               readable == ui.reveal /\ t.eye
               held == ui.eyePressed /\ t.eye
               v == [ui EXCEPT !.revealed = shows, !.reveal = readable, !.eyePressed = held]
    <2>1. t \in ThemeRecords
      BY ThemeIsARecord
    <2>2. shows \in BOOLEAN /\ readable \in BOOLEAN /\ held \in BOOLEAN
      BY <1>0 DEF Good, ShellStates
    <2>3. /\ (~t.hides => shows) /\ (ui.revealed => shows)
          /\ (readable => ui.reveal /\ t.eye) /\ (held => ui.eyePressed)
      OBVIOUS
    <2>4. DrawAll(v, t, TRUE) /\ theme' = t /\ UNCHANGED <<app, hand, asked>>
      BY <1>22 DEF ApplyTheme
    <2> HIDE DEF shows, readable, held
    <2>5. /\ v \in ShellStates /\ v.revealed = shows /\ v.reveal = readable /\ v.eyePressed = held
          /\ v.secret = ui.secret /\ v.selected = ui.selected /\ v.status = ui.status
          /\ v.retry = ui.retry /\ v.btnPressed = ui.btnPressed
      BY <1>0, <2>2 DEF Good, ShellStates
    <2> HIDE DEF v
    <2>6. Good(v, t)
      BY <1>0, <2>1, <2>3, <2>5 DEF Good, Coherent, InputVisible
    <2>7. LetsBe(ui, v) /\ Waiting(v) = app.inFlight
      BY <1>0, <2>3, <2>5 DEF LetsBe, Waiting
    <2>8. Drawn(v, t)
      BY <2>4, <2>6, AllDrawn
    <2>9. theme' \in Themes /\ app' \in Apps /\ Drawn(v, theme') /\ (Waiting(v) <=> app'.inFlight)
      BY <1>0, <2>4, <2>7, <2>8
    <2> QED BY <2>4, <2>5, <2>7, <2>9, HandlerStep
  <1>23. CASE NewBackground
    <2>1. DrawAll(ui, theme, TRUE) /\ UNCHANGED <<theme, app, hand, asked>>
      BY <1>23 DEF NewBackground
    <2>2. Drawn(ui, theme)
      BY <1>0, <2>1, AllDrawn
    <2>3. LetsBe(ui, ui)
      BY <1>0 DEF LetsBe, Good, ShellStates
    <2>4. theme' \in Themes /\ app' \in Apps /\ Drawn(ui, theme') /\ (Waiting(ui) <=> app'.inFlight)
      BY <1>0, <2>1, <2>2
    <2> QED BY <2>1, <2>3, <2>4, HandlerStep
  <1> QED
    BY <1>1, <1>2, <1>3, <1>4, <1>5, <1>6, <1>7, <1>8, <1>9, <1>10, <1>11, <1>12, <1>13, <1>14,
       <1>15, <1>16, <1>17, <1>18, <1>19, <1>20, <1>21, <1>22, <1>23
    DEF Next, Keys, Answers, Pointer, Ticks

LEMMA StutterInv ==
  ASSUME ShellInv, UNCHANGED vars
  PROVE  ShellInv' /\ (app.inFlight => ui'.secret = ui.secret) /\ Aimed
  BY DEF vars, ShellInv, Aimed, Follows, PendingIffInFlight

\* ShellInv holds whatever keys, clicks, answers, ticks and reloads come, and
\* whichever frames fail to draw.
THEOREM ShellInvHolds == Spec => []ShellInv
  <1>1. ShellInv /\ [Next]_vars => ShellInv'
    BY NextInv, StutterInv
  <1> QED BY InitInv, <1>1, PTL DEF Spec

\* ShellState spins exactly while CurtainApp has an attempt in flight.
THEOREM SpinnerAgrees == Spec => []PendingIffInFlight
  BY ShellInvHolds, PTL DEF ShellInv

\* A hidden prompt holds nothing, a selection has text, the password is readable
\* only under a theme with an eye, a retry time belongs to a rejection.
THEOREM PromptStaysCoherent == Spec => []PromptCoherent
  <1>1. ShellInv => PromptCoherent
    BY DEF ShellInv, Good, Coherent, PromptCoherent
  <1> QED BY <1>1, ShellInvHolds, PTL

\* Partial redraws never leave an old prompt, or the static layer of another theme,
\* focus or visibility, on the screen.
THEOREM PictureStaysCurrent == Spec => []PictureCurrent
  <1>1. ASSUME ShellInv PROVE PictureCurrent
    <2>1. Serves(base, ui, theme) /\ pic.prompt = Prompt(ui)
      BY <1>1 DEF ShellInv
    <2> DEFINE box == StaticBox(ui, theme)
    <2>2. StaticLayer(ui, theme) = [mode |-> ui.mode, theme |-> theme, revealed |-> ui.revealed,
                                    focused |-> ui.focused, box |-> box]
      BY DEF StaticLayer
    <2> HIDE DEF box
    <2>3. /\ base = [mode |-> base.mode, theme |-> base.theme, revealed |-> base.revealed,
                     focused |-> base.focused, box |-> base.box]
          /\ base.mode = ui.mode /\ base.theme = theme /\ base.revealed = ui.revealed
          /\ base.focused = ui.focused
      BY <2>1 DEF Serves, Bases
    <2>4. [base EXCEPT !.box = box] = StaticLayer(ui, theme)
      BY <2>2, <2>3
    <2> QED BY <2>1, <2>4 DEF box, PictureCurrent
  <1> QED BY <1>1, ShellInvHolds, PTL

\* Between a submission and its answer no handler edits the text.
THEOREM SubmittedTextStays == Spec => SubmittedTextIsFrozen
  <1>1. ShellInv /\ [Next]_vars =>
          [app.inFlight =>
             ui'.secret = ui.secret \/ (ui'.secret = 0 /\ ui'.status = "Rejected")]_vars
    BY NextInv DEF Frozen
  <1> QED BY <1>1, ShellInvHolds, PTL DEF Spec, SubmittedTextIsFrozen

\* A release asks for a power action, or shows the password, only where its press was.
THEOREM ReleasesAreAimed == Spec => ReleaseNeedsItsPress
  <1>1. ShellInv /\ [Next]_vars =>
          [hand.seen /\ hand'.at = "up" =>
             /\ asked' # None => asked' = hand.at
             /\ ui'.reveal /\ ~ui.reveal => hand.at = "eye"]_vars
    BY NextInv DEF Aimed
  <1> QED BY <1>1, ShellInvHolds, PTL DEF Spec, ReleaseNeedsItsPress

-----------------------------------------------------------------------------
(* Every widget is drawn once. *)

\* Every widget of W is drawn once.
Once(draws, W) ==
    /\ {d.what : d \in draws} = W
    /\ \A d, e \in draws : d.what = e.what => d = e

\* Two sets of draws that want different widgets draw theirs together.
LEMMA OnceEach ==
    ASSUME NEW P, NEW V, Once(P, V), NEW Q, NEW W, Once(Q, W), V \cap W = {}
    PROVE  Once(P \cup Q, V \cup W)
BY DEF Once

LEMMA OnceNone == Once({}, {})
BY DEF Once

LEMMA OnceOne ==
    ASSUME NEW w, NEW from, NEW at
    PROVE  Once({Draws(w, from, at)}, {w})
BY DEF Once, Draws

\* The prompt is drawn once: its box by one pass, the rest by the other.
LEMMA InputOnce ==
    ASSUME NEW look, NEW s, NEW from, NEW rect, NEW dynamic \in BOOLEAN
    PROVE  Once(InputDraws(look, s, from, rect, dynamic),
                (IF dynamic = BoxMoves(s) THEN {"box"} ELSE {})
                \cup (IF dynamic THEN {"content"} ELSE {})
                \cup (IF dynamic /\ Adorned(look, s) THEN {"adornment"} ELSE {}))
<1> DEFINE B == IF dynamic = BoxMoves(s) THEN {Draws("box", from, rect)} ELSE {}
           C == IF dynamic THEN {Draws("content", from, ContentRect(look, s, rect))} ELSE {}
           A == IF dynamic /\ Adorned(look, s)
                THEN {Draws("adornment", from, ToggleBox(rect))} ELSE {}
           VB == IF dynamic = BoxMoves(s) THEN {"box"} ELSE {}
           VC == IF dynamic THEN {"content"} ELSE {}
           VA == IF dynamic /\ Adorned(look, s) THEN {"adornment"} ELSE {}
<1>1. Once(B, VB) /\ Once(C, VC) /\ Once(A, VA)
  BY OnceNone, OnceOne
<1>2. VB \cap VC = {} /\ (VB \cup VC) \cap VA = {}
  OBVIOUS
<1> HIDE DEF B, C, A, VB, VC, VA
<1>3. Once(B \cup C, VB \cup VC)
  BY <1>1, <1>2, OnceEach
<1>4. Once((B \cup C) \cup A, (VB \cup VC) \cup VA)
  BY <1>1, <1>2, <1>3, OnceEach
<1> QED
  BY <1>4 DEF InputDraws, B, C, A, VB, VC, VA

LEMMA FloatOnce ==
    ASSUME NEW look, NEW frame, NEW w, NEW size
    PROVE  Once(FloatDraws(look, frame, w, size), {w})
BY OnceOne DEF FloatDraws

\* Widgets that are drawn one by one.
LEMMA OnceMany ==
    ASSUME NEW W, NEW D, \A w \in W : Once(D[w], {w})
    PROVE  Once(UNION {D[w] : w \in W}, W)
<1>1. \A w \in W : (\A d \in D[w] : d.what = w) /\ (\E d \in D[w] : TRUE)
             /\ \A d, e \in D[w] : d = e
  BY DEF Once
<1>2. ASSUME NEW d \in UNION {D[w] : w \in W} PROVE d.what \in W /\ d \in D[d.what]
  BY <1>1
<1>3. ASSUME NEW w \in W PROVE \E d \in UNION {D[v] : v \in W} : d.what = w
  BY <1>1
<1>4. ASSUME NEW d \in UNION {D[w] : w \in W}, NEW e \in UNION {D[w] : w \in W}, d.what = e.what
      PROVE d = e
  BY <1>1, <1>2, <1>4
<1> HIDE DEF Once
<1>5. {d.what : d \in UNION {D[w] : w \in W}} = W
  BY <1>2, <1>3
<1> QED
  BY <1>4, <1>5 DEF Once

LEMMA HeaderOnce ==
    ASSUME NEW look, NEW frame
    PROVE  Once(FloatingHeader(look, frame), {"clock", "date"} \cap look.on \cap DOMAIN look.at)
<1> DEFINE W == {"clock", "date"} \cap look.on \cap DOMAIN look.at
           D == [w \in W |-> FloatDraws(look, frame, w, look.size[w])]
<1>1. \A w \in W : Once(D[w], {w})
  BY FloatOnce
<1>2. FloatingHeader(look, frame) = UNION {D[w] : w \in W}
  BY DEF FloatingHeader
<1> HIDE DEF W, D
<1>3. Once(UNION {D[w] : w \in W}, W)
  BY <1>1, OnceMany
<1> QED
  BY <1>2, <1>3 DEF W

LEMMA PlacedOnce ==
    ASSUME NEW look, NEW frame
    PROVE  Once(PlacedDraws(look, frame), Placed \cap look.on \cap DOMAIN look.at)
<1> DEFINE W == Placed \cap look.on \cap DOMAIN look.at
           D == [w \in W |-> FloatDraws(look, frame, w, PlacedSize(look, frame, w))]
<1>1. \A w \in W : Once(D[w], {w})
  BY FloatOnce
<1>2. PlacedDraws(look, frame) = UNION {D[w] : w \in W}
  BY DEF PlacedDraws
<1> HIDE DEF W, D
<1>3. Once(UNION {D[w] : w \in W}, W)
  BY <1>1, OnceMany
<1> QED
  BY <1>2, <1>3 DEF W

ShownIndicators(look, s) ==
    {w \in Indicators \cap look.on \cap DOMAIN look.at : w = "power_status" => s.status = "Idle"}

\* P draws, for each i, what N[i] says at R[i]; V has what it draws.
Indexed(P, V, I, N, R) ==
    /\ \A i, j \in I : N[i] = N[j] => i = j
    /\ \A d \in P : \E i \in I : d = Draws(N[i], "float", R[i])
    /\ \A i \in I : Draws(N[i], "float", R[i]) \in P
    /\ \A i \in I : N[i] \in V
    /\ \A v \in V : \E i \in I : v = N[i]

LEMMA OnceIndexed ==
    ASSUME NEW I, NEW N, NEW R, NEW P, NEW V, Indexed(P, V, I, N, R)
    PROVE  Once(P, V)
<1> USE DEF Indexed
<1>1. \A w, r : Draws(w, "float", r).what = w
  BY DEF Draws
<1>2. \A d \in P : \E i \in I : d = Draws(N[i], "float", R[i]) /\ d.what = N[i]
  BY <1>1
<1>3. {d.what : d \in P} = V
  BY <1>1, <1>2
<1>4. \A d, e \in P : d.what = e.what => d = e
  BY <1>2
<1> QED
  BY <1>3, <1>4 DEF Once

LEMMA IndicatorsOnce ==
    ASSUME NEW look, NEW frame, NEW s
    PROVE  Once(IndicatorDraws(look, frame, s), ShownIndicators(look, s))
<1> DEFINE W == ShownIndicators(look, s)
           P == IndicatorDraws(look, frame, s)
           icon == IF look.side.battery = Unset THEN 18 ELSE look.side.battery
           Side(w) == ChipSide(look.chip[w],
                               IF w = "battery"
                               THEN [w |-> Clamp(icon, 12, 96), h |-> Clamp(icon, 12, 96)]
                               ELSE look.size[w])
           N == [w \in W |-> w]
           R == [w \in W |->
                   KeptInside(frame, Positioned(look, frame, look.at[w], Side(w), Side(w)))]
<1>1. P = {Draws(w, "float", R[w]) : w \in W}
  BY DEF IndicatorDraws, ShownIndicators
<1> HIDE DEF W, R, P
<1>2. /\ \A d \in P : \E w \in W : d = Draws(N[w], "float", R[w])
      /\ \A w \in W : Draws(N[w], "float", R[w]) \in P
  BY <1>1
<1>3. /\ \A v, w \in W : N[v] = N[w] => v = w
      /\ \A w \in W : N[w] \in W
      /\ \A v \in W : \E w \in W : v = N[w]
  OBVIOUS
<1> HIDE DEF N
<1>4. Indexed(P, W, W, N, R)
  BY <1>2, <1>3 DEF Indexed
<1>5. Once(P, W)
  BY <1>4, OnceIndexed
<1> QED
  BY <1>5 DEF W, P

LEMMA ButtonsOnce ==
    ASSUME NEW look, NEW frame,
           \A i, j \in DOMAIN look.power : look.power[i].name = look.power[j].name => i = j
    PROVE  Once(ButtonDraws(look, frame), {look.power[i].name : i \in DOMAIN look.power})
<1> DEFINE I == DOMAIN look.power
           P == ButtonDraws(look, frame)
           V == {look.power[i].name : i \in DOMAIN look.power}
           N == [i \in I |-> look.power[i].name]
           R == [i \in I |-> KeptInside(frame, ButtonRect(look, frame, look.power[i]))]
<1>1. P = {Draws(N[i], "float", R[i]) : i \in I}
  BY DEF ButtonDraws
<1>2. /\ \A i, j \in I : N[i] = N[j] => i = j
      /\ \A i \in I : N[i] \in V
      /\ \A v \in V : \E i \in I : v = N[i]
  OBVIOUS
<1> HIDE DEF I, N, R, P, V
<1>3. /\ \A d \in P : \E i \in I : d = Draws(N[i], "float", R[i])
      /\ \A i \in I : Draws(N[i], "float", R[i]) \in P
  BY <1>1
<1>4. Indexed(P, V, I, N, R)
  BY <1>2, <1>3 DEF Indexed
<1>5. Once(P, V)
  BY <1>4, OnceIndexed
<1> QED
  BY <1>5 DEF P, V

FloatingPeople(look, s) ==
    {w \in {"avatar", "username"} \cap look.on \cap DOMAIN look.at :
        w = "username" => IdentityShown(look, s)}

LEMMA IdentityOnce ==
    ASSUME NEW look, NEW frame, NEW s
    PROVE  Once(FloatingIdentity(look, frame, s), FloatingPeople(look, s))
<1> DEFINE side == Metrics(look, frame).avatar
           A == IF "avatar" \in look.on /\ Floats(look, "avatar")
                THEN FloatDraws(look, frame, "avatar", [w |-> side, h |-> side]) ELSE {}
           U == IF "username" \in look.on /\ Floats(look, "username") /\ IdentityShown(look, s)
                THEN FloatDraws(look, frame, "username", look.size.username) ELSE {}
           VA == IF "avatar" \in look.on /\ Floats(look, "avatar") THEN {"avatar"} ELSE {}
           VU == IF "username" \in look.on /\ Floats(look, "username") /\ IdentityShown(look, s)
                 THEN {"username"} ELSE {}
<1>1. Once(A, VA) /\ Once(U, VU)
  BY OnceNone, FloatOnce
<1>2. VA \cap VU = {}
  OBVIOUS
<1>3. FloatingIdentity(look, frame, s) = A \cup U
  BY DEF FloatingIdentity
<1>4. FloatingPeople(look, s) = VA \cup VU
  BY DEF FloatingPeople, Floats
<1> HIDE DEF A, U, VA, VU
<1> QED
  BY <1>1, <1>2, <1>3, <1>4, OnceEach

\* A set of draws for each widget.
EachOnce(W, D, V) ==
    /\ \A w \in W : Once(D[w], V[w])
    /\ \A v, w \in W : v # w => V[v] \cap V[w] = {}

\* So do any number of them.
LEMMA OnceAll ==
    ASSUME NEW W, NEW D, NEW V, EachOnce(W, D, V)
    PROVE  Once(UNION {D[w] : w \in W}, UNION {V[w] : w \in W})
<1> DEFINE P == UNION {D[w] : w \in W}
           U == UNION {V[w] : w \in W}
<1>1. \A w \in W : /\ \A d \in D[w] : d.what \in V[w]
                   /\ \A v \in V[w] : \E d \in D[w] : d.what = v
                   /\ \A d, e \in D[w] : d.what = e.what => d = e
  BY DEF EachOnce, Once
<1>2. \A d \in P : \E w \in W : d \in D[w] /\ d.what \in V[w]
  BY <1>1
<1>3. \A u \in U : \E w \in W : \E d \in D[w] : d.what = u
  BY <1>1
<1>4. \A w \in W : \A d \in D[w] : d \in P
  OBVIOUS
<1>5. \A w \in W : \A v \in V[w] : v \in U
  OBVIOUS
<1> HIDE DEF P, U
<1>6. {d.what : d \in P} = U
  BY <1>2, <1>3, <1>4, <1>5
<1>7. ASSUME NEW d \in P, NEW e \in P, d.what = e.what PROVE d = e
  <2>1. PICK v \in W : d \in D[v] /\ d.what \in V[v]
    BY <1>2
  <2>2. PICK w \in W : e \in D[w] /\ e.what \in V[w]
    BY <1>2
  <2>3. v = w
    BY <1>7, <2>1, <2>2 DEF EachOnce
  <2> QED
    BY <1>1, <1>7, <2>1, <2>2, <2>3
<1>8. Once(P, U)
  BY <1>6, <1>7 DEF Once
<1> QED
  BY <1>8 DEF P, U

InputWants(look, s, dynamic) ==
    (IF dynamic = BoxMoves(s) THEN {"box"} ELSE {})
    \cup (IF dynamic THEN {"content"} ELSE {})
    \cup (IF dynamic /\ Adorned(look, s) THEN {"adornment"} ELSE {})

SectionWants(look, s, w, dynamic) ==
    IF w = "input" THEN InputWants(look, s, dynamic)
    ELSE IF dynamic = (w \in StaticFlow) THEN {} ELSE {w}

Flowing == {"clock", "date", "avatar", "username", "input", "status"}

\* Every section of the column draws its widget, or leaves it to the other pass.
LEMMA SectionOnce ==
    ASSUME NEW look, NEW frame, NEW s, NEW w \in Flowing, NEW y, NEW dynamic \in BOOLEAN
    PROVE  Once(SectionDraws(look, frame, s, w, y, dynamic), SectionWants(look, s, w, dynamic))
<1> DEFINE m == Metrics(look, frame)
<1>1. CASE w = "input"
  <2>1. SectionDraws(look, frame, s, w, y, dynamic) =
          InputDraws(look, s, "flow", InputRect(m, frame, y), dynamic)
    BY <1>1 DEF SectionDraws
  <2>2. SectionWants(look, s, w, dynamic) = InputWants(look, s, dynamic)
    BY <1>1 DEF SectionWants
  <2> QED
    BY <2>1, <2>2, InputOnce DEF InputWants
<1>2. CASE w # "input" /\ dynamic = (w \in StaticFlow)
  <2>1. SectionDraws(look, frame, s, w, y, dynamic) = {}
    BY <1>2 DEF SectionDraws
  <2>2. SectionWants(look, s, w, dynamic) = {}
    BY <1>2 DEF SectionWants
  <2> QED
    BY <2>1, <2>2, OnceNone
<1>3. CASE w # "input" /\ dynamic # (w \in StaticFlow)
  <2>1. \E at : SectionDraws(look, frame, s, w, y, dynamic) = {Draws(w, "flow", at)}
    BY <1>3 DEF SectionDraws, StaticFlow, Flowing
  <2>2. SectionWants(look, s, w, dynamic) = {w}
    BY <1>3 DEF SectionWants
  <2> QED
    BY <2>1, <2>2, OnceOne
<1> QED
  BY <1>1, <1>2, <1>3

RoleWants(look, s, role, dynamic) ==
    UNION {SectionWants(look, s, w, dynamic) : w \in Sections(look, s, role)}

LEMMA SectionsFlow ==
    ASSUME NEW look, NEW s, NEW role
    PROVE  Sections(look, s, role) \subseteq Flowing
BY DEF Sections, Flowing

\* A pass draws every section of a role once.
LEMMA RoleOnce ==
    ASSUME NEW look, NEW frame, NEW s, NEW role, NEW dynamic \in BOOLEAN
    PROVE  Once(RoleDraws(look, frame, s, role, dynamic), RoleWants(look, s, role, dynamic))
<1> DEFINE W == Sections(look, s, role)
           top == Anchors(look, frame, s)[role]
           m == Metrics(look, frame)
           D == [w \in W |-> SectionDraws(look, frame, s, w, top + Offset(look, m, W, w), dynamic)]
           V == [w \in W |-> SectionWants(look, s, w, dynamic)]
<1>1. W \subseteq Flowing
  BY SectionsFlow
<1>2. RoleDraws(look, frame, s, role, dynamic) = UNION {D[w] : w \in W}
  BY DEF RoleDraws
<1>3. RoleWants(look, s, role, dynamic) = UNION {V[w] : w \in W}
  BY DEF RoleWants
<1>4. \A w \in W : Once(D[w], V[w])
  <2> HIDE DEF W, m, top
  <2> QED
    BY <1>1, SectionOnce
<1>5. \A v, w \in W : v # w => V[v] \cap V[w] = {}
  BY <1>1 DEF SectionWants, InputWants, Flowing
<1> HIDE DEF W, D, V
<1>6. EachOnce(W, D, V)
  BY <1>4, <1>5 DEF EachOnce
<1> QED
  BY <1>2, <1>3, <1>6, OnceAll

FloatingPrompt(look, s, dynamic) ==
    (IF InputShown(look, s) /\ Floats(look, "input") THEN InputWants(look, s, dynamic) ELSE {})
    \cup (IF dynamic /\ StatusShown(look, s) /\ ~StatusFlows(look, s) THEN {"status"} ELSE {})

LEMMA FloatingInputOnce ==
    ASSUME NEW look, NEW frame, NEW s, NEW dynamic \in BOOLEAN
    PROVE  Once(FloatingInput(look, frame, s, dynamic), FloatingPrompt(look, s, dynamic))
<1> DEFINE I == IF InputShown(look, s) /\ Floats(look, "input")
                THEN InputDraws(look, s, "float", FloatingInputRect(look, frame), dynamic) ELSE {}
           S == IF dynamic /\ StatusShown(look, s) /\ ~StatusFlows(look, s)
                THEN {Draws("status", "float", FloatingStatusRect(look, frame, s))} ELSE {}
           VI == IF InputShown(look, s) /\ Floats(look, "input")
                 THEN InputWants(look, s, dynamic) ELSE {}
           VS == IF dynamic /\ StatusShown(look, s) /\ ~StatusFlows(look, s)
                 THEN {"status"} ELSE {}
<1>1. Once(I, VI)
  BY InputOnce, OnceNone DEF InputWants
<1>2. Once(S, VS)
  BY OnceOne, OnceNone
<1>3. VI \cap VS = {}
  BY DEF InputWants
<1>4. FloatingInput(look, frame, s, dynamic) = I \cup S
  BY DEF FloatingInput
<1>5. FloatingPrompt(look, s, dynamic) = VI \cup VS
  BY DEF FloatingPrompt
<1> HIDE DEF I, S, VI, VS
<1> QED
  BY <1>1, <1>2, <1>3, <1>4, <1>5, OnceEach

StaticWants(look, s) ==
    (FloatingPeople(look, s) \cup FloatingPrompt(look, s, FALSE))
    \cup (RoleWants(look, s, "Hero", FALSE) \cup RoleWants(look, s, "Auth", FALSE))

DirtyWants(look, s) == RoleWants(look, s, "Auth", TRUE) \cup FloatingPrompt(look, s, TRUE)

HeaderWants(look) == {"clock", "date"} \cap look.on \cap DOMAIN look.at

\* What each role wants, said without sections.
LEMMA HeroWants ==
    ASSUME NEW look, NEW s
    PROVE  /\ RoleWants(look, s, "Hero", FALSE) = {}
           /\ RoleWants(look, s, "Hero", TRUE) = ({"clock", "date"} \cap look.on) \ DOMAIN look.at
<1>1. Sections(look, s, "Hero") = ({"clock", "date"} \cap look.on) \ DOMAIN look.at
  BY DEF Sections, Flows, Floats
<1> DEFINE W == Sections(look, s, "Hero")
<1>2. \A w \in W : w # "input" /\ w \notin StaticFlow
  BY <1>1 DEF StaticFlow
<1> HIDE DEF W
<1>3. ASSUME NEW w \in W PROVE SectionWants(look, s, w, FALSE) = {}
  <2>1. FALSE = (w \in StaticFlow) /\ w # "input"
    BY <1>2
  <2> QED
    BY <2>1, Zenon DEF SectionWants
<1>4. \A w \in W : SectionWants(look, s, w, TRUE) = {w}
  BY <1>2 DEF SectionWants
<1>5. \A x : x \in RoleWants(look, s, "Hero", FALSE)
               <=> \E w \in W : x \in SectionWants(look, s, w, FALSE)
  BY DEF RoleWants, W
<1>6. \A x : x \in RoleWants(look, s, "Hero", TRUE)
               <=> \E w \in W : x \in SectionWants(look, s, w, TRUE)
  BY DEF RoleWants, W
<1>7. RoleWants(look, s, "Hero", FALSE) = {} /\ RoleWants(look, s, "Hero", TRUE) = W
  <2>1. \A x : x \notin RoleWants(look, s, "Hero", FALSE)
    BY <1>3, <1>5
  <2>2. \A w \in W : \A x : x \in SectionWants(look, s, w, TRUE) <=> x = w
    BY <1>4
  <2>3. ASSUME NEW x PROVE x \in RoleWants(look, s, "Hero", TRUE) <=> x \in W
    <3>1. x \in RoleWants(look, s, "Hero", TRUE)
            <=> \E w \in W : x \in SectionWants(look, s, w, TRUE)
      BY <1>6
    <3> QED
      BY <2>2, <3>1
  <2> QED
    BY <2>1, <2>3
<1> QED
  BY <1>1, <1>7 DEF W

\* The static pass wants the identity of the column, the dynamic one the prompt and its
\* message.
LEMMA AuthWants ==
    ASSUME NEW look, NEW s, NEW dynamic \in BOOLEAN
    PROVE  RoleWants(look, s, "Auth", dynamic) =
             (IF dynamic THEN {} ELSE {w \in StaticFlow : Flows(look, s, w)})
             \cup (IF Flows(look, s, "input") THEN InputWants(look, s, dynamic) ELSE {})
             \cup (IF dynamic /\ Flows(look, s, "status") THEN {"status"} ELSE {})
<1> DEFINE W == Sections(look, s, "Auth")
           I == InputWants(look, s, dynamic)
           V == (IF dynamic THEN {} ELSE {w \in StaticFlow : Flows(look, s, w)})
                \cup (IF Flows(look, s, "input") THEN I ELSE {})
                \cup (IF dynamic /\ Flows(look, s, "status") THEN {"status"} ELSE {})
<1>1. W = {w \in {"avatar", "username", "input", "status"} : Flows(look, s, w)}
  BY DEF Sections
<1>2. \A w : SectionWants(look, s, w, dynamic) =
               IF w = "input" THEN I ELSE IF dynamic = (w \in StaticFlow) THEN {} ELSE {w}
  BY DEF SectionWants
<1> HIDE DEF I
<1>3. \A x : x \in RoleWants(look, s, "Auth", dynamic)
               <=> \E w \in W : x \in SectionWants(look, s, w, dynamic)
  BY DEF RoleWants
<1>4. \A x : x \in V <=> \/ ~dynamic /\ x \in StaticFlow /\ Flows(look, s, x)
                         \/ Flows(look, s, "input") /\ x \in I
                         \/ dynamic /\ Flows(look, s, "status") /\ x = "status"
  OBVIOUS
<1>5. \A x : (\E w \in W : x \in SectionWants(look, s, w, dynamic))
               <=> \/ ~dynamic /\ x \in StaticFlow /\ Flows(look, s, x)
                   \/ Flows(look, s, "input") /\ x \in I
                   \/ dynamic /\ Flows(look, s, "status") /\ x = "status"
  <2> HIDE DEF W, V
  <2> SUFFICES ASSUME NEW x
               PROVE  (\E w \in W : x \in SectionWants(look, s, w, dynamic))
                      <=> \/ ~dynamic /\ x \in StaticFlow /\ Flows(look, s, x)
                          \/ Flows(look, s, "input") /\ x \in I
                          \/ dynamic /\ Flows(look, s, "status") /\ x = "status"
    OBVIOUS
  <2>1. ASSUME NEW w \in W, x \in SectionWants(look, s, w, dynamic)
        PROVE  \/ ~dynamic /\ x \in StaticFlow /\ Flows(look, s, x)
               \/ Flows(look, s, "input") /\ x \in I
               \/ dynamic /\ Flows(look, s, "status") /\ x = "status"
    BY <1>1, <1>2, <2>1 DEF StaticFlow
  <2>2. ASSUME ~dynamic, x \in StaticFlow, Flows(look, s, x)
        PROVE  \E w \in W : x \in SectionWants(look, s, w, dynamic)
    BY <1>1, <1>2, <2>2 DEF StaticFlow
  <2>3. ASSUME Flows(look, s, "input"), x \in I
        PROVE  \E w \in W : x \in SectionWants(look, s, w, dynamic)
    BY <1>1, <1>2, <2>3
  <2>4. ASSUME dynamic, Flows(look, s, "status"), x = "status"
        PROVE  \E w \in W : x \in SectionWants(look, s, w, dynamic)
    BY <1>1, <1>2, <2>4 DEF StaticFlow
  <2> QED
    BY <2>1, <2>2, <2>3, <2>4
<1> HIDE DEF V, W
<1>6. RoleWants(look, s, "Auth", dynamic) = V
  BY <1>3, <1>4, <1>5
<1> QED
  BY <1>6 DEF V, I

\* The layer has each of its widgets once.
LEMMA StaticOnce ==
    ASSUME NEW look, NEW frame, NEW s
    PROVE  Once(StaticPass(look, frame, s), StaticWants(look, s))
<1> DEFINE P == FloatingPeople(look, s)
           F == FloatingPrompt(look, s, FALSE)
           R == RoleWants(look, s, "Auth", FALSE)
           FP == FloatingIdentity(look, frame, s)
           FI == FloatingInput(look, frame, s, FALSE)
           DH == RoleDraws(look, frame, s, "Hero", FALSE)
           DA == RoleDraws(look, frame, s, "Auth", FALSE)
<1>1. Once(FP, P) /\ Once(FI, F) /\ Once(DH, {}) /\ Once(DA, R)
  <2>1. Once(FP, P)
    BY IdentityOnce
  <2>2. Once(FI, F)
    BY FloatingInputOnce
  <2>3. Once(DA, R)
    BY RoleOnce
  <2>4. Once(DH, RoleWants(look, s, "Hero", FALSE))
    BY RoleOnce
  <2>5. RoleWants(look, s, "Hero", FALSE) = {}
    BY HeroWants
  <2> QED
    BY <2>1, <2>2, <2>3, <2>4, <2>5
<1>2. F = IF InputShown(look, s) /\ Floats(look, "input") THEN InputWants(look, s, FALSE) ELSE {}
  BY DEF FloatingPrompt
<1>3. R = {w \in StaticFlow : Flows(look, s, w)}
          \cup (IF Flows(look, s, "input") THEN InputWants(look, s, FALSE) ELSE {})
  <2>1. RoleWants(look, s, "Auth", FALSE) =
             (IF FALSE THEN {} ELSE {w \in StaticFlow : Flows(look, s, w)})
             \cup (IF Flows(look, s, "input") THEN InputWants(look, s, FALSE) ELSE {})
             \cup (IF FALSE /\ Flows(look, s, "status") THEN {"status"} ELSE {})
    BY AuthWants, Zenon
  <2> QED
    BY <2>1
<1>4. InputWants(look, s, FALSE) \subseteq {"box"}
  BY DEF InputWants
<1>5. P \subseteq {"avatar", "username"} \cap DOMAIN look.at
  BY DEF FloatingPeople
<1>6. \A w \in StaticFlow : Flows(look, s, w) => w \notin DOMAIN look.at
  BY DEF StaticFlow, Flows, Floats
<1>7. Flows(look, s, "input") => ~Floats(look, "input")
  BY DEF Flows
<1>8. P \cap F = {} /\ P \cap R = {} /\ F \cap R = {}
  BY <1>2, <1>3, <1>4, <1>5, <1>6, <1>7 DEF StaticFlow
<1>9. StaticPass(look, frame, s) = (FP \cup FI) \cup (DH \cup DA)
  BY DEF StaticPass
<1>10. StaticWants(look, s) = (P \cup F) \cup R
  BY HeroWants DEF StaticWants
<1> HIDE DEF P, F, R, FP, FI, DH, DA
<1>11. Once(FP \cup FI, P \cup F)
  BY <1>1, <1>8, OnceEach
<1>12. Once(DH \cup DA, {} \cup R)
  BY <1>1, OnceEach
<1>13. Once(DH \cup DA, R)
  BY <1>12
<1>14. (P \cup F) \cap R = {}
  BY <1>8
<1> QED
  BY <1>9, <1>10, <1>11, <1>13, <1>14, OnceEach

\* A redraw of the prompt draws each part of it once.
LEMMA DirtyOnce ==
    ASSUME NEW look, NEW frame, NEW s
    PROVE  Once(DirtyPass(look, frame, s), DirtyWants(look, s))
<1> DEFINE F == FloatingPrompt(look, s, TRUE)
           R == RoleWants(look, s, "Auth", TRUE)
           FI == FloatingInput(look, frame, s, TRUE)
           DA == RoleDraws(look, frame, s, "Auth", TRUE)
           I == InputWants(look, s, TRUE)
<1>1. Once(FI, F) /\ Once(DA, R)
  <2>1. Once(FI, F)
    BY FloatingInputOnce
  <2>2. Once(DA, R)
    BY RoleOnce
  <2> QED
    BY <2>1, <2>2
<1>2. F = (IF InputShown(look, s) /\ Floats(look, "input") THEN I ELSE {})
          \cup (IF StatusShown(look, s) /\ ~StatusFlows(look, s) THEN {"status"} ELSE {})
  BY DEF FloatingPrompt
<1>3. R = (IF Flows(look, s, "input") THEN I ELSE {})
          \cup (IF Flows(look, s, "status") THEN {"status"} ELSE {})
  <2>1. R = (IF TRUE THEN {} ELSE {w \in StaticFlow : Flows(look, s, w)})
            \cup (IF Flows(look, s, "input") THEN I ELSE {})
            \cup (IF TRUE /\ Flows(look, s, "status") THEN {"status"} ELSE {})
    BY AuthWants, Zenon
  <2> QED
    BY <2>1
<1>4. "status" \notin I
  BY DEF InputWants
<1>5. /\ Flows(look, s, "input") => ~Floats(look, "input")
      /\ Flows(look, s, "status") => StatusFlows(look, s)
  BY DEF Flows
<1>6. R \cap F = {}
  BY <1>2, <1>3, <1>4, <1>5
<1>7. DirtyPass(look, frame, s) = DA \cup FI /\ DirtyWants(look, s) = R \cup F
  BY DEF DirtyPass, DirtyWants
<1> HIDE DEF F, R, FI, DA
<1> QED
  BY <1>1, <1>6, <1>7, OnceEach

HeroTextWants(look) == ({"clock", "date"} \cap look.on) \ DOMAIN look.at

DynamicWants(look, s) ==
    (HeroTextWants(look) \cup HeaderWants(look)) \cup DirtyWants(look, s)
    \cup (Placed \cap look.on \cap DOMAIN look.at)
    \cup {look.power[i].name : i \in DOMAIN look.power}
    \cup ShownIndicators(look, s)

\* What a redraw of the prompt draws.
PromptNames == {"box", "content", "adornment", "status"}

LEMMA DirtyNames ==
    ASSUME NEW look, NEW s
    PROVE  DirtyWants(look, s) \subseteq PromptNames
<1>1. RoleWants(look, s, "Auth", TRUE) =
             (IF TRUE THEN {} ELSE {w \in StaticFlow : Flows(look, s, w)})
             \cup (IF Flows(look, s, "input") THEN InputWants(look, s, TRUE) ELSE {})
             \cup (IF TRUE /\ Flows(look, s, "status") THEN {"status"} ELSE {})
  BY AuthWants, Zenon
<1>2. RoleWants(look, s, "Auth", TRUE) \subseteq PromptNames
  BY <1>1 DEF InputWants, PromptNames
<1>3. FloatingPrompt(look, s, TRUE) \subseteq PromptNames
  BY DEF FloatingPrompt, InputWants, PromptNames
<1> QED
  BY <1>2, <1>3 DEF DirtyWants

\* The dynamic pass draws each of its widgets once.
LEMMA DynamicOnce ==
    ASSUME NEW look, IsLook(look), NEW frame, NEW s
    PROVE  Once(DynamicPass(look, frame, s), DynamicWants(look, s))
<1> DEFINE V1 == HeroTextWants(look)
           V2 == HeaderWants(look)
           V3 == DirtyWants(look, s)
           V4 == Placed \cap look.on \cap DOMAIN look.at
           V5 == {look.power[i].name : i \in DOMAIN look.power}
           V6 == ShownIndicators(look, s)
           D1 == RoleDraws(look, frame, s, "Hero", TRUE)
           D2 == FloatingHeader(look, frame)
           D3 == DirtyPass(look, frame, s)
           D4 == PlacedDraws(look, frame)
           D5 == ButtonDraws(look, frame)
           D6 == IndicatorDraws(look, frame, s)
<1>1. Once(D1, V1)
  <2>1. Once(D1, RoleWants(look, s, "Hero", TRUE))
    BY RoleOnce
  <2> QED
    BY <2>1, HeroWants DEF HeroTextWants
<1>2. Once(D2, V2)
  BY HeaderOnce DEF HeaderWants
<1>3. Once(D3, V3)
  BY DirtyOnce
<1>4. Once(D4, V4)
  BY PlacedOnce
<1>5. Once(D5, V5)
  BY ButtonsOnce DEF IsLook
<1>6. Once(D6, V6)
  BY IndicatorsOnce
<1>7. /\ V1 \subseteq {"clock", "date"} \ DOMAIN look.at
      /\ V2 \subseteq {"clock", "date"} \cap DOMAIN look.at
      /\ V3 \subseteq PromptNames
      /\ V4 \subseteq Placed /\ V6 \subseteq Indicators
  BY DirtyNames DEF HeroTextWants, HeaderWants, ShownIndicators
<1>8. V5 \subseteq {"suspend", "reboot", "poweroff"}
  BY DEF IsLook, PowerRecords
<1>9. DynamicPass(look, frame, s) = ((((D1 \cup D2) \cup D3) \cup D4) \cup D5) \cup D6
  BY DEF DynamicPass, DirtyPass
<1>10. DynamicWants(look, s) = ((((V1 \cup V2) \cup V3) \cup V4) \cup V5) \cup V6
  BY DEF DynamicWants
<1> HIDE DEF V1, V2, V3, V4, V5, V6, D1, D2, D3, D4, D5, D6
<1>11. V1 \cap V2 = {} /\ (V1 \cup V2) \cap V3 = {}
  BY <1>7 DEF PromptNames
<1>12. ((V1 \cup V2) \cup V3) \cap V4 = {}
  BY <1>7 DEF PromptNames, Placed
<1>13. (((V1 \cup V2) \cup V3) \cup V4) \cap V5 = {}
  BY <1>7, <1>8 DEF PromptNames, Placed
<1>14. ((((V1 \cup V2) \cup V3) \cup V4) \cup V5) \cap V6 = {}
  BY <1>7, <1>8 DEF PromptNames, Placed, Indicators
<1>15. Once(D1 \cup D2, V1 \cup V2)
  BY <1>1, <1>2, <1>11, OnceEach
<1>16. Once((D1 \cup D2) \cup D3, (V1 \cup V2) \cup V3)
  BY <1>3, <1>11, <1>15, OnceEach
<1>17. Once(((D1 \cup D2) \cup D3) \cup D4, ((V1 \cup V2) \cup V3) \cup V4)
  BY <1>4, <1>12, <1>16, OnceEach
<1>18. Once((((D1 \cup D2) \cup D3) \cup D4) \cup D5, (((V1 \cup V2) \cup V3) \cup V4) \cup V5)
  BY <1>5, <1>13, <1>17, OnceEach
<1>19. Once(((((D1 \cup D2) \cup D3) \cup D4) \cup D5) \cup D6,
            ((((V1 \cup V2) \cup V3) \cup V4) \cup V5) \cup V6)
  BY <1>6, <1>14, <1>18, OnceEach
<1> QED
  BY <1>9, <1>10, <1>19

LEMMA DirtyWantsAre ==
    ASSUME NEW look, NEW s
    PROVE  DirtyWants(look, s) =
             (IF InputShown(look, s)
              THEN {"content"} \cup (IF BoxMoves(s) THEN {"box"} ELSE {})
                               \cup (IF Adorned(look, s) THEN {"adornment"} ELSE {})
              ELSE {})
             \cup (IF StatusShown(look, s) THEN {"status"} ELSE {})
<1> DEFINE I == InputWants(look, s, TRUE)
           R == RoleWants(look, s, "Auth", TRUE)
           F == FloatingPrompt(look, s, TRUE)
<1>1. R = (IF Flows(look, s, "input") THEN I ELSE {})
          \cup (IF Flows(look, s, "status") THEN {"status"} ELSE {})
  <2>1. R = (IF TRUE THEN {} ELSE {w \in StaticFlow : Flows(look, s, w)})
            \cup (IF Flows(look, s, "input") THEN I ELSE {})
            \cup (IF TRUE /\ Flows(look, s, "status") THEN {"status"} ELSE {})
    BY AuthWants, Zenon
  <2> QED
    BY <2>1
<1>2. F = (IF InputShown(look, s) /\ Floats(look, "input") THEN I ELSE {})
          \cup (IF StatusShown(look, s) /\ ~StatusFlows(look, s) THEN {"status"} ELSE {})
  BY DEF FloatingPrompt
<1>3. /\ Flows(look, s, "input") <=> InputShown(look, s) /\ ~Floats(look, "input")
      /\ Flows(look, s, "status") <=> StatusShown(look, s) /\ StatusFlows(look, s)
  BY DEF Flows
<1>4. I = {"content"} \cup (IF BoxMoves(s) THEN {"box"} ELSE {})
                      \cup (IF Adorned(look, s) THEN {"adornment"} ELSE {})
  <2>1. (TRUE = BoxMoves(s)) <=> BoxMoves(s)
    BY DEF BoxMoves
  <2> QED
    BY <2>1 DEF InputWants
<1>5. DirtyWants(look, s) = R \cup F
  BY DEF DirtyWants
<1> HIDE DEF I, R, F
<1>6. R \cup F = (IF InputShown(look, s) THEN I ELSE {})
                 \cup (IF StatusShown(look, s) THEN {"status"} ELSE {})
  BY <1>1, <1>2, <1>3
<1> QED
  BY <1>4, <1>5, <1>6

LEMMA StaticWantsAre ==
    ASSUME NEW look, NEW s
    PROVE  StaticWants(look, s) =
             {w \in {"avatar", "username"} \cap look.on :
                 IdentityShown(look, s) \/ (w = "avatar" /\ Floats(look, w))}
             \cup (IF InputShown(look, s) /\ ~BoxMoves(s) THEN {"box"} ELSE {})
<1> DEFINE I == InputWants(look, s, FALSE)
           R == RoleWants(look, s, "Auth", FALSE)
           F == FloatingPrompt(look, s, FALSE)
<1>1. R = {w \in StaticFlow : Flows(look, s, w)}
          \cup (IF Flows(look, s, "input") THEN I ELSE {})
  <2>1. R = (IF FALSE THEN {} ELSE {w \in StaticFlow : Flows(look, s, w)})
            \cup (IF Flows(look, s, "input") THEN I ELSE {})
            \cup (IF FALSE /\ Flows(look, s, "status") THEN {"status"} ELSE {})
    BY AuthWants, Zenon
  <2> QED
    BY <2>1
<1>2. F = IF InputShown(look, s) /\ Floats(look, "input") THEN I ELSE {}
  BY DEF FloatingPrompt
<1>3. /\ Flows(look, s, "input") <=> InputShown(look, s) /\ ~Floats(look, "input")
      /\ \A w \in StaticFlow : Flows(look, s, w)
            <=> w \in look.on /\ ~Floats(look, w) /\ IdentityShown(look, s)
  BY DEF Flows, StaticFlow
<1>4. I = IF BoxMoves(s) THEN {} ELSE {"box"}
  <2>1. (FALSE = BoxMoves(s)) <=> ~BoxMoves(s)
    BY DEF BoxMoves
  <2> QED
    BY <2>1 DEF InputWants
<1>5. StaticWants(look, s) = (FloatingPeople(look, s) \cup F) \cup R
  BY HeroWants DEF StaticWants
<1> HIDE DEF I, R, F
<1>6. R \cup F = {w \in StaticFlow : Flows(look, s, w)}
                 \cup (IF InputShown(look, s) THEN I ELSE {})
  BY <1>1, <1>2, <1>3
<1>7. FloatingPeople(look, s) \cup {w \in StaticFlow : Flows(look, s, w)} =
        {w \in {"avatar", "username"} \cap look.on :
            IdentityShown(look, s) \/ (w = "avatar" /\ Floats(look, w))}
  BY <1>3 DEF FloatingPeople, StaticFlow, Floats
<1> QED
  BY <1>4, <1>5, <1>6, <1>7

\* The two passes share no widget and leave none out.
LEMMA TogetherTheyDraw ==
    ASSUME NEW look, IsLook(look), NEW s
    PROVE  /\ StaticWants(look, s) \cap DynamicWants(look, s) = {}
           /\ StaticWants(look, s) \cup DynamicWants(look, s) = Wanted(look, s)
<1> DEFINE P == {look.power[i].name : i \in DOMAIN look.power}
           W == StaticWants(look, s)
           X == DirtyWants(look, s)
           Y == (HeroTextWants(look) \cup HeaderWants(look))
                \cup (Placed \cap look.on \cap DOMAIN look.at) \cup ShownIndicators(look, s)
           Z == {w \in look.on \ {"status"} :
                  CASE w = "avatar" -> Floats(look, w) \/ IdentityShown(look, s)
                    [] w = "username" -> IdentityShown(look, s)
                    [] w = "power_status" -> Floats(look, w) /\ s.status = "Idle"
                    [] w \in Placed \cup {"keyboard", "battery"} -> Floats(look, w)
                    [] OTHER -> TRUE}
<1>1. look.on \subseteq {"clock", "date", "avatar", "username", "status"}
                           \cup Indicators \cup Placed
  BY DEF IsLook, Widgets, Header, Identity, Corner, Weather, Player, Indicators, Placed
<1>2. P \subseteq {"suspend", "reboot", "poweroff"}
  BY DEF IsLook, PowerRecords
<1>3. Y = {w \in {"clock", "date"} \cap look.on : TRUE}
          \cup {w \in (Placed \cup Indicators) \cap look.on :
                   Floats(look, w) /\ (w = "power_status" => s.status = "Idle")}
  BY DEF HeroTextWants, HeaderWants, ShownIndicators, Floats, Placed, Indicators
<1>4. DynamicWants(look, s) = (X \cup Y) \cup P
  BY DEF DynamicWants
<1>5. W = {w \in {"avatar", "username"} \cap look.on :
              IdentityShown(look, s) \/ (w = "avatar" /\ Floats(look, w))}
          \cup (IF InputShown(look, s) /\ ~BoxMoves(s) THEN {"box"} ELSE {})
  BY StaticWantsAre
<1>6. X = (IF InputShown(look, s)
           THEN {"content"} \cup (IF BoxMoves(s) THEN {"box"} ELSE {})
                            \cup (IF Adorned(look, s) THEN {"adornment"} ELSE {})
           ELSE {})
          \cup (IF StatusShown(look, s) THEN {"status"} ELSE {})
  BY DirtyWantsAre
<1>7. Wanted(look, s) = Z \cup P
        \cup (IF InputShown(look, s) THEN {"box", "content"} ELSE {})
        \cup (IF InputShown(look, s) /\ Adorned(look, s) THEN {"adornment"} ELSE {})
        \cup (IF StatusShown(look, s) THEN {"status"} ELSE {})
  BY DEF Wanted
<1>8. Z = Y \cup {w \in {"avatar", "username"} \cap look.on :
                     IdentityShown(look, s) \/ (w = "avatar" /\ Floats(look, w))}
  <2> HIDE DEF Y
  <2>1. ASSUME NEW w
        PROVE  w \in Z <=> w \in Y \/ w \in {v \in {"avatar", "username"} \cap look.on :
                     IdentityShown(look, s) \/ (v = "avatar" /\ Floats(look, v))}
    BY <1>1, <1>3 DEF Placed, Indicators
  <2> HIDE DEF Z
  <2> QED
    BY <2>1
<1> HIDE DEF P, W, X, Y, Z
<1>9. W \cap X = {}
  BY <1>5, <1>6
<1>10. W \cap Y = {} /\ W \cap P = {}
  BY <1>2, <1>3, <1>5 DEF Placed, Indicators
<1>11. W \cup X = {w \in {"avatar", "username"} \cap look.on :
                     IdentityShown(look, s) \/ (w = "avatar" /\ Floats(look, w))}
        \cup (IF InputShown(look, s) THEN {"box", "content"} ELSE {})
        \cup (IF InputShown(look, s) /\ Adorned(look, s) THEN {"adornment"} ELSE {})
        \cup (IF StatusShown(look, s) THEN {"status"} ELSE {})
  BY <1>5, <1>6
<1>12. W \cap DynamicWants(look, s) = {}
  BY <1>4, <1>9, <1>10
<1>13. W \cup DynamicWants(look, s) = Wanted(look, s)
  BY <1>4, <1>7, <1>8, <1>11
<1> QED
  BY <1>12, <1>13 DEF W

\* Every widget is drawn by one pass and at one place.
LEMMA AllDrawnOnce ==
    ASSUME NEW look, IsLook(look), NEW frame, NEW s
    PROVE  DrawnOnce(look, frame, s)
<1> DEFINE S == StaticPass(look, frame, s)
           D == DynamicPass(look, frame, s)
           VS == StaticWants(look, s)
           VD == DynamicWants(look, s)
           all == ({"static"} \X S) \cup ({"dynamic"} \X D)
<1>1. Once(S, VS) /\ Once(D, VD)
  BY StaticOnce, DynamicOnce
<1>2. VS \cap VD = {} /\ VS \cup VD = Wanted(look, s)
  BY TogetherTheyDraw
<1> HIDE DEF S, D, VS, VD
<1>3. /\ \A d \in S : d.what \in VS
      /\ \A d \in D : d.what \in VD
      /\ \A v \in VS : \E d \in S : d.what = v
      /\ \A v \in VD : \E d \in D : d.what = v
      /\ \A d, e \in S : d.what = e.what => d = e
      /\ \A d, e \in D : d.what = e.what => d = e
  BY <1>1 DEF Once
<1>4. ASSUME NEW e \in all
      PROVE  \/ e[1] = "static" /\ e[2] \in S /\ e = <<"static", e[2]>>
             \/ e[1] = "dynamic" /\ e[2] \in D /\ e = <<"dynamic", e[2]>>
  OBVIOUS
<1>5. ASSUME NEW v \in Wanted(look, s) PROVE \E e \in all : e[2].what = v
  <2>1. CASE v \in VS
    <3>1. PICK d \in S : d.what = v
      BY <1>3, <2>1
    <3>2. <<"static", d>> \in all
      OBVIOUS
    <3> QED
      BY <3>1, <3>2
  <2>2. CASE v \in VD
    <3>1. PICK d \in D : d.what = v
      BY <1>3, <2>2
    <3>2. <<"dynamic", d>> \in all
      OBVIOUS
    <3> QED
      BY <3>1, <3>2
  <2> QED
    BY <1>2, <2>1, <2>2
<1>6. \A e \in all : e[2].what \in Wanted(look, s)
  BY <1>2, <1>3, <1>4
<1>7. \A e, f \in all : e[2].what = f[2].what => e = f
  BY <1>2, <1>3, <1>4
<1>8. {e[2].what : e \in all} = Wanted(look, s)
  <2> HIDE DEF all
  <2> QED
    BY <1>5, <1>6
<1> QED
  BY <1>7, <1>8 DEF DrawnOnce, S, D

-----------------------------------------------------------------------------
(* Rectangles. *)

\* A set of numbers has a least one.
LEMMA LeastOf ==
    ASSUME NEW S \in SUBSET Nat, S # {}
    PROVE  \E x \in S : \A y \in S : x <= y
<1> DEFINE Below == {ss \in Nat \X Nat : ss[1] < ss[2]}
<1>1. IsWellFoundedOn(Below, Nat)
  BY NatLessThanWellFounded DEF OpToRel
<1>2. PICK x \in S : \A y \in S : <<y, x>> \notin Below
  <2> HIDE DEF Below
  <2> QED
    BY <1>1, WFMin
<1>3. ASSUME NEW y \in S, ~(x <= y) PROVE FALSE
  <2>1. x \in Nat /\ y \in Nat /\ y < x
    BY <1>3
  <2>2. <<y, x>> \in Below
    BY <2>1
  <2> QED
    BY <1>2, <2>2
<1> QED
  BY <1>3


\* So Min is what it says.
LEMMA MinIs ==
    ASSUME NEW S \in SUBSET Nat, S # {}
    PROVE  Min(S) \in S /\ \A x \in S : Min(S) <= x
BY LeastOf DEF Min

\* The rectangle of a redraw is that of two at most.
LEMMA ExtremesOfTwo ==
    ASSUME NEW a \in Int, NEW b \in Int, NEW S, S \subseteq {a, b}, S # {}
    PROVE  /\ Min(S) \in S /\ \A x \in S : Min(S) <= x
           /\ Max(S) \in S /\ \A x \in S : x <= Max(S)
<1>0. S = {a} \/ S = {b} \/ (a \in S /\ b \in S)
  OBVIOUS
<1>1. \E x \in S : \A y \in S : x <= y
  <2>1. CASE a \in S /\ b \in S /\ a <= b
    BY <2>1
  <2>2. CASE a \in S /\ b \in S /\ b <= a
    BY <2>2
  <2> QED
    BY <1>0, <2>1, <2>2
<1>2. \E x \in S : \A y \in S : x >= y
  <2>1. CASE a \in S /\ b \in S /\ a >= b
    BY <2>1
  <2>2. CASE a \in S /\ b \in S /\ b >= a
    BY <2>2
  <2> QED
    BY <1>0, <2>1, <2>2
<1>3. Min(S) \in S /\ \A x \in S : Min(S) <= x
  BY <1>1, Zenon DEF Min
<1>4. Max(S) \in S /\ \A x \in S : Max(S) >= x
  BY <1>2, Zenon DEF Max
<1>5. \A x \in S : x \in Int
  OBVIOUS
<1> QED
  BY <1>3, <1>4, <1>5

Rects == [x: Int, y: Int, w: Int, h: Int]
FrameSizes == [w: Nat, h: Nat]

\* A union reaches around its parts.
LEMMA UnionCovers ==
    ASSUME NEW A \in Rects, NEW B \in Rects, NEW parts, parts \subseteq {A, B},
           NEW p \in parts, ~Empty(p), NEW U, U = UnionOf(parts)
    PROVE  /\ U \in Rects /\ ~Empty(U)
           /\ U.x <= p.x /\ U.y <= p.y /\ Right(p) <= Right(U) /\ Bottom(p) <= Bottom(U)
<1> DEFINE some == {r \in parts : ~Empty(r)}
           X == {r.x : r \in some}
           Y == {r.y : r \in some}
           R == {Right(r) : r \in some}
           T == {Bottom(r) : r \in some}
<1>1. p \in some /\ p \in Rects
  OBVIOUS
<1>2. /\ A.x \in Int /\ B.x \in Int /\ A.y \in Int /\ B.y \in Int
      /\ Right(A) \in Int /\ Right(B) \in Int /\ Bottom(A) \in Int /\ Bottom(B) \in Int
  BY DEF Rects, Right, Bottom
<1>3. /\ X \subseteq {A.x, B.x} /\ Y \subseteq {A.y, B.y}
      /\ R \subseteq {Right(A), Right(B)} /\ T \subseteq {Bottom(A), Bottom(B)}
  OBVIOUS
<1>4. p.x \in X /\ p.y \in Y /\ Right(p) \in R /\ Bottom(p) \in T
  BY <1>1
<1>5. U = Rect(Min(X), Min(Y), Max(R) - Min(X), Max(T) - Min(Y))
  BY <1>1 DEF UnionOf
<1> HIDE DEF some, X, Y, R, T
<1>6. Min(X) \in {A.x, B.x} /\ Min(X) <= p.x
  BY <1>2, <1>3, <1>4, ExtremesOfTwo
<1>7. Min(Y) \in {A.y, B.y} /\ Min(Y) <= p.y
  BY <1>2, <1>3, <1>4, ExtremesOfTwo
<1>8. Max(R) \in {Right(A), Right(B)} /\ Right(p) <= Max(R)
  BY <1>2, <1>3, <1>4, ExtremesOfTwo
<1>9. Max(T) \in {Bottom(A), Bottom(B)} /\ Bottom(p) <= Max(T)
  BY <1>2, <1>3, <1>4, ExtremesOfTwo
<1>10. Min(X) \in Int /\ Min(Y) \in Int /\ Max(R) \in Int /\ Max(T) \in Int
  BY <1>2, <1>6, <1>7, <1>8, <1>9
<1> DEFINE u == Max(R) - Min(X)
           v == Max(T) - Min(Y)
<1>13. p.x < Right(p) /\ p.y < Bottom(p)
  BY <1>1 DEF Rects, Empty, Right, Bottom
<1>14. /\ p.x \in Int /\ p.y \in Int /\ Right(p) \in Int /\ Bottom(p) \in Int
  BY <1>1 DEF Rects, Right, Bottom
<1>19. Min(X) < Max(R)
  BY <1>6, <1>8, <1>10, <1>13, <1>14
<1>20. Min(Y) < Max(T)
  BY <1>7, <1>9, <1>10, <1>13, <1>14
<1>21. u > 0 /\ v > 0
  BY <1>10, <1>19, <1>20
<1>16. u \in Int /\ v \in Int
  BY <1>10
<1>17. U = Rect(Min(X), Min(Y), u, v)
  BY <1>5
<1> HIDE DEF u, v
<1>18. U \in Rects /\ U.x = Min(X) /\ U.y = Min(Y) /\ U.w = u /\ U.h = v
  BY ONLY <1>10, <1>16, <1>17 DEF Rect, Rects
<1>11. /\ U \in Rects
       /\ U.x = Min(X) /\ U.y = Min(Y) /\ U.w = Max(R) - Min(X) /\ U.h = Max(T) - Min(Y)
  BY <1>18 DEF u, v
<1>12. Right(U) = Max(R) /\ Bottom(U) = Max(T)
  BY <1>10, <1>11 DEF Right, Bottom
<1>15. U.w > 0 /\ U.h > 0
  BY ONLY <1>18, <1>21
<1>22. ~Empty(U)
  BY ONLY <1>15, <1>18, <1>16 DEF Empty, Rects
<1>23. U.x <= p.x /\ U.y <= p.y /\ Right(p) <= Right(U) /\ Bottom(p) <= Bottom(U)
  BY ONLY <1>6, <1>7, <1>8, <1>9, <1>11, <1>12
<1> QED
  BY ONLY <1>11, <1>22, <1>23

LEMMA ClippedIs ==
    ASSUME NEW r \in Rects, NEW frame \in FrameSizes
    PROVE  /\ Clipped(r, frame).x = Clamp(r.x, 0, frame.w)
           /\ Clipped(r, frame).y = Clamp(r.y, 0, frame.h)
           /\ Right(Clipped(r, frame)) = Clamp(Right(r), 0, frame.w)
           /\ Bottom(Clipped(r, frame)) = Clamp(Bottom(r), 0, frame.h)
<1> DEFINE a == Clamp(r.x, 0, frame.w)
           b == Clamp(r.y, 0, frame.h)
           c == Clamp(Right(r), 0, frame.w)
           d == Clamp(Bottom(r), 0, frame.h)
<1>1. a \in Int /\ b \in Int /\ c \in Int /\ d \in Int
  BY DEF Rects, FrameSizes, Clamp, Right, Bottom
<1>2. Clipped(r, frame) = [x |-> a, y |-> b, w |-> c - a, h |-> d - b]
  BY DEF Clipped, Rect
<1> HIDE DEF a, b, c, d
<1>3. /\ Clipped(r, frame).x = a /\ Clipped(r, frame).y = b
      /\ Right(Clipped(r, frame)) = c /\ Bottom(Clipped(r, frame)) = d
  BY <1>1, <1>2 DEF Right, Bottom
<1> QED
  BY <1>3 DEF a, b, c, d

\* A rectangle that leaves p by 12 at most stays in the union, inflated by 12.
LEMMA CopyCovers ==
    ASSUME NEW A \in Rects, NEW B \in Rects, NEW parts, parts \subseteq {A, B},
           NEW p \in parts, ~Empty(p), NEW r \in Rects, NEW frame \in FrameSizes,
           p.x - 12 <= r.x, p.y - 12 <= r.y, Right(r) <= Right(p) + 12, Bottom(r) <= Bottom(p) + 12
    PROVE  Within(Clipped(r, frame), Clipped(Inflated(UnionOf(parts), 12), frame))
<1> DEFINE U == UnionOf(parts)
           I == Inflated(U, 12)
<1>1. /\ U \in Rects /\ ~Empty(U)
      /\ U.x <= p.x /\ U.y <= p.y /\ Right(p) <= Right(U) /\ Bottom(p) <= Bottom(U)
  BY UnionCovers
<1>2. p \in Rects
  OBVIOUS
<1> HIDE DEF U
<1>3. I = Rect(U.x - 12, U.y - 12, U.w + 24, U.h + 24)
  BY <1>1 DEF Inflated, Rects
<1>13. U.x - 12 \in Int /\ U.y - 12 \in Int /\ U.w + 24 \in Int /\ U.h + 24 \in Int
  BY <1>1 DEF Rects
<1>4. I \in Rects /\ I.x = U.x - 12 /\ I.y = U.y - 12 /\ I.w = U.w + 24 /\ I.h = U.h + 24
  BY ONLY <1>13, <1>3 DEF Rect, Rects
<1> HIDE DEF I
<1>5. I.x <= r.x /\ I.y <= r.y /\ Right(r) <= Right(I) /\ Bottom(r) <= Bottom(I)
  BY <1>1, <1>2, <1>4 DEF Rects, Right, Bottom
<1>6. /\ r.x \in Int /\ r.y \in Int /\ Right(r) \in Int /\ Bottom(r) \in Int
      /\ I.x \in Int /\ I.y \in Int /\ Right(I) \in Int /\ Bottom(I) \in Int
      /\ frame.w \in Nat /\ frame.h \in Nat
  BY <1>4 DEF Rects, Right, Bottom, FrameSizes
<1>7. \A n, lo, hi \in Int : Clamp(n, lo, hi) \in Int
  BY DEF Clamp
<1>8. \A hi \in Nat : \A a, b \in Int : a <= b => Clamp(a, 0, hi) <= Clamp(b, 0, hi)
  BY DEF Clamp
<1> DEFINE c == Clipped(r, frame)
           d == Clipped(I, frame)
<1>9. /\ c.x = Clamp(r.x, 0, frame.w) /\ c.y = Clamp(r.y, 0, frame.h)
      /\ Right(c) = Clamp(Right(r), 0, frame.w) /\ Bottom(c) = Clamp(Bottom(r), 0, frame.h)
  BY <1>6, ClippedIs
<1>10. /\ d.x = Clamp(I.x, 0, frame.w) /\ d.y = Clamp(I.y, 0, frame.h)
       /\ Right(d) = Clamp(Right(I), 0, frame.w) /\ Bottom(d) = Clamp(Bottom(I), 0, frame.h)
  BY <1>4, <1>6, ClippedIs
<1> HIDE DEF c, d
<1>11. c.x >= d.x /\ c.y >= d.y /\ Right(c) <= Right(d) /\ Bottom(c) <= Bottom(d)
  BY <1>5, <1>6, <1>8, <1>9, <1>10
<1>12. Within(c, d)
  BY <1>11 DEF Within
<1> QED
  BY <1>12 DEF c, d, I, U

\* What has no size is lost nowhere.
LEMMA EmptyIsWithin ==
    ASSUME NEW r \in Rects, Empty(r), NEW frame \in FrameSizes, NEW o
    PROVE  Within(Clipped(r, frame), o)
BY DEF Rects, FrameSizes, Empty, Within, Clipped, Rect, Clamp, Right, Bottom

-----------------------------------------------------------------------------
(* The layout, in numbers. *)

\* The bounds of SceneMetrics hold on every frame.
LEMMA MetricsAre ==
    ASSUME NEW look, IsLook(look), NEW frame \in FrameSizes
    PROVE  /\ Metrics(look, frame).width \in Int /\ Metrics(look, frame).width >= 180
           /\ Metrics(look, frame).height \in Int /\ Metrics(look, frame).height >= 40
           /\ Metrics(look, frame).avatar \in Int /\ Metrics(look, frame).avatar >= 56
<1>1. look.input.w \in Int /\ look.input.h \in Int /\ look.avatar \in Int
  BY DEF IsLook
<1>2. frame.w \in Nat /\ frame.h \in Nat
  BY DEF FrameSizes
<1>3. Metrics(look, frame).width \in Int /\ Metrics(look, frame).width >= 180
  BY <1>1, <1>2 DEF Metrics, Clamp, Greater, Lesser
<1>4. Metrics(look, frame).height \in Int /\ Metrics(look, frame).height >= 40
  BY <1>1, <1>2 DEF Metrics, Clamp, Greater, Lesser
<1>5. Metrics(look, frame).avatar \in Int /\ Metrics(look, frame).avatar >= 56
  BY <1>1, <1>2 DEF Metrics, Clamp, Greater, Lesser
<1> QED
  BY <1>3, <1>4, <1>5

LEMMA ExtentIsNat ==
    ASSUME NEW look, IsLook(look), NEW frame \in FrameSizes, NEW secs, NEW w \in Flowing
    PROVE  Extent(look, Metrics(look, frame), secs, w) \in Nat
<1> DEFINE m == Metrics(look, frame)
<1>1. m.avatar \in Nat /\ m.height \in Nat
  BY MetricsAre
<1>2. /\ look.size["clock"].h \in Nat /\ look.size["date"].h \in Nat
      /\ look.size["username"].h \in Nat /\ look.size["status"].h \in Nat
  BY DEF IsLook
<1>3. look.gap.clock \in Int /\ look.gap.avatar \in Int /\ look.gap.username \in Int
  BY DEF IsLook
<1> HIDE DEF m
<1>4. HeightOf(look, m, w) \in Nat
  BY <1>1, <1>2 DEF HeightOf, Flowing
<1>5. GapAfter(look, secs, w) \in Nat
  BY <1>3 DEF GapAfter, Flowing, Clamp, StatusGap
<1>6. Extent(look, m, secs, w) \in Nat
  BY <1>4, <1>5 DEF Extent
<1> QED
  BY <1>6 DEF m

\* Nothing in the column lies above its top.
LEMMA OffsetIsNat ==
    ASSUME NEW look, IsLook(look), NEW frame \in FrameSizes, NEW secs, NEW w \in Flowing
    PROVE  Offset(look, Metrics(look, frame), secs, w) \in Nat
<1> DEFINE m == Metrics(look, frame)
<1>1. \A v \in Flowing : Extent(look, m, secs, v) \in Nat
  BY ExtentIsNat
<1> HIDE DEF m
<1>2. Offset(look, m, secs, w) \in Nat
  BY <1>1 DEF Offset, Flowing
<1> QED
  BY <1>2 DEF m

LEMMA TotalIsNat ==
    ASSUME NEW look, IsLook(look), NEW frame \in FrameSizes, NEW secs
    PROVE  TotalHeight(look, Metrics(look, frame), secs) \in Nat
<1> DEFINE m == Metrics(look, frame)
<1>1. \A v \in Flowing : Extent(look, m, secs, v) \in Nat /\ Offset(look, m, secs, v) \in Nat
  BY ExtentIsNat, OffsetIsNat
<1> HIDE DEF m
<1>2. TotalHeight(look, m, secs) \in Nat
  BY <1>1 DEF TotalHeight, Flowing
<1> QED
  BY <1>2 DEF m

HeroHeight(look, frame, s) == TotalHeight(look, Metrics(look, frame), Sections(look, s, "Hero"))
AuthHeight(look, frame, s) == TotalHeight(look, Metrics(look, frame), Sections(look, s, "Auth"))
AuthAnchor(look, frame, s) == AnchorHeight(look, Metrics(look, frame), Sections(look, s, "Auth"))
Apart(hero, anchor) == IF hero > 0 /\ anchor > 0 THEN 18 ELSE 0
Highest(look, frame, s) ==
    HeroTop(frame) + HeroHeight(look, frame, s)
        + Apart(HeroHeight(look, frame, s), AuthAnchor(look, frame, s))

LEMMA HeightsAre ==
    ASSUME NEW look, IsLook(look), NEW frame \in FrameSizes, NEW s
    PROVE  /\ HeroHeight(look, frame, s) \in Nat /\ AuthHeight(look, frame, s) \in Nat
           /\ AuthAnchor(look, frame, s) \in Nat /\ HeroTop(frame) \in Nat
           /\ Highest(look, frame, s) \in Nat
<1>1. HeroHeight(look, frame, s) \in Nat /\ AuthHeight(look, frame, s) \in Nat
  BY TotalIsNat DEF HeroHeight, AuthHeight
<1>2. AuthAnchor(look, frame, s) \in Nat
  BY TotalIsNat DEF AuthAnchor, AnchorHeight
<1>3. HeroTop(frame) \in Nat
  BY DEF HeroTop, Clamp, FrameSizes
<1> QED
  BY <1>1, <1>2, <1>3 DEF Highest, Apart

\* Where the middle column starts.
LEMMA AuthAnchored ==
    ASSUME NEW look, IsLook(look), NEW frame \in FrameSizes, NEW s
    PROVE  LET lowest == frame.h - AuthHeight(look, frame, s) - 24
               highest == Highest(look, frame, s)
               middle == frame.h \div 2 - AuthAnchor(look, frame, s) \div 2
               top == Anchors(look, frame, s)["Auth"]
           IN  /\ top \in Int
               /\ top < lowest => top = Greater(middle, highest)
<1> DEFINE hero == HeroHeight(look, frame, s)
           anchor == AuthAnchor(look, frame, s)
           render == AuthHeight(look, frame, s)
           apart == Apart(hero, anchor)
           lowest == frame.h - render - 24
           highest == HeroTop(frame) + hero + apart
           packed == Greater(Half(frame.h - (hero + apart + render)), HeroTop(frame))
           middle == frame.h \div 2 - anchor \div 2
           top == Anchors(look, frame, s)["Auth"]
<1>1. top = IF lowest < highest THEN packed + hero + apart ELSE Clamp(middle, highest, lowest)
  BY DEF Anchors, AnchorsOf, HeroHeight, AuthAnchor, AuthHeight, Apart
<1>2. hero \in Nat /\ anchor \in Nat /\ render \in Nat /\ HeroTop(frame) \in Nat
  BY HeightsAre
<1>3. apart \in Nat /\ frame.h \in Nat
  BY DEF Apart, FrameSizes
<1>4. highest = Highest(look, frame, s)
  BY DEF Highest
<1> HIDE DEF hero, anchor, render, apart, top
<1>5. lowest \in Int /\ highest \in Int /\ middle \in Int
  BY <1>2, <1>3
<1>6. packed \in Int /\ packed >= HeroTop(frame)
  BY <1>2, <1>3 DEF Greater, Half
<1>7. CASE lowest < highest
  <2>1. top \in Int /\ top >= highest
    BY <1>1, <1>2, <1>3, <1>6, <1>7
  <2> HIDE DEF lowest, highest, middle
  <2>2. ~(top < lowest)
    BY <1>5, <1>7, <2>1
  <2> QED
    BY <1>4, <2>1, <2>2 DEF lowest, highest, middle, top, render, anchor
<1>8. CASE ~(lowest < highest)
  <2> HIDE DEF lowest, highest, middle
  <2>1. top \in Int /\ (top < lowest => top = Greater(middle, highest))
    BY <1>1, <1>5, <1>8 DEF Clamp, Greater
  <2> QED
    BY <1>4, <2>1 DEF lowest, highest, middle, top, render, anchor
<1> QED
  BY <1>7, <1>8

LEMMA InputRectIs ==
    ASSUME NEW look, IsLook(look), NEW frame \in FrameSizes, NEW y \in Int
    PROVE  LET m == Metrics(look, frame)
           IN  /\ InputRect(m, frame, y) \in Rects
               /\ InputRect(m, frame, y).w = m.width /\ InputRect(m, frame, y).h = m.height
<1> DEFINE m == Metrics(look, frame)
<1>1. m.width \in Int /\ m.height \in Int
  BY MetricsAre
<1>2. frame.w \div 2 - m.width \div 2 \in Int
  BY <1>1 DEF FrameSizes
<1> QED
  BY <1>1, <1>2 DEF InputRect, Rect, Rects


LEMMA AnchoredIsInt ==
    /\ \A width, w, x \in Int : \A a \in HAligns : AnchoredX(width, w, a, x) \in Int
    /\ \A height, h, y \in Int : \A a \in VAligns : AnchoredY(height, h, a, y) \in Int
BY DEF AnchoredX, AnchoredY, HAligns, VAligns

LEMMA BackdropIs ==
    ASSUME NEW frame \in FrameSizes, NEW b \in BackdropRecords
    PROVE  BackdropRect(frame, b) \in Rects
<1>1. /\ b.w \in Int /\ b.h \in Int /\ b.x \in Int /\ b.y \in Int /\ b.inset \in Int
      /\ b.halign \in HAligns /\ b.valign \in VAligns
  BY DEF BackdropRecords, HAligns, VAligns
<1>2. frame.w \in Int /\ frame.h \in Int
  BY DEF FrameSizes
<1>3. /\ AnchoredX(frame.w, b.w, b.halign, b.x) \in Int
      /\ AnchoredY(frame.h, b.h, b.valign, b.y) \in Int
  BY <1>1, <1>2, AnchoredIsInt
<1> QED
  BY <1>1, <1>2, <1>3 DEF BackdropRect, Rect, Rects, Lesser, Greater

LEMMA ZIs == ASSUME NEW z \in Zs PROVE z \in Int /\ z + 32768 \in Nat
<1>1. z \in Int
  BY DEF Zs
<1>2. -32768 <= z
  BY DEF Zs
<1>3. z + 32768 \in Nat
  BY <1>1, <1>2
<1> QED
  BY <1>1, <1>3

\* Some backdrop is drawn first: z is a number of 16 bits.
LEMMA LowestExists ==
    ASSUME NEW S \in SUBSET Nat, S # {}, NEW b, \A i \in S : b[i].z \in Zs
    PROVE  {i \in S : \A j \in S : b[i].z <= b[j].z} # {}
<1> DEFINE heights == {b[i].z + 32768 : i \in S}
<1>1. \A i \in S : b[i].z \in Int /\ b[i].z + 32768 \in Nat
  <2>1. \A i \in S : b[i].z \in Zs
    OBVIOUS
  <2>2. \A z \in Zs : z \in Int /\ z + 32768 \in Nat
    BY ZIs
  <2> QED
    BY <2>1, <2>2
<1>2. heights \subseteq Nat /\ heights # {}
  <2>1. ASSUME NEW h \in heights PROVE h \in Nat
    <3>1. PICK i \in S : h = b[i].z + 32768
      OBVIOUS
    <3> QED
      BY <1>1, <3>1
  <2>2. PICK i \in S : TRUE
    OBVIOUS
  <2>3. b[i].z + 32768 \in heights
    OBVIOUS
  <2> QED
    BY <2>1, <2>3
<1>3. \A j \in S : b[j].z + 32768 \in heights
  OBVIOUS
<1>4. \A x \in heights : \E i \in S : x = b[i].z + 32768
  OBVIOUS
<1> HIDE DEF heights
<1>5. PICK x \in heights : \A y \in heights : x <= y
  BY <1>2, MinIs
<1>6. PICK i \in S : x = b[i].z + 32768
  BY <1>4
<1>7. ASSUME NEW j \in S PROVE b[i].z <= b[j].z
  <2>1. x <= b[j].z + 32768
    BY <1>3, <1>5
  <2> QED
    BY <1>1, <1>6, <2>1
<1> QED
  BY <1>7

LEMMA ContainerIs ==
    ASSUME NEW look, IsLook(look), NEW frame \in FrameSizes, NEW place
    PROVE  Container(look, frame, place) \in Rects
<1> DEFINE named == {i \in DOMAIN look.backdrops : look.backdrops[i].name = place.of}
           lowest == {i \in named : \A j \in named :
                        look.backdrops[i].z <= look.backdrops[j].z}
<1>1. CASE place.of = Screen \/ named = {}
  BY <1>1 DEF Container, WholeFrame, Rect, Rects, FrameSizes
<1>2. CASE ~(place.of = Screen \/ named = {})
  <2>1. \A i \in DOMAIN look.backdrops : i \in Nat /\ look.backdrops[i] \in BackdropRecords
    BY DEF IsLook
  <2>2. named \in SUBSET Nat /\ named # {}
    BY <1>2, <2>1
  <2>3. \A i \in named : look.backdrops[i].z \in Zs
    BY <2>1 DEF BackdropRecords
  <2>4. lowest # {}
    <3> HIDE DEF named
    <3> QED
      BY <2>2, <2>3, LowestExists
  <2>5. lowest \in SUBSET Nat /\ \A i \in lowest : look.backdrops[i] \in BackdropRecords
    BY <2>1
  <2>6. look.backdrops[Min(lowest)] \in BackdropRecords
    <3> HIDE DEF lowest
    <3>1. Min(lowest) \in lowest
      BY <2>4, <2>5, MinIs
    <3> QED
      BY <2>5, <3>1
  <2>7. Container(look, frame, place) = BackdropRect(frame, look.backdrops[Min(lowest)])
    BY <1>2 DEF Container
  <2> QED
    BY <2>6, <2>7, BackdropIs
<1> QED
  BY <1>1, <1>2

\* A floating widget keeps its size.
LEMMA PositionedIs ==
    ASSUME NEW look, IsLook(look), NEW frame \in FrameSizes, NEW place \in Placements,
           NEW w \in Int, NEW h \in Int
    PROVE  /\ Positioned(look, frame, place, w, h) \in Rects
           /\ Positioned(look, frame, place, w, h).w = w
           /\ Positioned(look, frame, place, w, h).h = h
<1> DEFINE c == Container(look, frame, place)
<1>1. c.x \in Int /\ c.y \in Int /\ c.w \in Int /\ c.h \in Int
  BY ContainerIs DEF Rects
<1>2. place.halign \in HAligns /\ place.valign \in VAligns /\ place.x \in Int /\ place.y \in Int
  BY DEF Placements, HAligns, VAligns
<1> HIDE DEF c
<1>3. c.x + AnchoredX(c.w, w, place.halign, place.x) \in Int
  BY <1>1, <1>2, AnchoredIsInt
<1>4. c.y + AnchoredY(c.h, h, place.valign, place.y) \in Int
  BY <1>1, <1>2, AnchoredIsInt
<1>5. Positioned(look, frame, place, w, h) =
        Rect(c.x + AnchoredX(c.w, w, place.halign, place.x),
             c.y + AnchoredY(c.h, h, place.valign, place.y), w, h)
  BY DEF Positioned, c
<1> QED
  BY <1>3, <1>4, <1>5 DEF Rect, Rects

-----------------------------------------------------------------------------
(* The prompt and its message. *)

\* Where the prompt is, and who draws it.
PromptFrom(look) == IF Floats(look, "input") THEN "float" ELSE "flow"

PromptRect(look, frame, s) ==
    IF Floats(look, "input") THEN FloatingInputRect(look, frame)
    ELSE InputRect(Metrics(look, frame), frame,
                   Anchors(look, frame, s)["Auth"]
                       + Offset(look, Metrics(look, frame), Sections(look, s, "Auth"), "input"))

PromptDraws(look, frame, s, dynamic) ==
    InputDraws(look, s, PromptFrom(look), PromptRect(look, frame, s), dynamic)

LEMMA FloatingInputIs ==
    ASSUME NEW look, IsLook(look), NEW frame \in FrameSizes, Floats(look, "input")
    PROVE  /\ FloatingInputRect(look, frame) \in Rects
           /\ FloatingInputRect(look, frame).w = Metrics(look, frame).width
           /\ FloatingInputRect(look, frame).h = Metrics(look, frame).height
<1>1. look.at["input"] \in Placements
  BY DEF IsLook, Floats
<1>2. Metrics(look, frame).width \in Int /\ Metrics(look, frame).height \in Int
  BY MetricsAre
<1> QED
  BY <1>1, <1>2, PositionedIs DEF FloatingInputRect

\* The box has the size of the metrics, wherever it is.
LEMMA PromptRectIs ==
    ASSUME NEW look, IsLook(look), NEW frame \in FrameSizes, NEW s
    PROVE  /\ PromptRect(look, frame, s) \in Rects
           /\ PromptRect(look, frame, s).w = Metrics(look, frame).width
           /\ PromptRect(look, frame, s).h = Metrics(look, frame).height
<1>1. CASE Floats(look, "input")
  BY <1>1, FloatingInputIs DEF PromptRect
<1>2. CASE ~Floats(look, "input")
  <2> DEFINE y == Anchors(look, frame, s)["Auth"]
                  + Offset(look, Metrics(look, frame), Sections(look, s, "Auth"), "input")
  <2>1. Anchors(look, frame, s)["Auth"] \in Int
    BY AuthAnchored
  <2>2. Offset(look, Metrics(look, frame), Sections(look, s, "Auth"), "input") \in Nat
    BY OffsetIsNat DEF Flowing
  <2>3. y \in Int
    BY <2>1, <2>2
  <2>4. PromptRect(look, frame, s) = InputRect(Metrics(look, frame), frame, y)
    BY <1>2 DEF PromptRect
  <2> HIDE DEF y
  <2> QED
    BY <2>3, <2>4, InputRectIs
<1> QED
  BY <1>1, <1>2

\* Both passes draw the prompt in that place.
LEMMA PromptIsDrawn ==
    ASSUME NEW look, NEW frame, NEW s, InputShown(look, s)
    PROVE  /\ PromptDraws(look, frame, s, TRUE) \subseteq DirtyPass(look, frame, s)
           /\ PromptDraws(look, frame, s, FALSE) \subseteq StaticPass(look, frame, s)
<1>1. CASE Floats(look, "input")
  <2>1. \A dynamic \in BOOLEAN :
          PromptDraws(look, frame, s, dynamic) \subseteq FloatingInput(look, frame, s, dynamic)
    BY <1>1 DEF PromptDraws, PromptFrom, PromptRect, FloatingInput
  <2>2. PromptDraws(look, frame, s, TRUE) \subseteq FloatingInput(look, frame, s, TRUE)
    BY <2>1
  <2>3. PromptDraws(look, frame, s, FALSE) \subseteq FloatingInput(look, frame, s, FALSE)
    BY <2>1
  <2> QED
    BY <2>2, <2>3 DEF DirtyPass, StaticPass
<1>2. CASE ~Floats(look, "input")
  <2>1. "input" \in Sections(look, s, "Auth")
    BY <1>2 DEF Sections, Flows
  <2> DEFINE y == Anchors(look, frame, s)["Auth"]
                  + Offset(look, Metrics(look, frame), Sections(look, s, "Auth"), "input")
  <2>2. \A dynamic \in BOOLEAN :
          PromptDraws(look, frame, s, dynamic) = SectionDraws(look, frame, s, "input", y, dynamic)
    BY <1>2 DEF PromptDraws, PromptFrom, PromptRect, SectionDraws
  <2>3. \A dynamic \in BOOLEAN :
          SectionDraws(look, frame, s, "input", y, dynamic)
              \subseteq RoleDraws(look, frame, s, "Auth", dynamic)
    BY <2>1 DEF RoleDraws
  <2>4. PromptDraws(look, frame, s, TRUE) \subseteq RoleDraws(look, frame, s, "Auth", TRUE)
    BY <2>2, <2>3
  <2>5. PromptDraws(look, frame, s, FALSE) \subseteq RoleDraws(look, frame, s, "Auth", FALSE)
    BY <2>2, <2>3
  <2> QED
    BY <2>4, <2>5 DEF DirtyPass, StaticPass
<1> QED
  BY <1>1, <1>2

\* The message has a place of its own, in the column or beside the input.
LEMMA StatusHasRect ==
    ASSUME NEW look, IsLook(look), NEW frame \in FrameSizes, NEW s, StatusShown(look, s)
    PROVE  \E d \in DirtyPass(look, frame, s) : d.what = "status" /\ d.at \in Rects
<1>1. look.size["status"].w \in Nat /\ look.size["status"].h \in Nat
  BY DEF IsLook
<1>2. CASE StatusFlows(look, s)
  <2> DEFINE y == Anchors(look, frame, s)["Auth"]
                  + Offset(look, Metrics(look, frame), Sections(look, s, "Auth"), "status")
             r == CentredAt(frame, y, look.size["status"])
  <2>1. "status" \in Sections(look, s, "Auth")
    BY <1>2 DEF Sections, Flows
  <2>2. Anchors(look, frame, s)["Auth"] \in Int
    BY AuthAnchored
  <2>3. Offset(look, Metrics(look, frame), Sections(look, s, "Auth"), "status") \in Nat
    BY OffsetIsNat DEF Flowing
  <2>4. y \in Int
    BY <2>2, <2>3
  <2>5. SectionDraws(look, frame, s, "status", y, TRUE) = {Draws("status", "flow", r)}
    BY DEF SectionDraws, StaticFlow
  <2>6. SectionDraws(look, frame, s, "status", y, TRUE)
            \subseteq RoleDraws(look, frame, s, "Auth", TRUE)
    BY <2>1 DEF RoleDraws
  <2>7. Draws("status", "flow", r) \in DirtyPass(look, frame, s)
    BY <2>5, <2>6 DEF DirtyPass
  <2> HIDE DEF y
  <2>8. r \in Rects
    BY <1>1, <2>4 DEF CentredAt, Rect, Rects, FrameSizes
  <2> QED
    BY <2>7, <2>8 DEF Draws
<1>3. CASE ~StatusFlows(look, s)
  <2> DEFINE r == FloatingStatusRect(look, frame, s)
  <2>1. Draws("status", "float", r) \in DirtyPass(look, frame, s)
    BY <1>3 DEF DirtyPass, FloatingInput
  <2>2. CASE Floats(look, "status")
    <3>1. look.at["status"] \in Placements
      BY <2>2 DEF IsLook, Floats
    <3>2. r = Positioned(look, frame, look.at["status"],
                         look.size["status"].w, look.size["status"].h)
      BY <2>2 DEF FloatingStatusRect
    <3>3. r \in Rects
      BY <1>1, <3>1, <3>2, PositionedIs
    <3> QED
      BY <2>1, <3>3 DEF Draws
  <2>3. CASE ~Floats(look, "status")
    <3>1. Floats(look, "input")
      BY <1>3, <2>3 DEF StatusFlows
    <3> DEFINE input == FloatingInputRect(look, frame)
    <3>2. input \in Rects
      BY <3>1, FloatingInputIs
    <3>3. r = Rect(input.x + Half(input.w - look.size["status"].w),
                  IF look.at["input"].valign = "Bottom"
                  THEN input.y - StatusGap - look.size["status"].h
                  ELSE Bottom(input) + StatusGap,
                  look.size["status"].w, look.size["status"].h)
      BY <2>3 DEF FloatingStatusRect
    <3> HIDE DEF input
    <3>4. /\ input.x + Half(input.w - look.size["status"].w) \in Int
          /\ input.y - StatusGap - look.size["status"].h \in Int
          /\ Bottom(input) + StatusGap \in Int
      BY <1>1, <3>2 DEF Rects, Half, StatusGap, Bottom
    <3>5. r \in Rects
      BY <1>1, <3>3, <3>4 DEF Rect, Rects
    <3> QED
      BY <2>1, <3>5 DEF Draws
  <2> QED
    BY <2>2, <2>3
<1> QED
  BY <1>2, <1>3

\* What is drawn of the prompt reaches beyond its box by 20 at most, where a box is wider
\* than high.
Near(r, p) ==
    /\ r \in Rects
    /\ p.x - 20 <= r.x /\ p.y - 20 <= r.y
    /\ Right(r) <= Right(p) + 20 /\ Bottom(r) <= Bottom(p) + 20

\* The eye and the other signs stay near a box that is not higher than wide.
LEMMA ToggleIsNear ==
    ASSUME NEW p \in Rects, p.h >= 40, p.h <= p.w
    PROVE  Near(ToggleBox(p), p) /\ ToggleBox(p).x <= Right(p)
<1>1. p.x \in Int /\ p.y \in Int /\ p.w \in Int /\ p.h \in Int
  BY DEF Rects
<1> DEFINE room == Greater(p.h - OfInput(p, 8), 1)
           side == Greater(Lesser(OfInput(p, 28), room), OfInput(p, 18))
<1>2. /\ OfInput(p, 8) \in Int /\ OfInput(p, 8) >= 1
      /\ OfInput(p, 28) \in Int /\ OfInput(p, 28) >= 1 /\ 54 * OfInput(p, 28) <= 28 * p.h + 54
      /\ OfInput(p, 18) \in Int /\ OfInput(p, 18) >= 1 /\ 54 * OfInput(p, 18) <= 18 * p.h + 54
      /\ OfInput(p, 14) \in Int /\ OfInput(p, 14) >= 1 /\ 54 * OfInput(p, 14) <= 14 * p.h + 54
  BY <1>1 DEF OfInput, Greater
<1>3. side \in Int /\ side >= 1 /\ 54 * side <= 28 * p.h + 54
  BY <1>1, <1>2 DEF Greater, Lesser
<1> HIDE DEF side
<1> DEFINE t == Right(p) - side - OfInput(p, 14)
           u == p.y + Half(p.h - side)
<1>4. ToggleBox(p) = Rect(t, u, side, side)
  BY DEF ToggleBox, side
<1>5. t \in Int /\ p.x - 20 <= t /\ t + side <= Right(p) /\ t <= Right(p)
  BY <1>1, <1>2, <1>3 DEF Right
<1>6. u \in Int /\ p.y - 20 <= u /\ u + side <= Bottom(p) + 20
  BY <1>1, <1>3 DEF Half, Bottom
<1>7. Right(p) \in Int /\ Bottom(p) \in Int
  BY <1>1 DEF Right, Bottom
<1> HIDE DEF t, u
<1>8. /\ ToggleBox(p) \in Rects /\ ToggleBox(p).x = t /\ ToggleBox(p).y = u
      /\ ToggleBox(p).w = side /\ ToggleBox(p).h = side
  BY <1>3, <1>4, <1>5, <1>6 DEF Rect, Rects
<1> QED
  BY <1>5, <1>6, <1>7, <1>8, <1>3 DEF Near, Right, Bottom

LEMMA ContentIsNear ==
    ASSUME NEW look, NEW s, NEW p \in Rects, p.h >= 40, p.h <= p.w
    PROVE  Near(ContentRect(look, s, p), p)
<1>1. p.x \in Int /\ p.y \in Int /\ p.w \in Int /\ p.h \in Int
  BY DEF Rects
<1>2. Near(p, p)
  BY <1>1 DEF Near, Right, Bottom
<1>3. CASE ~Adorned(look, s)
  BY <1>2, <1>3 DEF ContentRect
<1>4. CASE Adorned(look, s)
  <2> DEFINE w == Greater(ToggleBox(p).x - OfInput(p, 10) - p.x, 0)
  <2>1. ToggleBox(p).x \in Int /\ ToggleBox(p).x <= p.x + p.w
    BY ToggleIsNear DEF Near, Rects, Right
  <2>2. OfInput(p, 10) \in Int /\ OfInput(p, 10) >= 1
    BY <1>1 DEF OfInput, Greater
  <2>3. w \in Int /\ w <= p.w
    BY <1>1, <2>1, <2>2 DEF Greater
  <2>4. ContentRect(look, s, p) = Rect(p.x, p.y, w, p.h)
    BY <1>4 DEF ContentRect
  <2> HIDE DEF w
  <2> QED
    BY <1>1, <2>3, <2>4 DEF Near, Rect, Rects, Right, Bottom
<1> QED
  BY <1>3, <1>4

-----------------------------------------------------------------------------
(* The rectangle of a redraw. *)

\* What is drawn of a prompt is near its box.
LEMMA PromptIsNear ==
    ASSUME NEW look, IsLook(look), NEW frame \in FrameSizes, NEW s, Wide(look, frame),
           NEW dynamic \in BOOLEAN, NEW d \in PromptDraws(look, frame, s, dynamic)
    PROVE  Near(d.at, PromptRect(look, frame, s))
<1> DEFINE p == PromptRect(look, frame, s)
<1>1. p \in Rects /\ p.h >= 40 /\ p.h <= p.w
  BY PromptRectIs, MetricsAre DEF Wide
<1>2. d.at \in {p, ContentRect(look, s, p), ToggleBox(p)}
  BY DEF PromptDraws, InputDraws, Draws
<1> HIDE DEF p
<1>3. Near(p, p)
  BY <1>1 DEF Near, Rects, Right, Bottom
<1>4. Near(d.at, p)
  BY <1>1, <1>2, <1>3, ToggleIsNear, ContentIsNear
<1> QED
  BY <1>4 DEF p

\* The draws of a redraw: the prompt and its message.
LEMMA DirtyIs ==
    ASSUME NEW look, NEW frame, NEW s, NEW d \in DirtyPass(look, frame, s)
    PROVE  \/ InputShown(look, s) /\ d \in PromptDraws(look, frame, s, TRUE)
           \/ StatusShown(look, s) /\ d.what = "status"
<1>1. Once(DirtyPass(look, frame, s), DirtyWants(look, s))
  BY DirtyOnce
<1>2. d.what \in DirtyWants(look, s)
  BY <1>1 DEF Once
<1>3. CASE d.what = "status"
  BY <1>2, <1>3, DirtyWantsAre
<1>4. CASE d.what # "status"
  <2>1. /\ InputShown(look, s)
        /\ d.what \in {"content"} \cup (IF BoxMoves(s) THEN {"box"} ELSE {})
                          \cup (IF Adorned(look, s) THEN {"adornment"} ELSE {})
    BY <1>2, <1>4, DirtyWantsAre
  <2>5. Once(PromptDraws(look, frame, s, TRUE),
             (IF TRUE = BoxMoves(s) THEN {"box"} ELSE {}) \cup {"content"}
             \cup (IF Adorned(look, s) THEN {"adornment"} ELSE {}))
    BY InputOnce, Zenon DEF PromptDraws
  <2>6. \E e \in PromptDraws(look, frame, s, TRUE) : e.what = d.what
    BY <2>1, <2>5 DEF Once
  <2>2. PICK e \in PromptDraws(look, frame, s, TRUE) : e.what = d.what
    BY <2>6
  <2>3. e \in DirtyPass(look, frame, s)
    BY <2>1, PromptIsDrawn
  <2>4. d = e
    BY <1>1, <2>2, <2>3 DEF Once
  <2> QED
    BY <2>1, <2>4
<1> QED
  BY <1>3, <1>4

LEMMA DirtyIsDynamic ==
    ASSUME NEW look, NEW frame, NEW s
    PROVE  DirtyPass(look, frame, s) \subseteq DynamicPass(look, frame, s)
BY DEF DirtyPass, DynamicPass

\* No two draws of a picture are of the same widget.
LEMMA OneOfEach ==
    ASSUME NEW look, IsLook(look), NEW frame, NEW s,
           NEW d \in StaticPass(look, frame, s) \cup DynamicPass(look, frame, s),
           NEW e \in StaticPass(look, frame, s) \cup DynamicPass(look, frame, s),
           d.what = e.what
    PROVE  d = e
<1> DEFINE all == ({"static"} \X StaticPass(look, frame, s))
                      \cup ({"dynamic"} \X DynamicPass(look, frame, s))
<1>1. \A e1, e2 \in all : e1[2].what = e2[2].what => e1 = e2
  BY AllDrawnOnce DEF DrawnOnce
<1>2. PICK a \in all : a[2] = d
  <2>1. <<"static", d>> \in all \/ <<"dynamic", d>> \in all
    OBVIOUS
  <2> HIDE DEF all
  <2> QED
    BY <2>1
<1>3. PICK b \in all : b[2] = e
  <2>1. <<"static", e>> \in all \/ <<"dynamic", e>> \in all
    OBVIOUS
  <2> HIDE DEF all
  <2> QED
    BY <2>1
<1>4. a = b
  BY <1>1, <1>2, <1>3
<1> QED
  BY <1>2, <1>3, <1>4

\* Box and message are drawn only while they are shown.
LEMMA WidgetIsWanted ==
    ASSUME NEW look, IsLook(look), NEW frame, NEW s,
           NEW d \in StaticPass(look, frame, s) \cup DynamicPass(look, frame, s)
    PROVE  /\ d.what = "box" => InputShown(look, s)
           /\ d.what = "status" => StatusShown(look, s)
<1>1. d.what \in Wanted(look, s)
  <2>1. Once(StaticPass(look, frame, s), StaticWants(look, s))
    BY StaticOnce
  <2>2. Once(DynamicPass(look, frame, s), DynamicWants(look, s))
    BY DynamicOnce
  <2>3. d.what \in StaticWants(look, s) \cup DynamicWants(look, s)
    BY <2>1, <2>2 DEF Once
  <2> QED
    BY <2>3, TogetherTheyDraw
<1>2. "box" \notin look.on
  BY DEF IsLook, Widgets, Header, Identity, Corner, Weather, Player
<1>3. \A i \in DOMAIN look.power : look.power[i].name \notin {"box", "status"}
  <2>1. \A i \in DOMAIN look.power : look.power[i].name \in {"suspend", "reboot", "poweroff"}
    BY DEF IsLook, PowerRecords
  <2> QED
    BY <2>1
<1> QED
  BY <1>1, <1>2, <1>3 DEF Wanted

\* The rectangle is that of at most two: the box, with its margin, and the message.
LEMMA DirtyPartsAre ==
    ASSUME NEW look, IsLook(look), NEW frame \in FrameSizes, NEW s
    PROVE  \E A, B \in Rects :
              /\ DirtyParts(look, frame, s) \subseteq {A, B}
              /\ InputShown(look, s) =>
                    Inflated(PromptRect(look, frame, s), 8) \in DirtyParts(look, frame, s)
              /\ \A d \in DirtyPass(look, frame, s) : d.what = "status" =>
                    d.at \in Rects /\ d.at \in DirtyParts(look, frame, s)
<1> DEFINE all == StaticPass(look, frame, s) \cup DynamicPass(look, frame, s)
           p == PromptRect(look, frame, s)
           A == Inflated(p, 8)
           box == Draws("box", PromptFrom(look), p)
<1>1. A \in Rects
  <2>1. p \in Rects
    BY PromptRectIs
  <2> HIDE DEF p
  <2>2. /\ p.x - 8 \in Int /\ p.y - 8 \in Int /\ p.w + 2 * 8 \in Int /\ p.h + 2 * 8 \in Int
    BY <2>1 DEF Rects
  <2> QED
    BY <2>1, <2>2 DEF Inflated, Rect, Rects
<1>2. InputShown(look, s) => box \in all
  <2>1. SUFFICES ASSUME InputShown(look, s) PROVE box \in all
    OBVIOUS
  <2>2. PromptDraws(look, frame, s, TRUE) \cup PromptDraws(look, frame, s, FALSE) \subseteq all
    BY <2>1, PromptIsDrawn, DirtyIsDynamic
  <2>3. box \in PromptDraws(look, frame, s, TRUE) \cup PromptDraws(look, frame, s, FALSE)
    <3>1. CASE BoxMoves(s)
      BY <3>1 DEF PromptDraws, InputDraws
    <3>2. CASE ~BoxMoves(s)
      BY <3>2 DEF PromptDraws, InputDraws
    <3> QED
      BY <3>1, <3>2
  <2> QED
    BY <2>2, <2>3
<1>3. PICK B \in Rects : \A d \in all : d.what = "status" => d.at = B
  <2>1. CASE StatusShown(look, s)
    <3>1. PICK e \in DirtyPass(look, frame, s) : e.what = "status" /\ e.at \in Rects
      BY <2>1, StatusHasRect
    <3>2. e \in all
      BY DirtyIsDynamic
    <3>3. \A d \in all : d.what = "status" => d = e
      BY <3>1, <3>2, OneOfEach
    <3> QED
      BY <3>1, <3>3
  <2>2. CASE ~StatusShown(look, s)
    <3>1. \A d \in all : d.what # "status"
      BY <2>2, WidgetIsWanted
    <3> QED
      BY <1>1, <3>1
  <2> QED
    BY <2>1, <2>2
<1>4. \A d \in all : d.what = "box" => d = box
  <2>1. SUFFICES ASSUME NEW d \in all, d.what = "box" PROVE d = box
    OBVIOUS
  <2>2. InputShown(look, s)
    BY <2>1, WidgetIsWanted
  <2>3. box \in all /\ box.what = "box"
    BY <1>2, <2>2 DEF Draws
  <2> HIDE DEF box
  <2> QED
    BY <2>1, <2>3, OneOfEach
<1>5. box.at = p /\ box.what = "box"
  BY DEF Draws
<1> HIDE DEF box
<1>6. DirtyParts(look, frame, s) \subseteq {A, B}
  <2>1. SUFFICES ASSUME NEW r \in DirtyParts(look, frame, s) PROVE r \in {A, B}
    OBVIOUS
  <2>2. PICK d \in all : /\ d.what \in {"box", "status"}
                         /\ r = IF d.what = "box" THEN Inflated(d.at, 8) ELSE d.at
    BY DEF DirtyParts
  <2>3. CASE d.what = "box"
    BY <1>4, <1>5, <2>2, <2>3
  <2>4. CASE d.what = "status"
    BY <1>3, <2>2, <2>4
  <2> QED
    BY <2>2, <2>3, <2>4
<1>7. InputShown(look, s) => A \in DirtyParts(look, frame, s)
  BY <1>2, <1>5 DEF DirtyParts
<1>8. \A d \in DirtyPass(look, frame, s) : d.what = "status" =>
        d.at \in Rects /\ d.at \in DirtyParts(look, frame, s)
  <2>1. SUFFICES ASSUME NEW d \in DirtyPass(look, frame, s), d.what = "status"
                 PROVE  d.at \in Rects /\ d.at \in DirtyParts(look, frame, s)
    OBVIOUS
  <2>2. d \in all
    BY DirtyIsDynamic
  <2>3. d.at = B
    BY <1>3, <2>1, <2>2
  <2>4. d.at \in DirtyParts(look, frame, s)
    BY <2>1, <2>2 DEF DirtyParts
  <2> QED
    BY <2>3, <2>4
<1> QED
  BY <1>1, <1>3, <1>6, <1>7, <1>8

\* A redraw of the prompt stays in the rectangle that was copied back.
LEMMA CoveredWhenWide ==
    ASSUME NEW look, IsLook(look), NEW frame \in FrameSizes, NEW s, Wide(look, frame)
    PROVE  DirtyCovers(look, frame, s)
<1> DEFINE p == PromptRect(look, frame, s)
           q == Inflated(p, 8)
           parts == DirtyParts(look, frame, s)
<1>1. PICK A \in Rects, B \in Rects :
        /\ parts \subseteq {A, B}
        /\ InputShown(look, s) => q \in parts
        /\ \A d \in DirtyPass(look, frame, s) :
              d.what = "status" => d.at \in Rects /\ d.at \in parts
  BY DirtyPartsAre
<1>2. p \in Rects /\ p.w >= 180 /\ p.h >= 40
  BY PromptRectIs, MetricsAre
<1> HIDE DEF parts
<1>3. /\ q.x = p.x - 8 /\ q.y = p.y - 8 /\ Right(q) = Right(p) + 8 /\ Bottom(q) = Bottom(p) + 8
      /\ ~Empty(q)
  <2> HIDE DEF p
  <2>1. /\ p.x \in Int /\ p.y \in Int /\ p.w \in Int /\ p.h \in Int
    BY <1>2 DEF Rects
  <2>2. q = Rect(p.x - 8, p.y - 8, p.w + 16, p.h + 16)
    BY <1>2, <2>1 DEF Inflated, Empty
  <2> HIDE DEF q
  <2> QED
    BY <1>2, <2>1, <2>2 DEF Rect, Right, Bottom, Empty
<1>4. ASSUME NEW d \in DirtyPass(look, frame, s)
      PROVE  Within(Clipped(d.at, frame), Clipped(Inflated(UnionOf(parts), 12), frame))
  <2>1. CASE InputShown(look, s) /\ d \in PromptDraws(look, frame, s, TRUE)
    <3>1. Near(d.at, p)
      BY <2>1, PromptIsNear
    <3>2. q \in parts
      BY <1>1, <2>1
    <3>3. q \in Rects
      BY <1>1, <3>2
    <3> HIDE DEF p, q
    <3>4. /\ d.at \in Rects
          /\ q.x - 12 <= d.at.x /\ q.y - 12 <= d.at.y
          /\ Right(d.at) <= Right(q) + 12 /\ Bottom(d.at) <= Bottom(q) + 12
      <4>1. /\ p.x \in Int /\ p.y \in Int /\ Right(p) \in Int /\ Bottom(p) \in Int
        BY <1>2 DEF Rects, Right, Bottom
      <4>2. d.at \in Rects
        BY <3>1 DEF Near
      <4>3. /\ d.at.x \in Int /\ d.at.y \in Int /\ Right(d.at) \in Int /\ Bottom(d.at) \in Int
        BY <4>2 DEF Rects, Right, Bottom
      <4>4. /\ p.x - 20 <= d.at.x /\ p.y - 20 <= d.at.y
            /\ Right(d.at) <= Right(p) + 20 /\ Bottom(d.at) <= Bottom(p) + 20
        BY <3>1 DEF Near
      <4> QED
        BY <1>3, <4>1, <4>2, <4>3, <4>4
    <3> QED
      BY <1>1, <1>3, <3>2, <3>4, CopyCovers
  <2>2. CASE StatusShown(look, s) /\ d.what = "status"
    <3>1. d.at \in Rects /\ d.at \in parts
      BY <1>1, <2>2
    <3>2. CASE Empty(d.at)
      BY <3>1, <3>2, EmptyIsWithin
    <3>3. CASE ~Empty(d.at)
      <4>1. /\ d.at.x - 12 <= d.at.x /\ d.at.y - 12 <= d.at.y
            /\ Right(d.at) <= Right(d.at) + 12 /\ Bottom(d.at) <= Bottom(d.at) + 12
        BY <3>1 DEF Rects, Right, Bottom
      <4> QED
        BY <1>1, <3>1, <3>3, <4>1, CopyCovers
    <3> QED
      BY <3>2, <3>3
  <2> QED
    BY <2>1, <2>2, DirtyIs
<1> QED
  BY <1>4 DEF DirtyCovers, DirtyRect, parts

-----------------------------------------------------------------------------
(* The cached layer. *)

\* Two shells that agree in what the layer shows of them.
SameBase(s, t) == s.revealed = t.revealed /\ (BoxMoves(s) <=> BoxMoves(t))

LEMMA SameShown ==
    ASSUME NEW look, NEW s, NEW t, SameBase(s, t)
    PROVE  /\ InputShown(look, s) <=> InputShown(look, t)
           /\ IdentityShown(look, s) <=> IdentityShown(look, t)
           /\ Sections(look, s, "Hero") = Sections(look, t, "Hero")
           /\ Sections(look, s, "Auth") \ {"status"} = Sections(look, t, "Auth") \ {"status"}
<1>1. InputShown(look, s) <=> InputShown(look, t)
  BY DEF SameBase, InputShown
<1>2. IdentityShown(look, s) <=> IdentityShown(look, t)
  BY DEF SameBase, IdentityShown
<1>3. \A w \in {"clock", "date", "avatar", "username", "input"} :
        Flows(look, s, w) <=> Flows(look, t, w)
  BY <1>1, <1>2 DEF Flows
<1>4. Sections(look, s, "Hero") = Sections(look, t, "Hero")
  BY <1>3 DEF Sections
<1>5. Sections(look, s, "Auth") \ {"status"} = Sections(look, t, "Auth") \ {"status"}
  BY <1>3 DEF Sections
<1> QED
  BY <1>1, <1>2, <1>4, <1>5

\* The status is the last of the middle column.
LEMMA SameOffset ==
    ASSUME NEW look, NEW m, NEW S, NEW T, S \ {"status"} = T \ {"status"},
           NEW w \in {"avatar", "username", "input"}
    PROVE  Offset(look, m, S, w) = Offset(look, m, T, w)
<1>1. \A v \in {"avatar", "username"} : v \in S <=> v \in T
  OBVIOUS
<1>2. \A v \in {"avatar", "username"} : Extent(look, m, S, v) = Extent(look, m, T, v)
  BY <1>1 DEF Extent, GapAfter
<1> QED
  BY <1>2 DEF Offset

\* The message does not move what is above it, unless there is no room for it.
LEMMA SameAnchor ==
    ASSUME NEW look, IsLook(look), NEW frame \in FrameSizes, NEW s, NEW t, SameBase(s, t),
           HasRoom(look, frame, s), HasRoom(look, frame, t),
           ~(Sections(look, s, "Auth") \subseteq {"status"})
    PROVE  Anchors(look, frame, s)["Auth"] = Anchors(look, frame, t)["Auth"]
<1> DEFINE S == Sections(look, s, "Auth")
           T == Sections(look, t, "Auth")
<1>1. S \ {"status"} = T \ {"status"} /\ ~(T \subseteq {"status"})
  BY SameShown
<1>2. AuthAnchor(look, frame, s) = AuthAnchor(look, frame, t)
  BY <1>1 DEF AuthAnchor, AnchorHeight
<1>3. HeroHeight(look, frame, s) = HeroHeight(look, frame, t)
  BY SameShown DEF HeroHeight
<1>4. Highest(look, frame, s) = Highest(look, frame, t)
  BY <1>2, <1>3 DEF Highest
<1>5. ASSUME NEW u \in {s, t}
      PROVE  Anchors(look, frame, u)["Auth"]
                = Greater(frame.h \div 2 - AuthAnchor(look, frame, u) \div 2,
                          Highest(look, frame, u))
  <2> DEFINE top == Anchors(look, frame, u)["Auth"]
             render == AuthHeight(look, frame, u)
  <2>1. /\ top \in Int
        /\ top < frame.h - render - 24 =>
              top = Greater(frame.h \div 2 - AuthAnchor(look, frame, u) \div 2,
                            Highest(look, frame, u))
    BY AuthAnchored
  <2>2. top + render + 24 < frame.h
    BY DEF HasRoom, AuthHeight
  <2>3. render \in Nat /\ frame.h \in Nat
    BY HeightsAre DEF FrameSizes
  <2>4. top < frame.h - render - 24
    <3> HIDE DEF top, render
    <3> QED
      BY <2>1, <2>2, <2>3
  <2> QED
    BY <2>1, <2>4
<1>6. /\ Anchors(look, frame, s)["Auth"]
            = Greater(frame.h \div 2 - AuthAnchor(look, frame, s) \div 2, Highest(look, frame, s))
      /\ Anchors(look, frame, t)["Auth"]
            = Greater(frame.h \div 2 - AuthAnchor(look, frame, t) \div 2, Highest(look, frame, t))
  BY <1>5
<1> QED
  BY <1>2, <1>4, <1>6

AboveStatus == {"avatar", "username", "input"}

StaticSection(look, frame, s, w, y) == SectionDraws(look, frame, s, w, y, FALSE)

LEMMA SameDraws ==
    ASSUME NEW look, NEW frame, NEW s, NEW t, SameBase(s, t),
           NEW w \in AboveStatus, NEW y
    PROVE  StaticSection(look, frame, s, w, y) = StaticSection(look, frame, t, w, y)
<1>1. \A from, rect :
        InputDraws(look, s, from, rect, FALSE) = InputDraws(look, t, from, rect, FALSE)
  BY DEF SameBase, InputDraws
<1> QED
  BY <1>1 DEF StaticSection, SectionDraws, StaticFlow, AboveStatus

LEMMA StatusIsDynamic ==
    ASSUME NEW look, NEW frame, NEW s, NEW y
    PROVE  SectionDraws(look, frame, s, "status", y, FALSE) = {}
BY DEF SectionDraws, StaticFlow

\* What the static pass draws of the middle column of s, it draws of that of t.
LEMMA SameColumn ==
    ASSUME NEW look, IsLook(look), NEW frame \in FrameSizes, NEW s, NEW t, SameBase(s, t),
           HasRoom(look, frame, s), HasRoom(look, frame, t),
           NEW d \in RoleDraws(look, frame, s, "Auth", FALSE)
    PROVE  d \in RoleDraws(look, frame, t, "Auth", FALSE)
<1> DEFINE S == Sections(look, s, "Auth")
           T == Sections(look, t, "Auth")
           m == Metrics(look, frame)
           tops == Anchors(look, frame, s)["Auth"]
           topt == Anchors(look, frame, t)["Auth"]
<1>1. PICK w \in S : d \in SectionDraws(look, frame, s, w, tops + Offset(look, m, S, w), FALSE)
  BY DEF RoleDraws
<1>2. w # "status"
  BY <1>1, StatusIsDynamic
<1>3. w \in {"avatar", "username", "input"}
  BY <1>1, <1>2 DEF Sections
<1>4. w \in T /\ S \ {"status"} = T \ {"status"}
  BY <1>1, <1>2, SameShown
<1>5. tops = topt
  BY <1>1, <1>2, SameAnchor
<1>6. Offset(look, m, S, w) = Offset(look, m, T, w)
  BY <1>3, <1>4, SameOffset
<1> DEFINE y == tops + Offset(look, m, S, w)
<1>11. d \in SectionDraws(look, frame, s, w, y, FALSE)
  BY <1>1
<1>8. y = topt + Offset(look, m, T, w)
  BY <1>5, <1>6
<1> HIDE DEF y, S, m, tops, topt
<1>12. w \in AboveStatus
  BY <1>3 DEF AboveStatus
<1>7. StaticSection(look, frame, s, w, y) = StaticSection(look, frame, t, w, y)
  BY <1>12, SameDraws
<1>9. d \in SectionDraws(look, frame, t, w, y, FALSE)
  BY ONLY <1>11, <1>7 DEF StaticSection
<1>10. d \in SectionDraws(look, frame, t, w, topt + Offset(look, m, T, w), FALSE)
  BY ONLY <1>8, <1>9
<1> QED
  BY <1>4, <1>10 DEF RoleDraws, m, topt

\* A cached layer serves every shell that agrees in what it shows.
LEMMA SameLayerWithRoom ==
    ASSUME NEW look, IsLook(look), NEW frame \in FrameSizes, NEW s, NEW t, SameBase(s, t),
           HasRoom(look, frame, s), HasRoom(look, frame, t)
    PROVE  SameLayer(look, frame, s, t)
<1>1. FloatingIdentity(look, frame, s) = FloatingIdentity(look, frame, t)
  BY SameShown DEF FloatingIdentity
<1>2. FloatingInput(look, frame, s, FALSE) = FloatingInput(look, frame, t, FALSE)
  <2>1. InputShown(look, s) <=> InputShown(look, t)
    BY SameShown
  <2>2. \A from, rect :
          InputDraws(look, s, from, rect, FALSE) = InputDraws(look, t, from, rect, FALSE)
    BY DEF SameBase, InputDraws
  <2> QED
    BY <2>1, <2>2 DEF FloatingInput
<1>3. \A u : RoleDraws(look, frame, u, "Hero", FALSE) = {}
  <2>1. SUFFICES ASSUME NEW u PROVE RoleDraws(look, frame, u, "Hero", FALSE) = {}
    OBVIOUS
  <2>2. Once(RoleDraws(look, frame, u, "Hero", FALSE), RoleWants(look, u, "Hero", FALSE))
    BY RoleOnce
  <2>3. RoleWants(look, u, "Hero", FALSE) = {}
    BY HeroWants
  <2> QED
    BY <2>2, <2>3 DEF Once
<1>4. SameBase(t, s)
  BY DEF SameBase
<1>5. RoleDraws(look, frame, s, "Auth", FALSE) = RoleDraws(look, frame, t, "Auth", FALSE)
  <2>1. \A d \in RoleDraws(look, frame, s, "Auth", FALSE) :
          d \in RoleDraws(look, frame, t, "Auth", FALSE)
    BY SameColumn, Zenon
  <2>2. \A d \in RoleDraws(look, frame, t, "Auth", FALSE) :
          d \in RoleDraws(look, frame, s, "Auth", FALSE)
    BY <1>4, SameColumn, Zenon
  <2> QED
    BY <2>1, <2>2
<1> QED
  BY <1>1, <1>2, <1>3, <1>5, Zenon DEF SameLayer, StaticPass

LEMMA LayerOfAgrees ==
    ASSUME NEW s
    PROVE  SameBase(s, WithLayerOf(s))
BY DEF SameBase, WithLayerOf, BoxMoves

-----------------------------------------------------------------------------
(* Prepared backdrops. *)

\* PreparedRect, along one axis
PreparedStart(align, length, size, offset) ==
    CASE align \in {"Left", "Top"} -> offset
      [] align = "Center" -> Half(length - size) + offset
      [] OTHER -> length - size + offset

Close(n, m, even) == n - m \in -1..1 /\ (even => n = m)

\* The two ways of centring differ by one at most, and only on odd sizes.
LEMMA StartsAgree ==
    ASSUME NEW length \in Nat, NEW size \in Nat, NEW offset \in Int
    PROVE  /\ \A align \in HAligns :
                 Close(PreparedStart(align, length, size, offset),
                       AnchoredX(length, size, align, offset), length % 2 = 0 /\ size % 2 = 0)
           /\ \A align \in VAligns :
                 Close(PreparedStart(align, length, size, offset),
                       AnchoredY(length, size, align, offset), length % 2 = 0 /\ size % 2 = 0)
<1> DEFINE c == Half(length - size) + offset
           d == length \div 2 - size \div 2 + offset
           even == length % 2 = 0 /\ size % 2 = 0
<1>1. Close(c, d, even)
  BY DEF Close, Half
<1>2. Close(offset, offset, even)
  BY DEF Close
<1>3. Close(length - size + offset, length - size + offset, even)
  BY DEF Close
<1>4. ASSUME NEW align \in HAligns
      PROVE  Close(PreparedStart(align, length, size, offset),
                   AnchoredX(length, size, align, offset), even)
  BY <1>1, <1>2, <1>3 DEF PreparedStart, AnchoredX, HAligns
<1>5. ASSUME NEW align \in VAligns
      PROVE  Close(PreparedStart(align, length, size, offset),
                   AnchoredY(length, size, align, offset), even)
  BY <1>1, <1>2, <1>3 DEF PreparedStart, AnchoredY, VAligns
<1> QED
  BY <1>4, <1>5

LEMMA PreparedWhereDrawn ==
    ASSUME NEW look, IsLook(look), NEW frame \in FrameSizes
    PROVE  PreparedIsDrawn(look, frame)
<1>1. ASSUME NEW b \in BackdropRecords
      PROVE  /\ Close(PreparedRect(frame, b).x, BackdropRect(frame, b).x,
                      frame.w % 2 = 0 /\ b.w % 2 = 0)
             /\ Close(PreparedRect(frame, b).y, BackdropRect(frame, b).y,
                      frame.h % 2 = 0 /\ b.h % 2 = 0)
  <2> DEFINE r == BackdropRect(frame, b)
             px == IF b.fullWidth THEN r.x ELSE PreparedStart(b.halign, frame.w, b.w, b.x)
             py == IF b.fullHeight THEN r.y ELSE PreparedStart(b.valign, frame.h, b.h, b.y)
  <2>1. /\ b.w \in Nat /\ b.h \in Nat /\ b.x \in Int /\ b.y \in Int
        /\ b.halign \in HAligns /\ b.valign \in VAligns
    BY DEF BackdropRecords, HAligns, VAligns
  <2>2. frame.w \in Nat /\ frame.h \in Nat
    BY DEF FrameSizes
  <2>3. r.x \in Int /\ r.y \in Int
    BY BackdropIs DEF Rects
  <2>4. /\ ~b.fullWidth => r.x = AnchoredX(frame.w, b.w, b.halign, b.x)
        /\ ~b.fullHeight => r.y = AnchoredY(frame.h, b.h, b.valign, b.y)
    BY DEF BackdropRect, Rect
  <2>5. PreparedRect(frame, b) = [r EXCEPT !.x = px, !.y = py]
    BY DEF PreparedRect, PreparedStart
  <2>6. r = [x |-> r.x, y |-> r.y, w |-> r.w, h |-> r.h]
    BY DEF BackdropRect, Rect
  <2> HIDE DEF r
  <2>7. PreparedRect(frame, b).x = px /\ PreparedRect(frame, b).y = py
    BY <2>5, <2>6
  <2>8. Close(px, r.x, frame.w % 2 = 0 /\ b.w % 2 = 0)
    <3>1. CASE b.fullWidth
      BY <2>3, <3>1 DEF Close
    <3>2. CASE ~b.fullWidth
      BY <2>1, <2>2, <2>4, <3>2, StartsAgree
    <3> QED
      BY <3>1, <3>2
  <2>9. Close(py, r.y, frame.h % 2 = 0 /\ b.h % 2 = 0)
    <3>1. CASE b.fullHeight
      BY <2>3, <3>1 DEF Close
    <3>2. CASE ~b.fullHeight
      BY <2>1, <2>2, <2>4, <3>2, StartsAgree
    <3> QED
      BY <3>1, <3>2
  <2> QED
    BY <2>7, <2>8, <2>9 DEF r
<1>2. \A i \in DOMAIN look.backdrops : look.backdrops[i] \in BackdropRecords
  BY DEF IsLook
<1> QED
  BY <1>1, <1>2 DEF PreparedIsDrawn, Close

-----------------------------------------------------------------------------
(* The emergency UI. *)

PartIs(d, what, x, y, w, h) ==
    d.what = what /\ d.at.x = x /\ d.at.y = y /\ d.at.w = w /\ d.at.h = h

\* From where to where a part reaches.
Band(d, what, from, to) == d.what = what /\ d.at.y = from /\ Bottom(d.at) = to

\* On a frame of 260 by 184 logical pixels the emergency prompt is whole.
LEMMA EmergencyHasRoom ==
    ASSUME NEW frame \in FrameSizes, NEW k \in Nat,
           frame.w >= 260 * k, frame.h >= 184 * k, NEW s
    PROVE  EmergencyFits(frame, k, s)
<1> DEFINE input == EmergencyInput(frame, k)
<1>1. frame.w \in Nat /\ frame.h \in Nat
  BY DEF FrameSizes
<1> DEFINE width == Clamp(frame.w - 64 * k, 260 * k, 440 * k)
           x == frame.w \div 2 - width \div 2
           y == frame.h \div 2 - 28 * k + 22 * k
<1>2. width \in Int /\ width >= 260 * k /\ width <= frame.w
  BY <1>1 DEF Clamp
<1>3. input = Rect(x, y, width, 56 * k)
  BY DEF EmergencyInput
<1> HIDE DEF width
<1>4. x \in Int /\ x >= 0 /\ x + width <= frame.w
  BY <1>1, <1>2
<1>5. y \in Int /\ y - 72 * k >= 0 /\ y + 98 * k <= frame.h
  BY <1>1
<1> HIDE DEF x, y, input
<1> DEFINE Part(what, from, height) == Draws(what, "emergency", Rect(x, from, width, height))
           title == Part("title", y - 72 * k, 38 * k)
           hint == Part("hint", y - 34 * k, 34 * k)
           box == Part("box", y, 56 * k)
           content == Part("content", y, 56 * k)
           status == Part("status", y + 74 * k, 24 * k)
           parts == {title, hint, box, content, status}
<1>6. /\ input.x = x /\ input.y = y /\ input.w = width /\ input.h = 56 * k
      /\ Bottom(input) + 18 * k = y + 74 * k /\ frame.w \div 2 - input.w \div 2 = x
  BY <1>2, <1>3, <1>5 DEF Rect, Bottom, x
<1>7. /\ EmergencyStatic(frame, k) = {title, hint, box}
      /\ EmergencyDynamic(frame, k, s)
            = {content} \cup (IF EmergencyMessage(s) THEN {status} ELSE {})
  BY <1>3, <1>6 DEF EmergencyStatic, EmergencyDynamic, Line, input
<1>8. EmergencyStatic(frame, k) \cup EmergencyDynamic(frame, k, s) \subseteq parts
  BY <1>7
<1>9. /\ PartIs(title, "title", x, y - 72 * k, width, 38 * k)
      /\ PartIs(hint, "hint", x, y - 34 * k, width, 34 * k)
      /\ PartIs(box, "box", x, y, width, 56 * k)
      /\ PartIs(content, "content", x, y, width, 56 * k)
      /\ PartIs(status, "status", x, y + 74 * k, width, 24 * k)
  BY DEF PartIs, Draws, Rect
<1> HIDE DEF title, hint, box, content, status
<1>13. /\ Band(title, "title", y - 72 * k, y - 34 * k) /\ Band(hint, "hint", y - 34 * k, y)
       /\ Band(box, "box", y, y + 56 * k) /\ Band(content, "content", y, y + 56 * k)
       /\ Band(status, "status", y + 74 * k, y + 98 * k)
  <2>1. /\ y - 72 * k + 38 * k = y - 34 * k /\ y - 34 * k + 34 * k = y
        /\ y + 74 * k + 24 * k = y + 98 * k
    BY <1>5
  <2> QED
    BY ONLY <1>9, <2>1 DEF PartIs, Band, Bottom
<1>14. \A d \in parts : d.at.x = x /\ Right(d.at) = x + width
  BY <1>9 DEF PartIs, Right
<1>11. ASSUME NEW d \in parts
       PROVE  Within(d.at, WholeFrame(frame))
  <2>1. /\ WholeFrame(frame).x = 0 /\ WholeFrame(frame).y = 0
        /\ Right(WholeFrame(frame)) = frame.w /\ Bottom(WholeFrame(frame)) = frame.h
    BY <1>1 DEF WholeFrame, Rect, Right, Bottom
  <2>2. d.at.y >= 0 /\ Bottom(d.at) <= frame.h
    <3>1. d \in {title, hint, box, content, status}
      BY DEF parts
    <3>2. y - 34 * k \in Int /\ y + 74 * k \in Int
      BY <1>5
    <3> QED
      BY <1>1, <1>5, <1>13, <3>1, <3>2 DEF Band
  <2>3. d.at.x >= 0 /\ Right(d.at) <= frame.w
    BY <1>4, <1>14
  <2> QED
    BY <2>1, <2>2, <2>3 DEF Within
<1>12. ASSUME NEW d \in parts, NEW o \in parts, o # d
       PROVE  \/ {d.what, o.what} = {"box", "content"}
              \/ Bottom(d.at) <= o.at.y \/ Bottom(o.at) <= d.at.y
  <2>1. d \in {title, hint, box, content, status} /\ o \in {title, hint, box, content, status}
    BY DEF parts
  <2>2. CASE d \in {box, content} /\ o \in {box, content}
    BY <1>12, <1>13, <2>2 DEF Band
  <2>3. CASE d \notin {box, content} \/ o \notin {box, content}
    BY <1>5, <1>12, <1>13, <2>1, <2>3 DEF Band
  <2> QED
    BY <2>2, <2>3
<1> QED
  BY <1>8, <1>11, <1>12 DEF EmergencyFits

-----------------------------------------------------------------------------
(* Looks on outputs of every scale. *)

LEMMA ProductsAre ==
    /\ \A a \in Int, k \in Nat : a * k \in Int
    /\ \A a \in Nat, k \in Nat : a * k \in Nat
<1>1. ASSUME NEW a \in Nat, NEW k \in Nat PROVE a * k >= 0
  OBVIOUS
<1> QED
  BY <1>1

\* Scaling keeps the order of sizes.
LEMMA ProductsGrow ==
    ASSUME NEW a \in Nat, NEW b \in Nat, a >= b, NEW k \in Nat
    PROVE  a * k >= b * k
<1>1. a * k - b * k = (a - b) * k
  OBVIOUS
<1>2. a - b \in Nat
  OBVIOUS
<1>3. (a - b) * k \in Nat
  BY <1>2, ProductsAre
<1>4. a * k \in Nat /\ b * k \in Nat
  BY ProductsAre
<1> QED
  BY <1>1, <1>3, <1>4

LEMMA PhysicalIs ==
    ASSUME NEW frame \in Frames, NEW k \in Scales
    PROVE  /\ Physical(frame, k) \in FrameSizes
           /\ Physical(frame, k).w >= 260 * k /\ Physical(frame, k).h >= 184 * k
<1>1. k \in Nat
  BY ScalesAssumption
<1>2. frame.w \in Nat /\ frame.h \in Nat /\ frame.w >= 260 /\ frame.h >= 184
  BY FramesAssumption
<1>3. frame.w * k \in Nat /\ frame.h * k \in Nat
  BY <1>1, <1>2, ProductsAre
<1>4. frame.w * k >= 260 * k /\ frame.h * k >= 184 * k
  BY <1>1, <1>2, ProductsGrow
<1> QED
  BY <1>3, <1>4 DEF Physical, FrameSizes

LEMMA ScaledPlaceIs ==
    ASSUME NEW p \in Placements, NEW k \in Nat
    PROVE  ScaledPlace(p, k) \in Placements
<1>1. p.x * k \in Int /\ p.y * k \in Int
  BY ProductsAre DEF Placements
<1> QED
  BY <1>1 DEF ScaledPlace, Placements

LEMMA ScaledBackdropIs ==
    ASSUME NEW b \in BackdropRecords, NEW k \in Nat
    PROVE  ScaledBackdrop(b, k) \in BackdropRecords
<1>1. /\ b.x * k \in Int /\ b.y * k \in Int
      /\ b.w * k \in Nat /\ b.h * k \in Nat /\ b.inset * k \in Nat
  BY ProductsAre DEF BackdropRecords
<1> QED
  BY <1>1 DEF ScaledBackdrop, BackdropRecords

LEMMA TimesIs ==
    ASSUME NEW n \in Int, NEW k \in Nat
    PROVE  Times(n, k) \in Int
<1>1. n * k \in Int
  BY ProductsAre
<1> QED
  BY <1>1 DEF Times, Unset

ScaledButton(b, k) ==
    [b EXCEPT !.bg = Times(@, k), !.icon = @ * k, !.at = ScaledPlace(@, k)]

LEMMA ScaledButtonIs ==
    ASSUME NEW b \in PowerRecords, NEW k \in Nat
    PROVE  ScaledButton(b, k) \in PowerRecords /\ ScaledButton(b, k).name = b.name
<1>1. /\ Times(b.bg, k) \in Int /\ b.icon * k \in Int /\ ScaledPlace(b.at, k) \in Placements
  BY TimesIs, ProductsAre, ScaledPlaceIs DEF PowerRecords
<1> QED
  BY <1>1 DEF ScaledButton, PowerRecords

\* A look that is scaled is a look.
LEMMA ScaledIsLook ==
    ASSUME NEW look, IsLook(look), NEW k \in Nat
    PROVE  IsLook(Scaled(look, k))
<1> DEFINE big == Scaled(look, k)
<1>1. DOMAIN look = LookFields
  BY DEF IsLook
<1>2. /\ DOMAIN big = LookFields
      /\ big.on = look.on
      /\ big.at = [w \in DOMAIN look.at |-> ScaledPlace(look.at[w], k)]
      /\ big.size = [w \in DOMAIN look.size |->
                       [w |-> look.size[w].w * k, h |-> look.size[w].h * k]]
      /\ big.backdrops = [i \in DOMAIN look.backdrops |-> ScaledBackdrop(look.backdrops[i], k)]
      /\ big.power = [i \in DOMAIN look.power |-> ScaledButton(look.power[i], k)]
      /\ big.input = [w |-> Times(look.input.w, k), h |-> Times(look.input.h, k)]
      /\ big.avatar = Times(look.avatar, k)
      /\ big.gap = [w \in DOMAIN look.gap |-> look.gap[w] * k]
  BY <1>1 DEF Scaled, LookFields, ScaledButton
<1> HIDE DEF big
<1>3. \A w \in DOMAIN big.at : big.at[w] \in Placements
  <2>1. \A w \in DOMAIN look.at : look.at[w] \in Placements
    BY DEF IsLook
  <2> QED
    BY <1>2, <2>1, ScaledPlaceIs
<1>4. /\ DOMAIN big.size = DOMAIN look.size
      /\ \A w \in DOMAIN big.size : big.size[w] \in [w: Nat, h: Nat]
  <2>1. \A w \in DOMAIN look.size : look.size[w].w \in Nat /\ look.size[w].h \in Nat
    BY DEF IsLook
  <2>2. \A w \in DOMAIN look.size : look.size[w].w * k \in Nat /\ look.size[w].h * k \in Nat
    BY <2>1, ProductsAre
  <2> QED
    BY <1>2, <2>2
<1>5. \A i \in DOMAIN big.backdrops : i \in Nat /\ big.backdrops[i] \in BackdropRecords
  <2>1. \A i \in DOMAIN look.backdrops : i \in Nat /\ look.backdrops[i] \in BackdropRecords
    BY DEF IsLook
  <2> QED
    BY <1>2, <2>1, ScaledBackdropIs
<1>6. \A i \in DOMAIN look.power : look.power[i] \in PowerRecords
  BY DEF IsLook
<1>7. /\ DOMAIN big.power = DOMAIN look.power
      /\ \A i \in DOMAIN look.power : /\ big.power[i] \in PowerRecords
                                      /\ big.power[i].name = look.power[i].name
  BY <1>2, <1>6, ScaledButtonIs
<1>8. \A i, j \in DOMAIN big.power : big.power[i].name = big.power[j].name => i = j
  BY <1>7 DEF IsLook
<1>9. big.input \in [w: Int, h: Int] /\ big.avatar \in Int
  <2>1. look.input.w \in Int /\ look.input.h \in Int /\ look.avatar \in Int
    BY DEF IsLook
  <2> QED
    BY <1>2, <2>1, TimesIs
<1>10. big.gap \in [clock: Int, avatar: Int, username: Int]
  <2>1. look.gap \in [clock: Int, avatar: Int, username: Int]
    BY DEF IsLook
  <2>2. /\ look.gap["clock"] * k \in Int /\ look.gap["avatar"] * k \in Int
        /\ look.gap["username"] * k \in Int
    BY <2>1, ProductsAre
  <2>3. DOMAIN look.gap = {"clock", "avatar", "username"}
    BY <2>1
  <2> QED
    BY <1>2, <2>2, <2>3
<1>11. big.on \subseteq Widgets \ {"input"}
  BY <1>2 DEF IsLook
<1>12. {"clock", "date", "username", "status"} \subseteq DOMAIN big.size
  BY <1>4 DEF IsLook
<1>13. IsLook(big)
  BY <1>2, <1>3, <1>4, <1>5, <1>7, <1>8, <1>9, <1>10, <1>11, <1>12 DEF IsLook
<1> QED
  BY <1>13 DEF big

\* What a picture has to satisfy holds on every output and in every state.
LEMMA EverythingFits ==
    ASSUME NEW look, IsLook(look), NEW frame \in Frames, NEW k \in Scales, NEW s
    PROVE  FitsAt(look, frame, k, s)
<1> DEFINE big == Scaled(look, k)
           out == Physical(frame, k)
<1>1. IsLook(big)
  BY ScalesAssumption, ScaledIsLook
<1>2. out \in FrameSizes
  BY PhysicalIs
<1> HIDE DEF big, out
<1>3. DrawnOnce(big, out, s)
  BY <1>1, AllDrawnOnce
<1>4. Wide(big, out) => DirtyCovers(big, out, s)
  BY <1>1, <1>2, CoveredWhenWide
<1>5. PreparedIsDrawn(big, out)
  BY <1>1, <1>2, PreparedWhereDrawn
<1>6. (\A q \in {s, WithLayerOf(s)} : HasRoom(big, out, q))
        => SameLayer(big, out, s, WithLayerOf(s))
  <2>1. SameBase(s, WithLayerOf(s))
    BY LayerOfAgrees
  <2> QED
    BY <1>1, <1>2, <2>1, SameLayerWithRoom
<1> QED
  BY <1>3, <1>4, <1>5, <1>6 DEF FitsAt, big, out

-----------------------------------------------------------------------------
(* Every configuration makes a look. *)

LEMMA GivenIs ==
    ASSUME NEW f, IsSection(f), NEW k, NEW default, IsSetting(k, default)
    PROVE  IsSetting(k, Given(f, k, default))
BY DEF IsSection, Given

LEMMA SectionIs ==
    ASSUME NEW v, IsVisual(v), NEW s
    PROVE  IsSection(SectionOf(v, s))
<1>1. IsSection(NoKeys)
  BY DEF IsSection, NoKeys
<1> QED
  BY <1>1 DEF IsVisual, SectionOf, Given

\* A number stays one, whether it comes from a section, a flat key or the default.
LEMMA NumberIs ==
    ASSUME NEW v, IsVisual(v), NEW s, NEW k \in Lengths, NEW default \in Int
    PROVE  Setting(v, s, k, default) \in Int
<1> DEFINE keys == {f \in DOMAIN v.flat \cap DOMAIN FlatKeys : FlatKeys[f] = <<s, k>>}
<1>1. \A f \in keys : v.flat[f] \in Int
  BY DEF IsVisual
<1>2. FlatOf(v, s, k, default) = IF keys = {} THEN default ELSE v.flat[CHOOSE f \in keys : TRUE]
  BY DEF FlatOf
<1> HIDE DEF keys
<1>3. FlatOf(v, s, k, default) \in Int
  BY <1>1, <1>2
<1>4. IsSetting(k, FlatOf(v, s, k, default))
  BY <1>3 DEF IsSetting, Lengths
<1>5. IsSetting(k, Setting(v, s, k, default))
  BY <1>4, SectionIs, GivenIs DEF Setting
<1> QED
  BY <1>5 DEF IsSetting

LEMMA PlaceIs ==
    ASSUME NEW v, IsVisual(v), NEW s
    PROVE  WidgetPosition(v, s) \in Placements
<1> DEFINE f == SectionOf(v, s)
<1>1. IsSection(f)
  BY SectionIs
<1> HIDE DEF f
<1>2. ASSUME NEW halign \in HAligns, NEW valign \in VAligns
      PROVE  ResolvePosition(v, s, halign, valign) \in Placements
  <2>1. IsSetting("halign", halign) /\ IsSetting("valign", valign) /\ IsSetting("x", 0)
        /\ IsSetting("y", 0) /\ IsSetting("relative_to", Screen)
    BY DEF IsSetting, Lengths, Strings
  <2>2. Given(f, "halign", halign) \in HAligns
    BY <1>1, <2>1, GivenIs DEF IsSetting
  <2>3. Given(f, "valign", valign) \in VAligns
    BY <1>1, <2>1, GivenIs DEF IsSetting
  <2>4. Given(f, "x", 0) \in Int /\ Given(f, "y", 0) \in Int
    BY <1>1, <2>1, GivenIs DEF IsSetting, Lengths
  <2>5. Given(f, "relative_to", Screen) \in Strings
    BY <1>1, <2>1, GivenIs DEF IsSetting
  <2> QED
    BY <2>2, <2>3, <2>4, <2>5 DEF ResolvePosition, Placements, f
<1> QED
  BY <1>2 DEF WidgetPosition, HAligns, VAligns

LEMMA BackdropOf ==
    ASSUME NEW name \in Strings, NEW when \in Strings, NEW w \in Nat, NEW h \in Nat,
           NEW halign \in HAligns, NEW valign \in VAligns, NEW x \in Int, NEW y \in Int,
           NEW z \in Zs, NEW fullWidth \in BOOLEAN, NEW fullHeight \in BOOLEAN,
           NEW inset \in Nat
    PROVE  [name |-> name, when |-> when, w |-> w, h |-> h, halign |-> halign,
            valign |-> valign, x |-> x, y |-> y, z |-> z, fullWidth |-> fullWidth,
            fullHeight |-> fullHeight, inset |-> inset] \in BackdropRecords
BY DEF BackdropRecords

LEMMA BackdropsAre ==
    ASSUME NEW v, IsVisual(v)
    PROVE  \A i \in DOMAIN ResolveBackdrops(v) :
              i \in Nat /\ ResolveBackdrops(v)[i] \in BackdropRecords
<1> SUFFICES ASSUME NEW i \in DOMAIN ResolveBackdrops(v)
             PROVE  i \in Nat /\ ResolveBackdrops(v)[i] \in BackdropRecords
  OBVIOUS
<1> DEFINE b == v.flat.backdrop[i]
<1>1. i \in DOMAIN v.flat.backdrop
  BY DEF ResolveBackdrops
<1>2. i \in Nat /\ IsSection(b)
  BY <1>1 DEF IsVisual
<1> DEFINE name == Given(b, "name", Screen)
           when == Given(b, "show_when", "always")
           width == Given(b, "width", 560)
           height == Given(b, "height", 600)
           halign == Given(b, "halign", "Center")
           valign == Given(b, "valign", "Top")
           x == Given(b, "x", 0)
           y == Given(b, "y", 0)
           z == Given(b, "z", 0)
           fullWidth == Given(b, "full_width", FALSE)
           fullHeight == Given(b, "full_height", FALSE)
           inset == Given(b, "inset", 0)
           w == Greater(width, 1)
           h == Greater(height, 1)
           margin == Clamp(inset, 0, 4096)
<1>3. ResolveBackdrops(v)[i] =
        [name |-> name, when |-> when, w |-> w, h |-> h, halign |-> halign, valign |-> valign,
         x |-> x, y |-> y, z |-> z, fullWidth |-> fullWidth, fullHeight |-> fullHeight,
         inset |-> margin]
  BY DEF ResolveBackdrops
<1> HIDE DEF b
<1>4. /\ name \in Strings /\ when \in Strings
      /\ halign \in HAligns /\ valign \in VAligns
      /\ z \in Zs
  <2>1. /\ IsSetting("name", Screen) /\ IsSetting("show_when", "always") /\ IsSetting("z", 0)
        /\ IsSetting("halign", "Center") /\ IsSetting("valign", "Top")
    BY DEF IsSetting, Lengths, Strings, HAligns, VAligns, Zs
  <2> QED
    BY <1>2, <2>1, GivenIs DEF IsSetting
<1>5. /\ fullWidth \in BOOLEAN /\ fullHeight \in BOOLEAN
  <2>1. IsSetting("full_width", FALSE) /\ IsSetting("full_height", FALSE)
    BY DEF IsSetting, Lengths
  <2> QED
    BY <1>2, <2>1, GivenIs DEF IsSetting
<1>6. /\ width \in Int /\ height \in Int
      /\ x \in Int /\ y \in Int /\ inset \in Int
  <2>1. /\ IsSetting("width", 560) /\ IsSetting("height", 600)
        /\ IsSetting("x", 0) /\ IsSetting("y", 0) /\ IsSetting("inset", 0)
    BY DEF IsSetting, Lengths
  <2> QED
    BY <1>2, <2>1, GivenIs DEF IsSetting, Lengths
<1>7. /\ w \in Nat /\ h \in Nat /\ margin \in Nat
  BY <1>6 DEF Greater, Clamp
<1> HIDE DEF name, when, halign, valign, x, y, z, fullWidth, fullHeight, w, h, margin
<1>8. ResolveBackdrops(v)[i] \in BackdropRecords
  BY <1>3, <1>4, <1>5, <1>6, <1>7, BackdropOf
<1> QED
  BY <1>2, <1>8

LEMMA ButtonsAre ==
    ASSUME NEW v, IsVisual(v)
    PROVE  /\ \A i \in DOMAIN PowerButtons(v) : PowerButtons(v)[i] \in PowerRecords
           /\ \A i, j \in DOMAIN PowerButtons(v) :
                 PowerButtons(v)[i].name = PowerButtons(v)[j].name => i = j
<1>1. DOMAIN PowerActions = {1, 2, 3}
  BY DEF PowerActions
<1>2. DOMAIN PowerButtons(v) \subseteq {1, 2, 3}
  BY <1>1 DEF PowerButtons
<1>3. ASSUME NEW i \in DOMAIN PowerButtons(v)
      PROVE  /\ PowerButtons(v)[i] = ResolvePowerButton(v, PowerActions[i])
             /\ PowerButtons(v)[i].name = PowerActions[i]
             /\ PowerActions[i] \in {"suspend", "reboot", "poweroff"}
  <2>1. PowerButtons(v)[i] = ResolvePowerButton(v, PowerActions[i])
    BY DEF PowerButtons
  <2>2. PowerActions[i] \in {"suspend", "reboot", "poweroff"}
    BY <1>2 DEF PowerActions
  <2> QED
    BY <2>1, <2>2 DEF ResolvePowerButton
<1>4. ASSUME NEW action \in {"suspend", "reboot", "poweroff"}
      PROVE  ResolvePowerButton(v, action) \in PowerRecords
  <2>1. /\ Setting(v, action, "background_size", Unset) \in Int
        /\ Setting(v, action, "size", 20) \in Int
    BY NumberIs DEF Lengths, Unset
  <2>2. Clamp(Setting(v, action, "size", 20), 12, 96) \in Int
    BY <2>1 DEF Clamp
  <2> QED
    BY <2>1, <2>2, PlaceIs DEF ResolvePowerButton, PowerRecords
<1>5. \A i \in DOMAIN PowerButtons(v) : PowerButtons(v)[i] \in PowerRecords
  BY <1>3, <1>4
<1>6. \A i, j \in {1, 2, 3} : PowerActions[i] = PowerActions[j] => i = j
  BY DEF PowerActions
<1> QED
  BY <1>2, <1>3, <1>5, <1>6

\* Whatever a configuration of the right types says, its look has the right types.
LEMMA ConfigMakesALook ==
    ASSUME NEW v \in Visuals, NEW data
    PROVE  IsLook(FromConfig(v, data, Blocks))
<1> DEFINE look == FromConfig(v, data, Blocks)
<1>1. IsVisual(v)
  BY VisualsAssumption
<1>2. DOMAIN look = LookFields
  BY DEF FromConfig, LookFields
<1>3. look.on \subseteq Widgets \ {"input"}
  BY DEF FromConfig, HeaderOn, IdentityOn, CornerOn, WeatherOn, PlayerOn, Widgets, Header,
         Identity, Corner, Weather, Player
<1>4. \A w \in DOMAIN look.at : look.at[w] \in Placements
  BY <1>1, PlaceIs DEF FromConfig
<1>5. look.size = Blocks /\ look.backdrops = ResolveBackdrops(v) /\ look.power = PowerButtons(v)
  BY DEF FromConfig
<1>6. look.input \in [w: Int, h: Int] /\ look.avatar \in Int
  <2>1. /\ Setting(v, "input", "width", Unset) \in Int
        /\ Setting(v, "input", "height", Unset) \in Int
        /\ Setting(v, "avatar", "size", Unset) \in Int
    BY <1>1, NumberIs DEF Lengths, Unset
  <2> QED
    BY <2>1 DEF FromConfig, InputSize
<1>7. look.gap \in [clock: Int, avatar: Int, username: Int]
  BY DEF FromConfig
<1> HIDE DEF look
<1>8. IsLook(look)
  BY <1>1, <1>2, <1>3, <1>4, <1>5, <1>6, <1>7, BlocksAssumption, BackdropsAre, ButtonsAre
     DEF IsLook
<1> QED
  BY <1>8 DEF look

LEMMA EveryThemeFits ==
    ASSUME NEW t \in Themes, NEW v \in Views
    PROVE  <<t, v>> \in Fitting
<1>1. \A look \in Looks[t] : IsLook(look)
  BY ConfigMakesALook DEF Looks, ConfigsOf
<1>2. \A look \in Looks[t], s \in ShellsOf(v), frame \in Frames, k \in Scales :
        FitsAt(look, frame, k, s)
  BY <1>1, EverythingFits
<1> QED
  BY <1>2 DEF Fitting

LEMMA EmergencyAlwaysFits ==
    ASSUME NEW v \in Views
    PROVE  v \in EmergencyFitting
<1>1. ASSUME NEW s \in ShellsOf(v), NEW frame \in Frames, NEW k \in Scales
      PROVE  EmergencyFits(Physical(frame, k), k, s)
  <2>1. k \in Nat
    BY ScalesAssumption
  <2> QED
    BY <2>1, PhysicalIs, EmergencyHasRoom
<1> QED
  BY <1>1 DEF EmergencyFitting

-----------------------------------------------------------------------------
(* The pictures of the prompt. *)

\* Whatever the theme, the output and the state of the prompt are, the three passes make
\* one picture: each widget is drawn once, a redraw of the prompt stays in its rectangle,
\* the cached layer serves every later state, backdrops are where they were prepared, and
\* the emergency UI is whole.
THEOREM PicturesFit == Spec => []PicturePartsFit
  <1>1. ASSUME ShellInv PROVE PicturePartsFit
    <2>1. theme \in Themes /\ ui \in ShellStates
      BY <1>1 DEF ShellInv, Good
    <2>2. ViewOf(ui) \in Views
      BY <2>1 DEF ViewOf, Views, ShellStates
    <2>3. <<theme, ViewOf(ui)>> \in Fitting
      BY <2>1, <2>2, EveryThemeFits
    <2>4. ViewOf(ui) \in EmergencyFitting
      BY <2>2, EmergencyAlwaysFits
    <2> QED BY <2>3, <2>4 DEF PicturePartsFit
  <1> QED BY <1>1, ShellInvHolds, PTL

=============================================================================
