---------------------------- MODULE SleepProofs ----------------------------
(***************************************************************************)
(* The machine sleeps: the curtain takes the first press after a suspend   *)
(* and gives back every later one, and a locked idle machine is suspended  *)
(* once, with no countdown left on the curtain.                            *)
(***************************************************************************)
EXTENDS WakeInput, SuspendTimer, SequenceTheorems, FiniteSetTheorems, TLAPS

Signals == {"start", "end"}
Msgs == {"arm", "resumed"}

WakeTypeOK ==
    /\ machine \in {"up", "asleep"}
    /\ signals \in Seq(Signals)
    /\ wire \in Seq(Msgs)
    /\ events \in Seq(Msgs)
    /\ guard \in Guards
    /\ input \in InputStates
    /\ held \subseteq Inputs
    /\ sleeps \in Nat /\ darks \in Nat /\ swallowed \in Nat
    /\ lost \in BOOLEAN /\ unpressed \in BOOLEAN

(* logind has told of the sleep that the machine is in.                    *)
SleepIsAnnounced ==
    machine = "asleep" => signals # <<>> /\ signals[Len(signals)] = "start"

(* Until somebody presses a key, the last word that is on its way to the   *)
(* guard is that the machine woke up, unless the guard has heard it; and   *)
(* it has been armed, is about to be, or is already pending.               *)
LastWord ==
    /\ signals # <<>> => signals[Len(signals)] = "end"
    /\ signals = <<>> /\ wire # <<>> => wire[Len(wire)] = "resumed"
    /\ signals = <<>> /\ wire = <<>> /\ events # <<>> => events[Len(events)] = "resumed"
    /\ signals = <<>> /\ wire = <<>> /\ events = <<>> => guard.pending

GuardIsUp ==
    \/ \E i \in DOMAIN signals : signals[i] = "start"
    \/ Arms(wire) # {} \/ Arms(events) # {}
    \/ guard.armed \/ guard.pending

GuardIsComing == machine = "up" /\ unpressed /\ ~lost => LastWord /\ GuardIsUp

(* Every sleep may cost one press: one that was taken, that the guard      *)
(* waits for, or that a message under way will ask for.                    *)
HowMany(s, m) == Cardinality({i \in DOMAIN s : s[i] = m})
One(e, m) == IF e = m THEN 1 ELSE 0
Waits(g) == IF g.pending THEN 1 ELSE 0
Away(m) == IF m = "asleep" THEN 1 ELSE 0

PressesOwed ==
    swallowed + Waits(guard) + HowMany(events, "resumed") + HowMany(wire, "resumed")
        + HowMany(signals, "end") + Away(machine) <= sleeps

WakeInv == WakeTypeOK /\ SleepIsAnnounced /\ GuardIsComing /\ PressesOwed /\ RepeatWhileHeld

-----------------------------------------------------------------------------
(* Queues: what taking the first message and adding a last one does.       *)

LEMMA TailOfQueue ==
    ASSUME NEW S, NEW s \in Seq(S), s # <<>>
    PROVE  /\ Tail(s) \in Seq(S) /\ Head(s) \in S /\ Head(s) = s[1]
           /\ Len(s) \in Nat \ {0} /\ DOMAIN s = 1 .. Len(s)
           /\ Len(Tail(s)) = Len(s) - 1 /\ DOMAIN Tail(s) = 1 .. Len(Tail(s))
           /\ \A i \in 1 .. Len(Tail(s)) : Tail(s)[i] = s[i + 1]
           /\ Tail(s) # <<>> => Tail(s)[Len(Tail(s))] = s[Len(s)]
           /\ Tail(s) = <<>> => Head(s) = s[Len(s)]
  <1> DEFINE t == Tail(s)
  <1>1. /\ t \in Seq(S) /\ Head(s) \in S /\ Head(s) = s[1] /\ Len(t) = Len(s) - 1
        /\ \A i \in 1 .. Len(t) : t[i] = s[i + 1]
    BY HeadTailProperties
  <1>2. /\ Len(s) \in Nat /\ DOMAIN s = 1 .. Len(s)
        /\ Len(t) \in Nat /\ DOMAIN t = 1 .. Len(t)
    BY <1>1, LenProperties
  <1> HIDE DEF t
  <1>3. (t = <<>> <=> Len(t) = 0) /\ Len(s) # 0
    BY <1>1, EmptySeq
  <1>4. t # <<>> => t[Len(t)] = s[Len(s)]
    <2> SUFFICES ASSUME t # <<>> PROVE t[Len(t)] = s[Len(s)]
      OBVIOUS
    <2>1. Len(t) \in 1 .. Len(t) /\ Len(t) + 1 = Len(s)
      BY <1>1, <1>2, <1>3
    <2> QED
      BY <1>1, <2>1
  <1>5. t = <<>> => Len(s) = 1
    BY <1>1, <1>2, <1>3
  <1> QED
    BY <1>1, <1>2, <1>3, <1>4, <1>5 DEF t

LEMMA AppendToQueue ==
    ASSUME NEW S, NEW s \in Seq(S), NEW e \in S
    PROVE  /\ Append(s, e) \in Seq(S) /\ Append(s, e) # <<>>
           /\ Len(s) \in Nat /\ DOMAIN s = 1 .. Len(s)
           /\ Len(Append(s, e)) = Len(s) + 1
           /\ DOMAIN Append(s, e) = 1 .. Len(Append(s, e))
           /\ \A i \in 1 .. Len(s) : Append(s, e)[i] = s[i]
           /\ Append(s, e)[Len(Append(s, e))] = e
  BY LenProperties, AppendProperties

-----------------------------------------------------------------------------
(* Counting messages.                                                      *)

LEMMA CountIsNat ==
    ASSUME NEW S, NEW s \in Seq(S), NEW m
    PROVE  /\ HowMany(s, m) \in Nat
           /\ s = <<>> => HowMany(s, m) = 0
           /\ (\E i \in DOMAIN s : s[i] = m) => HowMany(s, m) >= 1
  <1> DEFINE I == {i \in DOMAIN s : s[i] = m}
  <1>1. DOMAIN s = 1 .. Len(s) /\ Len(s) \in Nat
    BY LenProperties
  <1>2. IsFiniteSet(1 .. Len(s))
    BY <1>1, FS_Interval
  <1>3. IsFiniteSet(I)
    <2>1. I \in SUBSET (1 .. Len(s))
      BY <1>1
    <2> QED
      BY <1>2, <2>1, FS_Subset
  <1>4. Cardinality(I) \in Nat
    BY <1>3, FS_CardinalityType
  <1>5. Cardinality(I) = 0 <=> I = {}
    BY <1>3, FS_EmptySet
  <1>6. s = <<>> => I = {}
    BY <1>1
  <1>7. (\E i \in DOMAIN s : s[i] = m) => I # {}
    OBVIOUS
  <1>8. I # {} => Cardinality(I) >= 1
    BY <1>4, <1>5
  <1>9. HowMany(s, m) = Cardinality(I)
    BY DEF HowMany
  <1> HIDE DEF I
  <1> QED
    BY <1>4, <1>5, <1>6, <1>7, <1>8, <1>9

LEMMA CountAppend ==
    ASSUME NEW S, NEW s \in Seq(S), NEW e \in S, NEW m
    PROVE  HowMany(Append(s, e), m) = HowMany(s, m) + One(e, m)
  <1> DEFINE t == Append(s, e)
             I == {i \in DOMAIN s : s[i] = m}
             J == {i \in DOMAIN t : t[i] = m}
             n == Len(s) + 1
  <1>1. /\ DOMAIN s = 1 .. Len(s) /\ Len(s) \in Nat
        /\ t \in Seq(S) /\ Len(t) = n /\ DOMAIN t = 1 .. n
        /\ \A i \in 1 .. Len(s) : t[i] = s[i]
        /\ t[n] = e
    BY LenProperties, AppendProperties
  <1> HIDE DEF t
  <1>2. IsFiniteSet(I) /\ Cardinality(I) \in Nat
    <2>1. IsFiniteSet(1 .. Len(s)) /\ I \in SUBSET (1 .. Len(s))
      BY <1>1, FS_Interval
    <2> QED
      BY <2>1, FS_Subset, FS_CardinalityType
  <1>c. HowMany(s, m) = Cardinality(I) /\ HowMany(Append(s, e), m) = Cardinality(J)
    BY DEF HowMany, t
  <1>3. CASE e = m
    <2>1. J = I \cup {n} /\ n \notin I
      BY <1>1, <1>3
    <2>2. Cardinality(I \cup {n}) = Cardinality(I) + 1
      BY <1>2, <2>1, FS_AddElement
    <2> QED
      BY <1>3, <1>c, <2>1, <2>2 DEF One
  <1>4. CASE e # m
    <2>1. J = I
      BY <1>1, <1>4
    <2> HIDE DEF I, J
    <2> QED
      BY <1>2, <1>4, <1>c, <2>1 DEF One
  <1> QED
    BY <1>3, <1>4

LEMMA CountTail ==
    ASSUME NEW S, NEW s \in Seq(S), s # <<>>, NEW m
    PROVE  HowMany(s, m) = HowMany(Tail(s), m) + One(Head(s), m)
  <1> DEFINE t == Tail(s)
             I == {i \in DOMAIN t : t[i] = m}
             J == {i \in DOMAIN s : s[i] = m}
             later == J \ {1}
             f == [i \in I |-> i + 1]
  <1>1. /\ DOMAIN s = 1 .. Len(s) /\ Len(s) \in Nat \ {0}
        /\ t \in Seq(S) /\ Len(t) = Len(s) - 1 /\ DOMAIN t = 1 .. Len(t)
        /\ \A i \in 1 .. Len(t) : t[i] = s[i + 1]
        /\ Head(s) = s[1]
    BY LenProperties, HeadTailProperties, EmptySeq
  <1> HIDE DEF t
  <1>2. IsFiniteSet(J) /\ Cardinality(J) \in Nat
    <2>1. IsFiniteSet(1 .. Len(s)) /\ J \in SUBSET (1 .. Len(s))
      BY <1>1, FS_Interval
    <2> QED
      BY <2>1, FS_Subset, FS_CardinalityType
  <1>3. IsFiniteSet(I)
    <2>1. IsFiniteSet(1 .. Len(t)) /\ I \in SUBSET (1 .. Len(t))
      BY <1>1, FS_Interval
    <2> QED
      BY <2>1, FS_Subset
  <1>4. f \in Bijection(I, later)
    <2>1. f \in [I -> later]
      BY <1>1
    <2>2. \A a, b \in I : f[a] = f[b] => a = b
      BY <1>1
    <2>3. \A b \in later : \E a \in I : f[a] = b
      <3> SUFFICES ASSUME NEW b \in later PROVE \E a \in I : f[a] = b
        OBVIOUS
      <3>1. b - 1 \in I /\ (b - 1) + 1 = b
        BY <1>1
      <3> QED
        BY <3>1
    <2> HIDE DEF f, later, I
    <2> QED
      BY <2>1, <2>2, <2>3 DEF Bijection, Injection, Surjection, IsInjective
  <1>5. Cardinality(later) = Cardinality(I)
    <2>1. ExistsBijection(I, later)
      BY <1>4 DEF ExistsBijection
    <2> HIDE DEF I, later
    <2> QED
      BY <1>3, <2>1, FS_Bijection
  <1>6. Cardinality(later) = IF 1 \in J THEN Cardinality(J) - 1 ELSE Cardinality(J)
    BY <1>2, FS_RemoveElement
  <1>7. 1 \in J <=> Head(s) = m
    BY <1>1
  <1>8. HowMany(s, m) = Cardinality(J) /\ HowMany(Tail(s), m) = Cardinality(I)
    BY DEF HowMany, t
  <1> HIDE DEF I, J, later
  <1> QED
    BY <1>2, <1>5, <1>6, <1>7, <1>8 DEF One

-----------------------------------------------------------------------------
(* What the waiting messages make of the guard.                            *)

LEMMA DrainedGuard ==
    ASSUME NEW g \in Guards, NEW msgs \in Seq(Msgs)
    PROVE  LET d == Drained(g, msgs)
           IN  /\ d \in Guards
               /\ d.pending => g.pending \/ \E i \in DOMAIN msgs : msgs[i] = "resumed"
               /\ Arms(msgs) # {} \/ g.armed \/ g.pending => d.armed \/ d.pending
               /\ /\ Arms(msgs) # {} \/ g.armed \/ g.pending
                  /\ msgs # <<>> => msgs[Len(msgs)] = "resumed"
                  /\ msgs = <<>> => g.pending
                  => d.pending
  <1> DEFINE d == Drained(g, msgs)
             started == IF Arms(msgs) = {} THEN g ELSE Arm(g)
             answered == \E r \in Resumes(msgs) : \A a \in Arms(msgs) : a < r
  <1>1. d = IF answered THEN MarkResumed(started) ELSE started
    BY DEF Drained
  <1>2. /\ Arm(g) \in Guards /\ Arm(g).armed /\ ~Arm(g).pending
        /\ started \in Guards
        /\ started.pending => g.pending
        /\ Arms(msgs) # {} \/ g.armed \/ g.pending => started.armed \/ started.pending
    BY DEF Arm, Guards
  <1>3. ASSUME NEW h \in Guards
        PROVE  /\ MarkResumed(h) \in Guards
               /\ h.armed \/ h.pending => MarkResumed(h).pending
    BY DEF MarkResumed, Guards
  <1>4. answered => \E i \in DOMAIN msgs : msgs[i] = "resumed"
    BY DEF Resumes
  <1>5. msgs # <<>> /\ msgs[Len(msgs)] = "resumed" => answered
    <2> SUFFICES ASSUME msgs # <<>>, msgs[Len(msgs)] = "resumed"
                 PROVE  answered
      OBVIOUS
    <2>1. /\ DOMAIN msgs = 1 .. Len(msgs) /\ Len(msgs) \in Nat \ {0}
      BY LenProperties, EmptySeq
    <2>2. Len(msgs) \in Resumes(msgs)
      BY <2>1 DEF Resumes
    <2>3. \A a \in Arms(msgs) : a < Len(msgs)
      BY <2>1 DEF Arms
    <2> QED
      BY <2>2, <2>3
  <1>6. msgs = <<>> => Arms(msgs) = {} /\ ~answered
    BY LenProperties DEF Arms, Resumes
  <1> HIDE DEF d, started, answered
  <1>7. d \in Guards
    BY <1>1, <1>2, <1>3
  <1>8. d.pending => g.pending \/ answered
    BY <1>1, <1>2
  <1>9. Arms(msgs) # {} \/ g.armed \/ g.pending =>
            (d.armed \/ d.pending) /\ (answered => d.pending)
    BY <1>1, <1>2, <1>3
  <1>10. msgs = <<>> => d = g
    BY <1>1, <1>6 DEF started
  <1> QED
    BY <1>4, <1>5, <1>7, <1>8, <1>9, <1>10 DEF d

-----------------------------------------------------------------------------
(* Types.                                                                  *)

PressOf(i) == PressIgnored(i) \/ PressLights(i) \/ PressSwallowed(i) \/ PressReachesShell(i)

LEMMA PressTypes ==
    ASSUME WakeTypeOK, NEW i \in Inputs, PressOf(i)
    PROVE  WakeTypeOK'
  <1> DEFINE g == Drained(guard, events)
  <1>1. g \in Guards
    BY DrainedGuard DEF WakeTypeOK
  <1>2. /\ events' = <<>> /\ held' = held \cup {i} /\ unpressed' = FALSE
        /\ UNCHANGED <<machine, signals, wire, sleeps, darks, lost>>
    BY DEF PressOf, PressIgnored, PressLights, PressSwallowed, PressReachesShell, Press
  <1>3. guard' \in {g, [g EXCEPT !.pending = FALSE], Swallow(g)}
    BY DEF PressOf, PressIgnored, PressLights, PressSwallowed, PressReachesShell
  <1> HIDE DEF g
  <1>4. guard' \in Guards
    BY <1>1, <1>3 DEF Guards, Swallow
  <1>5. AwaitRelease(i) \in InputStates
    BY DEF WakeTypeOK, InputStates, AwaitRelease
  <1>6. input' \in InputStates
    BY <1>5
    DEF WakeTypeOK, InputStates, PressOf, PressIgnored, PressLights, PressSwallowed,
        PressReachesShell
  <1>7. swallowed' \in Nat
    BY DEF WakeTypeOK, PressOf, PressIgnored, PressLights, PressSwallowed, PressReachesShell
  <1>8. events' \in Seq(Msgs) /\ held' \subseteq Inputs
    BY <1>2, EmptySeq DEF WakeTypeOK
  <1> QED
    BY <1>2, <1>4, <1>6, <1>7, <1>8 DEF WakeTypeOK

LEMMA WakeTypesInit == Init => WakeTypeOK
  <1> SUFFICES ASSUME Init PROVE WakeTypeOK
    OBVIOUS
  <1>1. signals \in Seq(Signals) /\ wire \in Seq(Msgs) /\ events \in Seq(Msgs)
    BY EmptySeq DEF Init
  <1>2. guard \in Guards /\ input \in InputStates
    BY DEF Init, Guards, InputStates
  <1> QED
    BY <1>1, <1>2 DEF Init, WakeTypeOK

LEMMA WakeTypesStep == WakeTypeOK /\ [Next]_vars => WakeTypeOK'
  <1> SUFFICES ASSUME WakeTypeOK, [Next]_vars PROVE WakeTypeOK'
    OBVIOUS
  <1>d. Drained(guard, events) \in Guards /\ <<>> \in Seq(Msgs)
    BY DrainedGuard, EmptySeq DEF WakeTypeOK
  <1>1. CASE ForwardSleepSignal
    <2>1. /\ signals' \in Seq(Signals)
          /\ \A m \in Msgs : Append(wire, m) \in Seq(Msgs)
      BY <1>1, HeadTailProperties, AppendProperties DEF WakeTypeOK, ForwardSleepSignal
    <2>2. wire' \in Seq(Msgs) /\ lost' \in BOOLEAN
      BY <1>1, <2>1 DEF WakeTypeOK, ForwardSleepSignal, Send, Msgs
    <2> QED
      BY <1>1, <2>1, <2>2 DEF WakeTypeOK, ForwardSleepSignal
  <1>2. CASE RequestSuspend
    <2>1. Append(wire, "arm") \in Seq(Msgs)
      BY AppendProperties DEF WakeTypeOK, Msgs
    <2> QED
      BY <1>2, <2>1 DEF WakeTypeOK, RequestSuspend, Send
  <1>3. CASE Listen
    <2>1. Head(wire) \in Msgs /\ Tail(wire) \in Seq(Msgs)
      BY <1>3, HeadTailProperties DEF WakeTypeOK, Listen
    <2>2. Append(events, Head(wire)) \in Seq(Msgs)
      BY <2>1, AppendProperties DEF WakeTypeOK
    <2> QED
      BY <1>3, <2>1, <2>2 DEF WakeTypeOK, Listen
  <1>4. CASE Drain
    BY <1>4, <1>d DEF WakeTypeOK, Drain, daemonVars
  <1>5. CASE FallAsleep
    <2>1. Append(signals, "start") \in Seq(Signals)
      BY AppendProperties DEF WakeTypeOK, Signals
    <2> QED
      BY <1>5, <2>1 DEF WakeTypeOK, FallAsleep
  <1>6. CASE WakeUp
    <2>1. Append(signals, "end") \in Seq(Signals)
      BY AppendProperties DEF WakeTypeOK, Signals
    <2> QED
      BY <1>6, <2>1 DEF WakeTypeOK, WakeUp
  <1>7. ASSUME NEW i \in Inputs, PressOf(i) PROVE WakeTypeOK'
    BY <1>7, PressTypes
  <1>8. ASSUME NEW k \in Keys, ReleaseKey(k) PROVE WakeTypeOK'
    BY <1>8, <1>d DEF WakeTypeOK, ReleaseKey, daemonVars, InputStates
  <1>9. CASE ReleaseButton
    BY <1>9, <1>d DEF WakeTypeOK, ReleaseButton, daemonVars, InputStates
  <1>10. CASE Enter \/ Leave \/ GoDark
    <2>1. input' \in InputStates
      BY <1>10 DEF WakeTypeOK, Enter, Leave, GoDark, InputStates
    <2>2. darks' \in Nat
      BY <1>10 DEF WakeTypeOK, Enter, Leave, GoDark
    <2> QED
      BY <1>10, <2>1, <2>2 DEF WakeTypeOK, Enter, Leave, GoDark, daemonVars
  <1>u. ASSUME NEW device \in {Keys, {"button"}}, Unplug(device) PROVE WakeTypeOK'
    <2>1. input' \in InputStates /\ held' \subseteq Inputs
      BY <1>u DEF WakeTypeOK, Unplug, InputStates
    <2> QED
      BY <1>u, <2>1 DEF WakeTypeOK, Unplug, daemonVars
  <1>11. CASE GraceEnds
    BY <1>11 DEF WakeTypeOK, GraceEnds, daemonVars, Guards
  <1>12. CASE UNCHANGED vars
    BY <1>12 DEF WakeTypeOK, vars
  <1> QED
    BY <1>1, <1>2, <1>3, <1>4, <1>5, <1>6, <1>7, <1>8, <1>9, <1>10, <1>u, <1>11, <1>12
    DEF Next, PressOf

-----------------------------------------------------------------------------
(* The guard is up when the first press comes.                             *)

(* What the curtain has read it need not read again.                       *)
LEMMA DrainKeepsComing ==
    ASSUME WakeTypeOK, GuardIsComing, guard' = Drained(guard, events), events' = <<>>,
           UNCHANGED daemonVars
    PROVE  GuardIsComing'
  <1> SUFFICES ASSUME machine = "up", unpressed, ~lost
               PROVE  LastWord' /\ GuardIsUp'
    BY DEF GuardIsComing, daemonVars
  <1>1. LastWord /\ GuardIsUp
    BY DEF GuardIsComing
  <1>2. LastWord'
    <2>1. ASSUME signals = <<>>, wire = <<>> PROVE guard'.pending
      <3>1. Arms(events) # {} \/ guard.armed \/ guard.pending
        BY <1>1, <2>1, LenProperties, EmptySeq DEF GuardIsUp, Arms, WakeTypeOK
      <3>2. /\ events # <<>> => events[Len(events)] = "resumed"
            /\ events = <<>> => guard.pending
        BY <1>1, <2>1 DEF LastWord
      <3> QED
        BY <3>1, <3>2, DrainedGuard DEF WakeTypeOK
    <2> QED
      BY <1>1, <2>1 DEF LastWord, daemonVars
  <1>3. Arms(events) # {} \/ guard.armed \/ guard.pending
           => guard'.armed \/ guard'.pending
    BY DrainedGuard DEF WakeTypeOK
  <1>4. Arms(wire') = Arms(wire)
    BY DEF daemonVars
  <1> QED
    BY <1>1, <1>2, <1>3, <1>4 DEF GuardIsUp, daemonVars

LEMMA ComingStep ==
    ASSUME WakeTypeOK, SleepIsAnnounced, GuardIsComing, [Next]_vars
    PROVE  SleepIsAnnounced' /\ GuardIsComing'
  <1>0. /\ DOMAIN signals = 1 .. Len(signals) /\ Len(signals) \in Nat
        /\ DOMAIN wire = 1 .. Len(wire) /\ Len(wire) \in Nat
        /\ DOMAIN events = 1 .. Len(events) /\ Len(events) \in Nat
    BY LenProperties DEF WakeTypeOK
  <1>1. CASE ForwardSleepSignal
    <2> DEFINE m == IF Head(signals) = "start" THEN "arm" ELSE "resumed"
    <2>1. /\ machine = "up" /\ machine' = "up" /\ signals # <<>> /\ signals' = Tail(signals)
          /\ UNCHANGED <<events, guard, unpressed>>
          /\ (lost' = lost /\ wire' = Append(wire, m)) \/ lost' = TRUE
      BY <1>1 DEF ForwardSleepSignal, Send
    <2>2. SUFFICES ASSUME unpressed, ~lost, ~lost' PROVE LastWord' /\ GuardIsUp'
      BY <2>1 DEF SleepIsAnnounced, GuardIsComing
    <2>3. LastWord /\ GuardIsUp
      BY <2>1, <2>2 DEF GuardIsComing
    <2>4. /\ Len(signals') = Len(signals) - 1
          /\ \A i \in 1 .. Len(signals') : signals'[i] = signals[i + 1]
          /\ Head(signals) = signals[1] /\ Head(signals) \in Signals
          /\ Len(signals) \in Nat \ {0} /\ DOMAIN signals' = 1 .. Len(signals')
          /\ signals' # <<>> => signals'[Len(signals')] = signals[Len(signals)]
          /\ signals' = <<>> => Head(signals) = signals[Len(signals)]
      BY <2>1, TailOfQueue DEF WakeTypeOK
    <2>5. /\ wire' # <<>> /\ Len(wire') = Len(wire) + 1 /\ DOMAIN wire' = 1 .. Len(wire')
          /\ \A i \in 1 .. Len(wire) : wire'[i] = wire[i]
          /\ wire'[Len(wire')] = m
      <3>1. m \in Msgs
        BY DEF Msgs
      <3>2. wire' = Append(wire, m) /\ wire \in Seq(Msgs)
        BY <2>1, <2>2 DEF WakeTypeOK
      <3> HIDE DEF m
      <3> QED
        BY <3>1, <3>2, AppendToQueue
    <2>6. LastWord'
      <3>1. signals' # <<>> => signals'[Len(signals')] = "end"
        BY <2>1, <2>3, <2>4 DEF LastWord
      <3>2. signals' = <<>> => wire'[Len(wire')] = "resumed"
        BY <2>1, <2>3, <2>4, <2>5 DEF LastWord
      <3> QED
        BY <2>5, <3>1, <3>2 DEF LastWord
    <2>7. GuardIsUp'
      <3>1. CASE \E i \in DOMAIN signals : signals[i] = "start"
        <4>1. PICK i \in DOMAIN signals : signals[i] = "start"
          BY <3>1
        <4>2. CASE i = 1
          <5>1. Len(wire') \in Arms(wire')
            BY <1>0, <2>4, <2>5, <4>1, <4>2 DEF Arms
          <5> QED
            BY <5>1 DEF GuardIsUp
        <4>3. CASE i # 1
          <5>1. i - 1 \in DOMAIN signals' /\ signals'[i - 1] = "start"
            BY <1>0, <2>4, <4>1, <4>3
          <5> QED
            BY <5>1 DEF GuardIsUp
        <4> QED
          BY <4>2, <4>3
      <3>2. Arms(wire) # {} => Arms(wire') # {}
        BY <1>0, <2>5 DEF Arms
      <3> QED
        BY <2>1, <2>3, <3>1, <3>2 DEF GuardIsUp
    <2> QED
      BY <2>6, <2>7
  <1>2. CASE RequestSuspend
    BY <1>2 DEF RequestSuspend, SleepIsAnnounced, GuardIsComing
  <1>3. CASE Listen
    <2>1. /\ machine = "up" /\ wire # <<>> /\ wire' = Tail(wire)
          /\ events' = Append(events, Head(wire))
          /\ UNCHANGED <<machine, signals, guard, lost, unpressed>>
      BY <1>3 DEF Listen
    <2>2. SUFFICES ASSUME unpressed, ~lost PROVE LastWord' /\ GuardIsUp'
      BY <2>1 DEF SleepIsAnnounced, GuardIsComing
    <2>3. LastWord /\ GuardIsUp
      BY <2>1, <2>2 DEF GuardIsComing
    <2>4. /\ Len(wire') = Len(wire) - 1 /\ Head(wire) \in Msgs
          /\ \A i \in 1 .. Len(wire') : wire'[i] = wire[i + 1]
          /\ Head(wire) = wire[1] /\ Len(wire) \in Nat \ {0}
          /\ DOMAIN wire' = 1 .. Len(wire')
          /\ wire' # <<>> => wire'[Len(wire')] = wire[Len(wire)]
          /\ wire' = <<>> => Head(wire) = wire[Len(wire)]
      BY <2>1, TailOfQueue DEF WakeTypeOK
    <2>5. /\ events' # <<>> /\ Len(events') = Len(events) + 1
          /\ DOMAIN events' = 1 .. Len(events')
          /\ \A i \in 1 .. Len(events) : events'[i] = events[i]
          /\ events'[Len(events')] = Head(wire)
      BY <2>1, <2>4, AppendToQueue DEF WakeTypeOK
    <2>6. LastWord'
      <3>1. signals = <<>> /\ wire' # <<>> => wire'[Len(wire')] = "resumed"
        BY <2>1, <2>3, <2>4 DEF LastWord
      <3>2. signals = <<>> /\ wire' = <<>> => events'[Len(events')] = "resumed"
        BY <2>1, <2>3, <2>4, <2>5 DEF LastWord
      <3> QED
        BY <2>1, <2>3, <3>1, <3>2 DEF LastWord
    <2>7. GuardIsUp'
      <3>1. CASE Arms(wire) # {}
        <4>1. PICK i \in DOMAIN wire : wire[i] = "arm"
          BY <3>1 DEF Arms
        <4>2. CASE i = 1
          <5>1. Len(events') \in Arms(events')
            BY <1>0, <2>4, <2>5, <4>1, <4>2 DEF Arms
          <5> QED
            BY <5>1 DEF GuardIsUp
        <4>3. CASE i # 1
          <5>1. i - 1 \in Arms(wire')
            BY <1>0, <2>4, <4>1, <4>3 DEF Arms
          <5> QED
            BY <5>1 DEF GuardIsUp
        <4> QED
          BY <4>2, <4>3
      <3>2. Arms(events) # {} => Arms(events') # {}
        BY <1>0, <2>5 DEF Arms
      <3> QED
        BY <2>1, <2>3, <3>1, <3>2 DEF GuardIsUp
    <2> QED
      BY <2>6, <2>7
  <1>4. CASE Drain
    BY <1>4, DrainKeepsComing DEF Drain, SleepIsAnnounced, daemonVars
  <1>5. CASE FallAsleep
    <2>1. signals' # <<>> /\ signals'[Len(signals')] = "start"
      BY <1>5, AppendToQueue DEF FallAsleep, WakeTypeOK, Signals
    <2> QED
      BY <1>5, <2>1 DEF FallAsleep, SleepIsAnnounced, GuardIsComing
  <1>6. CASE WakeUp
    <2>1. signals # <<>> /\ signals[Len(signals)] = "start"
      BY <1>6 DEF WakeUp, SleepIsAnnounced
    <2>2. /\ signals' # <<>> /\ Len(signals') = Len(signals) + 1
          /\ DOMAIN signals' = 1 .. Len(signals')
          /\ \A i \in 1 .. Len(signals) : signals'[i] = signals[i]
          /\ signals'[Len(signals')] = "end"
      BY <1>6, AppendToQueue DEF WakeUp, WakeTypeOK, Signals
    <2>3. Len(signals) \in 1 .. Len(signals)
      BY <1>0, <2>1, EmptySeq DEF WakeTypeOK
    <2>4. Len(signals) \in DOMAIN signals' /\ signals'[Len(signals)] = "start"
      BY <1>0, <2>1, <2>2, <2>3
    <2>5. LastWord' /\ GuardIsUp'
      BY <2>2, <2>4 DEF LastWord, GuardIsUp
    <2> QED
      BY <1>6, <2>5 DEF WakeUp, SleepIsAnnounced, GuardIsComing
  <1>7. ASSUME NEW i \in Inputs, PressOf(i) PROVE SleepIsAnnounced' /\ GuardIsComing'
    <2>1. machine = "up" /\ machine' = machine /\ ~unpressed'
      BY <1>7
      DEF PressOf, PressIgnored, PressLights, PressSwallowed, PressReachesShell, Press
    <2> QED
      BY <2>1 DEF SleepIsAnnounced, GuardIsComing
  <1>8. CASE /\ UNCHANGED <<daemonVars, events>>
             /\ guard'.armed = guard.armed /\ guard'.pending = guard.pending
    <2>1. Arms(wire') = Arms(wire) /\ Arms(events') = Arms(events)
      BY <1>8 DEF daemonVars
    <2>2. LastWord => LastWord'
      BY <1>8 DEF LastWord, daemonVars
    <2>3. GuardIsUp => GuardIsUp'
      BY <1>8, <2>1 DEF GuardIsUp, daemonVars
    <2> QED
      BY <1>8, <2>2, <2>3 DEF SleepIsAnnounced, GuardIsComing, daemonVars
  <1>9. ASSUME NEW k \in Keys, ReleaseKey(k) PROVE SleepIsAnnounced' /\ GuardIsComing'
    <2>1. CASE input.focus
      BY <1>9, <2>1, DrainKeepsComing DEF ReleaseKey, SleepIsAnnounced, daemonVars
    <2>2. CASE ~input.focus
      BY <1>8, <1>9, <2>2 DEF ReleaseKey
    <2> QED
      BY <2>1, <2>2
  <1>10. CASE ReleaseButton
    BY <1>10, DrainKeepsComing DEF ReleaseButton, SleepIsAnnounced, daemonVars
  <1>11. CASE Enter \/ Leave \/ GoDark
    BY <1>8, <1>11 DEF Enter, Leave, GoDark
  <1>u. ASSUME NEW device, Unplug(device) PROVE SleepIsAnnounced' /\ GuardIsComing'
    BY <1>8, <1>u DEF Unplug
  <1>12. CASE GraceEnds
    BY <1>8, <1>12 DEF GraceEnds, WakeTypeOK, Guards
  <1>13. CASE UNCHANGED vars
    BY <1>8, <1>13 DEF vars, daemonVars
  <1> QED
    BY <1>1, <1>2, <1>3, <1>4, <1>5, <1>6, <1>7, <1>9, <1>10, <1>11, <1>u, <1>12, <1>13
    DEF Next, PressOf

-----------------------------------------------------------------------------
(* One press for each sleep.                                               *)

LEMMA BitsAreNats ==
    /\ \A e, m : One(e, m) \in Nat
    /\ \A g : Waits(g) \in Nat
    /\ \A m : Away(m) \in Nat
  BY DEF One, Waits, Away

LEMMA CountsAreNats ==
    ASSUME WakeTypeOK
    PROVE  /\ HowMany(events, "resumed") \in Nat /\ HowMany(wire, "resumed") \in Nat
           /\ HowMany(signals, "end") \in Nat /\ Waits(guard) \in Nat
           /\ Away(machine) \in Nat
  BY CountIsNat, BitsAreNats DEF WakeTypeOK, Guards

(* The announcements that are read together ask for one press at most.     *)
LEMMA DrainKeepsOwed ==
    ASSUME WakeTypeOK, PressesOwed, NEW g, g = Drained(guard, events), events' = <<>>,
           UNCHANGED <<machine, signals, wire, sleeps>>
    PROVE  /\ g \in Guards
           /\ swallowed + Waits(g) + HowMany(events', "resumed")
                + HowMany(wire', "resumed") + HowMany(signals', "end")
                + Away(machine') <= sleeps'
  <1>1. g \in Guards /\ (g.pending => guard.pending \/ HowMany(events, "resumed") >= 1)
    BY DrainedGuard, CountIsNat DEF WakeTypeOK
  <1>2. HowMany(events', "resumed") = 0
    BY CountIsNat, EmptySeq
  <1>3. Waits(g) <= Waits(guard) + HowMany(events, "resumed")
    BY <1>1, CountsAreNats DEF Waits, Guards
  <1>4. Waits(g) \in Nat
    BY <1>1, BitsAreNats DEF Guards
  <1>5. /\ HowMany(wire', "resumed") = HowMany(wire, "resumed")
        /\ HowMany(signals', "end") = HowMany(signals, "end")
        /\ Away(machine') = Away(machine) /\ sleeps' = sleeps
    OBVIOUS
  <1>6. /\ HowMany(events, "resumed") \in Nat /\ HowMany(wire, "resumed") \in Nat
        /\ HowMany(signals, "end") \in Nat /\ Waits(guard) \in Nat
        /\ Away(machine) \in Nat /\ swallowed \in Nat /\ sleeps \in Nat
    BY CountsAreNats DEF WakeTypeOK
  <1>7. swallowed + Waits(guard) + HowMany(events, "resumed") + HowMany(wire, "resumed")
            + HowMany(signals, "end") + Away(machine) <= sleeps
    BY DEF PressesOwed
  <1>8. swallowed + Waits(g) + 0 + HowMany(wire, "resumed") + HowMany(signals, "end")
            + Away(machine) <= sleeps
    BY <1>3, <1>4, <1>6, <1>7, SMTT(60)
  <1> QED
    BY <1>1, <1>2, <1>5, <1>8

LEMMA OwedStep ==
    ASSUME WakeTypeOK, PressesOwed, [Next]_vars
    PROVE  PressesOwed'
  <1>n. /\ HowMany(events, "resumed") \in Nat /\ HowMany(wire, "resumed") \in Nat
        /\ HowMany(signals, "end") \in Nat /\ Waits(guard) \in Nat
        /\ Away(machine) \in Nat /\ swallowed \in Nat /\ sleeps \in Nat
    BY CountsAreNats DEF WakeTypeOK
  <1>t. WakeTypeOK'
    BY WakeTypesStep
  <1>p. /\ HowMany(events', "resumed") \in Nat /\ HowMany(wire', "resumed") \in Nat
        /\ HowMany(signals', "end") \in Nat /\ Waits(guard') \in Nat
        /\ Away(machine') \in Nat /\ swallowed' \in Nat /\ sleeps' \in Nat
    BY <1>t, CountIsNat, BitsAreNats DEF WakeTypeOK, Guards
  <1>1. CASE ForwardSleepSignal
    <2> DEFINE m == IF Head(signals) = "start" THEN "arm" ELSE "resumed"
    <2>1. /\ signals # <<>> /\ signals' = Tail(signals)
          /\ UNCHANGED <<machine, events, guard, sleeps, swallowed>>
          /\ wire' = Append(wire, m) \/ wire' = wire
      BY <1>1 DEF ForwardSleepSignal, Send
    <2>2. HowMany(signals, "end") = HowMany(signals', "end") + One(Head(signals), "end")
      <3>1. signals \in Seq(Signals)
        BY DEF WakeTypeOK
      <3>2. HowMany(signals, "end")
               = HowMany(Tail(signals), "end") + One(Head(signals), "end")
        BY <2>1, <3>1, CountTail
      <3> QED
        BY <2>1, <3>2
    <2>3. Head(signals) \in Signals
      BY <2>1, TailOfQueue DEF WakeTypeOK
    <2>4. One(m, "resumed") = One(Head(signals), "end")
      BY <2>3 DEF Signals, One
    <2>5. m \in Msgs
      BY DEF Msgs
    <2> HIDE DEF m
    <2>6. HowMany(Append(wire, m), "resumed") = HowMany(wire, "resumed") + One(m, "resumed")
      BY <2>5, CountAppend DEF WakeTypeOK
    <2>7. One(Head(signals), "end") \in Nat
      BY BitsAreNats
    <2>8. HowMany(wire', "resumed") <= HowMany(wire, "resumed") + One(Head(signals), "end")
      <3>1. CASE wire' = Append(wire, m)
        <4>1. HowMany(wire', "resumed") = HowMany(wire, "resumed") + One(Head(signals), "end")
          BY <2>4, <2>6, <3>1
        <4> QED
          BY <1>n, <1>p, <4>1
      <3>2. CASE wire' = wire
        BY <1>n, <2>7, <3>2
      <3> QED
        BY <2>1, <3>1, <3>2
    <2>9. /\ swallowed' = swallowed /\ sleeps' = sleeps /\ Waits(guard') = Waits(guard)
          /\ HowMany(events', "resumed") = HowMany(events, "resumed")
          /\ Away(machine') = Away(machine)
      BY <2>1
    <2> QED
      BY <1>n, <1>p, <2>2, <2>7, <2>8, <2>9 DEF PressesOwed
  <1>2. CASE RequestSuspend
    <2>1. HowMany(Append(wire, "arm"), "resumed") = HowMany(wire, "resumed")
      <3>1. HowMany(Append(wire, "arm"), "resumed")
               = HowMany(wire, "resumed") + One("arm", "resumed")
        BY CountAppend DEF WakeTypeOK, Msgs
      <3>2. One("arm", "resumed") = 0
        BY DEF One
      <3> QED
        BY <1>n, <3>1, <3>2
    <2>2. HowMany(wire', "resumed") = HowMany(wire, "resumed")
      BY <1>2, <2>1 DEF RequestSuspend, Send
    <2> QED
      BY <1>2, <2>2 DEF RequestSuspend, PressesOwed
  <1>3. CASE Listen
    <2>1. /\ wire # <<>> /\ wire' = Tail(wire) /\ events' = Append(events, Head(wire))
          /\ UNCHANGED <<machine, signals, guard, sleeps, swallowed>>
      BY <1>3 DEF Listen
    <2>2. HowMany(wire, "resumed") = HowMany(wire', "resumed") + One(Head(wire), "resumed")
      <3>1. wire \in Seq(Msgs)
        BY DEF WakeTypeOK
      <3>2. HowMany(wire, "resumed")
               = HowMany(Tail(wire), "resumed") + One(Head(wire), "resumed")
        BY <2>1, <3>1, CountTail
      <3> QED
        BY <2>1, <3>2
    <2>3. Head(wire) \in Msgs
      BY <2>1, TailOfQueue DEF WakeTypeOK
    <2>4. HowMany(events', "resumed") = HowMany(events, "resumed") + One(Head(wire), "resumed")
      BY <2>1, <2>3, CountAppend DEF WakeTypeOK
    <2>5. One(Head(wire), "resumed") \in Nat
      BY BitsAreNats
    <2> QED
      BY <1>n, <1>p, <2>1, <2>2, <2>4, <2>5 DEF PressesOwed
  <1>4. CASE Drain
    BY <1>4, DrainKeepsOwed DEF Drain, daemonVars, PressesOwed
  <1>5. CASE FallAsleep
    <2>1. HowMany(signals', "end") = HowMany(signals, "end")
      <3>1. HowMany(Append(signals, "start"), "end")
               = HowMany(signals, "end") + One("start", "end")
        BY CountAppend DEF WakeTypeOK, Signals
      <3>2. One("start", "end") = 0
        BY DEF One
      <3> QED
        BY <1>5, <1>n, <3>1, <3>2 DEF FallAsleep
    <2>2. Away(machine') = 1 /\ Away(machine) = 0
      BY <1>5 DEF FallAsleep, Away
    <2>3. UNCHANGED <<wire, events, guard, swallowed>> /\ sleeps' = sleeps + 1
      BY <1>5 DEF FallAsleep
    <2> QED
      BY <1>n, <1>p, <2>1, <2>2, <2>3 DEF PressesOwed
  <1>6. CASE WakeUp
    <2>1. HowMany(signals', "end") = HowMany(signals, "end") + 1
      <3>1. HowMany(Append(signals, "end"), "end") = HowMany(signals, "end") + One("end", "end")
        BY CountAppend DEF WakeTypeOK, Signals
      <3>2. One("end", "end") = 1
        BY DEF One
      <3> QED
        BY <1>6, <3>1, <3>2 DEF WakeUp
    <2>2. Away(machine') = 0 /\ Away(machine) = 1
      BY <1>6 DEF WakeUp, Away
    <2>3. UNCHANGED <<wire, events, guard, sleeps, swallowed>>
      BY <1>6 DEF WakeUp
    <2> QED
      BY <1>n, <1>p, <2>1, <2>2, <2>3 DEF PressesOwed
  <1>7. ASSUME NEW i \in Inputs, PressOf(i) PROVE PressesOwed'
    <2> DEFINE g == Drained(guard, events)
    <2>1. /\ events' = <<>> /\ UNCHANGED <<machine, signals, wire, sleeps>>
      BY <1>7
      DEF PressOf, PressIgnored, PressLights, PressSwallowed, PressReachesShell, Press
    <2>2. /\ g \in Guards
          /\ swallowed + Waits(g) + HowMany(events', "resumed")
               + HowMany(wire', "resumed") + HowMany(signals', "end")
               + Away(machine') <= sleeps'
      BY <2>1, DrainKeepsOwed
    <2>3. \/ guard' = g /\ swallowed' = swallowed
          \/ guard' = [g EXCEPT !.pending = FALSE] /\ swallowed' = swallowed
          \/ g.pending /\ guard' = Swallow(g) /\ swallowed' = swallowed + 1
      BY <1>7 DEF PressOf, PressIgnored, PressLights, PressSwallowed, PressReachesShell
    <2> HIDE DEF g
    <2>4. Waits(g) \in Nat
      BY <2>2, BitsAreNats DEF Guards
    <2>5. swallowed' + Waits(guard') <= swallowed + Waits(g)
      <3>1. CASE guard' = g /\ swallowed' = swallowed
        BY <1>n, <2>4, <3>1
      <3>2. CASE guard' = [g EXCEPT !.pending = FALSE] /\ swallowed' = swallowed
        <4>1. Waits(guard') = 0
          BY <2>2, <3>2 DEF Guards, Waits
        <4> QED
          BY <1>n, <2>4, <3>2, <4>1
      <3>3. CASE g.pending /\ guard' = Swallow(g) /\ swallowed' = swallowed + 1
        <4>1. Waits(guard') = 0
          BY <2>2, <3>3 DEF Guards, Swallow, Waits
        <4>2. Waits(g) = 1
          BY <3>3 DEF Waits
        <4> QED
          BY <1>n, <3>3, <4>1, <4>2
      <3> QED
        BY <2>3, <3>1, <3>2, <3>3
    <2> QED
      BY <1>n, <1>p, <2>2, <2>4, <2>5 DEF PressesOwed
  <1>8. CASE /\ UNCHANGED <<machine, signals, wire, events, sleeps, swallowed>>
             /\ guard'.pending = guard.pending
    BY <1>8 DEF PressesOwed, Waits
  <1>9. ASSUME NEW k \in Keys, ReleaseKey(k) PROVE PressesOwed'
    <2>1. CASE input.focus
      BY <1>9, <2>1, DrainKeepsOwed DEF ReleaseKey, daemonVars, PressesOwed
    <2>2. CASE ~input.focus
      BY <1>8, <1>9, <2>2 DEF ReleaseKey, daemonVars
    <2> QED
      BY <2>1, <2>2
  <1>10. CASE ReleaseButton
    BY <1>10, DrainKeepsOwed DEF ReleaseButton, daemonVars, PressesOwed
  <1>11. CASE Enter \/ Leave \/ GoDark
    BY <1>8, <1>11 DEF Enter, Leave, GoDark, daemonVars
  <1>u. ASSUME NEW device, Unplug(device) PROVE PressesOwed'
    BY <1>8, <1>u DEF Unplug, daemonVars
  <1>12. CASE GraceEnds
    BY <1>8, <1>12 DEF GraceEnds, WakeTypeOK, Guards, daemonVars
  <1>13. CASE UNCHANGED vars
    BY <1>8, <1>13 DEF vars
  <1> QED
    BY <1>1, <1>2, <1>3, <1>4, <1>5, <1>6, <1>7, <1>9, <1>10, <1>11, <1>u, <1>12, <1>13
    DEF Next, PressOf

-----------------------------------------------------------------------------
(* Held Backspace.                                                         *)

LEMMA HeldStep ==
    ASSUME WakeTypeOK, RepeatWhileHeld, [Next]_vars
    PROVE  RepeatWhileHeld'
  <1>1. CASE UNCHANGED <<held, input>>
    BY <1>1 DEF RepeatWhileHeld
  <1>2. ASSUME NEW i \in Inputs, PressOf(i) PROVE RepeatWhileHeld'
    <2>1. held' = held \cup {i} /\ (i \in Keys => input.focus)
      BY <1>2 DEF PressOf, PressIgnored, PressLights, PressSwallowed, PressReachesShell, Press
    <2>2. AwaitRelease(i).repeat \in {"off", input.repeat}
      BY DEF AwaitRelease, WakeTypeOK, InputStates
    <2>3. AwaitRelease(i).focus = input.focus /\ AwaitRelease(i) \in InputStates
      BY DEF AwaitRelease, WakeTypeOK, InputStates
    <2>4. CASE PressReachesShell(i)
      BY <2>1, <2>4 DEF PressReachesShell, RepeatWhileHeld, WakeTypeOK, InputStates, Keys
    <2>5. CASE PressIgnored(i) \/ PressLights(i) \/ PressSwallowed(i)
      <3>1. input'.repeat \in {"off", input.repeat} /\ input'.focus = input.focus
        BY <2>2, <2>3, <2>5 DEF PressIgnored, PressLights, PressSwallowed, InputStates
      <3> QED
        BY <2>1, <3>1 DEF RepeatWhileHeld
    <2> QED
      BY <1>2, <2>4, <2>5 DEF PressOf
  <1>3. ASSUME NEW k \in Keys, ReleaseKey(k) PROVE RepeatWhileHeld'
    BY <1>3 DEF ReleaseKey, RepeatWhileHeld, WakeTypeOK, InputStates
  <1>4. CASE ReleaseButton
    BY <1>4 DEF ReleaseButton, RepeatWhileHeld, WakeTypeOK, InputStates
  <1>5. CASE Enter \/ Leave \/ GoDark
    BY <1>5 DEF Enter, Leave, GoDark, RepeatWhileHeld, WakeTypeOK, InputStates
  <1>6. ASSUME NEW device \in {Keys, {"button"}}, Unplug(device) PROVE RepeatWhileHeld'
    BY <1>6 DEF Unplug, RepeatWhileHeld, WakeTypeOK, InputStates, Keys
  <1> QED
    BY <1>1, <1>2, <1>3, <1>4, <1>5, <1>6
    DEF Next, PressOf, ForwardSleepSignal, RequestSuspend, Listen, Drain, FallAsleep, WakeUp,
        GraceEnds, vars

-----------------------------------------------------------------------------
LEMMA WakeInit == Init => WakeInv
  <1> SUFFICES ASSUME Init PROVE WakeInv
    OBVIOUS
  <1>1. WakeTypeOK
    BY WakeTypesInit
  <1>2. /\ HowMany(events, "resumed") = 0 /\ HowMany(wire, "resumed") = 0
        /\ HowMany(signals, "end") = 0
    BY <1>1, CountIsNat DEF Init, WakeTypeOK
  <1>3. Waits(guard) = 0 /\ Away(machine) = 0
    BY DEF Init, Waits, Away
  <1>4. PressesOwed
    BY <1>2, <1>3 DEF PressesOwed, Init
  <1> QED
    BY <1>1, <1>4 DEF Init, WakeInv, SleepIsAnnounced, GuardIsComing, RepeatWhileHeld

LEMMA WakeStep == WakeInv /\ [Next]_vars => WakeInv'
  BY WakeTypesStep, ComingStep, OwedStep, HeldStep DEF WakeInv

(* The inductive invariant: what is on its way from logind to the guard,   *)
(* and what the presses it takes are for.                                  *)
THEOREM WakeInvHolds == Spec => []WakeInv
  <1> QED
    BY WakeInit, WakeStep, PTL DEF Spec

(* The guard takes one press for each sleep at most, and begins its second *)
(* of ignoring others with no other, however often veilad arms it and      *)
(* whatever is lost, late or read together.                                *)
THEOREM GuardActsOnce == Spec => []OneSecondPerSleep
  <1>1. WakeInv => OneSecondPerSleep
    <2> SUFFICES ASSUME WakeInv PROVE OneSecondPerSleep
      OBVIOUS
    <2>1. WakeTypeOK /\ PressesOwed
      BY DEF WakeInv
    <2> QED
      BY <2>1, CountsAreNats, SMTT(60) DEF PressesOwed, OneSecondPerSleep, WakeTypeOK
  <1> QED
    BY <1>1, WakeInvHolds, PTL

(* Backspace repeats only under the finger and with the focus, or if its   *)
(* keyboard is gone.                                                       *)
THEOREM BackspaceIsHeld == Spec => []RepeatWhileHeld
  <1>1. WakeInv => RepeatWhileHeld
    BY DEF WakeInv
  <1> QED
    BY <1>1, WakeInvHolds, PTL

(* The first press after a sleep does not reach the shell once the curtain *)
(* has been told of the sleep, however much of it the loop has read.       *)
THEOREM FirstPressNeverReaches == Spec => FirstPressIsSwallowed
  <1>1. ASSUME WakeInv, NEW i \in Inputs, PressReachesShell(i)
        PROVE  ~(unpressed /\ ~lost /\ signals = <<>> /\ wire = <<>>)
    <2> SUFFICES ASSUME unpressed, ~lost, signals = <<>>, wire = <<>> PROVE FALSE
      OBVIOUS
    <2>1. machine = "up" /\ ~Drained(guard, events).pending
      BY <1>1 DEF PressReachesShell, Press
    <2>2. LastWord /\ GuardIsUp /\ guard \in Guards /\ events \in Seq(Msgs)
      BY <1>1, <2>1 DEF WakeInv, WakeTypeOK, GuardIsComing
    <2>3. DOMAIN signals = {} /\ Arms(wire) = {}
      BY LenProperties DEF Arms
    <2>4. Arms(events) # {} \/ guard.armed \/ guard.pending
      BY <2>2, <2>3 DEF GuardIsUp
    <2>5. /\ events # <<>> => events[Len(events)] = "resumed"
          /\ events = <<>> => guard.pending
      BY <2>2 DEF LastWord
    <2>6. Drained(guard, events).pending
      BY <2>2, <2>4, <2>5, DrainedGuard
    <2> QED
      BY <2>1, <2>6
  <1>2. WakeInv /\ [Next]_vars =>
           [\A i \in Inputs :
               PressReachesShell(i)
                  => ~(unpressed /\ ~lost /\ signals = <<>> /\ wire = <<>>)]_vars
    BY <1>1
  <1> QED
    BY <1>2, WakeInvHolds, PTL DEF Spec, FirstPressIsSwallowed

-----------------------------------------------------------------------------
(* The timer that suspends the machine (SuspendTimer).                     *)

(* What the curtain shows is known to the daemon: a countdown it shows is  *)
(* the last one that was sent, and was sent to this curtain, unless a      *)
(* message was lost.                                                       *)
ShownIsKnown ==
    /\ curtain.up => active
    /\ curtain.up /\ ~curtain.deaf /\ curtain.shows > 0 =>
          status.sent /\ status.last = curtain.shows

(* The mark outlives everything that the ghost outlives.                   *)
AskedIsMarked == asked => timer.requested

SuspendInv == TypeOK /\ ShownIsKnown /\ AskedIsMarked /\ CountdownEnds

-----------------------------------------------------------------------------
LEMMA TimerTypes ==
    ASSUME NEW p \in PolicyRecords
    PROVE  NewTimer(p) \in Timers
<1>1. 0 \in 0..MaxDelay
  BY DelayAssumption
<1> QED
  BY <1>1 DEF NewTimer, Timers

LEMMA RestartType ==
    ASSUME NEW t \in Timers
    PROVE  /\ Restart(t) \in Timers
           /\ Restart(t).policy = t.policy
           /\ Restart(t).running => t.policy.delay > 0 \/ t.running
           /\ Restart(t).requested => t.requested
<1>1. CASE t.policy.delay = 0
  BY <1>1 DEF Restart
<1>2. CASE t.policy.delay # 0
  <2>1. Restart(t) = [policy |-> t.policy, running |-> TRUE, idle |-> 0,
                      requested |-> FALSE]
    BY <1>2 DEF Restart, Timers
  <2>2. 0 \in 0..MaxDelay /\ t.policy.delay > 0
    BY <1>2, DelayAssumption DEF Timers, PolicyRecords
  <2> QED
    BY <2>1, <2>2 DEF Timers
<1> QED
  BY <1>1, <1>2

LEMMA SetPolicyType ==
    ASSUME NEW t \in Timers, NEW p \in PolicyRecords, active \in BOOLEAN
    PROVE  SetPolicy(t, p) \in Timers
BY DelayAssumption DEF SetPolicy, Timers

LEMMA CountdownType ==
    ASSUME NEW t \in Timers
    PROVE  /\ Countdown(t) \in Countdowns
           /\ t.requested => Countdown(t) = 0
BY DelayAssumption DEF Countdown, Countdowns, Timers, PolicyRecords

(* At the end of a tick the curtain shows what the timer says, or the      *)
(* daemon knows that it does already.                                      *)
LEMMA ReportHolds ==
    ASSUME TypeOK, ShownIsKnown, timer' \in Timers, active' = active, Report
    PROVE  /\ status' \in Statuses /\ curtain' \in Curtains
           /\ ShownIsKnown'
           /\ timer'.requested /\ curtain'.up /\ ~curtain'.deaf => curtain'.shows = 0
<1> DEFINE now == Countdown(timer')
<1>1. now \in Countdowns /\ (timer'.requested => now = 0)
  BY CountdownType
<1>2. CASE ~active
  <2>1. status' = NoStatus /\ curtain' = curtain
    BY <1>2 DEF Report
  <2>2. ~curtain.up /\ NoStatus \in Statuses /\ 0 \in Countdowns
    BY <1>2, DelayAssumption DEF ShownIsKnown, NoStatus, Statuses, Countdowns
  <2> QED
    BY <2>1, <2>2 DEF TypeOK, ShownIsKnown
<1>3. CASE active /\ (~curtain.up \/ (status.sent /\ status.last = now))
  <2>1. status' = status /\ curtain' = curtain
    BY <1>3 DEF Report
  <2> QED
    BY <1>1, <1>3, <2>1 DEF TypeOK, ShownIsKnown, Curtains, Countdowns
<1>4. CASE active /\ ~(~curtain.up \/ (status.sent /\ status.last = now))
  <2>1. Tell(now)
    BY <1>4 DEF Report
  <2> HIDE DEF now
  <2>2. [sent |-> TRUE, last |-> now] \in Statuses
    BY <1>1 DEF Statuses
  <2>3. CASE /\ curtain' = [curtain EXCEPT !.shows = now, !.deaf = FALSE]
             /\ status' = [sent |-> TRUE, last |-> now]
    BY <1>1, <1>4, <2>2, <2>3 DEF TypeOK, ShownIsKnown, Curtains, Countdowns
  <2>4. CASE /\ curtain' = [curtain EXCEPT !.deaf = TRUE]
             /\ status' \in {status, [sent |-> TRUE, last |-> now]}
    BY <1>1, <1>4, <2>2, <2>4 DEF TypeOK, ShownIsKnown, Curtains
  <2> QED
    BY <2>1, <2>3, <2>4 DEF Tell
<1> QED
  BY <1>2, <1>3, <1>4

-----------------------------------------------------------------------------
LEMMA SuspendInit == TimerInit => SuspendInv
<1> SUFFICES ASSUME TimerInit PROVE SuspendInv
  OBVIOUS
<1>1. PICK p \in Policies : timer = NewTimer(p)
  BY DEF TimerInit
<1>2. timer \in Timers /\ ~timer.running /\ ~timer.requested
  BY <1>1, TimerTypes, PoliciesAssumption DEF NewTimer
<1>3. /\ active = FALSE /\ seen \in Seen /\ status = NoStatus
      /\ curtain = NoCurtain /\ calling = FALSE /\ asked = FALSE
  BY DEF TimerInit
<1>4. NoStatus \in Statuses /\ NoCurtain \in Curtains /\ ~NoCurtain.up
  BY DelayAssumption DEF NoStatus, NoCurtain, Statuses, Curtains, Countdowns
<1> QED
  BY <1>2, <1>3, <1>4
  DEF SuspendInv, TypeOK, ShownIsKnown, AskedIsMarked, CountdownEnds

LEMMA SuspendStep == SuspendInv /\ [TimerNext]_timerVars => SuspendInv'
<1> SUFFICES ASSUME SuspendInv, [TimerNext]_timerVars PROVE SuspendInv'
  OBVIOUS
<1> USE DEF SuspendInv
<1>t. /\ NoStatus \in Statuses /\ NoCurtain \in Curtains /\ NewCurtain \in Curtains
      /\ ~NoCurtain.up /\ NewCurtain.shows = 0
  BY DelayAssumption DEF NoStatus, NoCurtain, NewCurtain, Statuses, Curtains, Countdowns
<1>r. /\ Restart(timer) \in Timers
      /\ Restart(timer).running => Restart(timer).policy.delay > 0
      /\ Restart(timer).requested => timer.requested
  BY RestartType DEF TypeOK
<1>s. /\ [seen EXCEPT !.inFlight = FALSE] \in Seen
      /\ [seen EXCEPT !.inFlight = TRUE] \in Seen
  BY DEF TypeOK, Seen
<1>1. CASE Lock
  <2>1. /\ active' = TRUE /\ timer' = Restart(timer) /\ seen' \in Seen
        /\ status' \in Statuses /\ curtain' = NewCurtain /\ asked' = FALSE
        /\ calling' = calling
    BY <1>1, <1>t, <1>s DEF Lock, TypeOK
  <2>2. /\ timer' \in Timers
        /\ timer'.running => timer'.policy.delay > 0
    BY <1>r, <2>1
  <2>3. /\ curtain' \in Curtains /\ curtain'.shows = 0
    BY <1>t, <2>1
  <2>4. TypeOK'
    BY <2>1, <2>2, <2>3 DEF TypeOK
  <2> QED
    BY <2>1, <2>3, <2>4 DEF ShownIsKnown, AskedIsMarked, CountdownEnds
<1>2. CASE Unlock
  <2>1. timer' \in Timers /\ ~timer'.running
    BY <1>2, TimerTypes DEF Unlock, TypeOK, Timers, Clear, NewTimer
  <2> QED
    BY <1>2, <1>t, <2>1 DEF Unlock, TypeOK, Seen, ShownIsKnown, AskedIsMarked, CountdownEnds
<1>3. CASE UnlockFails
  BY <1>3, <1>t DEF UnlockFails, TypeOK, Seen, ShownIsKnown, AskedIsMarked, CountdownEnds
<1>4. CASE CurtainDies
  BY <1>4, <1>t DEF CurtainDies, TypeOK, ShownIsKnown, AskedIsMarked, CountdownEnds
<1>5. CASE ReplaceCurtain
  <2>1. calling' = calling /\ seen' \in Seen /\ ~curtain.up
    BY <1>5, <1>s DEF ReplaceCurtain
  <2>2. CASE /\ timer' = Restart(timer) /\ curtain' = NewCurtain /\ asked' = FALSE
             /\ UNCHANGED <<active, status>>
    <3>1. active
      BY <1>5 DEF ReplaceCurtain
    <3>2. /\ timer' \in Timers
          /\ timer'.running => timer'.policy.delay > 0
      BY <1>r, <2>2
    <3>3. /\ curtain' \in Curtains /\ curtain'.shows = 0
      BY <1>t, <2>2
    <3>4. TypeOK'
      BY <2>1, <2>2, <3>2, <3>3 DEF TypeOK
    <3> QED
      BY <2>2, <3>1, <3>3, <3>4 DEF ShownIsKnown, AskedIsMarked, CountdownEnds
  <2>3. CASE /\ active' = FALSE /\ status' = NoStatus
             /\ UNCHANGED <<timer, curtain, asked>>
    BY <1>t, <2>1, <2>3 DEF TypeOK, ShownIsKnown, AskedIsMarked, CountdownEnds
  <2> QED
    BY <1>5, <2>2, <2>3 DEF ReplaceCurtain
<1>6. CASE ClientMessage
  BY <1>6, <1>r
  DEF ClientMessage, TypeOK, Seen, ShownIsKnown, AskedIsMarked, CountdownEnds
<1>7. CASE OthersChange
  BY <1>7 DEF OthersChange, TypeOK, ShownIsKnown, AskedIsMarked, CountdownEnds
<1>8. CASE Reload
  <2>1. PICK p \in Policies : timer' = SetPolicy(timer, p)
    BY <1>8 DEF Reload
  <2>2. /\ timer' \in Timers /\ ~timer'.requested
        /\ timer'.running => timer'.policy.delay > 0
    BY <2>1, SetPolicyType, PoliciesAssumption DEF TypeOK, SetPolicy
  <2> QED
    BY <1>8, <2>2 DEF Reload, TypeOK, ShownIsKnown, AskedIsMarked, CountdownEnds
<1>9. CASE TickWaits
  <2>1. /\ status' \in Statuses /\ curtain' \in Curtains /\ ShownIsKnown'
        /\ timer'.requested /\ curtain'.up /\ ~curtain'.deaf => curtain'.shows = 0
    BY <1>9, ReportHolds DEF TickWaits, TypeOK
  <2> QED
    BY <1>9, <2>1 DEF TickWaits, TypeOK, AskedIsMarked, CountdownEnds
<1>10. CASE TickRequests
  <2>1. /\ timer' \in Timers /\ timer'.requested
        /\ timer'.running => timer'.policy.delay > 0
    BY <1>10 DEF TickRequests, MarkRequested, TypeOK, Timers
  <2> QED
    BY <1>10, <2>1 DEF TickRequests, TypeOK, ShownIsKnown, AskedIsMarked, CountdownEnds
<1>11. CASE LogindAnswers
  <2>1. /\ status' \in Statuses /\ curtain' \in Curtains /\ ShownIsKnown'
        /\ timer'.requested /\ curtain'.up /\ ~curtain'.deaf => curtain'.shows = 0
    BY <1>11, ReportHolds DEF LogindAnswers, TypeOK
  <2> QED
    BY <1>11, <2>1 DEF LogindAnswers, TypeOK, AskedIsMarked, CountdownEnds
<1>12. CASE TimePasses
  <2>1. /\ timer' \in Timers /\ timer'.requested = timer.requested
        /\ timer'.running => timer'.policy.delay > 0
    BY <1>12, DelayAssumption DEF TimePasses, TypeOK, Timers
  <2> QED
    BY <1>12, <2>1 DEF TimePasses, TypeOK, ShownIsKnown, AskedIsMarked, CountdownEnds
<1>13. CASE UNCHANGED timerVars
  BY <1>13 DEF timerVars, TypeOK, ShownIsKnown, AskedIsMarked, CountdownEnds
<1> QED
  BY <1>1, <1>2, <1>3, <1>4, <1>5, <1>6, <1>7, <1>8, <1>9, <1>10, <1>11, <1>12,
     <1>13 DEF TimerNext

(* The invariant that the theorems below rest on.                          *)
THEOREM SuspendHolds == TimerSpec => []SuspendInv
BY SuspendInit, SuspendStep, PTL DEF TimerSpec

(* Every variable has its type, and a timer without a delay does not run   *)
(* (set_policy, arm, note_activity).                                       *)
THEOREM SuspendTypes == TimerSpec => []TypeOK
BY SuspendHolds, PTL DEF SuspendInv

(* Once logind has answered, no curtain that hears shows a countdown (the  *)
(* tick of app/mod.rs).                                                    *)
THEOREM CountdownsEnd == TimerSpec => []CountdownEnds
BY SuspendHolds, PTL DEF SuspendInv

(* logind is asked once for each time that the session is left alone.      *)
THEOREM LogindIsAskedOnce == TimerSpec => AskedOnce
<1>1. SuspendInv /\ [TimerNext]_timerVars => [TickRequests => ~asked]_timerVars
  BY DEF SuspendInv, AskedIsMarked, TickRequests, Ready, DeadlinePassed
<1> QED
  BY <1>1, SuspendHolds, PTL DEF TimerSpec, AskedOnce

=============================================================================
