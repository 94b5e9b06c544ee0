-------------------------- MODULE CoreRound_proofs --------------------------
(***************************************************************************)
(* Proofs about the library's Round, for every number of holders, every    *)
(* offered configuration and every width of its integers.                  *)
(***************************************************************************)
EXTENDS CoreRound, TLAPS

-----------------------------------------------------------------------------
(* The inductive invariant                                                 *)
(*                                                                         *)
(* Every copy is judged by itself: nothing relates a copy to the row or to *)
(* another copy, so a stale one is as sound as a fresh one.  Beyond what   *)
(* CopiesAreSound says, the states in which a copy has no root and no      *)
(* window yet are those it cannot return to, and the configuration is one  *)
(* that validate() accepted.                                               *)

Round == [state : Lifecycle!RoundState, deadline : 0 .. U64Max,
          accepted : 0 .. U32Max, root : Option(Roots),
          release : Option(0 .. U64Max), end : Option(0 .. U64Max),
          via : {"methods", "transition"}]

BeforeSeal == {"Draft", "Registration", "ThresholdReached"}

BeforeWindow == BeforeSeal \cup {"Sealed"}

\* Some caller's limit allows n, and some caller's threshold is met by n.
Allowed(n) == n > 0 => \E max \in Maxima : n <= max
Enough(n) == \E minimum \in Minima : n >= minimum

Sound(r) ==
  /\ Allowed(r.accepted)
  /\ r.root # None => Enough(r.accepted) /\ r.state \notin BeforeSeal
  /\ r.release = None <=> r.end = None
  /\ r.release # None => r.release < r.end /\ r.state \notin BeforeWindow
  /\ r.via = "methods" => /\ r.state \in AfterSeal => r.root # None
                          /\ r.state \in AfterWindow => r.release # None

Kept(c, r) == r # None => c # None /\ Sound(r)

Inv ==
  /\ slot \in 0 .. MaxSlot
  /\ config \in Option(Configs)
  /\ config # None => Validate(config)
  /\ stored \in Option(Round) /\ Kept(config, stored)
  /\ held \in [Holders -> Option(Round)]
  /\ \A h \in Holders : Kept(config, held[h])
  /\ current \subseteq Holders

LEMMA InitInv == Init => Inv
<1> SUFFICES ASSUME Init PROVE Inv
  OBVIOUS
<1>1. slot \in 0 .. MaxSlot
  BY BoundsAssumption, SMT DEF Init
<1>2. None \in Option(Round) /\ None \in Option(Configs)
  BY DEF Option
<1>3. held \in [Holders -> Option(Round)] /\ \A h \in Holders : held[h] = None
  BY <1>2 DEF Init
<1> QED
  BY <1>1, <1>2, <1>3 DEF Init, Inv, Kept

\* What a holder with a copy works with.
LEMMA HolderFacts ==
  ASSUME Inv, NEW h \in Holders, held[h] # None
  PROVE  /\ held[h] \in Round /\ Sound(held[h])
         /\ config \in Configs /\ Validate(config)
         /\ held[h].deadline \in Nat /\ held[h].accepted \in Nat
         /\ config.execution_window \in Nat
         /\ slot \in Nat
<1>1. held[h] \in Round /\ Sound(held[h]) /\ config \in Configs
      /\ Validate(config)
  BY DEF Inv, Kept, Option
<1>2. held[h].deadline \in 0 .. U64Max /\ held[h].accepted \in 0 .. U32Max
  BY <1>1 DEF Round
<1>3. config.execution_window \in 0 .. U64Max
  BY <1>1, ConfigsAssumption
<1>4. slot \in Nat
  BY BoundsAssumption, SMT DEF Inv
<1> QED
  BY <1>1, <1>2, <1>3, <1>4, BoundsAssumption, SMT

\* A holder's step leaves the row and the other copies alone.
LEMMA UpdateInv ==
  ASSUME Inv, NEW h \in Holders, NEW r \in Option(Round), Update(h, r),
         UNCHANGED <<slot, config, stored>>, Kept(config, r),
         current' \subseteq Holders
  PROVE  Inv'
<1>1. held' \in [Holders -> Option(Round)]
  BY DEF Inv, Update
<1>2. held'[h] = r /\ \A g \in Holders : g # h => held'[g] = held[g]
  BY DEF Inv, Update
<1>3. \A g \in Holders : Kept(config', held'[g])
  BY <1>2 DEF Inv
<1>4. Validate(config) => Validate(config')
  OBVIOUS
<1> QED
  BY <1>1, <1>3, <1>4 DEF Inv

LEMMA TransitionInv ==
  ASSUME Inv, NEW h \in Holders, NEW next \in Lifecycle!RoundState,
         Transition(h, next)
  PROVE  Inv'
<1>1. /\ held[h] # None /\ Lifecycle!CanTransitionTo(held[h].state, next)
      /\ Update(h, [held[h] EXCEPT !.state = next, !.via = Via(held[h], next)])
      /\ UNCHANGED <<slot, config, stored>> /\ current' \subseteq Holders
  BY DEF Transition, Inv
<1>2. held[h] \in Round /\ Sound(held[h]) /\ config # None
  BY <1>1, HolderFacts, NoneAssumption
<1>3. PICK v \in {"methods", "transition"} : v = Via(held[h], next)
  BY <1>2 DEF Via, Round
<1> DEFINE r == [held[h] EXCEPT !.state = next, !.via = v]
<1>4. /\ r \in Round /\ r.state = next /\ r.accepted = held[h].accepted
      /\ r.root = held[h].root /\ r.release = held[h].release
      /\ r.end = held[h].end /\ r.via = v
  BY <1>2 DEF Round
<1>5. /\ held[h].state \notin BeforeSeal => next \notin BeforeSeal
      /\ held[h].state \notin BeforeWindow => next \notin BeforeWindow
  BY <1>1 DEF Lifecycle!CanTransitionTo, BeforeSeal, BeforeWindow
<1>6. v = "methods" => /\ held[h].via = "methods"
                       /\ next \in AfterSeal => held[h].state \in AfterSeal
                       /\ next \in AfterWindow => held[h].state \in AfterWindow
  BY <1>1, <1>3 DEF Via, Lifecycle!CanTransitionTo, AfterSeal, AfterWindow
<1>7. Update(h, r)
  BY <1>1, <1>3
<1> HIDE DEF r
<1>8. Kept(config, r)
  BY <1>2, <1>4, <1>5, <1>6 DEF Kept, Sound
<1> QED
  BY <1>1, <1>4, <1>7, <1>8, UpdateInv DEF Option

LEMMA RegisterInv ==
  ASSUME Inv, NEW h \in Holders, NEW max \in Maxima, Register(h, max)
  PROVE  Inv'
<1>1. /\ held[h] # None /\ MayRegister(held[h])
      /\ held[h].accepted < max
      /\ held[h].accepted + 1 <= U32Max
      /\ Update(h, [held[h] EXCEPT !.accepted = held[h].accepted + 1])
      /\ UNCHANGED <<slot, config, stored>> /\ current' \subseteq Holders
  BY DEF Register, Inv
<1>2. /\ held[h] \in Round /\ Sound(held[h]) /\ config # None
      /\ held[h].accepted \in Nat
  BY <1>1, HolderFacts, NoneAssumption
<1>3. PICK n \in 0 .. U32Max : n = held[h].accepted + 1
  BY <1>1, <1>2, BoundsAssumption, SMT
<1> DEFINE r == [held[h] EXCEPT !.accepted = n]
<1>4. /\ r \in Round /\ r.state = held[h].state /\ r.accepted = n
      /\ r.root = held[h].root /\ r.release = held[h].release
      /\ r.end = held[h].end /\ r.via = held[h].via
  BY <1>2 DEF Round
<1>5. held[h].state \in BeforeSeal /\ held[h].state \in BeforeWindow
  BY <1>1 DEF MayRegister, BeforeSeal, BeforeWindow
<1>6. Allowed(n)
  <2>1. max \in Nat
    BY BoundsAssumption, SMT
  <2>2. n <= max
    BY <1>1, <1>2, <1>3, <2>1, SMT
  <2> QED
    BY <2>2 DEF Allowed
<1>7. Update(h, r)
  BY <1>1, <1>3
<1> HIDE DEF r
<1>8. Kept(config, r)
  BY <1>2, <1>4, <1>5, <1>6 DEF Kept, Sound
<1> QED
  BY <1>1, <1>4, <1>7, <1>8, UpdateInv DEF Option

LEMMA SealInv ==
  ASSUME Inv, NEW h \in Holders, NEW root \in Roots, NEW minimum \in Minima,
         Seal(h, root, minimum)
  PROVE  Inv'
<1>1. /\ held[h] # None /\ held[h].state = "ThresholdReached"
      /\ held[h].accepted >= minimum
      /\ Update(h, [held[h] EXCEPT !.root = root, !.state = "Sealed"])
      /\ UNCHANGED <<slot, config, stored>> /\ current' \subseteq Holders
  BY DEF Seal, Inv
<1>2. held[h] \in Round /\ Sound(held[h]) /\ config # None
  BY <1>1, HolderFacts, NoneAssumption
<1> DEFINE r == [held[h] EXCEPT !.root = root, !.state = "Sealed"]
<1>3. root \in Option(Roots) /\ "Sealed" \in Lifecycle!RoundState /\ root # None
  BY NoneAssumption DEF Option, Lifecycle!RoundState
<1>4. /\ r \in Round /\ r.state = "Sealed" /\ r.accepted = held[h].accepted
      /\ r.root = root /\ r.release = held[h].release /\ r.end = held[h].end
  BY <1>2, <1>3 DEF Round
<1>5. /\ held[h].state \in BeforeWindow /\ "Sealed" \notin BeforeSeal
      /\ "Sealed" \notin AfterWindow
  BY <1>1 DEF BeforeSeal, BeforeWindow, AfterWindow
<1>6. Enough(held[h].accepted)
  BY <1>1 DEF Enough
<1> HIDE DEF r
<1>7. Kept(config, r)
  BY <1>2, <1>3, <1>4, <1>5, <1>6 DEF Kept, Sound
<1> QED
  BY <1>1, <1>4, <1>7, UpdateInv DEF r, Option

LEMMA ScheduleReleaseInv ==
  ASSUME Inv, NEW h \in Holders, NEW release \in Releases, ScheduleRelease(h, release)
  PROVE  Inv'
<1>1. /\ held[h] # None /\ held[h].state = "Sealed"
      /\ WindowEnd(release) <= U64Max
      /\ Update(h, [held[h] EXCEPT !.release = release, !.end = WindowEnd(release),
                                   !.state = "ReleaseScheduled"])
      /\ UNCHANGED <<slot, config, stored>> /\ current' \subseteq Holders
  BY DEF ScheduleRelease, Inv
<1>2. /\ held[h] \in Round /\ Sound(held[h]) /\ config # None
      /\ Validate(config) /\ config.execution_window \in Nat
  BY <1>1, HolderFacts, NoneAssumption
<1>3. release \in 0 .. U64Max
  BY BoundsAssumption
<1>4. PICK end \in 0 .. U64Max : end = WindowEnd(release) /\ release < end
  <2>1. config.execution_window # 0
    BY <1>2 DEF Validate, TimingBounds
  <2> QED
    BY <1>1, <1>2, <1>3, <2>1, BoundsAssumption, SMT DEF WindowEnd
<1> DEFINE r == [held[h] EXCEPT !.release = release, !.end = end,
                                !.state = "ReleaseScheduled"]
<1>5. /\ release \in Option(0 .. U64Max) /\ end \in Option(0 .. U64Max)
      /\ "ReleaseScheduled" \in Lifecycle!RoundState
  BY <1>3 DEF Option, Lifecycle!RoundState
<1>6. /\ r \in Round /\ r.state = "ReleaseScheduled"
      /\ r.accepted = held[h].accepted /\ r.root = held[h].root
      /\ r.release = release /\ r.end = end /\ r.via = held[h].via
  BY <1>2, <1>5 DEF Round
<1>7. /\ "ReleaseScheduled" \notin BeforeSeal /\ "ReleaseScheduled" \notin BeforeWindow
      /\ held[h].state \in AfterSeal
  BY <1>1 DEF BeforeSeal, BeforeWindow, AfterSeal
<1>8. release # None /\ end # None
  BY <1>3, NoneAssumption
<1>9. Update(h, r)
  BY <1>1, <1>4
<1> HIDE DEF r
<1>10. Kept(config, r)
  BY <1>2, <1>4, <1>6, <1>7, <1>8 DEF Kept, Sound
<1> QED
  BY <1>1, <1>6, <1>9, <1>10, UpdateInv DEF Option

LEMMA OpenRoundInv ==
  ASSUME Inv, NEW h \in Holders, OpenRound(h)
  PROVE  Inv'
<1>1. /\ config # None /\ DeadlineFits(slot + config.registration_duration)
      /\ UNCHANGED <<slot, config, stored>> /\ current' \subseteq Holders
  BY DEF OpenRound, Inv
<1>2. config \in Configs /\ config.registration_duration \in 0 .. U64Max
  BY <1>1, ConfigsAssumption DEF Inv, Option
<1>3. PICK deadline \in 0 .. U64Max : deadline = slot + config.registration_duration
  BY <1>1, <1>2, BoundsAssumption, SMT DEF Inv, DeadlineFits
<1> DEFINE r == [state |-> "Registration", deadline |-> deadline, accepted |-> 0,
                 root |-> None, release |-> None, end |-> None, via |-> "methods"]
<1>4. Update(h, r)
  BY <1>3 DEF OpenRound, Update
<1>5. r \in Round
  <2>1. 0 \in 0 .. U32Max
    BY BoundsAssumption, SMT
  <2> QED
    BY <2>1 DEF Round, Option, Lifecycle!RoundState
<1>6. Allowed(0) /\ "Registration" \notin AfterSeal /\ "Registration" \notin AfterWindow
  BY DEF Allowed, AfterSeal, AfterWindow
<1>7. Kept(config, r)
  BY <1>1, <1>6 DEF Kept, Sound
<1> HIDE DEF r
<1> QED
  BY <1>1, <1>4, <1>5, <1>7, UpdateInv DEF Option

LEMMA NextInv == Inv /\ [Next]_vars => Inv'
<1> SUFFICES ASSUME Inv, [Next]_vars PROVE Inv'
  OBVIOUS
<1>1. CASE UNCHANGED vars
  BY <1>1 DEF vars, Inv
<1>2. CASE Tick
  <2>1. slot' \in 0 .. MaxSlot
    BY <1>2, BoundsAssumption, SMT DEF Tick, Inv
  <2> QED
    BY <1>2, <2>1 DEF Tick, Inv
<1>3. ASSUME NEW c \in Configs, CreatePool(c) PROVE Inv'
  <2>1. stored = None /\ \A h \in Holders : held[h] = None
    BY <1>3 DEF CreatePool, Inv, Kept
  <2> QED
    BY <1>3, <2>1 DEF CreatePool, Inv, Kept, Option
<1>4. ASSUME NEW h \in Holders, OpenRound(h) PROVE Inv'
  BY <1>4, OpenRoundInv
<1>5. ASSUME NEW h \in Holders, NEW next \in Lifecycle!RoundState, Transition(h, next)
      PROVE  Inv'
  BY <1>5, TransitionInv
<1>6. ASSUME NEW h \in Holders, NEW max \in Maxima, Register(h, max) PROVE Inv'
  BY <1>6, RegisterInv
<1>7. ASSUME NEW h \in Holders, NEW root \in Roots, NEW minimum \in Minima,
             Seal(h, root, minimum)
      PROVE  Inv'
  BY <1>7, SealInv
<1>8. ASSUME NEW h \in Holders, NEW release \in Releases, ScheduleRelease(h, release)
      PROVE  Inv'
  BY <1>8, ScheduleReleaseInv
<1>9. ASSUME NEW h \in Holders, PutRound(h) PROVE Inv'
  BY <1>9 DEF PutRound, Inv
<1>10. ASSUME NEW h \in Holders, FetchRound(h) PROVE Inv'
  BY <1>10, UpdateInv DEF FetchRound, Inv
<1>11. ASSUME NEW h \in Holders, Crash(h) PROVE Inv'
  <2>1. None \in Option(Round) /\ Kept(config, None)
    BY DEF Option, Kept
  <2>2. current' \subseteq Holders
    BY <1>11 DEF Crash, Inv
  <2> QED
    BY <1>11, <2>1, <2>2, UpdateInv DEF Crash
<1> QED
  BY <1>1, <1>2, <1>3, <1>4, <1>5, <1>6, <1>7, <1>8, <1>9, <1>10, <1>11 DEF Next

LEMMA Invariance == Spec => []Inv
BY InitInv, NextInv, PTL DEF Spec

LEMMA CopyFacts ==
  ASSUME Inv, NEW r \in Copies
  PROVE  r \in Round /\ Sound(r)
BY DEF Inv, Copies, Kept, Option

-----------------------------------------------------------------------------
(* What the invariant gives                                                *)

\* No method overflows a copy's integers, whichever holder calls it and however
\* stale the copy is.
THEOREM TypeCorrect == Spec => []TypeOK
<1>1. Inv => TypeOK
  <2> SUFFICES ASSUME Inv PROVE TypeOK
    OBVIOUS
  <2>1. \A r \in Copies : RoundType(r)
    BY CopyFacts DEF Round, RoundType
  <2> QED
    BY <2>1 DEF Inv, TypeOK
<1> QED
  BY <1>1, Invariance, PTL

\* In every copy a root stands for a cohort that met a threshold and cannot grow
\* any more, and a window is non-empty and has both its ends: transition(), which
\* may be called out of turn, breaks neither; what it may leave out is told apart.
THEOREM EveryCopySound == Spec => []CopiesAreSound
<1>1. Inv => CopiesAreSound
  <2> SUFFICES ASSUME Inv, NEW r \in Copies
               PROVE  /\ Allowed(r.accepted)
                      /\ r.root # None => Enough(r.accepted) /\ ~MayRegister(r)
                      /\ (r.release = None) = (r.end = None)
                      /\ r.release # None =>
                           /\ r.release < r.end
                           /\ r.state \notin {"Draft", "Registration",
                                              "ThresholdReached", "Sealed"}
                      /\ r.via = "methods" =>
                           /\ r.state \in AfterSeal => r.root # None
                           /\ r.state \in AfterWindow => r.release # None
    BY DEF CopiesAreSound, Allowed, Enough
  <2>1. Sound(r)
    BY CopyFacts
  <2> QED
    BY <2>1 DEF Sound, BeforeSeal, BeforeWindow, MayRegister
<1> QED
  BY <1>1, Invariance, PTL

-----------------------------------------------------------------------------
(* The row                                                                 *)
(*                                                                         *)
(* A stale copy may overwrite the row.  A holder whose copy comes from the *)
(* row as it now is works on what it fetched, so its copy continues the    *)
(* row: what the row has settled, the copy has too.                        *)

CopyContinuesRow ==
  \A h \in current : stored # None /\ held[h] # None => Continues(stored, held[h])

Method(h) ==
  \/ \E next \in Lifecycle!RoundState : Transition(h, next)
  \/ \E max \in Maxima : Register(h, max)
  \/ \E root \in Roots, minimum \in Minima : Seal(h, root, minimum)
  \/ \E release \in Releases : ScheduleRelease(h, release)

LEMMA ContinuesItself ==
  ASSUME NEW r \in Round PROVE Continues(r, r)
<1>1. r.accepted \in 0 .. U32Max
  BY DEF Round
<1>2. r.accepted <= r.accepted
  BY <1>1, BoundsAssumption, SMT
<1> QED
  BY <1>2 DEF Continues

\* No method replaces a root, a window or a sealed cohort, or goes back.
LEMMA MethodContinues ==
  ASSUME Inv, NEW h \in Holders, held[h] # None, Method(h)
  PROVE  /\ stored' = stored /\ current' = current
         /\ \A g \in Holders : g # h => held'[g] = held[g]
         /\ Continues(held[h], held'[h])
<1>1. /\ held[h] \in Round /\ Sound(held[h]) /\ h \in DOMAIN held
      /\ held[h].accepted \in Nat /\ Continues(held[h], held[h])
  BY HolderFacts, ContinuesItself DEF Inv
<1>0. /\ stored' = stored /\ current' = current
      /\ \A g \in Holders : g # h => held'[g] = held[g]
  BY <1>1 DEF Method, Transition, Register, Seal, ScheduleRelease, Update, Inv
<1>2. ASSUME NEW next \in Lifecycle!RoundState, Transition(h, next)
      PROVE  Continues(held[h], held'[h])
  <2>1. held'[h] = [held[h] EXCEPT !.state = next, !.via = Via(held[h], next)]
    BY <1>1, <1>2 DEF Transition, Update
  <2>2. /\ held'[h].accepted = held[h].accepted /\ held'[h].root = held[h].root
        /\ held'[h].release = held[h].release /\ held'[h].end = held[h].end
        /\ held'[h].state = next
    BY <1>1, <2>1 DEF Round
  <2>3. /\ held[h].state \notin Lifecycle!TerminalState
        /\ held[h].state \in AfterSeal => next \in AfterSeal \cup Lifecycle!TerminalState
    BY <1>2 DEF Transition, Lifecycle!CanTransitionTo, Lifecycle!TerminalState,
       AfterSeal, AfterWindow
  <2> QED
    BY <1>1, <2>2, <2>3 DEF Continues
<1>3. ASSUME NEW max \in Maxima, Register(h, max)
      PROVE  Continues(held[h], held'[h])
  <2>1. held'[h] = [held[h] EXCEPT !.accepted = held[h].accepted + 1]
    BY <1>1, <1>3 DEF Register, Update
  <2>2. held[h].root = None
    BY <1>1, <1>3 DEF Register, MayRegister, Sound, BeforeSeal
  <2>3. /\ held'[h].accepted = held[h].accepted + 1
        /\ held'[h].release = held[h].release /\ held'[h].end = held[h].end
        /\ held'[h].state = held[h].state
    BY <1>1, <2>1 DEF Round
  <2>4. held[h].accepted <= held'[h].accepted
    BY <1>1, <2>3, SMT
  <2> QED
    BY <2>2, <2>3, <2>4 DEF Continues
<1>4. ASSUME NEW root \in Roots, NEW minimum \in Minima, Seal(h, root, minimum)
      PROVE  Continues(held[h], held'[h])
  <2>1. held'[h] = [held[h] EXCEPT !.root = root, !.state = "Sealed"]
    BY <1>1, <1>4 DEF Seal, Update
  <2>2. /\ held[h].root = None /\ held[h].state = "ThresholdReached"
        /\ held'[h].accepted = held[h].accepted
        /\ held'[h].release = held[h].release /\ held'[h].end = held[h].end
    BY <1>1, <1>4, <2>1 DEF Seal, Round
  <2> QED
    BY <1>1, <2>2 DEF Continues, AfterSeal, AfterWindow, Lifecycle!TerminalState
<1>5. ASSUME NEW release \in Releases, ScheduleRelease(h, release)
      PROVE  Continues(held[h], held'[h])
  <2>1. held'[h] = [held[h] EXCEPT !.release = release, !.end = WindowEnd(release),
                                   !.state = "ReleaseScheduled"]
    BY <1>1, <1>5 DEF ScheduleRelease, Update
  <2>2. /\ held[h].release = None /\ held[h].state = "Sealed"
        /\ held'[h].accepted = held[h].accepted /\ held'[h].root = held[h].root
        /\ held'[h].state = "ReleaseScheduled"
    BY <1>1, <1>5, <2>1 DEF ScheduleRelease, Round
  <2> QED
    BY <1>1, <2>2 DEF Continues, AfterSeal, AfterWindow, Lifecycle!TerminalState
<1> QED
  BY <1>0, <1>2, <1>3, <1>4, <1>5 DEF Method

LEMMA ContinuesTransitive ==
  ASSUME NEW a \in Round, NEW b \in Round, NEW c \in Round,
         Continues(a, b), Continues(b, c)
  PROVE  Continues(a, c)
<1>1. /\ a.accepted \in 0 .. U32Max /\ b.accepted \in 0 .. U32Max
      /\ c.accepted \in 0 .. U32Max
  BY DEF Round
<1>2. a.accepted <= c.accepted
  BY <1>1, BoundsAssumption, SMT DEF Continues
<1>3. a.state \in AfterSeal => c.state \in AfterSeal \cup Lifecycle!TerminalState
  BY DEF Continues
<1> QED
  BY <1>2, <1>3 DEF Continues

\* One step, seen from the row and the copies that come from it.
LEMMA RowStep ==
  Inv /\ CopyContinuesRow /\ [Next]_vars => CopyContinuesRow'
<1> SUFFICES ASSUME Inv, CopyContinuesRow, [Next]_vars PROVE CopyContinuesRow'
  OBVIOUS
<1>0. /\ Inv' /\ \A h \in Holders : h \in DOMAIN held
      /\ \A h \in current : h \in Holders
  BY NextInv DEF Inv
<1>1. CASE UNCHANGED vars \/ Tick \/ \E c \in Configs : CreatePool(c)
  BY <1>1 DEF vars, Tick, CreatePool, CopyContinuesRow
<1>2. ASSUME NEW h \in Holders, OpenRound(h) PROVE CopyContinuesRow'
  BY <1>2 DEF OpenRound, CopyContinuesRow
<1>3. ASSUME NEW h \in Holders, Crash(h) PROVE CopyContinuesRow'
  <2>1. /\ stored' = stored /\ current' = current \ {h}
        /\ \A g \in Holders : g # h => held'[g] = held[g]
    BY <1>0, <1>3 DEF Crash, Update
  <2> QED
    BY <1>0, <2>1 DEF CopyContinuesRow
<1>4. ASSUME NEW h \in Holders, FetchRound(h) PROVE CopyContinuesRow'
  <2>1. /\ stored' = stored /\ current' = current \cup {h} /\ stored # None
        /\ held'[h] = stored /\ \A g \in Holders : g # h => held'[g] = held[g]
    BY <1>0, <1>4 DEF FetchRound, Update
  <2>2. Continues(stored, stored)
    BY <2>1, ContinuesItself DEF Inv, Option
  <2> QED
    BY <1>0, <2>1, <2>2 DEF CopyContinuesRow
<1>5. ASSUME NEW h \in Holders, PutRound(h) PROVE CopyContinuesRow'
  <2>1. /\ held[h] # None /\ stored' = held[h] /\ held' = held /\ current' = {h}
    BY <1>5 DEF PutRound
  <2>2. Continues(held[h], held[h])
    BY <2>1, ContinuesItself DEF Inv, Option
  <2> QED
    BY <2>1, <2>2 DEF CopyContinuesRow
<1>6. ASSUME NEW h \in Holders, Method(h) PROVE CopyContinuesRow'
  <2>1. held[h] # None
    BY <1>6 DEF Method, Transition, Register, Seal, ScheduleRelease
  <2>2. /\ stored' = stored /\ current' = current
        /\ \A g \in Holders : g # h => held'[g] = held[g]
        /\ Continues(held[h], held'[h])
    BY <1>6, <2>1, MethodContinues
  <2>3. ASSUME h \in current, stored # None, held'[h] # None
        PROVE  Continues(stored, held'[h])
    <3>1. stored \in Round /\ held[h] \in Round /\ held'[h] \in Round
      BY <1>0, <2>1, <2>3 DEF Inv, Option
    <3>2. Continues(stored, held[h])
      BY <2>1, <2>3 DEF CopyContinuesRow
    <3> QED
      BY <2>2, <3>1, <3>2, ContinuesTransitive
  <2> QED
    BY <1>0, <2>2, <2>3 DEF CopyContinuesRow
<1> QED
  BY <1>1, <1>2, <1>3, <1>4, <1>5, <1>6 DEF Next, Method

\* Whoever puts a copy of the row as it is settles what the row has settled for
\* good, however many holders there are and whenever they crash: no registration is
\* lost, root and window are written once, a finished round stays finished.
THEOREM RowSettles == Spec => RowIsMonotone
<1>1. Init => CopyContinuesRow
  BY DEF Init, CopyContinuesRow
<1>2. ASSUME CopyContinuesRow, NEW h \in Holders, PutRound(h), h \in current,
             stored # None
      PROVE  Continues(stored, stored')
  BY <1>2 DEF CopyContinuesRow, PutRound
<1>3. CopyContinuesRow /\ [Next]_vars =>
        [\A h \in Holders : PutRound(h) /\ h \in current /\ stored # None
                              => Continues(stored, stored')]_vars
  BY <1>2
<1> QED
  BY <1>1, <1>3, RowStep, Invariance, PTL DEF Spec, RowIsMonotone
=============================================================================
