-------------------- MODULE CoordinationProgram_proofs --------------------
(***************************************************************************)
(* Proofs about the coordination program, for every set of pools, wallets, *)
(* keys and policies and every value of the bounds.                        *)
(***************************************************************************)
EXTENDS CoordinationProgram, FiniteSetTheorems, WellFoundedInduction, TLAPS

\* The instructions that change one field set of one round and nothing else
\* keep every account well typed when what they write is a round account.
LEMMA RoundWriteTyped ==
  ASSUME TypeOK, NEW r \in Rounds, NEW v \in RoundAccount,
         round' = [round EXCEPT ![r] = v],
         slot' = slot, pool' = pool,
         participant' \subseteq (Rounds \X Keys \X Bumps),
         lamports' \in [Authorities -> Nat]
  PROVE  TypeOK'
BY DEF TypeOK

LEMMA CreateAccountTyped ==
  ASSUME lamports \in [Authorities -> Nat], NEW a \in Authorities,
         NEW u, NEW rent \in Nat, CreateAccount(a, u, rent)
  PROVE  u /\ lamports' \in [Authorities -> Nat]
BY DEF CreateAccount

LEMMA ZeroAccountsTyped ==
  /\ ZeroPool \in PoolAccount
  /\ ZeroRound \in RoundAccount
BY DEF ZeroPool, PoolAccount, ZeroRound, RoundAccount, Backends, State

LEMMA InitTyped == Init => TypeOK
BY ZeroAccountsTyped, BoundAssumption DEF Init, TypeOK

LEMMA TickTyped == TypeOK /\ Tick => TypeOK'
BY BoundAssumption DEF TypeOK, Tick

LEMMA InitializePoolTyped ==
  ASSUME TypeOK, NEW a \in Authorities, NEW p \in Pools, NEW c \in Policies,
         InitializePool(a, p, c)
  PROVE  TypeOK'
<1>1. c \in Policy
  BY InputAssumption
<1>2. NewPool(a, c) \in PoolAccount
  BY <1>1 DEF NewPool, PoolAccount, Policy
<1>3. lamports' \in [Authorities -> Nat]
  BY CreateAccountTyped, BoundAssumption DEF InitializePool, TypeOK
<1> QED
  BY <1>2, <1>3 DEF TypeOK, InitializePool

LEMMA OpenRoundTyped ==
  ASSUME TypeOK, NEW a \in Authorities, NEW p \in Pools, NEW id \in RoundIds,
         NEW d \in Deadlines, NEW t \in Templates, OpenRound(a, p, id, d, t)
  PROVE  TypeOK'
<1>1. id \in Nat /\ d \in Nat
  BY BoundAssumption, InputAssumption DEF RoundIds
<1>2. NewRound(p, id, d, t) \in RoundAccount
  BY <1>1 DEF NewRound, RoundAccount, State
<1>3. <<p, id>> \in Rounds
  BY DEF Rounds
<1>4. lamports' \in [Authorities -> Nat]
  BY CreateAccountTyped, BoundAssumption DEF OpenRound, TypeOK
<1>5. [pool[p] EXCEPT !.next_round = id + 1] \in PoolAccount
  BY <1>1 DEF TypeOK, PoolAccount
<1>6. pool' \in [Pools -> PoolAccount]
  BY <1>5 DEF OpenRound, TypeOK
<1> QED
  BY <1>2, <1>3, <1>4, <1>6 DEF TypeOK, OpenRound

LEMMA RegisterTransparentTyped ==
  ASSUME TypeOK, NEW a \in Authorities, NEW p \in Pools, NEW r \in Rounds,
         NEW k \in Keys, NEW b \in Bumps, RegisterTransparent(a, p, r, k, b)
  PROVE  TypeOK'
<1>1. round[r] \in RoundAccount
  BY DEF TypeOK
<1>2. StateAfterRegister(p, r) \in State
  BY <1>1 DEF StateAfterRegister, State, RoundAccount
<1>3. Registered(p, r) \in RoundAccount
  <2>1. round[r].accepted_count + 1 \in Nat
    BY <1>1 DEF RoundAccount
  <2>2. ASSUME NEW n \in Nat, NEW s \in State
        PROVE  [round[r] EXCEPT !.accepted_count = n, !.state = s]
                 \in RoundAccount
    BY <1>1 DEF RoundAccount
  <2> QED
    BY <1>2, <2>1, <2>2 DEF Registered
<1>4. lamports' \in [Authorities -> Nat]
  BY CreateAccountTyped, BoundAssumption DEF RegisterTransparent, TypeOK
<1>5. participant' \subseteq (Rounds \X Keys \X Bumps)
  BY DEF RegisterTransparent, TypeOK
<1> QED
  BY <1>3, <1>4, <1>5, RoundWriteTyped DEF RegisterTransparent

LEMMA PublishRootTyped ==
  ASSUME TypeOK, NEW a \in Authorities, NEW p \in Pools, NEW r \in Rounds,
         NEW h \in Hashes \cup {ZeroHash}, NEW n \in Counts,
         PublishRoot(a, p, r, h, n)
  PROVE  TypeOK'
<1>1. round[r] \in RoundAccount /\ n \in Nat
  BY InputAssumption DEF TypeOK
<1>2. [round[r] EXCEPT !.cohort_root = h, !.accepted_count = n,
                       !.state = "ThresholdReached"] \in RoundAccount
  BY <1>1 DEF RoundAccount, State
<1> QED
  BY <1>2 DEF PublishRoot, TypeOK

\* Instructions that only move a round to another state.
LEMMA StateWriteTyped ==
  ASSUME TypeOK, NEW r \in Rounds, NEW s \in State,
         round' = [round EXCEPT ![r].state = s],
         UNCHANGED <<slot, pool, participant, lamports>>
  PROVE  TypeOK'
<1>1. round[r] \in RoundAccount
  BY DEF TypeOK
<1>2. [round[r] EXCEPT !.state = s] \in RoundAccount
  BY <1>1 DEF RoundAccount
<1> QED
  BY <1>2 DEF TypeOK

LEMMA ScheduleTyped ==
  ASSUME TypeOK, NEW a \in Authorities, NEW p \in Pools, NEW r \in Rounds,
         NEW release \in Releases, Schedule(a, p, r, release)
  PROVE  TypeOK'
<1>1. /\ round[r] \in RoundAccount
      /\ release \in Nat
      /\ pool[p].execution_window \in Nat
  BY InputAssumption DEF TypeOK, PoolAccount
<1>2. Scheduled(p, r, release) \in RoundAccount
  <2>1. release + pool[p].execution_window \in Nat
    BY <1>1
  <2>2. ASSUME NEW n \in Nat
        PROVE  [round[r] EXCEPT !.release_slot = release,
                                !.window_end_slot = n,
                                !.state = "ReleaseScheduled"] \in RoundAccount
    BY <1>1 DEF RoundAccount, State
  <2> QED
    BY <2>1, <2>2 DEF Scheduled
<1> QED
  BY <1>2 DEF Schedule, TypeOK

LEMMA FinalizeTyped ==
  ASSUME TypeOK, NEW a \in Authorities, NEW p \in Pools, NEW r \in Rounds,
         NEW m \in Hashes \cup {ZeroHash}, Finalize(a, p, r, m)
  PROVE  TypeOK'
<1>1. round[r] \in RoundAccount
  BY DEF TypeOK
<1>2. [round[r] EXCEPT !.metrics_hash = m, !.state = "Completed"]
        \in RoundAccount
  BY <1>1 DEF RoundAccount, State
<1> QED
  BY <1>2 DEF Finalize, TypeOK

LEMMA CloseTyped ==
  ASSUME TypeOK, NEW a \in Authorities, NEW p \in Pools, NEW r \in Rounds,
         Close(a, p, r)
  PROVE  TypeOK'
<1>1. lamports' \in [Authorities -> Nat]
  BY BoundAssumption DEF Close, TypeOK
<1> QED
  BY <1>1, ZeroAccountsTyped DEF Close, Cleared, TypeOK

LEMMA NextTyped == TypeOK /\ [Next]_vars => TypeOK'
<1> SUFFICES ASSUME TypeOK, [Next]_vars PROVE TypeOK'
  OBVIOUS
<1>1. CASE Tick
  BY <1>1, TickTyped
<1>2. ASSUME NEW a \in Authorities, NEW p \in Pools, PoolInstruction(a, p)
      PROVE  TypeOK'
  BY <1>2, InitializePoolTyped, OpenRoundTyped DEF PoolInstruction
<1>3. ASSUME NEW a \in Authorities, NEW p \in Pools, NEW r \in Rounds,
             RoundInstruction(a, p, r)
      PROVE  TypeOK'
  <2>1. CASE Seal(a, p, r)
    BY <2>1, StateWriteTyped DEF Seal, State
  <2>2. CASE Cancel(a, p, r)
    BY <2>2, StateWriteTyped DEF Cancel, State
  <2> QED
    BY <1>3, <2>1, <2>2, RegisterTransparentTyped, PublishRootTyped,
       ScheduleTyped, FinalizeTyped, CloseTyped DEF RoundInstruction
<1>4. ASSUME NEW r \in Rounds, Begin(r) PROVE TypeOK'
  BY <1>4, StateWriteTyped DEF Begin, State
<1>5. CASE UNCHANGED vars
  BY <1>5 DEF TypeOK, vars
<1> QED
  BY <1>1, <1>2, <1>3, <1>4, <1>5 DEF Next

\* Every reachable account is well formed and no balance is ever negative: a
\* rejected create_account is the only way a payer's lamports could run out.
THEOREM TypeCorrect == Spec => []TypeOK
<1>1. Init => TypeOK
  BY InitTyped
<1>2. TypeOK /\ [Next]_vars => TypeOK'
  BY NextTyped
<1> QED
  BY <1>1, <1>2, PTL DEF Spec

-----------------------------------------------------------------------------
(* The inductive invariant                                                 *)
(*                                                                         *)
(* CohortWithinPolicy and WindowTiming speak of the pool a round was       *)
(* opened under, while the handlers read the pool account they are passed. *)
(* The link is Numbered; that a window is not empty needs every pool       *)
(* account to hold a policy that initialize accepted; and a transparent    *)
(* round that reaches its threshold has no root because no transparent     *)
(* round ever gets one.                                                    *)

PoolsSound ==
  \A p \in Pools : /\ LivePool(p) => pool[p].execution_window > 0
                   /\ ~ LivePool(p) => pool[p].next_round = 0

Numbered(r) ==
  /\ round[r].pool = r[1]
  /\ LivePool(r[1])
  /\ r[2] < OwnPool(r).next_round

NoTransparentRoot(r) ==
  OwnPool(r).backend = "TransparentRegistry" => round[r].cohort_root = ZeroHash

RoundSound(r) ==
  Numbered(r) /\ NoTransparentRoot(r) /\ CohortSound(r) /\ WindowSound(r)

Inv ==
  /\ TypeOK
  /\ PoolsSound
  /\ \A r \in Rounds : LiveRound(r) => RoundSound(r)

LEMMA RoundComponents ==
  ASSUME NEW r \in Rounds
  PROVE  r[1] \in Pools /\ r[2] \in RoundIds /\ r[2] \in Nat /\ r = <<r[1], r[2]>>
BY BoundAssumption DEF Rounds, RoundIds

LEMMA InitInv == Init => Inv
<1> SUFFICES ASSUME Init PROVE Inv
  OBVIOUS
<1>1. \A p \in Pools : ~ LivePool(p) /\ pool[p].next_round = 0
  BY DEF Init, LivePool, ZeroPool
<1>2. \A r \in Rounds : ~ LiveRound(r)
  BY DEF Init, LiveRound, ZeroRound
<1> QED
  BY <1>1, <1>2, InitTyped DEF Inv, PoolsSound

LEMMA TickInv == Inv /\ Tick => Inv'
<1> SUFFICES ASSUME Inv, Tick PROVE Inv'
  OBVIOUS
<1>1. TypeOK'
  BY TickTyped DEF Inv
<1>2. UNCHANGED <<pool, round>> /\ slot' > slot /\ slot \in Nat /\ slot' \in Nat
  BY BoundAssumption DEF Tick, Inv, TypeOK
<1>3. PoolsSound'
  BY <1>2 DEF Inv, PoolsSound, LivePool
<1>4. ASSUME NEW r \in Rounds, LiveRound(r)' PROVE RoundSound(r)'
  <2>1. RoundSound(r)
    BY <1>2, <1>4 DEF Inv, LiveRound
  <2>2. WindowSound(r)'
    BY <1>2, <2>1 DEF RoundSound, WindowSound, Inv, TypeOK, RoundAccount
  <2> QED
    BY <1>2, <2>1, <2>2 DEF RoundSound, Numbered, NoTransparentRoot,
       CohortSound, LivePool, OwnPool
<1> QED
  BY <1>1, <1>3, <1>4 DEF Inv

\* An instruction that writes one round account and no pool account preserves
\* the invariant if it leaves that round sound.
LEMMA RoundWriteInv ==
  ASSUME Inv, TypeOK', NEW r \in Rounds, NEW v,
         round' = [round EXCEPT ![r] = v],
         UNCHANGED <<slot, pool>>,
         LiveRound(r)' => RoundSound(r)'
  PROVE  Inv'
<1>1. PoolsSound'
  BY DEF Inv, PoolsSound, LivePool
<1>2. ASSUME NEW q \in Rounds, LiveRound(q)' PROVE RoundSound(q)'
  <2>1. CASE q = r
    BY <1>2, <2>1
  <2>2. CASE q # r
    <3>1. round'[q] = round[q]
      BY <2>2 DEF Inv, TypeOK
    <3>2. RoundSound(q)
      BY <1>2, <3>1 DEF Inv, LiveRound
    <3> QED
      BY <3>1, <3>2 DEF RoundSound, Numbered, NoTransparentRoot, CohortSound,
         WindowSound, LivePool, OwnPool
  <2> QED
    BY <2>1, <2>2
<1> QED
  BY <1>1, <1>2 DEF Inv

\* Whatever a round instruction reads of the round it was given.
LEMMA LiveRoundFacts ==
  ASSUME Inv, NEW r \in Rounds, LiveRound(r)
  PROVE  /\ round[r] \in RoundAccount
         /\ round[r].release_slot \in Nat /\ round[r].window_end_slot \in Nat
         /\ round[r].accepted_count \in Nat
         /\ RoundSound(r)
         /\ pool[r[1]] \in PoolAccount
         /\ slot \in Nat
BY RoundComponents, BoundAssumption DEF Inv, TypeOK, RoundAccount

LEMMA RegisterTransparentInv ==
  ASSUME Inv, NEW a \in Authorities, NEW p \in Pools, NEW r \in Rounds,
         NEW k \in Keys, NEW b \in Bumps, RegisterTransparent(a, p, r, k, b)
  PROVE  Inv'
<1>1. TypeOK'
  BY RegisterTransparentTyped DEF Inv
<1>2. /\ LiveRound(r) /\ p = r[1]
      /\ pool[p].backend = "TransparentRegistry"
      /\ round[r].state \in {"Registration", "ThresholdReached"}
      /\ round[r].accepted_count < pool[p].max_participants
      /\ round' = [round EXCEPT ![r] = Registered(p, r)]
      /\ UNCHANGED <<slot, pool>>
  BY DEF RegisterTransparent, RegistrationOpen, Inv, RoundSound, Numbered
<1>3. /\ round[r] \in RoundAccount /\ RoundSound(r)
      /\ pool[p].min_participants \in Nat /\ pool[p].max_participants \in Nat
  BY <1>2, LiveRoundFacts DEF PoolAccount
<1>4. /\ round'[r].accepted_count = round[r].accepted_count + 1
      /\ round'[r].state = StateAfterRegister(p, r)
      /\ round'[r].pool = round[r].pool
      /\ round'[r].cohort_root = round[r].cohort_root
      /\ round'[r].version = round[r].version
  BY <1>2, <1>3 DEF Registered, RoundAccount, Inv, TypeOK
<1>5. /\ StateAfterRegister(p, r) \in {"Registration", "ThresholdReached"}
      /\ StateAfterRegister(p, r) = "ThresholdReached" =>
           round[r].accepted_count + 1 >= pool[p].min_participants
  BY <1>2, <1>3 DEF StateAfterRegister, RoundSound, CohortSound, ThresholdMet,
     RoundAccount, OwnPool
<1>6. CohortSound(r)' /\ NoTransparentRoot(r)'
  BY <1>2, <1>3, <1>4, <1>5 DEF CohortSound, NoTransparentRoot, RoundSound,
     ThresholdMet, OwnPool, RoundAccount
<1>7. WindowSound(r)'
  BY <1>4, <1>5 DEF WindowSound, WindowFixed
<1>8. Numbered(r)'
  BY <1>2, <1>3, <1>4 DEF RoundSound, Numbered, LivePool, OwnPool
<1> QED
  BY <1>1, <1>2, <1>6, <1>7, <1>8, RoundWriteInv DEF RoundSound

LEMMA PublishRootInv ==
  ASSUME Inv, NEW a \in Authorities, NEW p \in Pools, NEW r \in Rounds,
         NEW h \in Hashes \cup {ZeroHash}, NEW n \in Counts,
         PublishRoot(a, p, r, h, n)
  PROVE  Inv'
<1> DEFINE v == [round[r] EXCEPT !.cohort_root = h, !.accepted_count = n,
                                 !.state = "ThresholdReached"]
<1>1. TypeOK'
  BY PublishRootTyped DEF Inv
<1>2. /\ LiveRound(r) /\ p = r[1]
      /\ pool[p].backend = "MerkleCohort" /\ h # ZeroHash
      /\ n \in pool[p].min_participants .. pool[p].max_participants
      /\ round' = [round EXCEPT ![r] = v]
      /\ UNCHANGED <<slot, pool>>
  BY DEF PublishRoot, AdminAccounts, CountAllowed, Inv, RoundSound, Numbered
<1>3. /\ round[r] \in RoundAccount /\ RoundSound(r) /\ n \in Nat
      /\ pool[p].min_participants \in Nat /\ pool[p].max_participants \in Nat
  BY <1>2, LiveRoundFacts, InputAssumption DEF PoolAccount
<1>4. /\ round'[r].accepted_count = n /\ round'[r].cohort_root = h
      /\ round'[r].state = "ThresholdReached"
      /\ round'[r].pool = round[r].pool
  BY <1>2, <1>3 DEF RoundAccount, Inv, TypeOK
<1>5. CohortSound(r)' /\ NoTransparentRoot(r)'
  BY <1>2, <1>3, <1>4 DEF CohortSound, NoTransparentRoot, OwnPool
<1>6. WindowSound(r)'
  BY <1>4 DEF WindowSound, WindowFixed
<1>7. Numbered(r)'
  BY <1>2, <1>3, <1>4 DEF RoundSound, Numbered, LivePool, OwnPool
<1> QED
  BY <1>1, <1>2, <1>5, <1>6, <1>7, RoundWriteInv DEF RoundSound

\* A state change that keeps the rest of a live round is sound if it does not
\* claim a cohort or a window the round does not have.
LEMMA StateWriteInv ==
  ASSUME Inv, NEW r \in Rounds, NEW s \in State, LiveRound(r),
         round' = [round EXCEPT ![r].state = s],
         UNCHANGED <<slot, pool, participant, lamports>>,
         s \in ThresholdMet => round[r].state \in ThresholdMet,
         s \in WindowFixed => round[r].state \in WindowFixed,
         s = "ExecutionWindow" => round[r].release_slot <= slot,
         s = "Completed" => round[r].window_end_slot < slot
  PROVE  Inv'
<1> DEFINE v == [round[r] EXCEPT !.state = s]
<1>1. TypeOK'
  BY StateWriteTyped DEF Inv
<1>2. /\ round[r] \in RoundAccount /\ RoundSound(r)
      /\ round' = [round EXCEPT ![r] = v]
  BY LiveRoundFacts DEF Inv, TypeOK
<1>3. /\ round'[r].accepted_count = round[r].accepted_count
      /\ round'[r].cohort_root = round[r].cohort_root
      /\ round'[r].release_slot = round[r].release_slot
      /\ round'[r].window_end_slot = round[r].window_end_slot
      /\ round'[r].pool = round[r].pool
      /\ round'[r].state = s
  BY <1>2 DEF RoundAccount, Inv, TypeOK
<1>4. CohortSound(r)' /\ NoTransparentRoot(r)'
  BY <1>2, <1>3 DEF CohortSound, NoTransparentRoot, RoundSound, OwnPool
<1>5. WindowSound(r)'
  BY <1>2, <1>3 DEF WindowSound, RoundSound
<1>6. Numbered(r)'
  BY <1>2, <1>3 DEF RoundSound, Numbered, LivePool, OwnPool
<1> QED
  BY <1>1, <1>2, <1>4, <1>5, <1>6, RoundWriteInv DEF RoundSound

LEMMA ScheduleInv ==
  ASSUME Inv, NEW a \in Authorities, NEW p \in Pools, NEW r \in Rounds,
         NEW release \in Releases, Schedule(a, p, r, release)
  PROVE  Inv'
<1>1. TypeOK'
  BY ScheduleTyped DEF Inv
<1>2. /\ LiveRound(r) /\ LivePool(p) /\ round[r].state = "Sealed"
      /\ release + pool[p].execution_window <= U64Max
      /\ round' = [round EXCEPT ![r] = Scheduled(p, r, release)]
      /\ UNCHANGED <<slot, pool>>
  BY DEF Schedule, AdminAccounts, Schedulable
<1>3. /\ round[r] \in RoundAccount /\ RoundSound(r) /\ release \in Nat
      /\ pool[p].execution_window \in Nat /\ pool[p].execution_window > 0
  BY <1>2, LiveRoundFacts, InputAssumption DEF Inv, PoolsSound, TypeOK, PoolAccount
<1>4. /\ round'[r].accepted_count = round[r].accepted_count
      /\ round'[r].cohort_root = round[r].cohort_root
      /\ round'[r].release_slot = release
      /\ round'[r].window_end_slot = release + pool[p].execution_window
      /\ round'[r].pool = round[r].pool
      /\ round'[r].state = "ReleaseScheduled"
  BY <1>2, <1>3 DEF Scheduled, RoundAccount, Inv, TypeOK
<1>5. CohortSound(r)' /\ NoTransparentRoot(r)'
  BY <1>2, <1>3, <1>4 DEF CohortSound, NoTransparentRoot, RoundSound,
     ThresholdMet, OwnPool
<1>6. WindowSound(r)'
  BY <1>2, <1>3, <1>4 DEF WindowSound
<1>7. Numbered(r)'
  BY <1>2, <1>3, <1>4 DEF RoundSound, Numbered, LivePool, OwnPool
<1> QED
  BY <1>1, <1>2, <1>5, <1>6, <1>7, RoundWriteInv DEF RoundSound

LEMMA FinalizeInv ==
  ASSUME Inv, NEW a \in Authorities, NEW p \in Pools, NEW r \in Rounds,
         NEW m \in Hashes \cup {ZeroHash}, Finalize(a, p, r, m)
  PROVE  Inv'
<1> DEFINE v == [round[r] EXCEPT !.metrics_hash = m, !.state = "Completed"]
<1>1. TypeOK'
  BY FinalizeTyped DEF Inv
<1>2. /\ LiveRound(r) /\ round[r].state = "ExecutionWindow"
      /\ slot > round[r].window_end_slot
      /\ round' = [round EXCEPT ![r] = v]
      /\ UNCHANGED <<slot, pool>>
  BY DEF Finalize, AdminAccounts, Finalizable
<1>3. round[r] \in RoundAccount /\ RoundSound(r)
  BY <1>2, LiveRoundFacts
<1>4. /\ round'[r].accepted_count = round[r].accepted_count
      /\ round'[r].cohort_root = round[r].cohort_root
      /\ round'[r].release_slot = round[r].release_slot
      /\ round'[r].window_end_slot = round[r].window_end_slot
      /\ round'[r].pool = round[r].pool
      /\ round'[r].state = "Completed"
  BY <1>2, <1>3 DEF RoundAccount, Inv, TypeOK
<1>5. CohortSound(r)' /\ NoTransparentRoot(r)'
  BY <1>2, <1>3, <1>4 DEF CohortSound, NoTransparentRoot, RoundSound,
     ThresholdMet, OwnPool
<1>6. WindowSound(r)'
  BY <1>2, <1>3, <1>4 DEF WindowSound, RoundSound, WindowFixed
<1>7. Numbered(r)'
  BY <1>2, <1>3, <1>4 DEF RoundSound, Numbered, LivePool, OwnPool
<1> QED
  BY <1>1, <1>2, <1>5, <1>6, <1>7, RoundWriteInv DEF RoundSound

LEMMA CloseInv ==
  ASSUME Inv, NEW a \in Authorities, NEW p \in Pools, NEW r \in Rounds,
         Close(a, p, r)
  PROVE  Inv'
<1>1. TypeOK'
  BY CloseTyped DEF Inv
<1>2. round' = [round EXCEPT ![r] = ZeroRound] /\ UNCHANGED <<slot, pool>>
  BY DEF Close, Cleared
<1>3. ~ LiveRound(r)'
  BY <1>2 DEF LiveRound, ZeroRound, Inv, TypeOK
<1> QED
  BY <1>1, <1>2, <1>3, RoundWriteInv

\* A pool that is created has no rounds yet, so no round's policy changes.
LEMMA InitializePoolInv ==
  ASSUME Inv, NEW a \in Authorities, NEW p \in Pools, NEW c \in Policies,
         InitializePool(a, p, c)
  PROVE  Inv'
<1>1. TypeOK'
  BY InitializePoolTyped DEF Inv
<1>2. /\ ~ LivePool(p) /\ c \in Policy /\ ValidPolicy(c)
      /\ pool' = [pool EXCEPT ![p] = NewPool(a, c)]
      /\ UNCHANGED <<slot, round>>
  BY InputAssumption DEF InitializePool, CreateAccount
<1>3. /\ pool'[p].execution_window > 0 /\ pool'[p].version = 1
      /\ \A q \in Pools \ {p} : pool'[q] = pool[q]
  BY <1>2 DEF NewPool, ValidPolicy, Policy, Inv, TypeOK
<1>4. PoolsSound'
  BY <1>3 DEF Inv, PoolsSound, LivePool
<1>5. ASSUME NEW r \in Rounds, LiveRound(r)' PROVE RoundSound(r)'
  <2>1. LiveRound(r) /\ RoundSound(r)
    BY <1>2, <1>5 DEF LiveRound, Inv
  <2>2. r[1] \in Pools /\ r[1] # p
    BY <1>2, <2>1, RoundComponents DEF RoundSound, Numbered
  <2>3. pool'[r[1]] = pool[r[1]]
    BY <1>3, <2>2
  <2> QED
    BY <1>2, <2>1, <2>3 DEF RoundSound, Numbered, NoTransparentRoot,
       CohortSound, WindowSound, LivePool, OwnPool
<1> QED
  BY <1>1, <1>4, <1>5 DEF Inv

LEMMA OpenRoundInv ==
  ASSUME Inv, NEW a \in Authorities, NEW p \in Pools, NEW id \in RoundIds,
         NEW d \in Deadlines, NEW t \in Templates, OpenRound(a, p, id, d, t)
  PROVE  Inv'
<1>1. TypeOK'
  BY OpenRoundTyped DEF Inv
<1>2. /\ LivePool(p) /\ id \in Nat /\ pool[p].next_round = id
      /\ pool[p] \in PoolAccount /\ <<p, id>> \in Rounds
      /\ pool' = [pool EXCEPT ![p].next_round = id + 1]
      /\ round' = [round EXCEPT ![<<p, id>>] = NewRound(p, id, d, t)]
      /\ slot' = slot
  BY BoundAssumption DEF OpenRound, IsNext, Inv, TypeOK, Rounds, RoundIds
<1>3. \A q \in Pools :
        /\ pool'[q].version = pool[q].version
        /\ pool'[q].backend = pool[q].backend
        /\ pool'[q].min_participants = pool[q].min_participants
        /\ pool'[q].max_participants = pool[q].max_participants
        /\ pool'[q].execution_window = pool[q].execution_window
        /\ q # p => pool'[q].next_round = pool[q].next_round
  BY <1>2 DEF Inv, TypeOK, PoolAccount
<1>4. pool'[p].next_round = id + 1
  BY <1>2 DEF Inv, TypeOK, PoolAccount
<1>5. PoolsSound'
  BY <1>2, <1>3 DEF Inv, PoolsSound, LivePool
<1>6. ASSUME NEW r \in Rounds, LiveRound(r)' PROVE RoundSound(r)'
  <2>0. r[1] \in Pools /\ r[2] \in Nat
    BY RoundComponents
  <2>1. CASE r = <<p, id>>
    <3>1. round'[r] = NewRound(p, id, d, t)
      BY <1>2, <2>1 DEF Inv, TypeOK
    <3> QED
      BY <1>2, <1>3, <1>4, <2>1, <3>1 DEF NewRound, RoundSound, Numbered,
         NoTransparentRoot, CohortSound, WindowSound, ThresholdMet,
         WindowFixed, LivePool, OwnPool
  <2>2. CASE r # <<p, id>>
    <3>1. round'[r] = round[r]
      BY <1>2, <2>2 DEF Inv, TypeOK
    <3>2. RoundSound(r)
      BY <1>6, <3>1 DEF LiveRound, Inv
    <3>3. r[2] < pool'[r[1]].next_round
      BY <1>2, <1>3, <1>4, <2>0, <3>2 DEF RoundSound, Numbered, OwnPool
    <3> QED
      BY <1>2, <1>3, <2>0, <3>1, <3>2, <3>3 DEF RoundSound, Numbered,
         NoTransparentRoot, CohortSound, WindowSound, LivePool, OwnPool
  <2> QED
    BY <2>1, <2>2
<1> QED
  BY <1>1, <1>5, <1>6 DEF Inv

LEMMA NextInv == Inv /\ [Next]_vars => Inv'
<1> SUFFICES ASSUME Inv, [Next]_vars PROVE Inv'
  OBVIOUS
<1>1. CASE Tick
  BY <1>1, TickInv
<1>2. ASSUME NEW a \in Authorities, NEW p \in Pools, PoolInstruction(a, p)
      PROVE  Inv'
  BY <1>2, InitializePoolInv, OpenRoundInv DEF PoolInstruction
<1>3. ASSUME NEW a \in Authorities, NEW p \in Pools, NEW r \in Rounds,
             RoundInstruction(a, p, r)
      PROVE  Inv'
  <2>1. CASE Seal(a, p, r)
    BY <2>1, StateWriteInv
       DEF Seal, AdminAccounts, State, ThresholdMet, WindowFixed
  <2>2. CASE Cancel(a, p, r)
    BY <2>2, StateWriteInv
       DEF Cancel, AdminAccounts, State, ThresholdMet, WindowFixed
  <2> QED
    BY <1>3, <2>1, <2>2, RegisterTransparentInv, PublishRootInv, ScheduleInv,
       FinalizeInv, CloseInv DEF RoundInstruction
<1>4. ASSUME NEW r \in Rounds, Begin(r) PROVE Inv'
  BY <1>4, StateWriteInv DEF Begin, InWindow, State, ThresholdMet, WindowFixed
<1>5. CASE UNCHANGED vars
  BY <1>5 DEF vars, Inv, TypeOK, PoolsSound, LivePool, LiveRound, RoundSound,
     Numbered, NoTransparentRoot, CohortSound, WindowSound, OwnPool
<1> QED
  BY <1>1, <1>2, <1>3, <1>4, <1>5 DEF Next

LEMMA Invariance == Spec => []Inv
<1> QED
  BY InitInv, NextInv, PTL DEF Spec

\* However the pool accounts passed to schedule, finalize and cancel are
\* chosen, a round past Registration has a cohort within the bounds of the pool
\* it was opened under, with a root exactly when that pool is a Merkle pool.
THEOREM CohortCorrect == Spec => []CohortWithinPolicy
<1>1. Inv => CohortWithinPolicy
  BY DEF Inv, RoundSound, CohortWithinPolicy
<1> QED
  BY <1>1, Invariance, PTL

\* A window is never empty and never overflows a u64, execution starts only once
\* it is open, and a round is completed only after its last slot.
THEOREM WindowCorrect == Spec => []WindowTiming
<1>1. Inv => WindowTiming
  BY DEF Inv, RoundSound, WindowTiming
<1> QED
  BY <1>1, Invariance, PTL

-----------------------------------------------------------------------------
(* One step, seen from one round                                           *)
(*                                                                         *)
(* The action properties and the count of the records are statements about *)
(* one round and one step.  A step leaves the round alone or does one of   *)
(* five things to it, whichever accounts the instruction was given.        *)

Untouched(r) == round'[r] = round[r] /\ Records(r)' = Records(r)

Opened(r) ==
  /\ ~ LiveRound(r)
  /\ r[2] = OwnPool(r).next_round
  /\ round'[r].accepted_count = 0
  /\ Records(r)' = Records(r)

Joined(r) ==
  /\ LiveRound(r)
  /\ OwnPool(r).backend = "TransparentRegistry"
  /\ RegistrationOpen(r)
  /\ round'[r].accepted_count = round[r].accepted_count + 1
  /\ \E k \in Keys, b \in Bumps :
       /\ <<r, k, b>> \notin participant
       /\ participant' = participant \cup {<<r, k, b>>}

Published(r) ==
  /\ LiveRound(r)
  /\ OwnPool(r).backend = "MerkleCohort"
  /\ round[r].state = "Registration"
  /\ Records(r)' = Records(r)

\* seal, schedule, begin, finalize or cancel.
Moved(r) ==
  /\ LiveRound(r)
  /\ Records(r)' = Records(r)
  /\ round'[r].accepted_count = round[r].accepted_count
  /\ round'[r].cohort_root = round[r].cohort_root
  /\ \/ round'[r].state = "Cancelled"
     \/ /\ round[r].state # "Registration"
        /\ round[r].state = "ReleaseScheduled" => InWindow(r)

Discarded(r) ==
  /\ LiveRound(r)
  /\ round[r].state \in Terminal
  /\ Records(r)' = Records(r)
  /\ ~ LiveRound(r)'

RoundEffect(r) ==
  \/ Untouched(r) \/ Opened(r) \/ Joined(r)
  \/ Published(r) \/ Moved(r) \/ Discarded(r)

\* Pools are created once and their policies never change.
PoolEffect(r) ==
  /\ OwnPool(r).next_round <= OwnPool(r)'.next_round
  /\ LivePool(r[1]) => OwnPool(r)'.backend = OwnPool(r).backend

\* What an instruction writes to another round's account does not show here.
LEMMA OtherRound ==
  ASSUME Inv, NEW r \in Rounds, NEW q \in Rounds, q # r, NEW v,
         round' = [round EXCEPT ![q] = v], participant' = participant
  PROVE  Untouched(r)
BY DEF Untouched, Records, Inv, TypeOK

\* A write to fields of a live round that keeps its count and its root.
LEMMA MoveEffect ==
  ASSUME Inv, NEW r \in Rounds, NEW q \in Rounds, NEW v \in RoundAccount,
         LiveRound(q), round' = [round EXCEPT ![q] = v],
         UNCHANGED participant,
         v.accepted_count = round[q].accepted_count,
         v.cohort_root = round[q].cohort_root,
         \/ v.state = "Cancelled"
         \/ /\ round[q].state # "Registration"
            /\ round[q].state = "ReleaseScheduled" => InWindow(q)
  PROVE  Untouched(r) \/ Moved(r)
<1>1. CASE q = r
  <2>1. round'[r] = v
    BY <1>1 DEF Inv, TypeOK
  <2> QED
    BY <1>1, <2>1 DEF Moved, Records
<1> QED
  BY <1>1, OtherRound

LEMMA RegisterTransparentEffect ==
  ASSUME Inv, NEW r \in Rounds, NEW a \in Authorities, NEW p \in Pools,
         NEW q \in Rounds, NEW k \in Keys, NEW b \in Bumps,
         RegisterTransparent(a, p, q, k, b)
  PROVE  Untouched(r) \/ Joined(r)
<1>1. /\ LiveRound(q) /\ p = q[1]
      /\ pool[p].backend = "TransparentRegistry"
      /\ RegistrationOpen(q)
      /\ <<q, k, b>> \notin participant
      /\ participant' = participant \cup {<<q, k, b>>}
      /\ round' = [round EXCEPT ![q] = Registered(p, q)]
      /\ round[q] \in RoundAccount
  BY DEF RegisterTransparent, CreateAccount, Unused, Inv, RoundSound, Numbered,
     TypeOK
<1>2. CASE q = r
  <2>1. round'[r].accepted_count = round[r].accepted_count + 1
    BY <1>1, <1>2 DEF Registered, RoundAccount, Inv, TypeOK
  <2> QED
    BY <1>1, <1>2, <2>1 DEF Joined, OwnPool
<1>3. CASE q # r
  BY <1>1, <1>3 DEF Untouched, Records, Inv, TypeOK
<1> QED
  BY <1>2, <1>3

LEMMA PublishRootEffect ==
  ASSUME Inv, NEW r \in Rounds, NEW a \in Authorities, NEW p \in Pools,
         NEW q \in Rounds, NEW root, NEW n, PublishRoot(a, p, q, root, n)
  PROVE  Untouched(r) \/ Published(r)
<1>1. CASE q = r
  <2>1. LiveRound(r) /\ p = r[1]
    BY <1>1 DEF PublishRoot, AdminAccounts, Inv, RoundSound, Numbered
  <2> QED
    BY <1>1, <2>1 DEF PublishRoot, Published, OwnPool, Records
<1>2. CASE q # r
  BY <1>2, OtherRound DEF PublishRoot
<1> QED
  BY <1>1, <1>2

LEMMA ScheduleEffect ==
  ASSUME Inv, NEW r \in Rounds, NEW a \in Authorities, NEW p \in Pools,
         NEW q \in Rounds, NEW n \in Releases, Schedule(a, p, q, n)
  PROVE  Untouched(r) \/ Moved(r)
<1>1. /\ LiveRound(q) /\ round[q].state = "Sealed"
      /\ round' = [round EXCEPT ![q] = Scheduled(p, q, n)]
      /\ UNCHANGED participant
      /\ round[q] \in RoundAccount /\ pool[p] \in PoolAccount /\ n \in Nat
  BY InputAssumption DEF Schedule, AdminAccounts, Schedulable, Inv, TypeOK
<1>2. n + pool[p].execution_window \in Nat
  BY <1>1 DEF PoolAccount
<1>3. /\ Scheduled(p, q, n) \in RoundAccount
      /\ Scheduled(p, q, n).accepted_count = round[q].accepted_count
      /\ Scheduled(p, q, n).cohort_root = round[q].cohort_root
  BY <1>1, <1>2 DEF Scheduled, RoundAccount, State
<1> QED
  BY <1>1, <1>3, MoveEffect

LEMMA FinalizeEffect ==
  ASSUME Inv, NEW r \in Rounds, NEW a \in Authorities, NEW p \in Pools,
         NEW q \in Rounds, NEW m \in Hashes \cup {ZeroHash},
         Finalize(a, p, q, m)
  PROVE  Untouched(r) \/ Moved(r)
<1> DEFINE v == [round[q] EXCEPT !.metrics_hash = m, !.state = "Completed"]
<1>1. /\ LiveRound(q) /\ round[q].state = "ExecutionWindow"
      /\ round' = [round EXCEPT ![q] = v]
      /\ UNCHANGED participant
      /\ round[q] \in RoundAccount
  BY DEF Finalize, AdminAccounts, Finalizable, Inv, TypeOK
<1>2. /\ v \in RoundAccount
      /\ v.accepted_count = round[q].accepted_count
      /\ v.cohort_root = round[q].cohort_root
  BY <1>1 DEF RoundAccount, State
<1> QED
  BY <1>1, <1>2, MoveEffect

\* seal, begin and cancel write the state only.
LEMMA StateWriteEffect ==
  ASSUME Inv, NEW r \in Rounds, NEW q \in Rounds, NEW s \in State,
         LiveRound(q), round' = [round EXCEPT ![q].state = s],
         UNCHANGED participant,
         \/ s = "Cancelled"
         \/ /\ round[q].state # "Registration"
            /\ round[q].state = "ReleaseScheduled" => InWindow(q)
  PROVE  Untouched(r) \/ Moved(r)
<1> DEFINE v == [round[q] EXCEPT !.state = s]
<1>1. round[q] \in RoundAccount /\ round' = [round EXCEPT ![q] = v]
  BY DEF Inv, TypeOK
<1>2. /\ v \in RoundAccount /\ v.state = s
      /\ v.accepted_count = round[q].accepted_count
      /\ v.cohort_root = round[q].cohort_root
  BY <1>1 DEF RoundAccount
<1> HIDE DEF v
<1> QED
  BY <1>1, <1>2, MoveEffect

LEMMA CloseEffect ==
  ASSUME Inv, NEW r \in Rounds, NEW a \in Authorities, NEW p \in Pools,
         NEW q \in Rounds, Close(a, p, q)
  PROVE  Untouched(r) \/ Discarded(r)
<1>1. CASE q = r
  <2>1. round'[r] = ZeroRound
    BY <1>1 DEF Close, Cleared, Inv, TypeOK
  <2> QED
    BY <1>1, <2>1 DEF Close, AdminAccounts, Discarded, Records, LiveRound,
       ZeroRound
<1>2. CASE q # r
  BY <1>2, OtherRound DEF Close
<1> QED
  BY <1>1, <1>2

LEMMA RoundInstructionEffect ==
  ASSUME Inv, NEW r \in Rounds, NEW a \in Authorities, NEW p \in Pools,
         NEW q \in Rounds, RoundInstruction(a, p, q)
  PROVE  RoundEffect(r) /\ PoolEffect(r)
<1>1. PoolEffect(r)
  <2>1. pool' = pool
    BY DEF RoundInstruction, RegisterTransparent, PublishRoot, Seal, Schedule,
       Finalize, Cancel, Close
  <2>2. pool[r[1]].next_round \in Nat
    BY RoundComponents DEF Inv, TypeOK, PoolAccount
  <2> QED
    BY <2>1, <2>2 DEF PoolEffect, OwnPool
<1>2. CASE Seal(a, p, q)
  BY <1>1, <1>2, StateWriteEffect DEF Seal, AdminAccounts, State, RoundEffect
<1>3. CASE Cancel(a, p, q)
  BY <1>1, <1>3, StateWriteEffect DEF Cancel, AdminAccounts, State, RoundEffect
<1> QED
  BY <1>1, <1>2, <1>3, RegisterTransparentEffect, PublishRootEffect,
     ScheduleEffect, FinalizeEffect, CloseEffect
     DEF RoundInstruction, RoundEffect

LEMMA OpenRoundEffect ==
  ASSUME Inv, NEW r \in Rounds, NEW a \in Authorities, NEW p \in Pools,
         NEW id \in RoundIds, NEW d \in Deadlines, NEW t \in Templates,
         OpenRound(a, p, id, d, t)
  PROVE  RoundEffect(r) /\ PoolEffect(r)
<1>1. /\ id \in Nat /\ id = pool[p].next_round
      /\ pool[p] \in PoolAccount /\ <<p, id>> \in Rounds
      /\ pool' = [pool EXCEPT ![p] = [pool[p] EXCEPT !.next_round = id + 1]]
      /\ round' = [round EXCEPT ![<<p, id>>] = NewRound(p, id, d, t)]
      /\ UNCHANGED participant
      /\ ~ LiveRound(<<p, id>>)
  BY BoundAssumption DEF OpenRound, IsNext, CreateAccount, Inv, TypeOK,
     Rounds, RoundIds
<1>2. r[1] \in Pools /\ pool[r[1]] \in PoolAccount
  BY RoundComponents DEF Inv, TypeOK
<1>3. PoolEffect(r)
  BY <1>1, <1>2 DEF PoolEffect, OwnPool, PoolAccount, Inv, TypeOK
<1>4. CASE r = <<p, id>>
  <2>1. round'[r] = NewRound(p, id, d, t)
    BY <1>1, <1>4 DEF Inv, TypeOK
  <2> QED
    BY <1>1, <1>3, <1>4, <2>1
       DEF RoundEffect, Opened, OwnPool, NewRound, Records
<1> QED
  BY <1>1, <1>3, <1>4, OtherRound DEF RoundEffect

LEMMA InitializePoolEffect ==
  ASSUME Inv, NEW r \in Rounds, NEW a \in Authorities, NEW p \in Pools,
         NEW c \in Policies, InitializePool(a, p, c)
  PROVE  RoundEffect(r) /\ PoolEffect(r)
<1>1. /\ ~ LivePool(p) /\ pool[p].next_round = 0
      /\ pool' = [pool EXCEPT ![p] = NewPool(a, c)]
      /\ UNCHANGED <<round, participant>>
  BY DEF InitializePool, CreateAccount, Inv, PoolsSound
<1>2. r[1] \in Pools /\ pool[r[1]].next_round \in Nat
  BY RoundComponents DEF Inv, TypeOK, PoolAccount
<1>3. PoolEffect(r)
  BY <1>1, <1>2 DEF PoolEffect, OwnPool, NewPool, Inv, TypeOK
<1> QED
  BY <1>1, <1>3 DEF RoundEffect, Untouched, Records

LEMMA NextEffect ==
  ASSUME Inv, [Next]_vars, NEW r \in Rounds
  PROVE  RoundEffect(r) /\ PoolEffect(r)
<1>1. CASE Tick \/ UNCHANGED vars
  <2>1. UNCHANGED <<pool, round, participant>>
    BY <1>1 DEF Tick, vars
  <2>2. pool[r[1]].next_round \in Nat
    BY RoundComponents DEF Inv, TypeOK, PoolAccount
  <2> QED
    BY <2>1, <2>2 DEF RoundEffect, PoolEffect, Untouched, Records, OwnPool
<1>2. ASSUME NEW q \in Rounds, Begin(q) PROVE RoundEffect(r) /\ PoolEffect(r)
  <2>1. Untouched(r) \/ Moved(r)
    BY <1>2, StateWriteEffect DEF Begin, State
  <2>2. pool' = pool /\ pool[r[1]].next_round \in Nat
    BY <1>2, RoundComponents DEF Begin, Inv, TypeOK, PoolAccount
  <2> QED
    BY <2>1, <2>2 DEF RoundEffect, PoolEffect, OwnPool
<1> QED
  BY <1>1, <1>2, RoundInstructionEffect, OpenRoundEffect, InitializePoolEffect
     DEF Next, PoolInstruction

\* From seal to close no instruction, called with any accounts, changes what
\* the round's cohort is.
THEOREM CohortStaysFrozen == Spec => CohortFrozen
<1>1. ASSUME Inv, [Next]_vars, NEW r \in Rounds,
             LiveRound(r), round[r].state \in SealedOrLater
      PROVE  /\ Records(r)' = Records(r)
             /\ LiveRound(r)' =>
                  /\ round'[r].accepted_count = round[r].accepted_count
                  /\ round'[r].cohort_root = round[r].cohort_root
  <2>1. round[r].state \notin {"Registration", "ThresholdReached"}
    BY <1>1 DEF SealedOrLater
  <2>2. RoundEffect(r)
    BY <1>1, NextEffect
  <2> QED
    BY <1>1, <2>1, <2>2 DEF RoundEffect, Untouched, Opened, Joined, Published,
       Moved, Discarded, RegistrationOpen
<1>2. Inv /\ [Next]_vars =>
        [\A r \in Rounds :
           LiveRound(r) /\ round[r].state \in SealedOrLater =>
             /\ Records(r)' = Records(r)
             /\ LiveRound(r)' =>
                  /\ round'[r].accepted_count = round[r].accepted_count
                  /\ round'[r].cohort_root = round[r].cohort_root]_vars
  BY <1>1
<1> QED
  BY <1>2, Invariance, PTL DEF Spec, CohortFrozen

\* begin refuses a window that is over and registration a deadline that is
\* past: no other instruction moves such a round, so cancelling is all there is.
THEOREM MissedOnlyCancels == Spec => MissedRoundOnlyCancels
<1> DEFINE Missed(r) ==
      /\ LiveRound(r)
      /\ \/ /\ round[r].state = "ReleaseScheduled"
            /\ round[r].window_end_slot < slot
         \/ /\ round[r].state = "Registration"
            /\ round[r].registration_deadline <= slot
            /\ OwnPool(r).backend = "TransparentRegistry"
<1>1. ASSUME Inv, [Next]_vars, NEW r \in Rounds, Missed(r)
      PROVE  round'[r].state \in {round[r].state, "Cancelled"}
  <2>1. /\ slot \in Nat /\ round[r].window_end_slot \in Nat
        /\ round[r].registration_deadline \in Nat
    BY <1>1, LiveRoundFacts DEF RoundAccount
  <2>2. RoundEffect(r)
    BY <1>1, NextEffect
  <2>3. ~ RegistrationOpen(r) \/ round[r].state = "ReleaseScheduled"
    BY <1>1, <2>1 DEF RegistrationOpen
  <2>4. round[r].state = "ReleaseScheduled" => ~ InWindow(r)
    BY <1>1, <2>1 DEF InWindow
  <2>5. ~ Joined(r) /\ ~ Published(r) /\ ~ Opened(r) /\ ~ Discarded(r)
    BY <1>1, <2>3 DEF Joined, Published, Opened, Discarded, Terminal,
       RegistrationOpen
  <2> QED
    BY <1>1, <2>2, <2>4, <2>5 DEF RoundEffect, Untouched, Moved
<1>2. Inv /\ [Next]_vars =>
        [\A r \in Rounds :
           Missed(r) => round'[r].state \in {round[r].state, "Cancelled"}]_vars
  BY <1>1
<1> QED
  BY <1>2, Invariance, PTL DEF Spec, MissedRoundOnlyCancels

-----------------------------------------------------------------------------
(* The counter of a transparent round                                      *)
(*                                                                         *)
(* RecordsMatchCount is not inductive: open_round sets the counter to 0    *)
(* and close leaves the records behind, so an address must have no records *)
(* before it is opened for the first time.                                 *)

NoEarlyRecords ==
  \A r \in Rounds : r[2] >= OwnPool(r).next_round => Records(r) = {}

RecordsInv == IsFiniteSet(participant) /\ NoEarlyRecords /\ RecordsMatchCount

LEMMA RecordsFinite ==
  ASSUME NEW r \in Rounds, IsFiniteSet(participant)
  PROVE  IsFiniteSet(Records(r)) /\ Cardinality(Records(r)) \in Nat
BY FS_Subset, FS_CardinalityType DEF Records

LEMMA InitRecords == Init => RecordsInv
<1> SUFFICES ASSUME Init PROVE RecordsInv
  OBVIOUS
<1>1. participant = {} /\ IsFiniteSet(participant)
  BY FS_EmptySet DEF Init
<1>2. \A r \in Rounds : Records(r) = {} /\ ~ LiveRound(r)
  BY <1>1 DEF Init, Records, LiveRound, ZeroRound
<1> QED
  BY <1>1, <1>2 DEF RecordsInv, NoEarlyRecords, RecordsMatchCount

\* Only registration creates records, one at a time.
LEMMA ParticipantsFinite ==
  ASSUME IsFiniteSet(participant), [Next]_vars
  PROVE  IsFiniteSet(participant)'
<1>1. ASSUME NEW a \in Authorities, NEW p \in Pools, NEW r \in Rounds,
             RoundInstruction(a, p, r)
      PROVE  IsFiniteSet(participant')
  <2>1. ASSUME NEW k \in Keys, NEW b \in Bumps,
               RegisterTransparent(a, p, r, k, b)
        PROVE  IsFiniteSet(participant')
    BY <2>1, FS_AddElement DEF RegisterTransparent
  <2>2. \/ \E k \in Keys, b \in Bumps : RegisterTransparent(a, p, r, k, b)
        \/ participant' = participant
    BY <1>1 DEF RoundInstruction, PublishRoot, Seal, Schedule, Finalize,
       Cancel, Close
  <2> QED
    BY <2>1, <2>2
<1>2. ASSUME NEW a \in Authorities, NEW p \in Pools, PoolInstruction(a, p)
      PROVE  participant' = participant
  BY <1>2 DEF PoolInstruction, InitializePool, OpenRound
<1> QED
  BY <1>1, <1>2 DEF Next, Tick, Begin, vars

LEMMA NoEarlyRecordsStep ==
  ASSUME Inv, RecordsInv, [Next]_vars
  PROVE  NoEarlyRecords'
<1> SUFFICES ASSUME NEW r \in Rounds, r[2] >= OwnPool(r)'.next_round
             PROVE  Records(r)' = {}
  BY DEF NoEarlyRecords
<1>1. RoundEffect(r) /\ PoolEffect(r)
  BY NextEffect
<1>2. r[2] \in Nat /\ OwnPool(r).next_round \in Nat
  BY RoundComponents DEF Inv, TypeOK, PoolAccount, OwnPool
<1>3. OwnPool(r)'.next_round \in Nat
  BY NextInv, RoundComponents DEF Inv, TypeOK, PoolAccount, OwnPool
<1>4. r[2] >= OwnPool(r).next_round
  BY <1>1, <1>2, <1>3 DEF PoolEffect
<1>5. Records(r) = {}
  BY <1>4 DEF RecordsInv, NoEarlyRecords
<1>6. ~ LiveRound(r)
  BY <1>2, <1>4 DEF Inv, RoundSound, Numbered
<1> QED
  BY <1>1, <1>5, <1>6 DEF RoundEffect, Untouched, Opened, Joined, Published,
     Moved, Discarded

LEMMA RecordsMatchStep ==
  ASSUME Inv, RecordsInv, [Next]_vars
  PROVE  RecordsMatchCount'
<1> SUFFICES ASSUME NEW r \in Rounds, LiveRound(r)',
                    OwnPool(r)'.backend = "TransparentRegistry"
             PROVE  round'[r].accepted_count = Cardinality(Records(r)')
  BY DEF RecordsMatchCount
<1>1. RoundEffect(r) /\ PoolEffect(r)
  BY NextEffect
<1>2. CASE Opened(r)
  <2>1. Records(r) = {}
    BY <1>2, RoundComponents
       DEF Opened, RecordsInv, NoEarlyRecords, Inv, TypeOK, PoolAccount, OwnPool
  <2> QED
    BY <1>2, <2>1, FS_EmptySet DEF Opened
<1>3. CASE ~ Opened(r)
  <2>1. LiveRound(r)
    BY <1>1, <1>3 DEF RoundEffect, Untouched, Joined, Published, Moved,
       Discarded, LiveRound
  <2>2. OwnPool(r).backend = "TransparentRegistry"
    BY <1>1, <2>1 DEF PoolEffect, Inv, RoundSound, Numbered
  <2>3. round[r].accepted_count = Cardinality(Records(r))
    BY <2>1, <2>2 DEF RecordsInv, RecordsMatchCount
  <2>4. CASE Joined(r)
    <3>1. PICK k \in Keys, b \in Bumps :
            /\ <<r, k, b>> \notin participant
            /\ participant' = participant \cup {<<r, k, b>>}
      BY <2>4 DEF Joined
    <3>2. /\ Records(r)' = Records(r) \cup {<<r, k, b>>}
          /\ <<r, k, b>> \notin Records(r)
      BY <3>1 DEF Records
    <3>3. Cardinality(Records(r)') = Cardinality(Records(r)) + 1
      BY <3>2, RecordsFinite, FS_AddElement DEF RecordsInv
    <3> QED
      BY <2>3, <2>4, <3>3 DEF Joined
  <2>5. CASE Untouched(r) \/ Moved(r)
    BY <2>3, <2>5 DEF Untouched, Moved
  <2> QED
    BY <1>1, <1>3, <2>2, <2>4, <2>5 DEF RoundEffect, Published, Discarded
<1> QED
  BY <1>2, <1>3

LEMMA RecordsInvariance == Spec => []RecordsInv
<1>1. Init => RecordsInv
  BY InitRecords
<1>2. Inv /\ RecordsInv /\ [Next]_vars => RecordsInv'
  BY ParticipantsFinite, NoEarlyRecordsStep, RecordsMatchStep DEF RecordsInv
<1> QED
  BY <1>1, <1>2, Invariance, PTL DEF Spec

\* The counter that the threshold and the maximum are compared with is the
\* number of participant records, also after addresses were closed and whichever
\* keys and bumps registered.
THEOREM CountsAreRecords == Spec => []RecordsMatchCount
<1>1. RecordsInv => RecordsMatchCount
  BY DEF RecordsInv
<1> QED
  BY <1>1, RecordsInvariance, PTL

-----------------------------------------------------------------------------
(* Lamports                                                                *)
(*                                                                         *)
(* The wallets' lamports are summed up by a fold.  Its recursion is        *)
(* unfolded here once; after that an instruction moves one balance and the *)
(* number of accounts of one kind, by amounts that cancel out.             *)

\* A set that has 0 and with each number the next one has all numbers.
LEMMA AllNumbers ==
  ASSUME NEW S, S \subseteq Nat, 0 \in S, \A n \in S : n + 1 \in S
  PROVE  Nat \subseteq S
<1> SUFFICES ASSUME NEW m \in Nat, m \notin S PROVE FALSE
  OBVIOUS
<1> DEFINE T == Nat \ S
           R == OpToRel(<, Nat)
<1>1. \A x, y \in Nat : x < y => <<x, y>> \in R
  BY DEF OpToRel
<1>2. IsWellFoundedOn(R, Nat)
  BY NatLessThanWellFounded
<1>3. T \subseteq Nat /\ T # {}
  OBVIOUS
<1> HIDE DEF R
<1>4. PICK x \in T : \A y \in T : ~(<<y, x>> \in R)
  BY <1>2, <1>3, WFMin
<1>5. x \in Nat /\ x # 0 /\ x - 1 \in Nat /\ x - 1 + 1 = x
  BY <1>4
<1>6. x - 1 \in T
  BY <1>4, <1>5
<1>7. <<x - 1, x>> \in R
  BY <1>1, <1>5
<1> QED
  BY <1>4, <1>6, <1>7

\* The sum of all balances, as the library computes it.
Pick(s) == CHOOSE x \in s : TRUE
Rest(s) == s \ {Pick(s)}
OneMore(b, g, s) == IF s = {} THEN 0 ELSE b[Pick(s)] + g[Rest(s)]
Sums(b) == CHOOSE g : g = [s \in SUBSET Authorities |-> OneMore(b, g, s)]

LEMMA TotalIsSums ==
  ASSUME NEW b
  PROVE  Total(b) = Sums(b)[Authorities]
BY DEF Total, MapThenSumSet, MapThenFoldSet, Sums, OneMore, Rest, Pick

LEMMA RestIsSmaller ==
  ASSUME NEW s \in SUBSET Authorities, s # {}
  PROVE  /\ Pick(s) \in s /\ Rest(s) \in SUBSET Authorities
         /\ IsFiniteSet(s) /\ Cardinality(s) \in Nat
         /\ Cardinality(Rest(s)) = Cardinality(s) - 1
<1>1. Pick(s) \in s
  BY DEF Pick
<1>2. IsFiniteSet(s)
  BY FiniteAssumption, FS_Subset
<1> QED
  BY <1>1, <1>2, FS_RemoveElement, FS_CardinalityType DEF Rest

LEMMA SizesAreNumbers ==
  ASSUME NEW s \in SUBSET Authorities
  PROVE  /\ IsFiniteSet(s) /\ Cardinality(s) \in Nat
         /\ Cardinality(s) = 0 <=> s = {}
         /\ Cardinality(s) <= Cardinality(Authorities)
BY FiniteAssumption, FS_Subset, FS_CardinalityType, FS_EmptySet

LEMMA SumsExist ==
  ASSUME NEW b \in [Authorities -> Int]
  PROVE  \E g : g = [s \in SUBSET Authorities |-> OneMore(b, g, s)]
<1> DEFINE Upto(g, n) == \A s \in SUBSET Authorities :
                            Cardinality(s) <= n => g[s] = OneMore(b, g, s)
           Good == {n \in Nat : \E g \in [SUBSET Authorities -> Int] : Upto(g, n)}
<1>1. 0 \in Good
  <2> DEFINE g == [s \in SUBSET Authorities |-> 0]
  <2>1. g \in [SUBSET Authorities -> Int] /\ Upto(g, 0)
    BY SizesAreNumbers DEF OneMore
  <2> QED
    BY <2>1
<1>2. ASSUME NEW n \in Good PROVE n + 1 \in Good
  <2>1. PICK g \in [SUBSET Authorities -> Int] : Upto(g, n)
    OBVIOUS
  <2> DEFINE h == [s \in SUBSET Authorities |->
                     IF Cardinality(s) = n + 1 THEN OneMore(b, g, s) ELSE g[s]]
  <2>2. ASSUME NEW s \in SUBSET Authorities PROVE OneMore(b, g, s) \in Int
    BY RestIsSmaller DEF OneMore
  <2>3. h \in [SUBSET Authorities -> Int]
    BY <2>2
  <2>4. ASSUME NEW s \in SUBSET Authorities, Cardinality(s) <= n + 1
        PROVE  OneMore(b, h, s) = OneMore(b, g, s)
    <3>1. CASE s = {}
      BY <3>1 DEF OneMore
    <3>2. CASE s # {}
      <4>1. Rest(s) \in SUBSET Authorities /\ Cardinality(Rest(s)) # n + 1
        BY <2>4, <3>2, RestIsSmaller
      <4> QED
        BY <3>2, <4>1 DEF OneMore
    <3> QED
      BY <3>1, <3>2
  <2>5. ASSUME NEW s \in SUBSET Authorities, Cardinality(s) <= n + 1
        PROVE  h[s] = OneMore(b, h, s)
    <3>1. CASE Cardinality(s) = n + 1
      BY <2>4, <2>5, <3>1
    <3>2. CASE Cardinality(s) # n + 1
      <4>1. Cardinality(s) <= n
        BY <2>5, <3>2, SizesAreNumbers
      <4> QED
        BY <2>1, <2>4, <2>5, <3>2, <4>1
    <3> QED
      BY <3>1, <3>2
  <2> HIDE DEF h
  <2>6. Upto(h, n + 1)
    BY <2>5
  <2> QED
    BY <2>3, <2>6
<1>3. Cardinality(Authorities) \in Good
  <2> HIDE DEF Good
  <2>1. Nat \subseteq Good
    <3>1. Good \subseteq Nat
      BY DEF Good
    <3> QED
      BY <1>1, <1>2, <3>1, AllNumbers
  <2> QED
    BY <2>1, FiniteAssumption, FS_CardinalityType
<1>4. PICK g \in [SUBSET Authorities -> Int] : Upto(g, Cardinality(Authorities))
  BY <1>3
<1>5. \A s \in SUBSET Authorities : g[s] = OneMore(b, g, s)
  BY <1>4, SizesAreNumbers
<1>6. g = [s \in SUBSET Authorities |-> OneMore(b, g, s)]
  BY <1>5
<1> QED
  BY <1>6

LEMMA SumsUnfold ==
  ASSUME NEW b \in [Authorities -> Int], NEW s \in SUBSET Authorities
  PROVE  Sums(b)[s] = OneMore(b, Sums(b), s)
<1>1. Sums(b) = [t \in SUBSET Authorities |-> OneMore(b, Sums(b), t)]
  BY SumsExist, Zenon DEF Sums
<1> QED
  BY <1>1

\* Changing one balance changes the sum by as much.
LEMMA TotalMoves ==
  ASSUME NEW b \in [Authorities -> Int], NEW a \in Authorities, NEW d \in Int
  PROVE  /\ Total(b) \in Int
         /\ Total([b EXCEPT ![a] = b[a] + d]) = Total(b) + d
<1> DEFINE c == [b EXCEPT ![a] = b[a] + d]
           f == Sums(b)
           h == Sums(c)
           Moves(s) == f[s] \in Int /\ h[s] = f[s] + (IF a \in s THEN d ELSE 0)
           Good == {n \in Nat : \A s \in SUBSET Authorities :
                                  Cardinality(s) <= n => Moves(s)}
<1>1. /\ c \in [Authorities -> Int] /\ c[a] = b[a] + d
      /\ \A x \in Authorities \ {a} : c[x] = b[x]
  OBVIOUS
<1>2. \A s \in SUBSET Authorities : f[s] = OneMore(b, f, s)
  BY SumsUnfold
<1> HIDE DEF c
<1>3. \A s \in SUBSET Authorities : h[s] = OneMore(c, h, s)
  BY <1>1, SumsUnfold
<1> HIDE DEF f, h
<1>4. Moves({})
  <2>1. {} \in SUBSET Authorities /\ a \notin {}
    OBVIOUS
  <2>2. f[{}] = 0 /\ h[{}] = 0
    BY <1>2, <1>3, <2>1 DEF OneMore
  <2> QED
    BY <2>2
<1>5. 0 \in Good
  BY <1>4, SizesAreNumbers
<1>6. ASSUME NEW n \in Good PROVE n + 1 \in Good
  <2> SUFFICES ASSUME NEW s \in SUBSET Authorities, Cardinality(s) <= n + 1
               PROVE  Moves(s)
    OBVIOUS
  <2> SUFFICES ASSUME s # {} PROVE Moves(s)
    BY <1>4
  <2>1. /\ Pick(s) \in s /\ Rest(s) \in SUBSET Authorities
        /\ Cardinality(Rest(s)) <= n
    BY RestIsSmaller
  <2>2. Moves(Rest(s))
    BY <2>1
  <2>3. f[s] = b[Pick(s)] + f[Rest(s)] /\ h[s] = c[Pick(s)] + h[Rest(s)]
    BY <1>2, <1>3 DEF OneMore
  <2>4. a \in s <=> (a = Pick(s) \/ a \in Rest(s))
    BY <2>1 DEF Rest
  <2>5. a = Pick(s) => a \notin Rest(s)
    BY DEF Rest
  <2>6. b[Pick(s)] \in Int /\ c[Pick(s)] \in Int
    BY <1>1, <2>1
  <2>7. CASE a = Pick(s)
    BY <1>1, <2>2, <2>3, <2>4, <2>5, <2>6, <2>7
  <2>8. CASE a # Pick(s)
    <3>1. c[Pick(s)] = b[Pick(s)]
      BY <1>1, <2>1, <2>8
    <3> QED
      BY <3>1, <2>2, <2>3, <2>4, <2>6, <2>8
  <2> QED
    BY <2>7, <2>8
<1>7. Nat \subseteq Good
  <2>1. Good \subseteq Nat
    OBVIOUS
  <2> HIDE DEF Good
  <2> QED
    BY <1>5, <1>6, <2>1, AllNumbers
<1>8. Moves(Authorities)
  BY <1>7, SizesAreNumbers
<1> QED
  BY <1>8, TotalIsSums DEF f, h, c

\* Equal balances add up to a multiple of one.
LEMMA TotalOfEqual ==
  ASSUME NEW x \in Int
  PROVE  Total([a \in Authorities |-> x]) = x * Cardinality(Authorities)
<1> DEFINE b == [a \in Authorities |-> x]
           f == Sums(b)
           Good == {n \in Nat : \A s \in SUBSET Authorities :
                                  Cardinality(s) = n => f[s] = x * n}
<1>1. b \in [Authorities -> Int]
  OBVIOUS
<1>2. \A s \in SUBSET Authorities : f[s] = OneMore(b, f, s)
  BY <1>1, SumsUnfold
<1>3. \A a \in Authorities : b[a] = x
  OBVIOUS
<1> HIDE DEF f, b
<1>4. 0 \in Good
  <2>1. f[{}] = 0
    BY <1>2 DEF OneMore
  <2> QED
    BY <2>1, SizesAreNumbers
<1>5. ASSUME NEW n \in Good PROVE n + 1 \in Good
  <2> SUFFICES ASSUME NEW s \in SUBSET Authorities, Cardinality(s) = n + 1
               PROVE  f[s] = x * (n + 1)
    OBVIOUS
  <2>1. s # {}
    BY SizesAreNumbers
  <2>2. /\ Pick(s) \in Authorities /\ Rest(s) \in SUBSET Authorities
        /\ Cardinality(Rest(s)) = n
    BY <2>1, RestIsSmaller
  <2>3. f[Rest(s)] = x * n
    BY <2>2
  <2>4. f[s] = x + x * n
    BY <1>2, <1>3, <2>1, <2>2, <2>3 DEF OneMore
  <2> QED
    BY <2>4
<1>6. Nat \subseteq Good
  <2>1. Good \subseteq Nat
    OBVIOUS
  <2> HIDE DEF Good
  <2> QED
    BY <1>4, <1>5, <2>1, AllNumbers
<1>7. f[Authorities] = x * Cardinality(Authorities)
  BY <1>6, FiniteAssumption, FS_CardinalityType
<1> QED
  BY <1>7, TotalIsSums DEF f, b

LivePools == {p \in Pools : LivePool(p)}
LiveRounds == {r \in Rounds : LiveRound(r)}

LEMMA AccountsFinite ==
  /\ IsFiniteSet(LivePools) /\ Cardinality(LivePools) \in Nat
  /\ IsFiniteSet(LiveRounds) /\ Cardinality(LiveRounds) \in Nat
<1>1. IsFiniteSet(Rounds)
  <2>1. IsFiniteSet(RoundIds)
    BY BoundAssumption, FS_Interval DEF RoundIds
  <2> QED
    BY <2>1, FiniteAssumption, FS_Product DEF Rounds
<1>2. LivePools \subseteq Pools /\ LiveRounds \subseteq Rounds
  BY DEF LivePools, LiveRounds
<1> QED
  BY <1>1, <1>2, FiniteAssumption, FS_Subset, FS_CardinalityType

LEMMA InitLamports == Init => LamportsConserved
<1> SUFFICES ASSUME Init PROVE LamportsConserved
  OBVIOUS
<1>1. LivePools = {} /\ LiveRounds = {} /\ participant = {}
  BY DEF Init, LivePools, LiveRounds, LivePool, LiveRound, ZeroPool, ZeroRound
<1>2. Total(lamports) = InitialLamports * Cardinality(Authorities)
  <2>1. InitialLamports \in Int
    BY BoundAssumption
  <2>2. lamports = [a \in Authorities |-> InitialLamports]
    BY DEF Init
  <2> QED
    BY <2>1, <2>2, TotalOfEqual, Zenon
<1>3. Cardinality({}) = 0
  BY FS_EmptySet
<1>4. /\ AccountRent * 0 = 0 /\ RecordRent * 0 = 0
      /\ InitialLamports * Cardinality(Authorities) \in Nat
  BY BoundAssumption, FiniteAssumption, FS_CardinalityType
<1> QED
  BY <1>1, <1>2, <1>3, <1>4
     DEF LamportsConserved, LivePools, LiveRounds

\* The books after d lamports came to a wallet and the accounts of each kind
\* became more by i, j and k.
LEMMA BooksBalance ==
  ASSUME lamports \in [Authorities -> Nat], IsFiniteSet(participant),
         LamportsConserved, NEW a \in Authorities,
         NEW d \in Int, NEW i \in Int, NEW j \in Int, NEW k \in Int,
         d + AccountRent * i + AccountRent * j + RecordRent * k = 0,
         lamports' = [lamports EXCEPT ![a] = lamports[a] + d],
         Cardinality(LivePools') = Cardinality(LivePools) + i,
         Cardinality(LiveRounds') = Cardinality(LiveRounds) + j,
         Cardinality(participant') = Cardinality(participant) + k
  PROVE  LamportsConserved'
<1>1. /\ AccountRent \in Int /\ RecordRent \in Int
      /\ Cardinality(LivePools) \in Int /\ Cardinality(LiveRounds) \in Int
      /\ Cardinality(participant) \in Int
  BY BoundAssumption, AccountsFinite, FS_CardinalityType
<1>2. Total(lamports) \in Int /\ Total(lamports') = Total(lamports) + d
  <2>1. lamports \in [Authorities -> Int]
    OBVIOUS
  <2>2. /\ Total(lamports) \in Int
        /\ Total([lamports EXCEPT ![a] = lamports[a] + d]) = Total(lamports) + d
    BY <2>1, TotalMoves
  <2> QED
    BY <2>2
<1>3. /\ AccountRent * (Cardinality(LivePools) + i)
           = AccountRent * Cardinality(LivePools) + AccountRent * i
      /\ AccountRent * (Cardinality(LiveRounds) + j)
           = AccountRent * Cardinality(LiveRounds) + AccountRent * j
      /\ RecordRent * (Cardinality(participant) + k)
           = RecordRent * Cardinality(participant) + RecordRent * k
  BY <1>1
<1>4. /\ AccountRent * Cardinality(LivePools) \in Int
      /\ AccountRent * Cardinality(LiveRounds) \in Int
      /\ RecordRent * Cardinality(participant) \in Int
      /\ AccountRent * i \in Int /\ AccountRent * j \in Int
      /\ RecordRent * k \in Int
  BY <1>1
<1>5. Total(lamports) + AccountRent * Cardinality(LivePools)
        + AccountRent * Cardinality(LiveRounds)
        + RecordRent * Cardinality(participant)
      = InitialLamports * Cardinality(Authorities)
  BY DEF LamportsConserved, LivePools, LiveRounds
<1>6. Total(lamports') + AccountRent * Cardinality(LivePools')
        + AccountRent * Cardinality(LiveRounds')
        + RecordRent * Cardinality(participant')
      = InitialLamports * Cardinality(Authorities)
  BY <1>2, <1>3, <1>4, <1>5
<1> QED
  BY <1>6 DEF LamportsConserved, LivePools, LiveRounds

LEMMA Rents ==
  /\ AccountRent \in Int /\ 0 - AccountRent \in Int /\ 0 - RecordRent \in Int
  /\ 0 \in Int /\ 1 \in Int /\ 0 - 1 \in Int
  /\ (0 - AccountRent) + AccountRent * 1 + AccountRent * 0 + RecordRent * 0 = 0
  /\ (0 - AccountRent) + AccountRent * 0 + AccountRent * 1 + RecordRent * 0 = 0
  /\ (0 - RecordRent) + AccountRent * 0 + AccountRent * 0 + RecordRent * 1 = 0
  /\ AccountRent + AccountRent * 0 + AccountRent * (0 - 1) + RecordRent * 0 = 0
BY BoundAssumption

\* What create_pda_account takes from the payer.
LEMMA CreateAccountPaid ==
  ASSUME lamports \in [Authorities -> Nat], NEW a \in Authorities, NEW u,
         NEW rent \in Nat, CreateAccount(a, u, rent)
  PROVE  lamports' = [lamports EXCEPT ![a] = lamports[a] + (0 - rent)]
<1>1. lamports[a] - rent = lamports[a] + (0 - rent)
  OBVIOUS
<1> QED
  BY <1>1 DEF CreateAccount

LEMMA InitializePoolBooks ==
  ASSUME Inv, IsFiniteSet(participant), LamportsConserved,
         NEW a \in Authorities, NEW p \in Pools, NEW c \in Policies,
         InitializePool(a, p, c)
  PROVE  LamportsConserved'
<1>1. LivePools' = LivePools \cup {p} /\ p \notin LivePools
  BY DEF InitializePool, CreateAccount, LivePools, LivePool, NewPool, Inv, TypeOK
<1>2. Cardinality(LivePools') = Cardinality(LivePools) + 1
  BY <1>1, AccountsFinite, FS_AddElement
<1>3. LiveRounds' = LiveRounds /\ participant' = participant
  BY DEF InitializePool, LiveRounds, LiveRound
<1>4. lamports' = [lamports EXCEPT ![a] = lamports[a] + (0 - AccountRent)]
  BY CreateAccountPaid, BoundAssumption DEF InitializePool, Inv, TypeOK
<1>5. /\ Cardinality(LiveRounds') = Cardinality(LiveRounds) + 0
      /\ Cardinality(participant') = Cardinality(participant) + 0
  BY <1>3, AccountsFinite, FS_CardinalityType
<1> QED
  BY <1>2, <1>4, <1>5, Rents, BooksBalance, Zenon DEF Inv, TypeOK

LEMMA OpenRoundBooks ==
  ASSUME Inv, IsFiniteSet(participant), LamportsConserved,
         NEW a \in Authorities, NEW p \in Pools, NEW id \in RoundIds,
         NEW d \in Deadlines, NEW t \in Templates, OpenRound(a, p, id, d, t)
  PROVE  LamportsConserved'
<1>0. <<p, id>> \in Rounds
  BY DEF Rounds
<1>1. LiveRounds' = LiveRounds \cup {<<p, id>>} /\ <<p, id>> \notin LiveRounds
  BY <1>0 DEF OpenRound, CreateAccount, LiveRounds, LiveRound, NewRound, Inv, TypeOK
<1>2. Cardinality(LiveRounds') = Cardinality(LiveRounds) + 1
  BY <1>1, AccountsFinite, FS_AddElement
<1>3. LivePools' = LivePools /\ participant' = participant
  BY DEF OpenRound, LivePools, LivePool, Inv, TypeOK, PoolAccount
<1>4. lamports' = [lamports EXCEPT ![a] = lamports[a] + (0 - AccountRent)]
  BY CreateAccountPaid, BoundAssumption DEF OpenRound, Inv, TypeOK
<1>5. /\ Cardinality(LivePools') = Cardinality(LivePools) + 0
      /\ Cardinality(participant') = Cardinality(participant) + 0
  BY <1>3, AccountsFinite, FS_CardinalityType
<1> QED
  BY <1>2, <1>4, <1>5, Rents, BooksBalance, Zenon DEF Inv, TypeOK

LEMMA RegisterBooks ==
  ASSUME Inv, IsFiniteSet(participant), LamportsConserved,
         NEW a \in Authorities, NEW p \in Pools, NEW r \in Rounds,
         NEW key \in Keys, NEW bump \in Bumps,
         RegisterTransparent(a, p, r, key, bump)
  PROVE  LamportsConserved'
<1>1. /\ participant' = participant \cup {<<r, key, bump>>}
      /\ <<r, key, bump>> \notin participant
  BY DEF RegisterTransparent, CreateAccount, Unused
<1>2. Cardinality(participant') = Cardinality(participant) + 1
  BY <1>1, FS_AddElement
<1>3. Registered(p, r).version = round[r].version
  BY DEF Registered, Inv, TypeOK, RoundAccount
<1>4. LivePools' = LivePools
  BY DEF RegisterTransparent, LivePools, LivePool
<1>5. LiveRounds' = LiveRounds
  BY <1>3 DEF RegisterTransparent, LiveRounds, LiveRound, Inv, TypeOK
<1>6. lamports' = [lamports EXCEPT ![a] = lamports[a] + (0 - RecordRent)]
  BY CreateAccountPaid, BoundAssumption DEF RegisterTransparent, Inv, TypeOK
<1>7. /\ Cardinality(LivePools') = Cardinality(LivePools) + 0
      /\ Cardinality(LiveRounds') = Cardinality(LiveRounds) + 0
  BY <1>4, <1>5, AccountsFinite
<1> QED
  BY <1>2, <1>6, <1>7, Rents, BooksBalance, Zenon DEF Inv, TypeOK

LEMMA CloseBooks ==
  ASSUME Inv, IsFiniteSet(participant), LamportsConserved,
         NEW a \in Authorities, NEW p \in Pools, NEW r \in Rounds,
         Close(a, p, r)
  PROVE  LamportsConserved'
<1>1. LiveRounds' = LiveRounds \ {r} /\ r \in LiveRounds
  BY DEF Close, AdminAccounts, Cleared, LiveRounds, LiveRound, ZeroRound, Inv, TypeOK
<1>2. Cardinality(LiveRounds') = Cardinality(LiveRounds) + (0 - 1)
  <2>1. Cardinality(LiveRounds \ {r}) = Cardinality(LiveRounds) - 1
    BY <1>1, AccountsFinite, FS_RemoveElement
  <2> QED
    BY <1>1, <2>1, AccountsFinite
<1>3. LivePools' = LivePools /\ participant' = participant
  BY DEF Close, LivePools, LivePool
<1>4. lamports' = [lamports EXCEPT ![a] = lamports[a] + AccountRent]
  BY DEF Close
<1>5. /\ Cardinality(LivePools') = Cardinality(LivePools) + 0
      /\ Cardinality(participant') = Cardinality(participant) + 0
  BY <1>3, AccountsFinite, FS_CardinalityType
<1> QED
  BY <1>2, <1>4, <1>5, Rents, BooksBalance, Zenon DEF Inv, TypeOK

\* No lamport moves where no account comes or goes.
LEMMA OtherBooks ==
  ASSUME LamportsConserved, lamports' = lamports, participant' = participant,
         pool' = pool, \A r \in Rounds : LiveRound(r)' = LiveRound(r)
  PROVE  LamportsConserved'
<1>1. LivePools' = LivePools /\ LiveRounds' = LiveRounds
  BY DEF LivePools, LiveRounds, LivePool
<1> QED
  BY <1>1 DEF LamportsConserved, LivePools, LiveRounds

LEMMA NextBooks ==
  ASSUME Inv, IsFiniteSet(participant), LamportsConserved, [Next]_vars
  PROVE  LamportsConserved'
<1>1. ASSUME NEW a \in Authorities, NEW p \in Pools, PoolInstruction(a, p)
      PROVE  LamportsConserved'
  BY <1>1, InitializePoolBooks, OpenRoundBooks DEF PoolInstruction
<1>2. ASSUME NEW r \in Rounds, NEW v, v.version = round[r].version,
             round' = [round EXCEPT ![r] = v],
             lamports' = lamports, participant' = participant, pool' = pool
      PROVE  LamportsConserved'
  <2>1. \A s \in Rounds : LiveRound(s)' = LiveRound(s)
    BY <1>2 DEF LiveRound, Inv, TypeOK
  <2> QED
    BY <1>2, <2>1, OtherBooks
<1>3. ASSUME NEW a \in Authorities, NEW p \in Pools, NEW r \in Rounds,
             RoundInstruction(a, p, r)
      PROVE  LamportsConserved'
  <2>0. round \in [Rounds -> RoundAccount]
    BY DEF Inv, TypeOK
  <2>1. ASSUME NEW root \in Hashes \cup {ZeroHash}, NEW count \in Counts,
               PublishRoot(a, p, r, root, count)
        PROVE  LamportsConserved'
    <3>1. [round[r] EXCEPT !.cohort_root = root, !.accepted_count = count,
                           !.state = "ThresholdReached"].version = round[r].version
      BY <2>0 DEF RoundAccount
    <3> QED
      BY <1>2, <2>1, <3>1 DEF PublishRoot
  <2>2. ASSUME NEW s, round' = [round EXCEPT ![r].state = s],
               lamports' = lamports, participant' = participant, pool' = pool
        PROVE  LamportsConserved'
    <3>1. /\ round' = [round EXCEPT ![r] = [round[r] EXCEPT !.state = s]]
          /\ [round[r] EXCEPT !.state = s].version = round[r].version
      BY <2>0, <2>2 DEF RoundAccount
    <3> QED
      BY <1>2, <2>2, <3>1
  <2>3. ASSUME NEW release \in Releases, Schedule(a, p, r, release)
        PROVE  LamportsConserved'
    <3>1. Scheduled(p, r, release).version = round[r].version
      BY <2>0 DEF Scheduled, RoundAccount
    <3> QED
      BY <1>2, <2>3, <3>1 DEF Schedule
  <2>4. ASSUME NEW metrics \in Hashes \cup {ZeroHash}, Finalize(a, p, r, metrics)
        PROVE  LamportsConserved'
    <3>1. [round[r] EXCEPT !.metrics_hash = metrics,
                           !.state = "Completed"].version = round[r].version
      BY <2>0 DEF RoundAccount
    <3> QED
      BY <1>2, <2>4, <3>1 DEF Finalize
  <2>5. CASE Seal(a, p, r)
    BY <2>2, <2>5 DEF Seal
  <2>6. CASE Cancel(a, p, r)
    BY <2>2, <2>6 DEF Cancel
  <2> QED
    BY <1>3, <2>1, <2>3, <2>4, <2>5, <2>6, RegisterBooks, CloseBooks
       DEF RoundInstruction
<1>4. ASSUME NEW r \in Rounds, Begin(r) PROVE LamportsConserved'
  <2>1. /\ round' = [round EXCEPT ![r] =
                       [round[r] EXCEPT !.state = "ExecutionWindow"]]
        /\ [round[r] EXCEPT !.state = "ExecutionWindow"].version
             = round[r].version
    BY <1>4 DEF Begin, Inv, TypeOK, RoundAccount
  <2> QED
    BY <1>2, <1>4, <2>1 DEF Begin
<1>5. CASE Tick \/ UNCHANGED vars
  BY <1>5, OtherBooks DEF Tick, vars, LiveRound
<1> QED
  BY <1>1, <1>3, <1>4, <1>5 DEF Next

\* Rent moves between wallets and accounts and is never created or lost, in any
\* order of opening, registering and closing and for any number of wallets.
THEOREM RentIsConserved == Spec => []LamportsConserved
<1>1. Init => LamportsConserved
  BY InitLamports
<1>2. Inv /\ RecordsInv /\ LamportsConserved /\ [Next]_vars => LamportsConserved'
  BY NextBooks DEF RecordsInv
<1> QED
  BY <1>1, <1>2, Invariance, RecordsInvariance, PTL DEF Spec

-----------------------------------------------------------------------------
(* Implementation of the abstract lifecycle                                *)

\* A round instruction does not show in the other rounds.
LEMMA OthersUnmoved ==
  ASSUME Inv, NEW r \in Rounds, NEW v, round' = [round EXCEPT ![r] = v],
         pool' = pool, \A q \in Rounds \ {r} : Records(q)' = Records(q)
  PROVE  Lifecycle!Others(r)
<1>1. \A q \in Rounds \ {r} : round'[q] = round[q]
  BY DEF Inv, TypeOK
<1>2. \A q \in Rounds \ {r} : Phase(q)' = Phase(q)
  BY <1>1 DEF Phase, LiveRound, OwnPool
<1> QED
  BY <1>1, <1>2 DEF Lifecycle!Others

\* What a state change of a live round looks like in the abstract lifecycle.
LEMMA StateWriteMapped ==
  ASSUME Inv, NEW r \in Rounds, NEW s \in State, LiveRound(r),
         round' = [round EXCEPT ![r].state = s],
         UNCHANGED <<slot, pool, participant, lamports>>
  PROVE  /\ Lifecycle!Others(r)
         /\ Phase(r) = round[r].state /\ Phase(r)' = s
         /\ round'[r].accepted_count = round[r].accepted_count
         /\ round'[r].cohort_root = round[r].cohort_root
         /\ round'[r].release_slot = round[r].release_slot
         /\ round'[r].window_end_slot = round[r].window_end_slot
         /\ Records(r)' = Records(r)
<1>1. /\ round' = [round EXCEPT ![r] = [round[r] EXCEPT !.state = s]]
      /\ round[r] \in RoundAccount
  BY DEF Inv, TypeOK
<1>2. \A q \in Rounds : Records(q)' = Records(q)
  BY DEF Records
<1>3. Lifecycle!Others(r)
  BY <1>1, <1>2, OthersUnmoved
<1>4. round'[r] = [round[r] EXCEPT !.state = s]
  BY <1>1 DEF Inv, TypeOK
<1> QED
  BY <1>1, <1>2, <1>3, <1>4 DEF Phase, LiveRound, RoundAccount

LEMMA SealRefines ==
  ASSUME Inv, NEW a \in Authorities, NEW p \in Pools, NEW r \in Rounds,
         Seal(a, p, r)
  PROVE  Lifecycle!RoundStep(r)
<1>1. /\ LiveRound(r) /\ round[r].state = "ThresholdReached"
      /\ round' = [round EXCEPT ![r].state = "Sealed"]
      /\ UNCHANGED <<slot, pool, participant, lamports>>
  BY DEF Seal, AdminAccounts
<1>2. "Sealed" \in State
  BY DEF State
<1> QED
  BY <1>1, <1>2, StateWriteMapped
     DEF Lifecycle!RoundStep, Lifecycle!SealCohort, Lifecycle!Move,
         Lifecycle!CanTransitionTo

LEMMA BeginRefines ==
  ASSUME Inv, NEW r \in Rounds, Begin(r)
  PROVE  Lifecycle!RoundStep(r)
<1>1. /\ LiveRound(r) /\ round[r].state = "ReleaseScheduled"
      /\ round[r].release_slot <= slot /\ slot <= round[r].window_end_slot
      /\ round' = [round EXCEPT ![r].state = "ExecutionWindow"]
      /\ UNCHANGED <<slot, pool, participant, lamports>>
  BY DEF Begin, InWindow
<1>2. "ExecutionWindow" \in State
  BY DEF State
<1> QED
  BY <1>1, <1>2, StateWriteMapped
     DEF Lifecycle!RoundStep, Lifecycle!OpenWindow, Lifecycle!Move,
         Lifecycle!CanTransitionTo

LEMMA CancelRefines ==
  ASSUME Inv, NEW a \in Authorities, NEW p \in Pools, NEW r \in Rounds,
         Cancel(a, p, r)
  PROVE  Lifecycle!RoundStep(r)
<1>1. /\ LiveRound(r) /\ round[r].state \notin Terminal
      /\ round' = [round EXCEPT ![r].state = "Cancelled"]
      /\ UNCHANGED <<slot, pool, participant, lamports>>
  BY DEF Cancel, AdminAccounts, Cancellable
<1>2. "Cancelled" \in State
  BY DEF State
<1>3. Lifecycle!CanTransitionTo(round[r].state, "Cancelled")
  BY <1>1 DEF Inv, TypeOK, RoundAccount, State, Terminal,
     Lifecycle!CanTransitionTo
<1> QED
  BY <1>1, <1>2, <1>3, StateWriteMapped
     DEF Lifecycle!RoundStep, Lifecycle!Abort, Lifecycle!Move

LEMMA FinalizeRefines ==
  ASSUME Inv, NEW a \in Authorities, NEW p \in Pools, NEW r \in Rounds,
         NEW m \in Hashes \cup {ZeroHash}, Finalize(a, p, r, m)
  PROVE  Lifecycle!RoundStep(r)
<1> DEFINE v == [round[r] EXCEPT !.metrics_hash = m, !.state = "Completed"]
<1>1. /\ LiveRound(r) /\ round[r].state = "ExecutionWindow"
      /\ slot > round[r].window_end_slot
      /\ round' = [round EXCEPT ![r] = v]
      /\ UNCHANGED <<slot, pool, participant>>
      /\ round[r] \in RoundAccount
  BY DEF Finalize, AdminAccounts, Finalizable, Inv, TypeOK
<1>2. \A q \in Rounds : Records(q)' = Records(q)
  BY <1>1 DEF Records
<1>3. Lifecycle!Others(r)
  BY <1>1, <1>2, OthersUnmoved
<1>4. /\ round'[r].version = round[r].version
      /\ round'[r].state = "Completed"
      /\ round'[r].accepted_count = round[r].accepted_count
      /\ round'[r].cohort_root = round[r].cohort_root
      /\ round'[r].release_slot = round[r].release_slot
      /\ round'[r].window_end_slot = round[r].window_end_slot
  BY <1>1 DEF RoundAccount, Inv, TypeOK
<1>5. Phase(r) = "ExecutionWindow" /\ Phase(r)' = "Completed"
  BY <1>1, <1>4 DEF Phase, LiveRound
<1> QED
  BY <1>1, <1>2, <1>3, <1>4, <1>5
     DEF Lifecycle!RoundStep, Lifecycle!Settle, Lifecycle!SettleAtOnce,
         Lifecycle!CanTransitionTo

LEMMA ScheduleRefines ==
  ASSUME Inv, NEW a \in Authorities, NEW p \in Pools, NEW r \in Rounds,
         NEW release \in Releases, Schedule(a, p, r, release)
  PROVE  Lifecycle!RoundStep(r)
<1>1. /\ LiveRound(r) /\ LivePool(p) /\ round[r].state = "Sealed"
      /\ release >= slot
      /\ round' = [round EXCEPT ![r] = Scheduled(p, r, release)]
      /\ UNCHANGED <<slot, pool, participant>>
      /\ round[r] \in RoundAccount
  BY DEF Schedule, AdminAccounts, Schedulable, Inv, TypeOK
<1>2. \A q \in Rounds : Records(q)' = Records(q)
  BY <1>1 DEF Records
<1>3. Lifecycle!Others(r)
  BY <1>1, <1>2, OthersUnmoved
<1>4. /\ round'[r].version = round[r].version
      /\ round'[r].state = "ReleaseScheduled"
      /\ round'[r].accepted_count = round[r].accepted_count
      /\ round'[r].cohort_root = round[r].cohort_root
      /\ round'[r].release_slot = release
      /\ round'[r].window_end_slot = release + pool[p].execution_window
  BY <1>1 DEF RoundAccount, Inv, TypeOK, Scheduled
<1>5. Phase(r) = "Sealed" /\ Phase(r)' = "ReleaseScheduled"
  BY <1>1, <1>4 DEF Phase, LiveRound
<1>6. /\ slot \in Nat /\ release \in Nat
      /\ pool[p].execution_window \in Nat /\ pool[p].execution_window > 0
  BY <1>1, InputAssumption, BoundAssumption
     DEF Inv, PoolsSound, TypeOK, PoolAccount
<1> QED
  BY <1>1, <1>2, <1>3, <1>4, <1>5, <1>6
     DEF Lifecycle!RoundStep, Lifecycle!FixWindow, Lifecycle!Move,
         Lifecycle!CanTransitionTo

LEMMA PublishRootRefines ==
  ASSUME Inv, NEW a \in Authorities, NEW p \in Pools, NEW r \in Rounds,
         NEW h \in Hashes \cup {ZeroHash}, NEW n \in Counts,
         PublishRoot(a, p, r, h, n)
  PROVE  Lifecycle!RoundStep(r)
<1> DEFINE v == [round[r] EXCEPT !.cohort_root = h, !.accepted_count = n,
                                 !.state = "ThresholdReached"]
<1>1. /\ LiveRound(r) /\ round[r].state = "Registration"
      /\ round' = [round EXCEPT ![r] = v]
      /\ UNCHANGED <<slot, pool, participant>>
      /\ round[r] \in RoundAccount
  BY DEF PublishRoot, AdminAccounts, Inv, TypeOK
<1>2. Lifecycle!Others(r)
  BY <1>1, OthersUnmoved DEF Records
<1>3. /\ round'[r].version = round[r].version
      /\ round'[r].state = "ThresholdReached"
      /\ round'[r].release_slot = round[r].release_slot
      /\ round'[r].window_end_slot = round[r].window_end_slot
  BY <1>1 DEF RoundAccount, Inv, TypeOK
<1>4. Phase(r) = "Registration" /\ Phase(r)' = "ThresholdReached"
  BY <1>1, <1>3 DEF Phase, LiveRound
<1> QED
  BY <1>1, <1>2, <1>3, <1>4
     DEF Lifecycle!RoundStep, Lifecycle!Enrol, Lifecycle!Move,
         Lifecycle!CanTransitionTo

LEMMA RegisterTransparentRefines ==
  ASSUME Inv, NEW a \in Authorities, NEW p \in Pools, NEW r \in Rounds,
         NEW k \in Keys, NEW b \in Bumps, RegisterTransparent(a, p, r, k, b)
  PROVE  Lifecycle!RoundStep(r)
<1>1. /\ LiveRound(r)
      /\ round[r].state \in {"Registration", "ThresholdReached"}
      /\ round' = [round EXCEPT ![r] = Registered(p, r)]
      /\ participant' = participant \cup {<<r, k, b>>}
      /\ UNCHANGED <<slot, pool>>
      /\ round[r] \in RoundAccount
  BY DEF RegisterTransparent, RegistrationOpen, Inv, TypeOK
<1>2. \A q \in Rounds \ {r} : Records(q)' = Records(q)
  BY <1>1 DEF Records
<1>3. Lifecycle!Others(r)
  BY <1>1, <1>2, OthersUnmoved
<1>4. /\ round'[r].version = round[r].version
      /\ round'[r].state = StateAfterRegister(p, r)
      /\ round'[r].release_slot = round[r].release_slot
      /\ round'[r].window_end_slot = round[r].window_end_slot
  BY <1>1 DEF RoundAccount, Inv, TypeOK, Registered
<1>5. Phase(r) = round[r].state /\ Phase(r)' = StateAfterRegister(p, r)
  BY <1>1, <1>4 DEF Phase, LiveRound
<1>6. StateAfterRegister(p, r) \in {round[r].state, "ThresholdReached"}
  BY DEF StateAfterRegister
<1> QED
  BY <1>1, <1>3, <1>4, <1>5, <1>6
     DEF Lifecycle!RoundStep, Lifecycle!Enrol, Lifecycle!Move,
         Lifecycle!CanTransitionTo

LEMMA CloseRefines ==
  ASSUME Inv, NEW a \in Authorities, NEW p \in Pools, NEW r \in Rounds,
         Close(a, p, r)
  PROVE  Lifecycle!RoundStep(r)
<1>1. /\ LiveRound(r) /\ round[r].state \in Terminal
      /\ round' = [round EXCEPT ![r] = ZeroRound]
      /\ UNCHANGED <<slot, pool, participant>>
  BY DEF Close, Cleared, AdminAccounts
<1>2. Lifecycle!Others(r)
  BY <1>1, OthersUnmoved DEF Records
<1>3. ~ LiveRound(r)' /\ r[2] < OwnPool(r)'.next_round
  BY <1>1 DEF LiveRound, ZeroRound, Inv, TypeOK, RoundSound, Numbered, OwnPool
<1>4. Phase(r) \in Lifecycle!TerminalState /\ Phase(r)' = "Closed"
  BY <1>1, <1>3 DEF Phase, Terminal, Lifecycle!TerminalState
<1> QED
  BY <1>1, <1>2, <1>4 DEF Lifecycle!RoundStep, Lifecycle!Discard

\* Opening a round numbers the next address of its pool; the addresses before
\* it stay opened or closed and the ones after it stay drafts.
LEMMA OpenRoundRefines ==
  ASSUME Inv, NEW a \in Authorities, NEW p \in Pools, NEW id \in RoundIds,
         NEW d \in Deadlines, NEW t \in Templates, OpenRound(a, p, id, d, t)
  PROVE  Lifecycle!RoundStep(<<p, id>>)
<1> DEFINE r == <<p, id>>
<1>1. /\ id \in Nat /\ pool[p].next_round = id
      /\ pool[p] \in PoolAccount /\ r \in Rounds
      /\ pool' = [pool EXCEPT ![p].next_round = id + 1]
      /\ round' = [round EXCEPT ![r] = NewRound(p, id, d, t)]
      /\ UNCHANGED <<slot, participant>>
      /\ ~ LiveRound(r)
  BY BoundAssumption DEF OpenRound, IsNext, CreateAccount, Inv, TypeOK,
     Rounds, RoundIds
<1>2. /\ \A q \in Pools \ {p} : pool'[q] = pool[q]
      /\ pool'[p].next_round = id + 1
  BY <1>1 DEF Inv, TypeOK, PoolAccount
<1>3. \A q \in Rounds \ {r} : round'[q] = round[q]
  BY <1>1 DEF Inv, TypeOK
<1>4. ASSUME NEW q \in Rounds \ {r} PROVE Phase(q)' = Phase(q)
  <2>1. q[1] \in Pools /\ q[2] \in Nat /\ q = <<q[1], q[2]>>
    BY RoundComponents
  <2>2. q[2] < pool'[q[1]].next_round <=> q[2] < pool[q[1]].next_round
    <3>1. CASE q[1] = p
      <4>1. q[2] # id
        BY <2>1, <3>1
      <4> QED
        BY <1>1, <1>2, <2>1, <3>1, <4>1
    <3> QED
      BY <1>2, <2>1, <3>1
  <2> QED
    BY <1>3, <2>2 DEF Phase, LiveRound, OwnPool
<1>5. \A q \in Rounds : Records(q)' = Records(q)
  BY <1>1 DEF Records
<1>6. Lifecycle!Others(r)
  BY <1>3, <1>4, <1>5 DEF Lifecycle!Others
<1>7. round'[r] = NewRound(p, id, d, t)
  BY <1>1 DEF Inv, TypeOK
<1>8. Phase(r)' = "Registration"
  BY <1>7 DEF Phase, LiveRound, NewRound
<1>9. Phase(r) = "Draft"
  BY <1>1 DEF Phase, OwnPool
<1> QED
  BY <1>1, <1>6, <1>8, <1>9
     DEF Lifecycle!RoundStep, Lifecycle!Announce, Lifecycle!Move,
         Lifecycle!CanTransitionTo

\* Creating a pool shows in no round: its addresses are still drafts.
LEMMA InitializePoolStutters ==
  ASSUME Inv, NEW a \in Authorities, NEW p \in Pools, NEW c \in Policies,
         InitializePool(a, p, c)
  PROVE  UNCHANGED Lifecycle!vars
<1>1. /\ ~ LivePool(p)
      /\ pool' = [pool EXCEPT ![p] = NewPool(a, c)]
      /\ UNCHANGED <<slot, round, participant>>
  BY DEF InitializePool, CreateAccount
<1>2. \A q \in Pools : pool'[q].next_round = pool[q].next_round
  BY <1>1 DEF NewPool, Inv, PoolsSound, TypeOK
<1>3. \A r \in Rounds : Phase(r)' = Phase(r) /\ Records(r)' = Records(r)
  BY <1>1, <1>2, RoundComponents DEF Phase, LiveRound, OwnPool, Records
<1> QED
  BY <1>1, <1>3 DEF Lifecycle!vars

LEMMA TickAdvances == Inv /\ Tick => Lifecycle!Advance
<1> SUFFICES ASSUME Inv, Tick PROVE Lifecycle!Advance
  OBVIOUS
<1>1. slot' > slot /\ UNCHANGED <<pool, round, participant>>
  BY BoundAssumption DEF Tick, Inv, TypeOK
<1>2. \A r \in Rounds : Phase(r)' = Phase(r) /\ Records(r)' = Records(r)
  BY <1>1 DEF Phase, LiveRound, OwnPool, Records
<1> QED
  BY <1>1, <1>2 DEF Lifecycle!Advance

LEMMA StutterMapped == UNCHANGED vars => UNCHANGED Lifecycle!vars
<1> SUFFICES ASSUME UNCHANGED vars PROVE UNCHANGED Lifecycle!vars
  OBVIOUS
<1>1. \A r \in Rounds : Phase(r)' = Phase(r) /\ Records(r)' = Records(r)
  BY DEF vars, Phase, LiveRound, OwnPool, Records
<1> QED
  BY <1>1 DEF vars, Lifecycle!vars

\* The program implements the abstract round lifecycle for every number of
\* pools, rounds and participants, although schedule, finalize, cancel and close
\* do not check which pool account they are given.
THEOREM ImplementsLifecycle == Spec => LifecycleSpec
<1>1. Init => Lifecycle!Init
  <2> SUFFICES ASSUME Init PROVE Lifecycle!Init
    OBVIOUS
  <2>1. \A r \in Rounds : Phase(r) = "Draft"
    BY RoundComponents
       DEF Init, Phase, LiveRound, ZeroRound, OwnPool, ZeroPool
  <2> QED
    BY <2>1 DEF Lifecycle!Init
<1>2. Inv /\ [Next]_vars => [Lifecycle!Next]_(Lifecycle!vars)
  <2> SUFFICES ASSUME Inv, [Next]_vars
               PROVE  Lifecycle!Next \/ UNCHANGED Lifecycle!vars
    OBVIOUS
  <2>1. CASE Tick
    BY <2>1, TickAdvances DEF Lifecycle!Next
  <2>2. ASSUME NEW a \in Authorities, NEW p \in Pools, PoolInstruction(a, p)
        PROVE  Lifecycle!Next \/ UNCHANGED Lifecycle!vars
    <3>1. ASSUME NEW c \in Policies, InitializePool(a, p, c)
          PROVE  UNCHANGED Lifecycle!vars
      BY <3>1, InitializePoolStutters
    <3>2. ASSUME NEW id \in RoundIds, NEW d \in Deadlines,
                 NEW t \in Templates, OpenRound(a, p, id, d, t)
          PROVE  Lifecycle!Next
      <4>1. <<p, id>> \in Rounds
        BY DEF Rounds
      <4> QED
        BY <3>2, <4>1, OpenRoundRefines DEF Lifecycle!Next
    <3> QED
      BY <2>2, <3>1, <3>2 DEF PoolInstruction
  <2>3. ASSUME NEW a \in Authorities, NEW p \in Pools, NEW r \in Rounds,
               RoundInstruction(a, p, r)
        PROVE  Lifecycle!Next
    <3>1. Lifecycle!RoundStep(r)
      BY <2>3, RegisterTransparentRefines, PublishRootRefines, SealRefines,
         ScheduleRefines, FinalizeRefines, CancelRefines, CloseRefines
         DEF RoundInstruction
    <3> QED
      BY <3>1 DEF Lifecycle!Next
  <2>4. ASSUME NEW r \in Rounds, Begin(r) PROVE Lifecycle!Next
    BY <2>4, BeginRefines DEF Lifecycle!Next
  <2>5. CASE UNCHANGED vars
    BY <2>5, StutterMapped
  <2> QED
    BY <2>1, <2>2, <2>3, <2>4, <2>5 DEF Next
<1> QED
  BY <1>1, <1>2, Invariance, PTL DEF Spec, LifecycleSpec, Lifecycle!Spec
=============================================================================
