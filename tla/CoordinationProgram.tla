------------------------ MODULE CoordinationProgram ------------------------
(***************************************************************************)
(* The native Solana coordination program                                  *)
(* (programs/mirror-pool-program/src/lib.rs).                              *)
(*                                                                         *)
(* One action per instruction.  The runtime executes a transaction         *)
(* atomically, so an instruction that returns an error leaves no trace: it *)
(* is not a step.  The accounts an instruction is given are parameters of  *)
(* its action, and a relation between them is a guard only where the       *)
(* handler tests it.  What kind of account each argument is, is not a      *)
(* parameter: an argument that names a pool is a pool account and one that *)
(* names a round is a round account, as in every transaction the client's  *)
(* builders make.  The handlers themselves test only who owns an account   *)
(* (require_owned) and read it without a type tag (read_account), so every *)
(* property here is about transactions with accounts of those kinds.       *)
(*                                                                         *)
(* An account is identified by its program derived address.  A round lives *)
(* at <<pool, round id>>; a transparent registration lives at the address  *)
(* derived from its round, its key and the caller's bump.  An account that *)
(* does not exist, or was closed, is the all-zero account (version 0).     *)
(***************************************************************************)
EXTENDS Integers, FiniteSets, FiniteSetsExt

CONSTANTS
  Pools,            \* addresses of pool accounts
  Authorities,      \* wallets that sign instructions and pay rent
  Keys,             \* one-time coordination keys
  Bumps,            \* bump seeds for which the derived address is off the curve
  Templates,        \* template hashes
  Hashes,           \* non-zero 32-byte hashes (cohort roots, metrics)
  ZeroKey,          \* the all-zero public key
  ZeroHash,         \* the all-zero hash
  Policies,         \* policy arguments InitializePool is called with
  Deadlines,        \* registration deadlines OpenRound is called with
  Releases,         \* release slots ScheduleRelease is called with
  Counts,           \* accepted counts PublishCohortRoot is called with
  MaxCohortSize,    \* MAX_COHORT_SIZE
  U64Max,           \* largest value of a u64
  MaxSlot,          \* bound on the clock
  MaxRounds,        \* bound on the rounds of one pool
  AccountRent,      \* rent of a pool or round account (256 bytes each)
  RecordRent,       \* rent of a participant record (96 bytes)
  InitialLamports   \* lamports of every wallet at the start

Backends == {"TransparentRegistry", "MerkleCohort"}

State == {"Registration", "ThresholdReached", "Sealed", "ReleaseScheduled",
          "ExecutionWindow", "Finalizing", "Completed", "Cancelled", "Expired"}

Policy == [template_hash : Templates, min_participants : Nat,
           max_participants : Nat, min_release_delay : Nat,
           max_release_delay : Nat, execution_window : Nat,
           backend : Backends]

ASSUME AddressAssumption ==
  /\ ZeroKey \notin Pools /\ ZeroKey \notin Authorities
  /\ ZeroHash \notin Hashes /\ ZeroHash \notin Templates

ASSUME InputAssumption ==
  /\ Policies \subseteq Policy
  /\ Deadlines \subseteq Nat /\ Releases \subseteq Nat /\ Counts \subseteq Nat

ASSUME BoundAssumption ==
  /\ MaxCohortSize \in Nat /\ U64Max \in Nat /\ MaxSlot \in Nat
  /\ MaxRounds \in Nat /\ AccountRent \in Nat /\ RecordRent \in Nat
  /\ InitialLamports \in Nat /\ MaxSlot <= U64Max
  /\ \A d \in Releases : d <= U64Max

ASSUME FiniteAssumption ==
  /\ IsFiniteSet(Keys) /\ IsFiniteSet(Bumps)
  /\ IsFiniteSet(Pools) /\ IsFiniteSet(Authorities)

RoundIds == 0 .. (MaxRounds - 1)
Rounds == Pools \X RoundIds

VARIABLES
  slot,         \* Clock::get()?.slot
  pool,         \* pool accounts by address
  round,        \* round accounts by address
  participant,  \* addresses of the participant records that exist
  lamports      \* balances of the wallets

vars == <<slot, pool, round, participant, lamports>>

-----------------------------------------------------------------------------
(* Accounts                                                                *)

PoolAccount ==
  [version : {0, 1}, authority : Authorities \cup {ZeroKey},
   template_hash : Templates \cup {ZeroHash},
   min_participants : Nat, max_participants : Nat,
   min_release_delay : Nat, max_release_delay : Nat, execution_window : Nat,
   backend : Backends, next_round : Nat, paused : BOOLEAN]

RoundAccount ==
  [version : {0, 1}, pool : Pools \cup {ZeroKey}, round_id : Nat,
   state : State, registration_deadline : Nat,
   template_hash : Templates \cup {ZeroHash}, accepted_count : Nat,
   cohort_root : Hashes \cup {ZeroHash}, release_slot : Nat,
   window_end_slot : Nat, metrics_hash : Hashes \cup {ZeroHash}]

ZeroPool ==
  [version |-> 0, authority |-> ZeroKey, template_hash |-> ZeroHash,
   min_participants |-> 0, max_participants |-> 0, min_release_delay |-> 0,
   max_release_delay |-> 0, execution_window |-> 0,
   backend |-> "TransparentRegistry", next_round |-> 0, paused |-> FALSE]

\* What `data.fill(0)` in close leaves behind.
ZeroRound ==
  [version |-> 0, pool |-> ZeroKey, round_id |-> 0, state |-> "Registration",
   registration_deadline |-> 0, template_hash |-> ZeroHash,
   accepted_count |-> 0, cohort_root |-> ZeroHash, release_slot |-> 0,
   window_end_slot |-> 0, metrics_hash |-> ZeroHash]

\* An account of its kind exists at the address.
LivePool(p) == pool[p].version # 0
LiveRound(r) == round[r].version # 0

\* The pool a round was opened under.
OwnPool(r) == pool[r[1]]

Records(r) == participant \cap ({r} \X Keys \X Bumps)

Terminal == {"Completed", "Cancelled", "Expired"}

\* Mutant: the payer's balance is not looked at.
CreateAccountUnfunded(payer, unused, rent) ==
  /\ unused
  /\ lamports' = [lamports EXCEPT ![payer] = @ - rent]

\* create_pda_account: the address must be unused and the payer funded.
CreateAccount(payer, unused, rent) ==
  /\ unused
  /\ lamports[payer] >= rent
  /\ lamports' = [lamports EXCEPT ![payer] = @ - rent]

\* admin_accounts, and the authority test every administrative handler makes.
\* p is a pool account and r a round account (see the head of the module); that
\* one belongs to the other is tested by some of the callers only.
AdminAccounts(a, p, r) ==
  /\ LivePool(p)
  /\ LiveRound(r)
  /\ pool[p].authority = a

Init ==
  /\ slot = 0
  /\ pool = [p \in Pools |-> ZeroPool]
  /\ round = [r \in Rounds |-> ZeroRound]
  /\ participant = {}
  /\ lamports = [a \in Authorities |-> InitialLamports]

\* The cluster's clock advances.
Tick ==
  /\ slot < MaxSlot
  /\ slot' = slot + 1
  /\ UNCHANGED <<pool, round, participant, lamports>>

-----------------------------------------------------------------------------
(* Instructions                                                            *)

ValidPolicy(c) ==
  /\ c.min_participants >= 2
  /\ c.min_participants <= c.max_participants
  /\ c.max_participants <= MaxCohortSize
  /\ c.execution_window # 0
  /\ c.min_release_delay <= c.max_release_delay

NewPool(a, c) ==
  [version |-> 1, authority |-> a, template_hash |-> c.template_hash,
   min_participants |-> c.min_participants,
   max_participants |-> c.max_participants,
   min_release_delay |-> c.min_release_delay,
   max_release_delay |-> c.max_release_delay,
   execution_window |-> c.execution_window,
   backend |-> c.backend, next_round |-> 0, paused |-> FALSE]

InitializePool(a, p, c) ==
  /\ ValidPolicy(c)
  /\ CreateAccount(a, ~ LivePool(p), AccountRent)
  /\ pool' = [pool EXCEPT ![p] = NewPool(a, c)]
  /\ UNCHANGED <<slot, round, participant>>

NewRound(p, id, deadline, template) ==
  [version |-> 1, pool |-> p, round_id |-> id, state |-> "Registration",
   registration_deadline |-> deadline, template_hash |-> template,
   accepted_count |-> 0, cohort_root |-> ZeroHash, release_slot |-> 0,
   window_end_slot |-> 0, metrics_hash |-> ZeroHash]

IsNext(p, id) == id = pool[p].next_round

OpenRound(a, p, id, deadline, template) ==
  /\ LivePool(p)
  /\ pool[p].authority = a
  /\ ~ pool[p].paused
  /\ IsNext(p, id)
  /\ pool[p].template_hash = template
  /\ deadline > slot
  /\ CreateAccount(a, ~ LiveRound(<<p, id>>), AccountRent)
  /\ pool' = [pool EXCEPT ![p].next_round = id + 1]
  /\ round' = [round EXCEPT ![<<p, id>>] = NewRound(p, id, deadline, template)]
  /\ UNCHANGED <<slot, participant>>

\* The state a transparent registration leaves its round in.
StateAfterRegister(p, r) ==
  IF round[r].accepted_count + 1 >= pool[p].min_participants
  THEN "ThresholdReached" ELSE round[r].state

\* The round fields a registration writes.
Registered(p, r) ==
  [round[r] EXCEPT !.accepted_count = @ + 1, !.state = StateAfterRegister(p, r)]

\* Mutant: registration looks at the deadline but not at the state.
RegistrationOpenByTime(r) == slot < round[r].registration_deadline
RegistrationOpen(r) ==
  /\ round[r].state \in {"Registration", "ThresholdReached"}
  /\ slot < round[r].registration_deadline

\* Mutant: an existing record may be written again.
UnusedAlways(record) == TRUE
Unused(record) == record \notin participant

RegisterTransparent(payer, p, r, key, bump) ==
  /\ LivePool(p)
  /\ LiveRound(r)
  /\ pool[p].backend = "TransparentRegistry"
  /\ round[r].pool = p
  /\ RegistrationOpen(r)
  /\ round[r].accepted_count < pool[p].max_participants
  /\ CreateAccount(payer, Unused(<<r, key, bump>>), RecordRent)
  /\ participant' = participant \cup {<<r, key, bump>>}
  /\ round' = [round EXCEPT ![r] = Registered(p, r)]
  /\ UNCHANGED <<slot, pool>>

\* Mutant: the claimed count is not compared with the pool's maximum.
CountAllowedFromMin(p, count) == pool[p].min_participants <= count
CountAllowed(p, count) ==
  count \in pool[p].min_participants .. pool[p].max_participants

PublishRoot(a, p, r, root, count) ==
  /\ AdminAccounts(a, p, r)
  /\ pool[p].backend = "MerkleCohort"
  /\ round[r].pool = p
  /\ round[r].state = "Registration"
  /\ CountAllowed(p, count)
  /\ root # ZeroHash
  /\ round[r].cohort_root = ZeroHash
  /\ round' = [round EXCEPT ![r] =
                 [@ EXCEPT !.cohort_root = root, !.accepted_count = count,
                           !.state = "ThresholdReached"]]
  /\ UNCHANGED <<slot, pool, participant, lamports>>

Seal(a, p, r) ==
  /\ AdminAccounts(a, p, r)
  /\ round[r].pool = p
  /\ round[r].state = "ThresholdReached"
  /\ round[r].accepted_count >= pool[p].min_participants
  /\ round' = [round EXCEPT ![r].state = "Sealed"]
  /\ UNCHANGED <<slot, pool, participant, lamports>>

\* The round fields a schedule writes.
Scheduled(p, r, release) ==
  [round[r] EXCEPT !.release_slot = release,
                   !.window_end_slot = release + pool[p].execution_window,
                   !.state = "ReleaseScheduled"]

Schedulable(r) == round[r].state = "Sealed" /\ round[r].release_slot = 0

\* The delay and the window are those of the pool account that is passed:
\* unlike seal, the handler does not compare it with round.pool.
Schedule(a, p, r, release) ==
  /\ AdminAccounts(a, p, r)
  /\ release >= slot
  /\ Schedulable(r)
  /\ pool[p].min_release_delay <= release - slot
  /\ release - slot <= pool[p].max_release_delay
  /\ release + pool[p].execution_window <= U64Max
  /\ round' = [round EXCEPT ![r] = Scheduled(p, r, release)]
  /\ UNCHANGED <<slot, pool, participant, lamports>>

\* Mutant: the end of the window is not looked at.
InWindowOrLater(r) == round[r].release_slot <= slot
InWindow(r) == round[r].release_slot <= slot /\ slot <= round[r].window_end_slot

\* Permissionless: any caller may pass the round account.
Begin(r) ==
  /\ LiveRound(r)
  /\ round[r].state = "ReleaseScheduled"
  /\ InWindow(r)
  /\ round' = [round EXCEPT ![r].state = "ExecutionWindow"]
  /\ UNCHANGED <<slot, pool, participant, lamports>>

\* Mutant: the last slot of the window counts as after it.
FinalizableEarly(r) ==
  round[r].state = "ExecutionWindow" /\ slot >= round[r].window_end_slot
\* Mutant: finalize waits for the Finalizing state, which nothing enters.
FinalizableFinalizing(r) ==
  round[r].state = "Finalizing" /\ slot > round[r].window_end_slot
Finalizable(r) ==
  round[r].state = "ExecutionWindow" /\ slot > round[r].window_end_slot

Finalize(a, p, r, metrics) ==
  /\ AdminAccounts(a, p, r)
  /\ Finalizable(r)
  /\ metrics # ZeroHash
  /\ round' = [round EXCEPT ![r] =
                 [@ EXCEPT !.metrics_hash = metrics, !.state = "Completed"]]
  /\ UNCHANGED <<slot, pool, participant, lamports>>

\* Mutant: a finished round may be cancelled.
CancellableAlways(r) == TRUE
Cancellable(r) == round[r].state \notin Terminal

Cancel(a, p, r) ==
  /\ AdminAccounts(a, p, r)
  /\ Cancellable(r)
  /\ round' = [round EXCEPT ![r].state = "Cancelled"]
  /\ UNCHANGED <<slot, pool, participant, lamports>>

\* Mutant: the account's data is not cleared.
ClearedNever(r) == round[r]
Cleared(r) == ZeroRound

\* The rent goes to the signer; the round's participant records stay.
Close(a, p, r) ==
  /\ AdminAccounts(a, p, r)
  /\ round[r].state \in Terminal
  /\ round' = [round EXCEPT ![r] = Cleared(r)]
  /\ lamports' = [lamports EXCEPT ![a] = @ + AccountRent]
  /\ UNCHANGED <<slot, pool, participant>>

-----------------------------------------------------------------------------
(* process_instruction                                                     *)

PoolInstruction(a, p) ==
  \/ \E c \in Policies : InitializePool(a, p, c)
  \/ \E id \in RoundIds, deadline \in Deadlines, template \in Templates :
       OpenRound(a, p, id, deadline, template)

RoundInstruction(a, p, r) ==
  \/ \E key \in Keys, bump \in Bumps : RegisterTransparent(a, p, r, key, bump)
  \/ \E root \in Hashes \cup {ZeroHash}, count \in Counts :
       PublishRoot(a, p, r, root, count)
  \/ Seal(a, p, r)
  \/ \E release \in Releases : Schedule(a, p, r, release)
  \/ \E metrics \in Hashes \cup {ZeroHash} : Finalize(a, p, r, metrics)
  \/ Cancel(a, p, r)
  \/ Close(a, p, r)

Next ==
  \/ Tick
  \/ \E a \in Authorities, p \in Pools : PoolInstruction(a, p)
  \/ \E a \in Authorities, p \in Pools, r \in Rounds : RoundInstruction(a, p, r)
  \/ \E r \in Rounds : Begin(r)

Spec == Init /\ [][Next]_vars

OwnFinalize(r) ==
  \E a \in Authorities, m \in Hashes : Finalize(a, r[1], r, m)

OwnClose(r) == \E a \in Authorities : Close(a, r[1], r)

\* The cluster keeps producing slots and the authority of each pool keeps
\* submitting finalize and close for its rounds until they are accepted.
FairSpec ==
  /\ Spec
  /\ WF_vars(Tick)
  /\ \A r \in Rounds : WF_vars(OwnFinalize(r)) /\ WF_vars(OwnClose(r))

-----------------------------------------------------------------------------
(* Properties                                                              *)

\* Every account has the layout of its struct and no balance is negative.
TypeOK ==
  /\ slot \in 0 .. MaxSlot
  /\ pool \in [Pools -> PoolAccount]
  /\ round \in [Rounds -> RoundAccount]
  /\ participant \subseteq (Rounds \X Keys \X Bumps)
  /\ lamports \in [Authorities -> Nat]

ThresholdMet == {"ThresholdReached", "Sealed", "ReleaseScheduled",
                 "ExecutionWindow", "Completed"}

CohortSound(r) ==
  round[r].state \in ThresholdMet =>
    /\ OwnPool(r).min_participants <= round[r].accepted_count
    /\ round[r].accepted_count <= OwnPool(r).max_participants
    /\ (OwnPool(r).backend = "MerkleCohort") <=> (round[r].cohort_root # ZeroHash)

\* A round that got past Registration without being cancelled has a cohort
\* within the bounds of the pool it was opened under, whichever pool accounts
\* were passed on the way; a Merkle cohort has its root and a transparent one
\* has none.
CohortWithinPolicy == \A r \in Rounds : LiveRound(r) => CohortSound(r)

\* The counter a transparent round is judged by (threshold, maximum) always
\* equals the number of participant records created under it.
RecordsMatchCount ==
  \A r \in Rounds :
    LiveRound(r) /\ OwnPool(r).backend = "TransparentRegistry" =>
      round[r].accepted_count = Cardinality(Records(r))

Total(balance) == MapThenSumSet(LAMBDA a : balance[a], Authorities)

\* The rent accounts hold is exactly what the wallets paid: no instruction, and
\* no order of opening, registering and closing, creates or destroys lamports.
LamportsConserved ==
  Total(lamports)
    + AccountRent * Cardinality({p \in Pools : LivePool(p)})
    + AccountRent * Cardinality({r \in Rounds : LiveRound(r)})
    + RecordRent * Cardinality(participant)
  = InitialLamports * Cardinality(Authorities)

WindowFixed == {"ReleaseScheduled", "ExecutionWindow", "Completed"}

WindowSound(r) ==
  /\ round[r].state \in WindowFixed =>
       /\ round[r].release_slot < round[r].window_end_slot
       /\ round[r].window_end_slot <= U64Max
  /\ round[r].state = "ExecutionWindow" => round[r].release_slot <= slot
  /\ round[r].state = "Completed" => round[r].window_end_slot < slot

\* The window exists from scheduling on, is not empty and fits a u64; a round
\* is executing only from its release slot on and completed only after its end.
WindowTiming == \A r \in Rounds : LiveRound(r) => WindowSound(r)

SealedOrLater == State \ {"Registration", "ThresholdReached"}

\* From sealing until its account is closed, nothing changes a round's count,
\* root or participant records.
CohortFrozen ==
  [][\A r \in Rounds :
       LiveRound(r) /\ round[r].state \in SealedOrLater =>
         /\ Records(r)' = Records(r)
         /\ LiveRound(r)' =>
              /\ round'[r].accepted_count = round[r].accepted_count
              /\ round'[r].cohort_root = round[r].cohort_root]_vars

\* A round that missed its window, and a transparent round whose deadline passed
\* below the threshold, can only be cancelled: it never executes or completes.
MissedRoundOnlyCancels ==
  [][\A r \in Rounds :
       /\ LiveRound(r)
       /\ \/ /\ round[r].state = "ReleaseScheduled"
             /\ round[r].window_end_slot < slot
          \/ /\ round[r].state = "Registration"
             /\ round[r].registration_deadline <= slot
             /\ OwnPool(r).backend = "TransparentRegistry"
       => round'[r].state \in {round[r].state, "Cancelled"}]_vars

\* A round that was opened is "Draft" to nobody any more, and one whose account
\* is gone is closed.
Phase(r) ==
  IF LiveRound(r) THEN round[r].state
  ELSE IF r[2] < OwnPool(r).next_round THEN "Closed" ELSE "Draft"

Lifecycle ==
  INSTANCE RoundLifecycle WITH
    phase  <- [r \in Rounds |-> Phase(r)],
    cohort <- [r \in Rounds |-> [count |-> round[r].accepted_count,
                                 root |-> round[r].cohort_root,
                                 records |-> Records(r)]],
    window <- [r \in Rounds |-> [release |-> round[r].release_slot,
                                 end |-> round[r].window_end_slot]]

\* The program implements the abstract round lifecycle: a round moves along the
\* edges of can_transition_to only (finalize along two at once), its cohort is
\* frozen by seal, its one window is chosen in the future, is not empty and never
\* moves, it is entered while open and settled after it.
LifecycleSpec == Lifecycle!Spec

\* Once its execution window was entered, a round is settled (or cancelled) and
\* its account closed, provided the clock reaches the end of the window.
EnteredWindowIsSettled ==
  \A r \in Rounds :
    (/\ LiveRound(r)
     /\ round[r].state = "ExecutionWindow"
     /\ round[r].window_end_slot < MaxSlot) ~> ~ LiveRound(r)

-----------------------------------------------------------------------------
(* What the documentation says and the program does not do                 *)

\* docs/protocol.md: "A pool fixes governance, template hash, thresholds,
\* timing": the window of a scheduled round has the length its own pool fixed.
WindowFollowsOwnPolicy ==
  \A r \in Rounds :
    LiveRound(r) /\ round[r].state \in WindowFixed =>
      round[r].window_end_slot - round[r].release_slot
        = OwnPool(r).execution_window

\* docs/architecture.md: "Transparent registrations use one fixed-size PDA per
\* one-time key": no key has two participant records in a round.
OneRecordPerKey ==
  \A x, y \in participant : x[1] = y[1] /\ x[2] = y[2] => x = y
=============================================================================
