# mirror-pool in TLA+

mirror-pool lets independent Solana wallets join a cohort, prove membership and
act inside the same window of slots. This directory models its protocol: the
on-chain program, the coordinator and its database, the round type, the Merkle
tree, the participant's sending path, the evaluator, and the end-to-end demo
and evidence package built from them. TLC checks small instances, TLAPS proves
their safety for all of them.

Run `tlc -config <run>.cfg MC<Module>` for a run and `tlapm <Module>_proofs.tla`
for the proofs. `PROJECT.json` lists runs, the source lines every definition
stands for, the mutants that show each property can fail, hazards and findings.

## Inventory of the system

| Part | State | Operations | Used by / uses |
|---|---|---|---|
| Coordination program (`programs/mirror-pool-program`) | pool, round and participant accounts; lamports | initialize, open, register, publish root, seal, schedule, begin, finalize, cancel, close | called by authorities and registrants in any order; reads the cluster clock |
| Core types (`mirror-pool-core`) | `PoolConfig`, `Round` | `validate`, `transition`, `register`, `seal`, `schedule_release` | command line, store |
| Coordinator (`mirror-pool-coordinator`) | rate counter, store mutex | ticket, seal and proof handlers | HTTP clients; RPC clock; store |
| Store (`mirror-pool-store`) | SQLite tables for pools, rounds, tickets, roots, proofs, schedules, events | accept, seal, proof, schedule, put and fetch a round | coordinator, demo |
| Ticket crypto (`mirror-pool-crypto`) | none | create, verify, commitment | client, coordinator |
| Merkle cohort (`mirror-pool-merkle`) | tree levels | build, proof, verify | store, client |
| Actions (`mirror-pool-actions`) | none | four templates, `SafetyPolicy::validate` | client, command line |
| Client (`mirror-pool-client`) | none between calls | `execute_local_memo`, instruction builders | RPC node, program |
| Simulator (`mirror-pool-simulator`) | none | `evaluate`, metrics | xtask, command line |
| Command line (`mirror-pool-cli`) | files | `pool create`, `round open`, `action`, `ticket`, `report` | everything above |
| xtask | a validator child, a store, the evidence directory | `full-demo`, `evaluate`, `verify-evidence` | everything above |

What is hard: instructions arrive in any order and with any of an operator's
pool accounts; handlers wait for an RPC slot and a mutex between reading and
writing; processes crash between a commit and an answer; several processes may
open one database; a sender checks the slot several requests before its
transaction lands; copies of a round go stale; odd rows of the tree; the ends
of integer ranges; a demo picks ports it no longer holds and may end up on
somebody else's validator; four evidence files are replaced one by one, and a
reader or a crash may come in between.

What makes each part correct: a cohort stays within its pool's bounds and is
frozen when sealed; a window is fixed once, non-empty, entered while open and
settled after it; rent is conserved; acknowledged
tickets and roots survive crashes and all answers about a root agree; a root is
a function of the set of commitments, every member has an accepted proof, and an
accepted proof of a commitment is that of a member;
only a safe, acknowledged memo is ever submitted, and never before the release;
a demo that reports success has seen on chain what it reports, and ends; an
accepted evidence package is of one generation; ablations of one seed are
comparable with their control.

## Modules

| Module | Models | State and actions |
|---|---|---|
| `RoundLifecycle` | the promise of a round, abstractly; `RoundState` and `can_transition_to` | phase, cohort, window per round; one step per promised change, each an edge of `can_transition_to` but for `SettleAtOnce` |
| `CoordinationProgram` | the whole on-chain program | one action per instruction, plus the clock; implements `RoundLifecycle` |
| `CohortService` | the promise of the coordinator to its clients, abstractly: a service in which a call takes effect in one step | the calls, the members, the sealed cohort, the window; one step per answer |
| `Coordinator` | handlers and ticket, root, proof, schedule and event tables | each request's `pc` names the await or database call it is at; crash, restart, lost reply, timeout and database error are actions; implements `CohortService` |
| `MerkleCohort` | `build`, `proof`, `verify`, pass by pass | a tree, a proof from it and a received copy, possibly altered in any field |
| `CoreRound` | `PoolConfig::validate`, `Round`, the rounds table, `pool create`, `round open` | holders with copies, current or stale; every method with the caller's limits; put, fetch, crash |
| `ActionTemplates` | templates and safety policy, as operators | none |
| `ParticipantExecution` | `execute_local_memo`, `action prepare`, `action execute` | calls stopped at each RPC request, the cluster's pending and landed transactions |
| `LocalDemo` | `full_demo` and `run_localnet_demo`: store, program and memos driven end to end, the client's instruction builders | several demos, each stopped at every request and child; their validators, pending transactions and ledgers; instances `CoordinationProgram` for the chain |
| `Evaluator` | `evaluate` and its metrics, as operators | none |
| `Evidence` | `generate`, `verify`, `report` | files by generation, a generation's place, verifiers, reporters; extends `Evaluator` |

`MC*` modules hold instances; `*_proofs` modules hold theorems.

### Correspondence and abstractions

*Program.* A rejected instruction changes nothing and is no step. A transaction
is one instruction. Any pool may be paired with any round, since several handlers
do not compare them, but an argument that names a pool is a pool account and one
that names a round is a round account, as in every transaction the client's
builders make. The handlers do not insist on that: `require_owned` tests the owner
and `read_account` reads an account without a type tag, so bytes of a pool can be
read as a round. That is a matter of the layout of bytes, which the model does
not have; every property and theorem about the program is about transactions with
accounts of the right kinds. In particular nothing is claimed about a round
address after its pool account was closed or set up anew.
A round's address leaves out its bump: `next_round` lets each id be opened once. A
record's address keeps it, because the caller chooses it. `Finalizing`,
`Expired` and `paused` exist in the code but are never assigned, so no step
reaches them. Rent is a constant per kind of account.

*Lifecycle.* Every change of phase in `RoundLifecycle` is guarded by
`CanTransitionTo`, the translation of the function in core. The program's
`finalize` goes from `ExecutionWindow` to `Completed`, which that function does not
allow. `SettleAtOnce` names this exception: two of its edges taken at once. Nothing
else of the program leaves the graph, and `LifecycleSpec` checks it.

*Coordinator.* Between two awaits a handler runs alone. The store mutex is held
from a request's first database call to its last. A ticket stands for its
commitment; a root stands for the set of commitments it was built from, which
`TreeIsOfTheSet` and `RootIsCanonical` of `MerkleCohort` justify. A stored proof
has a root of its own, which is what a client sees and what must agree with the
root's row. All error answers are one reply, `refused`, and `CohortService` allows
it at any time: also a second, identical schedule that loses a race is refused,
although `store` calls identical retries idempotent. The documentation has one
coordinator per database; the model also allows two, which SQLite permits, and
shows what then still holds.

*Merkle tree.* The hash is a free constructor: equal digests have equal
children, and a leaf is never a node's digest (they are hashed under different
domains). `verify` is given a proof off the wire. Its `leaf_hash` may be any digest
and its path may have any length, so it also accepts an inner node with the part
of a path above it; that is not an error of `verify`, which only opens the root,
but it means that acceptance alone does not say that somebody is a member.
`AcceptedOpensRoot` says what it does: the copy opens the node that its path leads
to, and if `leaf_hash` is a ticket's commitment, which the caller has to compare
since neither `verify` nor the client's wrapper does, that commitment is a member's
and the path is the one `proof` makes. An accepted proof's index is compared bit
by bit with the node's position, except where a node is paired with itself and
stands on both sides.
The leaf index fits a `u32` since `MAX_LEAVES` is 100 000.

*Core.* `transition` is public, so the model calls it in every state; a field `via`
remembers that it was used where a method exists, and what `seal` and
`schedule_release` promise is claimed of copies where it was not. The maximum of
`register` and the minimum of `seal` are the callers' arguments, not necessarily
those of the configuration. `put_round` compares nothing, and a holder may put a copy
that others have overtaken; the history variable `current` tells such copies from
those that come from the row as it is. The configuration hash is a flag that says
whether the recomputed one matches.

*Participant.* Numbers are the code's. A payload is its length. The RPC node
may answer anything, or fail, at each request; a transaction lands at most once
and before its blockhash expires. Send-and-confirm gives up by itself only when the
blockhash has expired; a failing request of its polling ends it earlier and leaves
it open whether the transaction lands, also after the same call was made again.

*Demo.* A demo's wallets, program id and database are its own, so its pool is
named after it; what demos share is the machine's ports. Six transactions and
then the memos are numbered stages; each is simulated, sent, executed or dropped
by whichever validator serves the demo's port, and confirmed. An instruction is
`CoordinationProgram`'s action with the arguments the builders give it. A
validator takes its ledger along when it exits, with the accounts of every demo
on it. A demo that fails while its transaction is pending on another demo's
validator leaves it there, where it may still be executed, or expire, after the
demo is gone; once nobody will read them, its accounts are forgotten. A pending
transaction expires only by slots; the last slot of the model stands for all later
ones. All validators share one clock: demos on different ones have nothing in
common that could tell. An error anywhere ends the demo (`Refused` for a check
of the script, `Fault` for anything else) and drops its child.
The spread a demo reports is of the slots participants read before sending. These
are inside the window; the memos are executed later, in the state `ExecutionWindow`
but possibly after the window's last slot, and `ReportIsTrue` claims no more.

*Evaluator and evidence.* A drawn word is 0 or 1 and picks an end of the range it
is drawn for; scores are counted in grains of which the signal, the noise and
`EPSILON` have constant numbers. `auc` asks first for a greater score and then for
a difference below `EPSILON`, so a near tie is a whole win in one direction and
half of one in the other; `MetricsSound` bounds what that may add and claims no
symmetry. A fingerprint is the text the code prints, numerals between separators,
which is what must keep participants apart. Rates are numerators. A file's content
is the generation it is of, or `Partial` from its truncation until it is filled; a
hash is the content. A report reads its input, asks whether the directory exists
and creates it in three steps. A generation's reports depend on nothing but its
build, so they are evaluated before the first file operation and then represented
by the generation's number. Generations follow each other; verifiers and reporters
run at any point of them.

## Runs

| Run | Shows | Bounds |
|---|---|---|
| `chain_two_pools` | cohorts within their own pool's policy, well-formed windows that never move, a missed round can only be cancelled, lamports conserved; the program implements `RoundLifecycle` | 2 pools (transparent, Merkle), 2 wallets, 5 slots |
| `chain_two_rounds` | the counter is the number of records, sealing freezes the cohort, a round whose window was entered is settled and closed | 2 rounds of a pool, 2 keys, under `FairSpec` |
| `coordinator_one_process` | a ticket that had expired when it was sent is refused, every request ends | 3 requests: a retry, an expired ticket, seals and proofs; crash, timeout, lost reply; under `FairSpec` |
| `coordinator_two_processes` | answers are durable, tables are what the event log says, the maximum is overshot by at most one ticket per extra process, root and proof answers agree on a cohort at the threshold; the processes together implement `CohortService` (`ServiceSpec`) | 2 processes on one database, 4 requests: up to 4 tickets for 2 places, one of them forged, 2 seals or schedules |
| `merkle_cohort` | canonical root, honest proofs accepted, accepted copies open a node at its place and a commitment only if it is a member's | cohorts of 0 to 8, limit 7; copies with every digest of the tree or of an outsider, every index, every part of the path, one sibling forged or added |
| `core_round` | every copy is sound; a put from a current copy goes on from the row | every method and a choice of limits, a bad configuration per check, 2 holders with stale copies (symmetric), `u64` ends at 3 |
| `execution` | only a safe memo is submitted, nothing before the release, conclusive results, calls return; what templates prepare fits the policy | 2 calls, 1 file of any template, parameters and edits around each bound, slots 0 to 5, a blockhash lives for one; under `FairSpec` |
| `full_demo` | the chain is where each demo believes it is, a report of success is true, also of the store's roots after its restart, every demo ends without a child | 2 demos that compete for 1 port range, one poll, 2 memos, slots 0 to 2; under `FairSpec` |
| `evidence` | same-seed ablations see the same run and never tell more participants apart; metrics fit together; accepted evidence is of one generation, a finished one verifies, a report directory has one input | every stream for 4 to 6 participants, each strategy among them, 2 generations that may die, 1 verifier, 2 reporters |

The bounds let each interesting case happen: policies with different timing and
backend so that mixing them up shows, a clock that reaches the last `u64` slot,
windows that are missed, cohorts at the minimum, the maximum and one beyond,
trees with an odd row at each level, a rate limit that is used up, copies of a round
that others have overtaken, two demos that take the same port and one that
finishes on the other's validator, participants who all drop out or all tie.
Several port ranges, and a demo's memo that lands after its window, would make
`full_demo` too large to check; they are left to its theorems. The features' moduli
are smaller than the code's, or so few participants would never share a value, and
their numerals are binary, so that values of one and of two digits occur. Mutating a
guard, an order or a bound of the code breaks each property in its own run.

### Where code and documentation disagree

TLC finds each of these violated:

- `chain_wrong_pool`: `schedule` takes timing from whichever pool it is given.
- `chain_record_per_key`: one key can be registered once per valid bump.
- `execution_late`: a memo may land after the window it was checked against.

The models also behave like the code in these smaller disagreements, which have
no run: `finalize` skips `Finalizing`, which `can_transition_to` requires and
`docs/state-machine.md` says is where every edge is listed (`SettleAtOnce`);
`Round::transition` seals without root or threshold, which the same document
requires (the copies `CopiesAreSound` excepts); the loser of a race between
identical schedules is refused; tickets are accepted after the seal; `put_round`
replaces a completed round; an edited memo is sent unpadded;
`max_concurrent_sends` is never read.

### Fairness

`chain_two_rounds` assumes that slots go by and that the authority of an entered
window keeps submitting `finalize` and `close`; the network runs the clock, and
only the authority can recover the rent. It assumes nothing of opening,
sealing or scheduling. `coordinator_one_process` assumes that a handler at a
database call or an answered await continues (the runtime polls it) and that a
request queued on the mutex gets it if it is released again and again (tokio's
mutex is fair); it does not use the timeout. `execution` assumes that an RPC
request is answered or times out and that the cluster produces slots, without which
the polling of send-and-confirm would not end; it does not assume that a
transaction lands or that a request fails. `full_demo` assumes that the operating
system runs each demo, that slots go by, and that a demo notices that its blockhash
has expired; it does not assume that a validator comes up or stays up, that a
transaction is executed, or anything of the two polling loops but their limits.

## Proofs

Each component has a module of theorems; they hold for every value of the
constants, where a run has two or three of everything. An invariant a run checks
is seldom inductive; what is added to it, and why, is the content of each proof.
There is one lemma per action, and the temporal step comes last.

| Module | Theorems (the property each one states) |
|---|---|
| `CoordinationProgram_proofs` | `TypeCorrect`, `CohortCorrect` (`CohortWithinPolicy`), `WindowCorrect` (`WindowTiming`), `CountsAreRecords` (`RecordsMatchCount`), `RentIsConserved` (`LamportsConserved`), `CohortStaysFrozen` (`CohortFrozen`), `MissedOnlyCancels` (`MissedRoundOnlyCancels`), `ImplementsLifecycle` (`LifecycleSpec`) |
| `Coordinator_proofs` | `TypeCorrect`, `AnswersStayTrue` (`AnswersAreDurable`), `OneRoot` (`RootAnswersAgree`), `LateIsRefused` (`ExpiredIsRefused`), `OvershootIsBounded` (`OvershootBounded`), `EventsAgree` (`EventsTellTheTables`), `ImplementsService` (`ServiceSpec`); `RowsStay`, `ClientsMayRely`, `MutexComesBack` |
| `CohortService_proofs` | `PromisesKept` |
| `MerkleCohort_proofs` | `TypeCorrect`, `ProofsComplete` (`HonestProofAccepted`), `ProofsSound` and `SoundForAnyCopy` (`AcceptedOpensRoot`), `RootCorrect` (`RootIsCanonical`); `TreeIsOfTheSet` |
| `ParticipantExecution_proofs` | `TypeCorrect`, `PreparedFits` (`PreparedFitsPolicy`), `SubmittedSafe` (`SubmittedIsSafe`), `NothingEarly` (`NothingBeforeRelease`), `Conclusive` (`ResultsAreConclusive`) |
| `CoreRound_proofs` | `TypeCorrect`, `EveryCopySound` (`CopiesAreSound`), `RowSettles` (`RowIsMonotone`) |
| `LocalDemo_proofs` | `DemoInStep` (`ScriptInStep`), `ReportsAreTrue` (`ReportIsTrue`); `StoreReachesChain`, `DemosWithinPolicy` |
| `Evidence_proofs` | `OneGenerationAccepted` (`AcceptedIsOneGeneration`), `FinishedVerifies` (`DoneVerifies`), `OneInputReported` (`ReportOfOneInput`), `SameRunObserved` (`SameSeedSameRun`), `AblationMerges` (`AblationCoarsens`), `MetricsFit` (`MetricsSound`) |

*Program.* `seal` reads the pool it is given and compares it with the round's,
but `schedule` does not, so that a window is non-empty follows only if every
pool has a non-empty one (`PoolsSound`); that a sealed cohort is in bounds needs
that a transparent round has no root and a Merkle one no records
(`NoTransparentRoot`); and a round must name the pool it lives under, whose
`next_round` is past its id (`Numbered`). `Inv` is `TypeOK`, `PoolsSound` and these
facts for each live round. The action properties follow from what one
instruction may do to one round, seen from the invariant. Counting needs in
addition that an address has no records before it is opened for the first
time (`NoEarlyRecords`), since `close` leaves them behind. Rent: the total of the
balances is a fold of the community modules over the wallets, and its recursion
is unfolded by hand (`SumsExist`, `SumsUnfold`, from the fact that every
non-empty set of numbers has a least one); `TotalMoves` then says that paying
from one balance changes the total by as much, and each paying instruction is
weighed against the accounts it creates or closes.

*Coordinator.* The invariant follows each handler through its awaits: whose mutex
it holds, that a ticket late when it was sent is stopped before the store, and
that every answer a client has, or may still get, agrees with the rows. The
overshoot is bounded by counting a process whose mutex is held by a ticket past
the capacity check as if that ticket had its row: rows and such processes are
together at most the maximum and one per further process, since the last to
count still found room. Rows and their events are written in one transaction, so the
log tells the tables.

To its clients the coordinator is `CohortService` (`ImplementsService`). A request
maps to its call: open while its handler is anywhere between two awaits, answered
in the step that writes its reply. Awaits, the mutex, the rate limit and the
database reads are then stutters, and the one step that commits is also the one
that answers, so a crash or timeout before it is a call without effect and after
it a lost answer. Two facts carry the steps beyond the mapping: a ticket at the
store has verified (`AllVerified`), and the bound of the overshoot, which makes
`Limit` the maximum and one per further process. `PromisesKept` is proved once,
of the abstract service, and comes down through an instance of its proof module
(`ClientsMayRely`): also that a client told `scheduled` or `conflict` was told
the truth about the one schedule. `MutexComesBack` is what `RequestsEnd` rests
on without fairness: a taken mutex is held by a handler of its own process at the
call that gives it back.

*Merkle tree.* Completeness keeps a witness, the positions of the leaf's
ancestors: `proof` extends it row by row and `verify` climbs the same rows;
`FoldIsParent` is the arithmetic of one pass, odd rows included, and nothing is
assumed of the hash. Soundness keeps the history of the nodes `verify` went
through and goes back down from the root: a pair has one left and one right child,
so the node a pass earlier is one of the two below (`FoldOpens`), and the copy
opens the node so many rows below the root as its path is long; if that is a leaf
it is in row 0, since no leaf is a pair. Nothing of this uses which copies the run
tries, and `SoundForAnyCopy` says so: it is proved of a verifier that is handed
any digest, index and path of any length. That the leaf is a member needs that the
sorted row holds the commitments given, all of them and nothing else
(`EveryRankTaken`: ranks are an injection between sets of equal size), which is
also why the tree depends on the set alone (`TreeIsOfTheSet`).

That the root is canonical (`RootCorrect`) compares the rows `build` makes with a
reference tree that decides from the positions of the leaves alone which nodes
there are, and knows nothing of passes or of the lengths of rows. Both are
recursive functions; that they exist, and agree at every place of every row
(`RefIsRows`), is by induction on the depth, which the least-number principle
gives without a schema. A node of row k covers 2^k positions and a row is as long as
the leaves need (`WidthDoubles`, `RowsAreWide`), no pass drops a node
(`RowPairs`), so every leaf is below the root (`RowsKeepLeaves`); and the tree is
not taller than it must be, since the row below the root has two nodes
(`TallInv`).

*Participant.* What a call has checked, it carries from request to request: the
action it read passed the policy, the slot it saw had reached the release, the
fee and balance were cleared. The cluster's pending and landed transactions are
those of calls past their last check. `PreparedFits` is about the templates'
numbers: buckets and rounding up to multiples stay within the policy's limits.

*Core.* Every copy is judged by itself against the one validated configuration,
so a stale copy is as sound as a fresh one. What `RowIsMonotone` needs beyond that is
that the copy of every holder in `current` continues the row (`CopyContinuesRow`):
methods extend it, a put makes its holder the only one, a crash takes it out.

*Demo.* The invariant is about one demo at a time: where the script is, which
transactions its ledger has executed, its store, its receipts. Another demo's step
leaves all of it alone unless it ends the validator both use, which takes accounts
and pending transaction away together. A demo that has failed keeps its place as
long as a transaction of its own may still land. Whether an instruction succeeds
is an `ENABLED` in the model; the proof uses only that a transaction lands while
its ledger exists, and the arguments the builders give. `StoreReachesChain` needs
a second invariant, of every live account and not only of demos at work, since a
demo that failed may leave its accounts on the validator of another (`Published`):
pool and round vanish together or not at all, and only `publish_root` takes a
round out of registration, with the root the store gave.

*Evidence.* What a generation has filled is its own, and it writes a manifest only
when everything is, so a manifest that parses names one generation whatever
became of the files since; only the creator of a report directory is past
`create`. The evaluator's results are about operators: an ablation reads the same
stream, observes less and can only merge groups; percentiles, minima and maxima
exist by the least-number principle; the pairs of the two directions of the AUC
correspond one to one, and each counts at least once and at most one and a half
times. That equal fingerprints are of equal values is read off the text: a colon is
no digit, so two texts agree before the first colon and after it
(`FieldTellsApart`).

Assumptions are the named `ASSUME`s of the modules, which TLC evaluates in every
run: integers are naturals and slots fit their width; zero keys, hashes and `None`
differ from real values; wallets, keys, bumps, pools, tickets and processes are
finite sets (addresses and rows are); the parameters of an action are of the
fields' types; the control scenario of an ablation observes every feature, as
`evaluate` builds it; different numbers are printed differently; the limits a
caller gives `register` and `seal` fit a `u32`; a local result counts one list of
slots twice, as `LocalDemoResult` does; the two rounds of a demo have tickets of
their own. The hash is free, by the representation of digests.

`PromisesKept` assumes of the limit that it is a natural number.

Only model-checked: liveness under fairness (`RequestsEnd`, `CallsReturn`,
`DemosEnd`, `EnteredWindowIsSettled`), which this prover does not reach. Every
safety property of a passing run is a theorem.

## Not modelled

The evaluator's entropies (logarithms of the group sizes `Group` gives) and trace
hash; `demo`, `setup`, the Merkle benchmark, `doctor` and `round observe`, which
print; `ticket create` and `ticket submit`, one file and one request of which the
coordinator's side is modelled; the search of `verify` for sensitive words, which
is about wording; byte encodings, signatures and hashes (assumed sound); HTTP
body limits and health; the drivers' own `simulate` and fingerprints (pure and
not on the sending path); time inside a slot. Two generations writing to one
directory at the same time are left out: both would be of one build, and then
write the same bytes.

## Plan

Components, runs and proofs planned at the outset are done. What would come next:

1. Shorter proofs where two modules repeat a lemma on numbers.
2. An abstract specification of a participant's call, which would let `LocalDemo`
   use `ParticipantExecution` for its memos as it uses `CoordinationProgram`.
