----------------------------- MODULE LocalDemo -----------------------------
(***************************************************************************)
(* `cargo xtask full-demo` (full_demo and run_localnet_demo in             *)
(* xtask/src/main.rs): the store, the coordination program and the         *)
(* participants' execution driven end to end, by several demos at a time   *)
(* on one machine.                                                         *)
(*                                                                         *)
(* A demo stops at every request to its RPC address and at every process   *)
(* it starts.  A request is answered by whichever validator serves the     *)
(* port the demo chose, which need not be the one it started.  Each demo   *)
(* has its own program id, wallets and database, so its pool is named      *)
(* after it.  The accounts a validator holds are gone when it exits.  One  *)
(* clock stands for those of all validators: demos on different ones share *)
(* nothing.                                                                *)
(***************************************************************************)
EXTENDS Integers, Sequences, FiniteSets

CONSTANTS
  Demos,         \* demos running at the same time
  Ports,         \* port ranges available_ports tries, in order
  Joining,       \* the tickets made for each round: Joining[1], Joining[2]
  Minimum,       \* 10, of seal_cohort and of the pool
  Maximum,       \* 50
  MinDelay, MaxDelay, ReleaseDelay,   \* 2, 50, 10
  DeadlineDelay,  \* 1000
  WindowLength,  \* 30, of the pool and of the participants
  BlockhashLife, \* slots after which a blockhash is no longer valid, 150
  Participants,  \* 5 wallets execute
  MaxPolls,      \* 200
  MaxSlot        \* bound on the clock

ASSUME DemoAssumption ==
  /\ Ports \subseteq Nat /\ IsFiniteSet(Ports)
  /\ Joining = [r \in {1, 2} |-> Joining[r]] /\ Joining[1] \cap Joining[2] = {}
  /\ {Minimum, Maximum, MinDelay, MaxDelay, ReleaseDelay, DeadlineDelay,
      WindowLength, BlockhashLife, Participants, MaxPolls, MaxSlot} \subseteq Nat

VARIABLES
  slot, pool, round, participant, lamports,  \* the chain: CoordinationProgram
  demo,       \* the demos' locals
  db,         \* the SQLite file of each demo
  validator,  \* the child process of each demo
  tx,         \* the transaction each demo is waiting for
  memos       \* the memo transactions of each demo that were executed

chain == <<slot, pool, round, participant, lamports>>
vars == <<chain, demo, db, validator, tx, memos>>

\* A hash stands for the set it was computed from, like a root for its leaves.
Template == {"memo-v1"}

\* No slot a demo counts from is near the end of u64.
U64Max == MaxSlot + DeadlineDelay + ReleaseDelay + WindowLength

\* 20 airdropped SOL dwarf the rent.
Chain ==
  INSTANCE CoordinationProgram WITH
    Pools <- Demos, Authorities <- Demos, Keys <- {}, Bumps <- {},
    Templates <- {Template}, Hashes <- SUBSET (Joining[1] \cup Joining[2]) \ {{}},
    ZeroKey <- "none", ZeroHash <- {}, Policies <- {}, Deadlines <- {},
    Releases <- {}, Counts <- {}, MaxCohortSize <- Maximum, MaxRounds <- 1,
    AccountRent <- 0, RecordRent <- 0, InitialLamports <- 20

-----------------------------------------------------------------------------
\* Where a demo is.  store: before the store is opened.  restart: it was dropped.
\* ports: about to start a validator.  wait: polling it.  fund: airdrops and
\* deployment.  slot, send, confirm: inside transaction number stage.  poll: wait_for_slot.
\* check: reading the round back.  evidence: the validator is gone, generate and
\* verify are left.  ok, err: it has returned.
Ended(d) == demo[d].pc \in {"ok", "err"}

Fresh == [pc |-> "store", root |-> {}, port |-> 0, stage |-> 0, polls |-> 0,
          funded |-> FALSE, deadline |-> 0, release |-> 0, expiry |-> 0,
          slots |-> <<>>]

EmptyDb == [tickets |-> [r \in {1, 2} |-> {}], root |-> [r \in {1, 2} |-> {}],
            schedule |-> [r \in {1, 2} |-> <<>>]]

R(d) == <<d, 0>>

GoTo(d, pc) == demo' = [demo EXCEPT ![d].pc = pc]

\* The validator behind a port, if any.
Serving(p) == \E v \in Demos : demo[v].port = p /\ validator[v] = "serving"
Reaches(d) == Serving(demo[d].port)

\* The demos whose accounts are lost when the validator of d exits.
LostWith(d) ==
  IF validator[d] = "serving" THEN {e \in Demos : demo[e].port = demo[d].port}
                              ELSE {}

\* The child of d exits with its ledger and what it had not executed.  left is
\* "none" when d has reaped it and returns: unless a transaction of d is pending on
\* another demo's validator, nobody will read the accounts of d there.
Gone(d, left) ==
  LostWith(d) \cup IF left = "none" /\ tx[d] # "pending" THEN {d} ELSE {}

Exit(d, left, locals) ==
  /\ validator' = [validator EXCEPT ![d] = left]
  /\ demo' = [e \in Demos |->
       [(IF e = d THEN locals ELSE demo[e]) EXCEPT !.funded = @ /\ e \notin Gone(d, left)]]
  /\ pool' = [e \in Demos |->
       IF e \in Gone(d, left) THEN Chain!ZeroPool ELSE pool[e]]
  /\ round' = [r \in Chain!Rounds |->
       IF r[1] \in Gone(d, left) THEN Chain!ZeroRound ELSE round[r]]
  /\ tx' = [e \in Demos |-> IF e \in Gone(d, left) THEN "none" ELSE tx[e]]
  /\ UNCHANGED <<slot, participant, lamports>>

\* An error: the temporary directories go, and ChildGuard is dropped, which kills
\* and reaps the child.  Nothing is reported.  The locals are kept while they say
\* what a pending transaction is.
Fail(d) ==
  /\ LET locals == IF d \in Gone(d, "none") THEN Fresh ELSE demo[d]
     IN Exit(d, "none", [locals EXCEPT !.pc = "err"])
  /\ db' = [db EXCEPT ![d] = EmptyDb]
  /\ memos' = [memos EXCEPT ![d] = <<>>]

-----------------------------------------------------------------------------
(* The store                                                               *)

AcceptTickets(f, r) == [f EXCEPT !.tickets[r] = Joining[r]]

\* The tickets seal_cohort selects.
Rows(f, r) == f.tickets[r]

\* seal_cohort: an existing root stays.
SealCohort(f, r) ==
  IF f.root[r] = {} THEN [f EXCEPT !.root[r] = Rows(f, r)] ELSE f

\* The first store session: the tickets of round 1, its root, every proof, its
\* schedule, the tickets of round 2.
FirstSession(d) ==
  /\ demo[d].pc = "store"
  /\ Cardinality(Joining[1]) >= Minimum
  /\ LET sealed == SealCohort(AcceptTickets(db[d], 1), 1) IN
     /\ db' = [db EXCEPT ![d] =
                 AcceptTickets([sealed EXCEPT !.schedule[1] = <<500, 504>>], 2)]
     /\ demo' = [demo EXCEPT ![d].pc = "restart", ![d].root = sealed.root[1]]
  /\ UNCHANGED <<chain, validator, tx, memos>>

\* After the restart: the root must be the same, the schedule is accepted again,
\* and round 2 is sealed.
Resealed(d) == SealCohort(SealCohort(db[d], 1), 2)

RestartAgrees(d) ==
  /\ Resealed(d).root[1] = demo[d].root
  /\ Resealed(d).schedule[1] = <<500, 504>>
  /\ Cardinality(Resealed(d).tickets[2]) >= Minimum

SecondSession(d) ==
  /\ demo[d].pc = "restart"
  /\ RestartAgrees(d)
  /\ db' = [db EXCEPT ![d] = Resealed(d)]
  /\ GoTo(d, "ports")
  /\ UNCHANGED <<chain, validator, tx, memos>>

-----------------------------------------------------------------------------
(* The validator                                                           *)

FreePorts == {p \in Ports : ~Serving(p)}

\* setup_checks, cargo build-sbf, available_ports, spawn.  The listeners that
\* probed the ports are closed again before the child binds them.
StartValidator(d) ==
  /\ demo[d].pc = "ports"
  /\ FreePorts # {}
  /\ demo' = [demo EXCEPT ![d].pc = "wait",
       ![d].port = CHOOSE p \in FreePorts : \A q \in FreePorts : p <= q]
  /\ validator' = [validator EXCEPT ![d] = "starting"]
  /\ UNCHANGED <<chain, db, tx, memos>>

\* Mutant: the poll is not counted.
PollForever(d) == demo' = demo
\* One round of a loop that polls at most MaxPolls times.
PollAgain(d) ==
  /\ demo[d].polls < MaxPolls
  /\ demo' = [demo EXCEPT ![d].polls = @ + 1]

\* wait_for_validator: whoever answers at the address.
WaitForValidator(d) ==
  /\ demo[d].pc = "wait"
  /\ IF Reaches(d) THEN demo' = [demo EXCEPT ![d].pc = "fund", ![d].polls = 0]
                   ELSE PollAgain(d)
  /\ UNCHANGED <<chain, db, validator, tx, memos>>

\* The airdrops and the deployment, all children that are waited for.
FundAndDeploy(d) ==
  /\ demo[d].pc = "fund" /\ Reaches(d)
  /\ demo' = [demo EXCEPT ![d].pc = "send", ![d].stage = 1, ![d].funded = TRUE]
  /\ UNCHANGED <<chain, db, validator, tx, memos>>

\* The child binds its ports, or exits because somebody has.
Bind(v) ==
  /\ validator[v] = "starting"
  /\ IF Serving(demo[v].port)
     THEN Exit(v, "exited", demo[v])
     ELSE /\ validator' = [validator EXCEPT ![v] = "serving"]
          /\ UNCHANGED <<chain, demo, tx>>
  /\ UNCHANGED <<db, memos>>

\* The child dies for reasons of its own.
Die(v) ==
  /\ validator[v] \in {"starting", "serving"}
  /\ Exit(v, "exited", demo[v])
  /\ UNCHANGED <<db, memos>>

-----------------------------------------------------------------------------
(* The transactions                                                        *)

Policy ==
  [template_hash |-> Template, min_participants |-> Minimum,
   max_participants |-> Maximum, min_release_delay |-> MinDelay,
   max_release_delay |-> MaxDelay, execution_window |-> WindowLength,
   backend |-> "MerkleCohort"]

\* The accounts and arguments the client's builders give each instruction.
Instruction(d) ==
  \/ demo[d].stage = 1 /\ Chain!InitializePool(d, d, Policy)
  \/ demo[d].stage = 2 /\ Chain!OpenRound(d, d, 0, demo[d].deadline, Template)
  \/ demo[d].stage = 3 /\ Chain!PublishRoot(d, d, R(d), demo[d].root,
                                            Cardinality(demo[d].root))
  \/ demo[d].stage = 4 /\ Chain!Seal(d, d, R(d))
  \/ demo[d].stage = 5 /\ Chain!Schedule(d, d, R(d), demo[d].release)
  \/ demo[d].stage = 6 /\ Chain!Begin(R(d))

Memos == 7 .. 6 + Participants

\* Mutant: not the length the pool was given.
WindowEndOther(release) == release + WindowLength + 1
WindowEnd(release) == release + WindowLength

InWindow(d) == slot \in demo[d].release .. WindowEnd(demo[d].release)

\* The get_slot before a transaction: OpenRound and ScheduleRelease are given a slot
\* counted from it, a participant compares it with the window and puts it in the
\* receipt.
GetSlot(d) ==
  /\ demo[d].pc = "slot" /\ Reaches(d)
  /\ \/ /\ demo[d].stage = 2
        /\ demo' = [demo EXCEPT ![d].pc = "send",
                                ![d].deadline = slot + DeadlineDelay]
     \/ /\ demo[d].stage = 5
        /\ demo' = [demo EXCEPT ![d].pc = "send",
                                ![d].release = slot + ReleaseDelay]
     \/ /\ demo[d].stage \in Memos
        /\ InWindow(d)
        /\ demo' = [demo EXCEPT ![d].pc = "send", ![d].slots = Append(@, slot)]
  /\ UNCHANGED <<chain, db, validator, tx, memos>>

\* What simulate_transaction finds out, and the runtime again later: the wallets
\* and the program exist, and the instruction succeeds.
Succeeds(d) ==
  demo[d].funded /\ (demo[d].stage \in Memos \/ ENABLED Instruction(d))

\* send_instruction, and the part of execute_local_memo like it: blockhash,
\* simulation, sending.
Send(d) ==
  /\ demo[d].pc = "send" /\ Reaches(d)
  /\ tx' = [tx EXCEPT ![d] = "pending"]
  /\ demo' = [demo EXCEPT ![d].pc = "confirm", ![d].expiry = slot + BlockhashLife]
  /\ Succeeds(d)
  /\ UNCHANGED <<chain, db, validator, memos>>

\* The validator executes a pending transaction, which it may also never have
\* received.  The demo may have given up.
Land(d) ==
  /\ tx[d] = "pending" /\ Reaches(d)
  /\ slot <= demo[d].expiry
  /\ IF ~Succeeds(d)
     THEN tx' = [tx EXCEPT ![d] = "failed"] /\ UNCHANGED <<chain, memos>>
     ELSE /\ tx' = [tx EXCEPT ![d] = "landed"]
          /\ IF demo[d].stage \in Memos
             THEN /\ memos' = [memos EXCEPT ![d] = Append(@,
                       [slot |-> slot, state |-> round[R(d)].state,
                        release |-> round[R(d)].release_slot,
                        end |-> round[R(d)].window_end_slot])]
                  /\ UNCHANGED chain
             ELSE Instruction(d) /\ UNCHANGED memos
  /\ UNCHANGED <<demo, db, validator>>

\* Its blockhash is no longer valid: send_and_confirm_transaction, which polls until
\* then, gives up.  The last slot of the model stands for all later ones too.
Expire(d) ==
  /\ tx[d] = "pending" /\ Reaches(d)
  /\ slot > demo[d].expiry \/ slot = MaxSlot
  /\ tx' = [tx EXCEPT ![d] = "failed"]
  /\ UNCHANGED <<chain, demo, db, validator, memos>>

\* Mutant: send_transaction, which does not wait.
ConfirmedOnceSent(d) == tx[d] \in {"pending", "landed"}
Confirmed(d) == tx[d] = "landed"

AfterStage(d) ==
  CASE demo[d].stage = 5 -> "poll"
    [] demo[d].stage = 6 + Participants -> "check"
    [] demo[d].stage \in {1, 4} \cup 6 .. 5 + Participants -> "slot"
    [] OTHER -> "send"

Confirm(d) ==
  /\ demo[d].pc = "confirm" /\ Reaches(d)
  /\ Confirmed(d)
  /\ tx' = [tx EXCEPT ![d] = "none"]
  /\ demo' = [demo EXCEPT ![d].pc = AfterStage(d), ![d].stage = @ + 1,
                          ![d].expiry = 0]
  /\ UNCHANGED <<chain, db, validator, memos>>

\* wait_for_slot
WaitForSlot(d) ==
  /\ demo[d].pc = "poll" /\ Reaches(d)
  /\ IF slot >= demo[d].release
     THEN demo' = [demo EXCEPT ![d].pc = "send", ![d].polls = 0]
     ELSE PollAgain(d)
  /\ UNCHANGED <<chain, db, validator, tx, memos>>

RoundMatches(d) ==
  /\ round[R(d)].cohort_root = demo[d].root
  /\ round[R(d)].accepted_count = Cardinality(demo[d].root)
  /\ round[R(d)].state = "ExecutionWindow"

\* The round account against the store's root; then ChildGuard is dropped.
CheckRound(d) ==
  /\ demo[d].pc = "check" /\ Reaches(d)
  /\ RoundMatches(d)
  /\ Exit(d, "none", [demo[d] EXCEPT !.pc = "evidence"])
  /\ UNCHANGED <<db, memos>>

\* generate and verify in a directory of the demo's own.
MakeEvidence(d) ==
  /\ demo[d].pc = "evidence"
  /\ GoTo(d, "ok")
  /\ db' = [db EXCEPT ![d] = EmptyDb]
  /\ UNCHANGED <<chain, validator, tx, memos>>

-----------------------------------------------------------------------------
Progress(d) ==
  \/ FirstSession(d) \/ SecondSession(d) \/ StartValidator(d)
  \/ WaitForValidator(d) \/ FundAndDeploy(d) \/ GetSlot(d) \/ Send(d)
  \/ Confirm(d) \/ WaitForSlot(d) \/ CheckRound(d) \/ MakeEvidence(d)

\* Nobody answers, its polls are used up, a transaction is lost or failed, or a check
\* of the script fails.
Refused(d) ==
  \/ demo[d].pc \in {"fund", "slot", "send", "confirm", "poll", "check"} /\ ~Reaches(d)
  \/ demo[d].pc = "store" /\ Cardinality(Joining[1]) < Minimum
  \/ demo[d].pc = "restart" /\ ~RestartAgrees(d)
  \/ demo[d].pc = "ports" /\ FreePorts = {}
  \/ demo[d].pc = "wait" /\ ~Reaches(d) /\ demo[d].polls = MaxPolls
  \/ demo[d].pc = "slot" /\ demo[d].stage \in Memos /\ ~InWindow(d)
  \/ demo[d].pc = "send" /\ ~Succeeds(d)
  \/ demo[d].pc = "confirm" /\ tx[d] \in {"none", "failed"}
  \/ demo[d].pc = "poll" /\ slot < demo[d].release /\ demo[d].polls = MaxPolls
  \/ demo[d].pc = "check" /\ ~RoundMatches(d)

\* What a demo does when its request, child or store call has returned.
Step(d) == Progress(d) \/ (Fail(d) /\ Refused(d))

\* A request, a child or a store call fails for reasons of its own.
Fault(d) == ~Ended(d) /\ Fail(d)

Tick ==
  /\ Chain!Tick
  /\ UNCHANGED <<demo, db, validator, tx, memos>>

Init ==
  /\ Chain!Init
  /\ demo = [d \in Demos |-> Fresh]
  /\ db = [d \in Demos |-> EmptyDb]
  /\ validator = [d \in Demos |-> "none"]
  /\ tx = [d \in Demos |-> "none"]
  /\ memos = [d \in Demos |-> <<>>]

Next ==
  \/ Tick
  \/ \E d \in Demos : Step(d) \/ Fault(d) \/ Land(d) \/ Expire(d)
                       \/ Bind(d) \/ Die(d)

Spec == Init /\ [][Next]_vars

\* The operating system runs every demo, the validators produce slots, and a demo
\* that polls notices that its blockhash has expired.  No transaction need be
\* executed, and wait_for_validator and wait_for_slot are owed nothing.
FairSpec ==
  /\ Spec
  /\ WF_vars(Tick)
  /\ \A d \in Demos : WF_vars(Step(d)) /\ WF_vars(Expire(d))

-----------------------------------------------------------------------------
(* Properties                                                              *)

\* How far the chain has got with the round of d, in stages of the script.
OnChain(d) ==
  IF ~Chain!LivePool(d) THEN 1
  ELSE IF ~Chain!LiveRound(R(d)) THEN 2
  ELSE CASE round[R(d)].state = "Registration" -> 3
         [] round[R(d)].state = "ThresholdReached" -> 4
         [] round[R(d)].state = "Sealed" -> 5
         [] round[R(d)].state = "ReleaseScheduled" -> 6
         [] round[R(d)].state = "ExecutionWindow" -> 7

\* While its ledger exists the chain is exactly where a demo believes it is: every
\* transaction it is past has been executed, none it is not at has, and the one
\* in between is executed once, although answers come late, validators are
\* shared by accident and another demo's exit takes the ledger away.
ScriptInStep ==
  \A d \in Demos :
    demo[d].funded =>
      LET at == IF demo[d].stage > 6 THEN 7 ELSE demo[d].stage IN
      OnChain(d) = IF tx[d] = "landed" /\ at < 7 THEN at + 1 ELSE at

\* What a demo reports: its root is that of the tickets of its first round, carried
\* through the restart, and the second round has its own; every participant's memo
\* was executed once, in the participants' order, while the round was in state
\* ExecutionWindow, whose two ends are those the participants checked their slot
\* against.  The slots of the receipts, over which the report takes the spread, lie
\* between these ends and none is later than its memo's; the memo's own may lie
\* after the second end.
ReportIsTrue ==
  \A d \in Demos :
    demo[d].pc \in {"evidence", "ok"} =>
      /\ demo[d].root = Joining[1]
      /\ demo[d].pc = "evidence" => db[d].root = Joining
      /\ Len(memos[d]) = Participants /\ Len(demo[d].slots) = Participants
      /\ \A i \in 1 .. Participants :
           LET m == memos[d][i] IN
           /\ m.state = "ExecutionWindow"
           /\ m.release = demo[d].release
           /\ m.end = WindowEnd(demo[d].release)
           /\ m.release <= demo[d].slots[i] /\ demo[d].slots[i] <= m.end
           /\ demo[d].slots[i] <= m.slot
           /\ i < Participants => m.slot <= demo[d].slots[i + 1]

\* Every demo ends, and leaves no validator behind: neither a validator that never
\* answers or dies, nor a release that is not reached, nor a transaction that never
\* lands holds it up.
DemosEnd == <>(\A d \in Demos : Ended(d) /\ validator[d] = "none")
=============================================================================
