--------------------------- MODULE ActionTemplates ---------------------------
(***************************************************************************)
(* The built-in action templates and the safety policy                     *)
(* (crates/mirror-pool-actions/src/lib.rs).                                *)
(*                                                                         *)
(* A payload is its length: the policy never looks inside it, and a memo's *)
(* text matters only by its length and by whether it has control           *)
(* characters.  Parameters are records with a kind; numbers are the        *)
(* code's.                                                                 *)
(***************************************************************************)
EXTENDS Integers, Sequences

ActionParameters ==
  [kind : {"memo"}, len : Nat, control : BOOLEAN]
  \cup [kind : {"compute_budget"}, units : Nat, priority_fee : Nat]
  \cup [kind : {"local_token_housekeeping"}, amount : Nat, close_account : BOOLEAN]
  \cup [kind : {"local_stake_lifecycle"}, lamports : Nat, deactivate : BOOLEAN]

MemoBuckets == {16, 32, 64}

\* The length a memo of n bytes is padded to.
MemoBucket(n) ==
  CHOOSE b \in MemoBuckets : n <= b /\ \A c \in MemoBuckets : n <= c => b <= c

NextUnits(units) == (units \div 25000 + 1) * 25000

\* units.div_ceil(25_000) * 25_000
CanonicalUnits(units) == ((units + 24999) \div 25000) * 25000

Prepared(template, program, payload, units, fee, value) ==
  [template_id |-> template, program_ids |-> <<program>>, instruction_count |-> 1,
   payload |-> payload, compute_units |-> units, priority_fee |-> fee,
   value |-> value, estimated_size |-> 100 + payload]

\* What prepare() of each template returns: one action, or none for parameters
\* it refuses.
MemoTemplate(q) ==
  IF q.len \in 1 .. 64 /\ ~q.control
    THEN {Prepared("memo-v1", "memo", MemoBucket(q.len), 10000, 0, 0)}
    ELSE {}

ComputeBudgetShapeTemplate(q) ==
  IF 10000 <= q.units /\ q.units <= 200000 /\ q.priority_fee <= 1000
    THEN {Prepared("compute-budget-shape-v1", "compute_budget", 12,
                   CanonicalUnits(q.units), q.priority_fee, 0)}
    ELSE {}

LocalTokenHousekeepingTemplate(q) ==
  IF q.amount <= 1000000
    THEN {Prepared("local-token-housekeeping-v1", "token", 9, 50000, 0, q.amount)}
    ELSE {}

LocalStakeLifecycleTemplate(q) ==
  IF 1 <= q.lamports /\ q.lamports <= 1000000
    THEN {Prepared("local-stake-lifecycle-v1", "stake", 9, 100000, 0, q.lamports)}
    ELSE {}

\* The command line picks the template by the kind of the parameters.
Prepare(q) ==
  CASE q.kind = "memo" -> MemoTemplate(q)
    [] q.kind = "compute_budget" -> ComputeBudgetShapeTemplate(q)
    [] q.kind = "local_token_housekeeping" -> LocalTokenHousekeepingTemplate(q)
    [] q.kind = "local_stake_lifecycle" -> LocalStakeLifecycleTemplate(q)

-----------------------------------------------------------------------------
DefaultPolicy ==
  [dry_run |-> TRUE, sending_enabled |-> FALSE, loopback_only |-> TRUE,
   simulation_required |-> TRUE, max_compute_units |-> 200000,
   max_priority_fee |-> 1000, max_transaction_fee |-> 20000,
   max_local_value |-> 1000000, max_concurrent_sends |-> 4,
   allowed_program_ids |-> {},
   allowed_templates |-> {"memo-v1", "compute-budget-shape-v1"},
   emergency_stop |-> FALSE]

\* The policy execute_local_memo builds.
MemoPolicy ==
  [DefaultPolicy EXCEPT !.dry_run = FALSE, !.sending_enabled = TRUE,
                        !.allowed_program_ids = {"memo"},
                        !.allowed_templates = {"memo-v1"}]

\* The checks of SafetyPolicy::validate that concern the action alone.
WithinLimits(policy, a) ==
  /\ a.compute_units <= policy.max_compute_units
  /\ a.priority_fee <= policy.max_priority_fee
  /\ a.value <= policy.max_local_value
  /\ a.instruction_count = 1 /\ Len(a.program_ids) = 1
  /\ a.estimated_size <= 1232

\* The checks it adds when the action is about to be sent (built without the
\* public-cluster-execution feature).
MaySend(policy, loopback, simulated, confirmed) ==
  /\ ~policy.dry_run /\ policy.sending_enabled
  /\ policy.simulation_required => simulated
  /\ confirmed
  /\ loopback

\* SafetyPolicy::validate returns Ok.
Validate(policy, a, loopback, sending, simulated, fee, confirmed) ==
  /\ ~policy.emergency_stop
  /\ a.template_id \in policy.allowed_templates
  /\ \A i \in DOMAIN a.program_ids : a.program_ids[i] \in policy.allowed_program_ids
  /\ WithinLimits(policy, a)
  /\ fee <= policy.max_transaction_fee
  /\ policy.loopback_only => loopback
  /\ sending => MaySend(policy, loopback, simulated, confirmed)
=============================================================================
