-------------------- MODULE ParticipantExecution_proofs --------------------
(***************************************************************************)
(* Proofs about the execution of prepared actions, for every number of     *)
(* calls, every window and fee, and every action file the templates        *)
(* prepare.                                                                *)
(***************************************************************************)
EXTENDS ParticipantExecution, TLAPS

-----------------------------------------------------------------------------
(* The templates and the policy                                            *)

\* A memo that prepare() accepts fits one of the buckets.
LEMMA MemoBucketFits ==
  ASSUME NEW n \in 1 .. 64
  PROVE  MemoBucket(n) \in MemoBuckets /\ n <= MemoBucket(n)
<1> DEFINE Fits(b) == n <= b /\ \A c \in MemoBuckets : n <= c => b <= c
<1>1. \E b \in MemoBuckets : Fits(b)
  <2>1. CASE n <= 16
    <3>1. Fits(16) /\ 16 \in MemoBuckets
      BY <2>1 DEF MemoBuckets
    <3> QED
      BY <3>1
  <2>2. CASE n > 16 /\ n <= 32
    <3>1. Fits(32) /\ 32 \in MemoBuckets
      BY <2>2 DEF MemoBuckets
    <3> QED
      BY <3>1
  <2>3. CASE n > 32
    <3>1. Fits(64) /\ 64 \in MemoBuckets
      BY <2>3 DEF MemoBuckets
    <3> QED
      BY <3>1
  <2> QED
    BY <2>1, <2>2, <2>3
<1> QED
  BY <1>1 DEF MemoBucket

\* Rounding up to a multiple of 25,000 keeps the bound, itself such a multiple.
LEMMA CanonicalUnitsBounded ==
  ASSUME NEW u \in Nat, 10000 <= u, u <= 200000
  PROVE  CanonicalUnits(u) \in Nat /\ u <= CanonicalUnits(u)
         /\ CanonicalUnits(u) <= 200000
BY SMT DEF CanonicalUnits

OwnPolicy(a) == [DefaultPolicy EXCEPT !.allowed_templates = {a.template_id},
                                      !.allowed_program_ids = {a.program_ids[1]}]

Fits(a) == a \in Actions /\ Validate(OwnPolicy(a), a, TRUE, FALSE, FALSE, 0, FALSE)

\* An action made of numbers within the bounds passes the policy that allows its
\* template and its program.
LEMMA PreparedValid ==
  ASSUME NEW template \in TemplateIds, NEW program \in ProgramIds,
         NEW payload \in Nat, payload <= 64,
         NEW units \in Nat, units <= 200000,
         NEW fee \in Nat, fee <= 1000,
         NEW value \in Nat, value <= 1000000,
         NEW a, a = Prepared(template, program, payload, units, fee, value)
  PROVE  Fits(a)
<1>1. /\ a \in Actions
      /\ a.template_id = template /\ a.program_ids = <<program>>
      /\ a.instruction_count = 1 /\ a.compute_units = units
      /\ a.priority_fee = fee /\ a.value = value
      /\ a.estimated_size = 100 + payload
  <2>1. <<program>> \in Seq(ProgramIds)
    BY SMT
  <2>2. 100 + payload \in Nat
    BY SMT
  <2>3. a = [template_id |-> template, program_ids |-> <<program>>,
             instruction_count |-> 1, payload |-> payload,
             compute_units |-> units, priority_fee |-> fee, value |-> value,
             estimated_size |-> 100 + payload]
    BY SMT DEF Prepared
  <2>4. a \in Actions
    BY <2>1, <2>2, <2>3, SMT DEF Actions
  <2> QED
    BY <2>3, <2>4, SMT
<1>2. WithinLimits(OwnPolicy(a), a)
  BY <1>1, SMT DEF WithinLimits, OwnPolicy, DefaultPolicy
<1>3. /\ ~ OwnPolicy(a).emergency_stop
      /\ OwnPolicy(a).allowed_templates = {template}
      /\ OwnPolicy(a).allowed_program_ids = {program}
      /\ 0 <= OwnPolicy(a).max_transaction_fee
  BY <1>1, SMT DEF OwnPolicy, DefaultPolicy
<1> QED
  BY <1>1, <1>2, <1>3, SMT DEF Validate, Fits

LEMMA PrepareValid ==
  ASSUME NEW q \in ActionParameters, NEW a \in Prepare(q)
  PROVE  Fits(a)
<1>1. CASE q \in [kind : {"memo"}, len : Nat, control : BOOLEAN]
  <2>1. q.kind = "memo" /\ a \in MemoTemplate(q)
    BY <1>1 DEF Prepare
  <2>2. /\ q.len \in 1 .. 64
        /\ a = Prepared("memo-v1", "memo", MemoBucket(q.len), 10000, 0, 0)
    BY <2>1 DEF MemoTemplate
  <2>3. MemoBucket(q.len) \in Nat /\ MemoBucket(q.len) <= 64
    BY <2>2, MemoBucketFits DEF MemoBuckets
  <2> QED
    BY <2>2, <2>3, PreparedValid, SMT DEF TemplateIds, ProgramIds
<1>2. CASE q \in [kind : {"compute_budget"}, units : Nat, priority_fee : Nat]
  <2>1. q.kind = "compute_budget" /\ a \in ComputeBudgetShapeTemplate(q)
    BY <1>2 DEF Prepare
  <2>2. /\ q.units \in Nat /\ 10000 <= q.units /\ q.units <= 200000
        /\ q.priority_fee \in Nat /\ q.priority_fee <= 1000
        /\ a = Prepared("compute-budget-shape-v1", "compute_budget", 12,
                        CanonicalUnits(q.units), q.priority_fee, 0)
    BY <1>2, <2>1, SMT DEF ComputeBudgetShapeTemplate
  <2>3. CanonicalUnits(q.units) \in Nat /\ CanonicalUnits(q.units) <= 200000
    BY <2>2, CanonicalUnitsBounded, SMT
  <2> QED
    BY <2>2, <2>3, PreparedValid, SMT DEF TemplateIds, ProgramIds
<1>3. CASE q \in [kind : {"local_token_housekeeping"}, amount : Nat,
                  close_account : BOOLEAN]
  <2>1. q.kind = "local_token_housekeeping" /\ a \in LocalTokenHousekeepingTemplate(q)
    BY <1>3 DEF Prepare
  <2>2. /\ q.amount \in Nat /\ q.amount <= 1000000
        /\ a = Prepared("local-token-housekeeping-v1", "token", 9, 50000, 0, q.amount)
    BY <1>3, <2>1, SMT DEF LocalTokenHousekeepingTemplate
  <2> QED
    BY <2>2, PreparedValid, SMT DEF TemplateIds, ProgramIds
<1>4. CASE q \in [kind : {"local_stake_lifecycle"}, lamports : Nat,
                  deactivate : BOOLEAN]
  <2>1. q.kind = "local_stake_lifecycle" /\ a \in LocalStakeLifecycleTemplate(q)
    BY <1>4 DEF Prepare
  <2>2. /\ q.lamports \in Nat /\ q.lamports <= 1000000
        /\ a = Prepared("local-stake-lifecycle-v1", "stake", 9, 100000, 0, q.lamports)
    BY <1>4, <2>1, SMT DEF LocalStakeLifecycleTemplate
  <2> QED
    BY <2>2, PreparedValid, SMT DEF TemplateIds, ProgramIds
<1> QED
  BY <1>1, <1>2, <1>3, <1>4 DEF ActionParameters

\* The bounds prepare() tests and the ones validate() tests, which the code keeps
\* in different places, agree for every parameter the command line accepts: a file
\* nobody edited never fails the policy.
THEOREM PreparedFits == Spec => []PreparedFitsPolicy
<1>1. Init => PreparedFitsPolicy
  BY DEF Init, PreparedFitsPolicy
<1>2. PreparedFitsPolicy /\ [Next]_vars => PreparedFitsPolicy'
  <2> SUFFICES ASSUME PreparedFitsPolicy, [Next]_vars PROVE PreparedFitsPolicy'
    OBVIOUS
  <2>1. CASE UNCHANGED <<file, edited>>
    BY <2>1 DEF PreparedFitsPolicy
  <2>2. CASE EditFile
    BY <2>2 DEF EditFile, PreparedFitsPolicy
  <2>3. ASSUME NEW q \in Parameters, PrepareFile(q) PROVE PreparedFitsPolicy'
    <3>1. Validate(OwnPolicy(file'), file', TRUE, FALSE, FALSE, 0, FALSE)
      BY <2>3, PrepareValid, ParametersAssumption DEF PrepareFile, Fits
    <3> QED
      BY <3>1 DEF PreparedFitsPolicy, OwnPolicy
  <2> QED
    BY <2>1, <2>2, <2>3 DEF Next, Tick, Execute, Step, GetSlot, GetBlockhash,
       Simulate, GetFee, Send, Confirm, PollFails, Land, vars
<1> QED
  BY <1>1, <1>2, PTL DEF Spec

-----------------------------------------------------------------------------
(* The inductive invariant of the calls                                    *)
(*                                                                         *)
(* A transaction is judged by answers that came one after the other; the   *)
(* record of a call carries what each of them established to the send, and *)
(* from there to the cluster.                                              *)

Pcs == {"idle"} \cup Waiting \cup Returned

Call == [pc : Pcs,
         action : Actions \cup {NoFile}, window : [start : Nat, end : Nat],
         loopback : BOOLEAN, acknowledged : BOOLEAN, seen : 0 .. MaxSlot,
         expiry : 0 .. MaxSlot + BlockhashLife, simulated : BOOLEAN, fee : Nat]

Chosen(v) == /\ v.acknowledged
             /\ v.action.template_id = "memo-v1"
             /\ v.action.program_ids = <<"memo">>

Released(v) == v.window.start <= v.seen /\ v.seen <= slot

Cleared(v) == /\ Chosen(v) /\ v.loopback /\ v.simulated
              /\ v.fee <= MemoPolicy.max_transaction_fee
              /\ WithinLimits(MemoPolicy, v.action)

Sound(c, v) ==
  /\ v.pc \in Waiting => Chosen(v)
  /\ v.pc \in Waiting \ {"clock"} => Released(v)
  /\ v.pc \in {"send", "confirm"} => Cleared(v)
  /\ v.pc = "Ok" => c \in DOMAIN landed
  /\ c \in Submitted => /\ v.pc \in {"confirm", "Rpc", "Ok"}
                        /\ Cleared(v) /\ Released(v)
  /\ c \in DOMAIN landed => v.seen <= landed[c]

Inv ==
  /\ slot \in 0 .. MaxSlot
  /\ file = NoFile \/ file \in Actions
  /\ edited \in BOOLEAN
  /\ call \in [Calls -> Call]
  /\ pending \subseteq Calls
  /\ DOMAIN landed \subseteq Calls \ pending
  /\ \A c \in DOMAIN landed : landed[c] \in 0 .. MaxSlot
  /\ \A c \in Calls : Sound(c, call[c])

LEMMA PcFacts ==
  /\ \A pc \in Waiting \cup Returned : pc \in Pcs
  /\ \A pc \in Waiting \cup Returned : pc # "idle"
  /\ \A pc \in Returned : pc \notin Waiting
  /\ \A pc \in Refusals : pc \in Returned /\ pc \notin {"confirm", "Rpc", "Ok"}
  /\ "Rpc" \in Returned /\ "Ok" \in Returned
  /\ {"clock", "blockhash", "simulate", "fee", "send", "confirm"} = Waiting
BY SMT DEF Pcs, Waiting, Returned, Refusals

LEMMA IdleCall ==
  /\ Idle \in Call /\ Idle.pc = "idle" /\ Idle.seen = 0
  /\ "idle" \notin Waiting
BY NumbersAssumption, SMT DEF Idle, Call, Pcs, Waiting

LEMMA InitInv == Init => Inv
<1> SUFFICES ASSUME Init PROVE Inv
  OBVIOUS
<1>1. DOMAIN landed = {} /\ pending = {}
  BY SMT DEF Init
<1>2. \A c \in Calls : call[c] = Idle
  BY SMT DEF Init
<1>3. call \in [Calls -> Call]
  BY IdleCall, SMT DEF Init
<1>4. \A c \in Calls : Sound(c, Idle)
  BY <1>1, IdleCall, SMT DEF Sound, Submitted
<1>5. slot \in 0 .. MaxSlot /\ file = NoFile /\ edited \in BOOLEAN
  <2>1. MaxSlot \in Nat
    BY NumbersAssumption
  <2>2. slot = 0 /\ file = NoFile /\ edited = FALSE
    BY DEF Init
  <2>3. edited \in BOOLEAN
    BY <2>2, Zenon
  <2>4. slot \in 0 .. MaxSlot
    BY <2>1, <2>2, SMT
  <2> QED
    BY <2>2, <2>3, <2>4, Zenon
<1>6. \A c \in Calls : Sound(c, call[c])
  BY <1>2, <1>4
<1> QED
  BY <1>1, <1>3, <1>5, <1>6 DEF Inv

\* A step of one call and of nothing else but what the cluster holds of it.
LEMMA CallStep ==
  ASSUME Inv, NEW c \in Calls, NEW v \in Call, call' = [call EXCEPT ![c] = v],
         UNCHANGED <<slot, file, edited, landed>>,
         pending' = pending \/ (pending' = pending \cup {c} /\ c \notin Submitted),
         Sound(c, v)'
  PROVE  Inv'
<1>1. ASSUME NEW d \in Calls PROVE Sound(d, call[d])'
  <2>1. CASE d = c
    <3>1. call'[d] = v
      BY <2>1, SMT DEF Inv
    <3> QED
      BY <2>1, <3>1, SMT DEF Sound, Cleared, Chosen, Released, Submitted
  <2>2. CASE d # c
    <3>1. call'[d] = call[d] /\ Sound(d, call[d])
      BY <2>2, SMT DEF Inv
    <3>2. (d \in Submitted)' => d \in Submitted
      BY <2>2, SMT DEF Submitted
    <3> QED
      BY <3>1, <3>2, SMT DEF Sound, Cleared, Chosen, Released
  <2> QED
    BY <2>1, <2>2, SMT
<1>2. call' \in [Calls -> Call]
  BY SMT DEF Inv
<1>3. /\ pending' \subseteq Calls
      /\ DOMAIN landed' \subseteq Calls \ pending'
  BY SMT DEF Inv, Submitted
<1> QED
  BY <1>1, <1>2, <1>3, SMT DEF Inv

\* What the call c has recorded, and what it is not waiting for any more.
LEMMA CallFacts ==
  ASSUME Inv, NEW c \in Calls
  PROVE  /\ call[c] \in Call /\ Sound(c, call[c]) /\ slot \in 0 .. MaxSlot
         /\ call \in [Calls -> Call]
BY SMT DEF Inv

\* What an answer adds to the record of a call: its next request or its result,
\* and the one field the answer fills.
FillSeen(c, pc, x) == call' = [call EXCEPT ![c].pc = pc, ![c].seen = x]
FillExpiry(c, pc, x) == call' = [call EXCEPT ![c].pc = pc, ![c].expiry = x]
FillSimulated(c, pc, x) == call' = [call EXCEPT ![c].pc = pc, ![c].simulated = x]
FillFee(c, pc, x) == call' = [call EXCEPT ![c].pc = pc, ![c].fee = x]

LEMMA SeenAnswered ==
  ASSUME call \in [Calls -> Call], NEW c \in Calls, NEW pc \in Pcs,
         NEW x \in 0 .. MaxSlot,
         FillSeen(c, pc, x)
  PROVE  \E v \in Call :
           /\ call' = [call EXCEPT ![c] = v]
           /\ v.pc = pc /\ v.seen = x
           /\ v.action = call[c].action /\ v.window = call[c].window
           /\ v.loopback = call[c].loopback /\ v.acknowledged = call[c].acknowledged
           /\ v.simulated = call[c].simulated /\ v.fee = call[c].fee
<1> DEFINE w == [call[c] EXCEPT !.pc = pc, !.seen = x]
<1>1. call[c] \in Call
  OBVIOUS
<1>2. w \in Call
  BY <1>1, Zenon DEF Call
<1>3. /\ w.pc = pc /\ w.seen = x
      /\ w.action = call[c].action /\ w.window = call[c].window
      /\ w.loopback = call[c].loopback /\ w.acknowledged = call[c].acknowledged
      /\ w.simulated = call[c].simulated /\ w.fee = call[c].fee
  BY <1>1, SMT DEF Call
<1>4. call' = [call EXCEPT ![c] = w]
  BY DEF FillSeen
<1> HIDE DEF w
<1> QED
  BY <1>2, <1>3, <1>4

LEMMA ExpiryAnswered ==
  ASSUME call \in [Calls -> Call], NEW c \in Calls, NEW pc \in Pcs,
         NEW x \in 0 .. MaxSlot + BlockhashLife,
         FillExpiry(c, pc, x)
  PROVE  \E v \in Call :
           /\ call' = [call EXCEPT ![c] = v]
           /\ v.pc = pc
           /\ v.action = call[c].action /\ v.window = call[c].window
           /\ v.loopback = call[c].loopback /\ v.acknowledged = call[c].acknowledged
           /\ v.seen = call[c].seen /\ v.simulated = call[c].simulated
           /\ v.fee = call[c].fee
<1> DEFINE w == [call[c] EXCEPT !.pc = pc, !.expiry = x]
<1>1. call[c] \in Call
  OBVIOUS
<1>2. w \in Call
  BY <1>1, Zenon DEF Call
<1>3. /\ w.pc = pc
      /\ w.action = call[c].action /\ w.window = call[c].window
      /\ w.loopback = call[c].loopback /\ w.acknowledged = call[c].acknowledged
      /\ w.seen = call[c].seen /\ w.simulated = call[c].simulated
      /\ w.fee = call[c].fee
  BY <1>1, SMT DEF Call
<1>4. call' = [call EXCEPT ![c] = w]
  BY DEF FillExpiry
<1> HIDE DEF w
<1> QED
  BY <1>2, <1>3, <1>4

LEMMA SimulatedAnswered ==
  ASSUME call \in [Calls -> Call], NEW c \in Calls, NEW pc \in Pcs,
         NEW x \in BOOLEAN,
         FillSimulated(c, pc, x)
  PROVE  \E v \in Call :
           /\ call' = [call EXCEPT ![c] = v]
           /\ v.pc = pc /\ v.simulated = x
           /\ v.action = call[c].action /\ v.window = call[c].window
           /\ v.loopback = call[c].loopback /\ v.acknowledged = call[c].acknowledged
           /\ v.seen = call[c].seen /\ v.fee = call[c].fee
<1> DEFINE w == [call[c] EXCEPT !.pc = pc, !.simulated = x]
<1>1. call[c] \in Call
  OBVIOUS
<1>2. w \in Call
  BY <1>1, Zenon DEF Call
<1>3. /\ w.pc = pc /\ w.simulated = x
      /\ w.action = call[c].action /\ w.window = call[c].window
      /\ w.loopback = call[c].loopback /\ w.acknowledged = call[c].acknowledged
      /\ w.seen = call[c].seen /\ w.fee = call[c].fee
  BY <1>1, SMT DEF Call
<1>4. call' = [call EXCEPT ![c] = w]
  BY DEF FillSimulated
<1> HIDE DEF w
<1> QED
  BY <1>2, <1>3, <1>4

LEMMA FeeAnswered ==
  ASSUME call \in [Calls -> Call], NEW c \in Calls, NEW pc \in Pcs,
         NEW x \in Nat,
         FillFee(c, pc, x)
  PROVE  \E v \in Call :
           /\ call' = [call EXCEPT ![c] = v]
           /\ v.pc = pc /\ v.fee = x
           /\ v.action = call[c].action /\ v.window = call[c].window
           /\ v.loopback = call[c].loopback /\ v.acknowledged = call[c].acknowledged
           /\ v.seen = call[c].seen /\ v.simulated = call[c].simulated
<1> DEFINE w == [call[c] EXCEPT !.pc = pc, !.fee = x]
<1>1. call[c] \in Call
  OBVIOUS
<1>2. w \in Call
  BY <1>1, Zenon DEF Call
<1>3. /\ w.pc = pc /\ w.fee = x
      /\ w.action = call[c].action /\ w.window = call[c].window
      /\ w.loopback = call[c].loopback /\ w.acknowledged = call[c].acknowledged
      /\ w.seen = call[c].seen /\ w.simulated = call[c].simulated
  BY <1>1, SMT DEF Call
<1>4. call' = [call EXCEPT ![c] = w]
  BY DEF FillFee
<1> HIDE DEF w
<1> QED
  BY <1>2, <1>3, <1>4

\* A call that returns keeps its record; it may do so at any request.
LEMMA ReturnInv ==
  ASSUME Inv, NEW c \in Calls, NEW pc \in Returned,
         Return(c, pc), call[c].pc \in Waiting,
         UNCHANGED <<slot, file, edited, landed>>,
         \/ pending' = pending
         \/ pending' = pending \cup {c} /\ call[c].pc = "send" /\ pc = "Rpc",
         pc = "Ok" => c \in DOMAIN landed,
         call[c].pc = "confirm" => pc \in {"Rpc", "Ok"}
  PROVE  Inv'
<1>1. call[c] \in Call /\ Sound(c, call[c])
  BY CallFacts
<1>2. PICK v \in Call :
        /\ call' = [call EXCEPT ![c] = v]
        /\ v.pc = pc /\ v.action = call[c].action /\ v.window = call[c].window
        /\ v.loopback = call[c].loopback /\ v.acknowledged = call[c].acknowledged
        /\ v.seen = call[c].seen /\ v.simulated = call[c].simulated
        /\ v.fee = call[c].fee
  <2> DEFINE w == [call[c] EXCEPT !.pc = pc]
  <2>1. pc \in Pcs
    BY DEF Pcs
  <2>2. w \in Call
    BY <1>1, <2>1, SMT DEF Call
  <2>3. /\ w.pc = pc /\ w.action = call[c].action /\ w.window = call[c].window
        /\ w.loopback = call[c].loopback /\ w.acknowledged = call[c].acknowledged
        /\ w.seen = call[c].seen /\ w.simulated = call[c].simulated
        /\ w.fee = call[c].fee
    BY <1>1, SMT DEF Call
  <2>4. call' = [call EXCEPT ![c] = w]
    BY SMT DEF Return
  <2> HIDE DEF w
  <2> QED
    BY <2>2, <2>3, <2>4
<1>3. c \in Submitted => call[c].pc = "confirm"
  BY <1>1, PcFacts, SMT DEF Sound
<1>4. /\ Cleared(call[c]) => Cleared(v)'
      /\ Released(call[c]) => Released(v)'
  BY <1>2, SMT DEF Cleared, Chosen, Released
<1>5. pc \notin Waiting /\ pc # "send" /\ pc # "confirm"
  BY PcFacts, SMT
<1>6. (c \in Submitted)' => /\ pc \in {"Rpc", "Ok"}
                            /\ call[c].pc \in {"send", "confirm"}
  BY <1>3, SMT DEF Submitted
<1>7. call[c].pc \in {"send", "confirm"} => Cleared(call[c]) /\ Released(call[c])
  BY <1>1, PcFacts, SMT DEF Sound
<1>8. Sound(c, v)'
  BY <1>1, <1>2, <1>4, <1>5, <1>6, <1>7, SMT DEF Sound
<1>9. call[c].pc = "send" => c \notin Submitted
  BY <1>3
<1> QED
  BY <1>2, <1>8, <1>9, CallStep

LEMMA ExecuteInv ==
  ASSUME Inv, NEW c \in Calls, NEW window \in Windows,
         NEW loopback \in BOOLEAN, NEW acknowledged \in BOOLEAN,
         Execute(c, window, loopback, acknowledged)
  PROVE  Inv'
<1> DEFINE pc == IF ~acknowledged THEN "ExecutionDisabled"
                 ELSE IF file.template_id # "memo-v1" THEN "UnsupportedAction"
                 ELSE IF file.program_ids # <<"memo">> THEN "InvalidProgram"
                 ELSE "clock"
           w == [Idle EXCEPT !.action = file, !.window = window,
                             !.loopback = loopback,
                             !.acknowledged = acknowledged, !.pc = pc]
<1>1. /\ call[c].pc = "idle" /\ file \in Actions
      /\ call' = [call EXCEPT ![c] = w]
      /\ UNCHANGED <<slot, file, edited, pending, landed>>
  BY SMT DEF Execute, At, Inv
<1>2. /\ pc \in {"ExecutionDisabled", "UnsupportedAction", "InvalidProgram", "clock"}
      /\ pc = "clock" => /\ acknowledged /\ file.template_id = "memo-v1"
                         /\ file.program_ids = <<"memo">>
  BY SMT
<1> HIDE DEF pc
<1>3. PICK v \in Call :
        /\ call' = [call EXCEPT ![c] = v]
        /\ v.pc = pc /\ v.action = file /\ v.acknowledged = acknowledged
        /\ v.seen = 0
  <2>1. pc \in Pcs
    BY <1>2, SMT DEF Pcs, Waiting, Returned, Refusals
  <2>2. window \in [start : Nat, end : Nat]
    BY NumbersAssumption
  <2>3. w \in Call
    BY <1>1, <2>1, <2>2, IdleCall, Zenon DEF Call
  <2>4. /\ w.pc = pc /\ w.action = file /\ w.acknowledged = acknowledged
        /\ w.seen = 0
    BY SMT DEF Idle
  <2> HIDE DEF w
  <2> QED
    BY <1>1, <2>3, <2>4
<1>4. c \notin Submitted
  BY <1>1, CallFacts, SMT DEF Sound
<1>5. pc \in Waiting => pc = "clock"
  BY <1>2, SMT DEF Waiting
<1>6. Sound(c, v)'
  BY <1>1, <1>2, <1>3, <1>4, <1>5, SMT DEF Sound, Chosen, Submitted
<1> QED
  BY <1>1, <1>3, <1>6, CallStep

\* A request is answered and the call goes on; what it knew stays known.
LEMMA AnsweredInv ==
  ASSUME Inv, NEW c \in Calls, NEW v \in Call,
         call' = [call EXCEPT ![c] = v],
         UNCHANGED <<slot, file, edited, pending, landed>>,
         call[c].pc \in {"clock", "blockhash", "simulate", "fee"},
         v.pc \in {"blockhash", "simulate", "fee", "send"} \cup Refusals,
         v.action = call[c].action, v.acknowledged = call[c].acknowledged,
         v.pc \in Waiting => Released(v),
         v.pc = "send" => Cleared(v)
  PROVE  Inv'
<1>1. Sound(c, call[c])
  BY CallFacts
<1>2. Chosen(call[c])
  BY <1>1, PcFacts, SMT DEF Sound
<1>3. c \notin Submitted
  BY <1>1, SMT DEF Sound
<1>4. v.pc # "Ok" /\ v.pc # "confirm"
  BY PcFacts, SMT
<1>5. Sound(c, v)'
  BY <1>2, <1>3, <1>4, SMT DEF Sound, Chosen, Released, Cleared, Submitted
<1> QED
  BY <1>5, CallStep

LEMMA GetSlotInv ==
  ASSUME Inv, NEW c \in Calls, GetSlot(c)
  PROVE  Inv'
<1>1. /\ call[c].pc = "clock" /\ slot \in 0 .. MaxSlot /\ slot \in Nat
      /\ UNCHANGED <<slot, file, edited, pending, landed>>
  BY CallFacts, NumbersAssumption, SMT DEF GetSlot, At
<1>2. CASE Return(c, "Rpc")
  BY <1>1, <1>2, PcFacts, ReturnInv
<1>3. CASE ~ Return(c, "Rpc")
  <2> DEFINE valid == Validate(MemoPolicy, call[c].action, call[c].loopback,
                               FALSE, FALSE, 0, FALSE)
             inWindow == InWindow(call[c].window, slot)
             pcAfter(wallet) == IF ~inWindow THEN "OutsideExecutionWindow"
                                ELSE IF ~valid THEN "SafetyPolicy" ELSE wallet
  <2>1. PICK wallet \in {"Wallet", "blockhash"} :
          call' = [call EXCEPT ![c].pc = pcAfter(wallet), ![c].seen = slot]
    BY <1>3 DEF GetSlot
  <2> HIDE DEF valid, inWindow
  <2>2. PICK pc : pc = pcAfter(wallet)
    OBVIOUS
  <2>3. /\ pc \in {"OutsideExecutionWindow", "SafetyPolicy", "Wallet", "blockhash"}
        /\ pc = "blockhash" => inWindow
    BY <2>2
  <2>4. FillSeen(c, pc, slot)
    BY <2>1, <2>2 DEF FillSeen
  <2>5. pc \in Pcs /\ pc \in {"blockhash"} \cup Refusals
    BY <2>3, SMT DEF Pcs, Waiting, Returned, Refusals
  <2>6. PICK v \in Call :
          /\ call' = [call EXCEPT ![c] = v]
          /\ v.pc = pc /\ v.seen = slot
          /\ v.action = call[c].action /\ v.window = call[c].window
          /\ v.loopback = call[c].loopback /\ v.acknowledged = call[c].acknowledged
          /\ v.simulated = call[c].simulated /\ v.fee = call[c].fee
    <3>1. call \in [Calls -> Call]
      BY CallFacts
    <3>2. pc \in Pcs
      BY <2>5
    <3> QED
      BY <2>4, <3>1, <3>2, <1>1, SeenAnswered
  <2>7. inWindow => Released(v)
    BY <1>1, <2>6, SMT DEF inWindow, Released, InWindow
  <2>8. v.pc \in Waiting => Released(v)
    BY <2>3, <2>6, <2>7, SMT DEF Waiting
  <2>9. v.pc # "send" /\ v.pc \in {"blockhash", "simulate", "fee", "send"} \cup Refusals
    BY <2>3, <2>5, <2>6
  <2> QED
    BY <1>1, <2>6, <2>8, <2>9, AnsweredInv
<1> QED
  BY <1>2, <1>3

LEMMA GetBlockhashInv ==
  ASSUME Inv, NEW c \in Calls, GetBlockhash(c)
  PROVE  Inv'
<1>1. /\ call[c].pc = "blockhash" /\ Sound(c, call[c])
      /\ UNCHANGED <<slot, file, edited, pending, landed>>
  BY CallFacts, SMT DEF GetBlockhash, At
<1>2. CASE Return(c, "Rpc")
  BY <1>1, <1>2, PcFacts, ReturnInv
<1>3. CASE call' = [call EXCEPT ![c].pc = "simulate",
                                ![c].expiry = slot + BlockhashLife]
  <2>1. slot + BlockhashLife \in 0 .. MaxSlot + BlockhashLife
    BY CallFacts, NumbersAssumption, SMT
  <2>2. "simulate" \in Pcs
    BY SMT DEF Pcs, Waiting
  <2>3. PICK v \in Call :
          /\ call' = [call EXCEPT ![c] = v]
          /\ v.pc = "simulate"
          /\ v.action = call[c].action /\ v.window = call[c].window
          /\ v.loopback = call[c].loopback /\ v.acknowledged = call[c].acknowledged
          /\ v.seen = call[c].seen /\ v.simulated = call[c].simulated
          /\ v.fee = call[c].fee
    <3>1. FillExpiry(c, "simulate", slot + BlockhashLife)
      BY <1>3 DEF FillExpiry
    <3> QED
      BY <2>1, <2>2, <3>1, CallFacts, ExpiryAnswered
  <2>4. Released(v)
    BY <1>1, <2>3, PcFacts, SMT DEF Sound, Released
  <2> QED
    BY <1>1, <2>3, <2>4, AnsweredInv
<1> QED
  BY <1>2, <1>3 DEF GetBlockhash

LEMMA SimulateInv ==
  ASSUME Inv, NEW c \in Calls, Simulate(c)
  PROVE  Inv'
<1>1. /\ call[c].pc = "simulate" /\ Sound(c, call[c])
      /\ UNCHANGED <<slot, file, edited, pending, landed>>
  BY CallFacts, SMT DEF Simulate, At
<1>2. CASE Return(c, "Rpc")
  BY <1>1, <1>2, PcFacts, ReturnInv
<1>3. ASSUME NEW succeeded \in BOOLEAN,
             call' = [call EXCEPT ![c].pc = "fee", ![c].simulated = succeeded]
      PROVE  Inv'
  <2>1. "fee" \in Pcs
    BY SMT DEF Pcs, Waiting
  <2>2. PICK v \in Call :
          /\ call' = [call EXCEPT ![c] = v]
          /\ v.pc = "fee" /\ v.simulated = succeeded
          /\ v.action = call[c].action /\ v.window = call[c].window
          /\ v.loopback = call[c].loopback /\ v.acknowledged = call[c].acknowledged
          /\ v.seen = call[c].seen /\ v.fee = call[c].fee
    <3>1. call \in [Calls -> Call]
      BY CallFacts
    <3>2. "fee" \in Pcs
      BY <2>1
    <3>3. FillSimulated(c, "fee", succeeded)
      BY <1>3 DEF FillSimulated
    <3> QED
      BY <3>1, <3>2, <3>3, SimulatedAnswered
  <2>3. Released(v)
    BY <1>1, <2>2, PcFacts, SMT DEF Sound, Released
  <2> QED
    BY <1>1, <2>2, <2>3, AnsweredInv
<1> QED
  BY <1>2, <1>3 DEF Simulate

\* What the policy, asked with sending, has established of the call that asked.
LEMMA SendAllowedFacts ==
  ASSUME NEW c \in Calls, call[c] \in Call, NEW fee \in Nat, SendAllowed(c, fee)
  PROVE  /\ call[c].loopback /\ call[c].simulated
         /\ fee <= MemoPolicy.max_transaction_fee
         /\ WithinLimits(MemoPolicy, call[c].action)
<1>1. MemoPolicy.simulation_required
  BY SMT DEF MemoPolicy, DefaultPolicy
<1> QED
  BY <1>1 DEF SendAllowed, Validate, MaySend

LEMMA GetFeeInv ==
  ASSUME Inv, NEW c \in Calls, GetFee(c)
  PROVE  Inv'
<1>1. /\ call[c].pc = "fee" /\ Sound(c, call[c]) /\ call[c] \in Call
      /\ UNCHANGED <<slot, file, edited, pending, landed>>
  BY CallFacts, SMT DEF GetFee, At
<1>2. CASE Return(c, "Rpc")
  BY <1>1, <1>2, PcFacts, ReturnInv
<1>3. ASSUME NEW fee \in Fees,
             call' = [call EXCEPT
               ![c].pc = IF SendAllowed(c, fee) THEN "send" ELSE "SafetyPolicy",
               ![c].fee = fee]
      PROVE  Inv'
  <2>1. PICK pc : pc = IF SendAllowed(c, fee) THEN "send" ELSE "SafetyPolicy"
    OBVIOUS
  <2>2. pc \in {"send", "SafetyPolicy"} /\ (pc = "send" => SendAllowed(c, fee))
    BY <2>1
  <2>3. pc \in Pcs /\ pc \in {"send"} \cup Refusals
    BY <2>2, SMT DEF Pcs, Waiting, Returned, Refusals
  <2>4. FillFee(c, pc, fee)
    BY <1>3, <2>1 DEF FillFee
  <2>5. fee \in Nat
    BY NumbersAssumption
  <2>6. PICK v \in Call :
          /\ call' = [call EXCEPT ![c] = v]
          /\ v.pc = pc /\ v.fee = fee
          /\ v.action = call[c].action /\ v.window = call[c].window
          /\ v.loopback = call[c].loopback /\ v.acknowledged = call[c].acknowledged
          /\ v.seen = call[c].seen /\ v.simulated = call[c].simulated
    <3>1. call \in [Calls -> Call]
      BY CallFacts
    <3>2. pc \in Pcs
      BY <2>3
    <3> QED
      BY <2>4, <3>1, <3>2, <2>5, FeeAnswered
  <2>7. Released(v)
    BY <1>1, <2>6, PcFacts, SMT DEF Sound, Released
  <2>8. Chosen(call[c])
    BY <1>1, PcFacts, SMT DEF Sound
  <2>9. v.pc = "send" => Cleared(v)
    BY <1>1, <2>2, <2>5, <2>6, <2>8, SendAllowedFacts DEF Cleared, Chosen
  <2>10. v.pc \in {"blockhash", "simulate", "fee", "send"} \cup Refusals
    BY <2>3, <2>6
  <2> QED
    BY <1>1, <2>6, <2>7, <2>9, <2>10, AnsweredInv
<1> QED
  BY <1>2, <1>3 DEF GetFee

LEMMA SendInv ==
  ASSUME Inv, NEW c \in Calls, Send(c)
  PROVE  Inv'
<1>1. /\ call[c].pc = "send" /\ Sound(c, call[c]) /\ call[c] \in Call
      /\ UNCHANGED <<slot, file, edited, landed>>
  BY CallFacts, SMT DEF Send, At
<1>2. CASE Return(c, "Rpc")
  <2>1. pending' = pending \/ pending' = pending \cup {c}
    BY DEF Send
  <2> QED
    BY <1>1, <1>2, <2>1, PcFacts, ReturnInv
<1>3. CASE Return(c, "confirm") /\ pending' = pending \cup {c}
  <2>1. PICK v \in Call :
          /\ call' = [call EXCEPT ![c] = v]
          /\ v.pc = "confirm" /\ v.action = call[c].action
          /\ v.window = call[c].window /\ v.loopback = call[c].loopback
          /\ v.acknowledged = call[c].acknowledged /\ v.seen = call[c].seen
          /\ v.simulated = call[c].simulated /\ v.fee = call[c].fee
    <3> DEFINE w == [call[c] EXCEPT !.pc = "confirm"]
    <3>1. "confirm" \in Pcs
      BY SMT DEF Pcs, Waiting
    <3>2. w \in Call
      BY <1>1, <3>1, SMT DEF Call
    <3>3. /\ w.pc = "confirm" /\ w.action = call[c].action
          /\ w.window = call[c].window /\ w.loopback = call[c].loopback
          /\ w.acknowledged = call[c].acknowledged /\ w.seen = call[c].seen
          /\ w.simulated = call[c].simulated /\ w.fee = call[c].fee
      BY <1>1, SMT DEF Call
    <3>4. call' = [call EXCEPT ![c] = w]
      BY <1>3, SMT DEF Return
    <3> HIDE DEF w
    <3> QED
      BY <3>2, <3>3, <3>4
  <2>2. Cleared(call[c]) /\ Released(call[c]) /\ c \notin Submitted
    BY <1>1, PcFacts, SMT DEF Sound
  <2>3. Cleared(v)' /\ Released(v)' /\ Chosen(v)'
    BY <1>1, <2>1, <2>2, SMT DEF Cleared, Chosen, Released
  <2>4. c \notin DOMAIN landed'
    BY <1>1, <2>2 DEF Submitted
  <2>5. Sound(c, v)'
    BY <2>1, <2>3, <2>4, SMT DEF Sound
  <2> QED
    BY <1>1, <1>3, <2>1, <2>2, <2>5, CallStep
<1> QED
  BY <1>2, <1>3 DEF Send

LEMMA ConfirmInv ==
  ASSUME Inv, NEW c \in Calls, Confirm(c)
  PROVE  Inv'
<1>1. /\ call[c].pc = "confirm"
      /\ UNCHANGED <<slot, file, edited, pending, landed>>
  BY DEF Confirm, At
<1>2. CASE HasLanded(c) /\ Return(c, "Ok")
  BY <1>1, <1>2, PcFacts, ReturnInv DEF HasLanded
<1>3. CASE Return(c, "Rpc")
  BY <1>1, <1>3, PcFacts, ReturnInv
<1> QED
  BY <1>2, <1>3 DEF Confirm

LEMMA PollFailsInv ==
  ASSUME Inv, NEW c \in Calls, PollFails(c)
  PROVE  Inv'
<1>1. /\ call[c].pc = "confirm" /\ Return(c, "Rpc")
      /\ UNCHANGED <<slot, file, edited, pending, landed>>
  BY DEF PollFails, At
<1> QED
  BY <1>1, PcFacts, ReturnInv

\* The cluster executes what it holds, no earlier than the slot the call saw.
LEMMA LandInv ==
  ASSUME Inv, NEW c \in Calls, Land(c)
  PROVE  Inv'
<1>1. /\ c \in pending /\ pending' = pending \ {c}
      /\ landed' = [d \in DOMAIN landed \cup {c} |-> IF d = c THEN slot ELSE landed[d]]
      /\ UNCHANGED <<slot, file, edited, call>>
  BY DEF Land
<1>2. /\ DOMAIN landed' = DOMAIN landed \cup {c} /\ landed'[c] = slot
      /\ \A d \in DOMAIN landed : d # c => landed'[d] = landed[d]
  BY <1>1
<1>3. /\ pending' \subseteq Calls
      /\ DOMAIN landed' \subseteq Calls \ pending'
  BY <1>1, <1>2 DEF Inv
<1>4. \A d \in DOMAIN landed' : landed'[d] \in 0 .. MaxSlot
  BY <1>1, <1>2 DEF Inv
<1>5. ASSUME NEW d \in Calls PROVE Sound(d, call[d])'
  <2>1. Sound(d, call[d])
    BY DEF Inv
  <2>2. (d \in Submitted)' <=> d \in Submitted
    BY <1>1, <1>2 DEF Submitted
  <2>3. CASE d = c
    <3>1. c \in Submitted
      BY <1>1 DEF Submitted
    <3>2. Released(call[c])
      BY <2>1, <2>3, <3>1 DEF Sound
    <3> QED
      BY <1>1, <1>2, <2>1, <2>2, <2>3, <3>1, <3>2, SMT
      DEF Sound, Cleared, Chosen, Released
  <2>4. CASE d # c
    BY <1>1, <1>2, <2>1, <2>2, <2>4, SMT DEF Sound, Cleared, Chosen, Released
  <2> QED
    BY <2>3, <2>4
<1> QED
  BY <1>1, <1>3, <1>4, <1>5, SMT DEF Inv

LEMMA TickInv ==
  ASSUME Inv, Tick
  PROVE  Inv'
<1>1. /\ slot < MaxSlot /\ slot' = slot + 1
      /\ UNCHANGED <<file, edited, call, pending, landed>>
  BY DEF Tick
<1>2. slot' \in 0 .. MaxSlot /\ slot <= slot'
  BY <1>1, NumbersAssumption, SMT DEF Inv
<1>3. ASSUME NEW d \in Calls PROVE Sound(d, call[d])'
  <2>1. call[d] \in Call /\ Sound(d, call[d]) /\ slot \in 0 .. MaxSlot
    BY CallFacts
  <2>2. Released(call[d]) => Released(call[d])'
    <3>1. call[d].seen \in Int /\ slot \in Int /\ slot' \in Int
      BY <1>2, <2>1, SMT DEF Call
    <3> QED
      BY <1>1, <1>2, <3>1, SMT DEF Released
  <2> QED
    BY <1>1, <2>1, <2>2, SMT DEF Sound, Cleared, Chosen, Submitted
<1> QED
  BY <1>1, <1>2, <1>3, SMT DEF Inv

\* The calls hold copies of the file: rewriting it disturbs none of them.
LEMMA FileInv ==
  ASSUME Inv, file' \in Actions, edited' \in BOOLEAN,
         UNCHANGED <<slot, call, pending, landed>>
  PROVE  Inv'
<1>1. ASSUME NEW d \in Calls PROVE Sound(d, call[d])'
  <2>1. Sound(d, call[d])
    BY DEF Inv
  <2> QED
    BY <2>1, SMT DEF Sound, Cleared, Chosen, Released, Submitted
<1> QED
  BY <1>1 DEF Inv

LEMMA EditTyped ==
  ASSUME NEW a \in Actions, NEW b \in Edits(a)
  PROVE  b \in Actions
<1> DEFINE Units(n) == [a EXCEPT !.compute_units = n]
           Fee(n) == [a EXCEPT !.priority_fee = n]
           Value(n) == [a EXCEPT !.value = n]
           Size(n) == [a EXCEPT !.estimated_size = n]
           Count(n) == [a EXCEPT !.instruction_count = n]
           Payload(n) == [a EXCEPT !.payload = n]
           Programs(p) == [a EXCEPT !.program_ids = p]
           Template(t) == [a EXCEPT !.template_id = t]
<1>1. b \in {Units(200001), Fee(1001), Value(1000001), Size(1233), Count(2),
             Payload(5), Programs(<<"memo", "memo">>), Programs(<<"other">>),
             Template("memo-v1")}
  BY SMT DEF Edits
<1>2. /\ \A n \in Nat : Units(n) \in Actions /\ Fee(n) \in Actions
      /\ \A n \in Nat : Value(n) \in Actions /\ Size(n) \in Actions
      /\ \A n \in Nat : Count(n) \in Actions /\ Payload(n) \in Actions
      /\ \A p \in Seq(ProgramIds) : Programs(p) \in Actions
      /\ \A t \in TemplateIds : Template(t) \in Actions
  BY Zenon DEF Actions
<1>3. /\ <<"memo", "memo">> \in Seq(ProgramIds) /\ <<"other">> \in Seq(ProgramIds)
      /\ "memo-v1" \in TemplateIds
  BY SMT DEF ProgramIds, TemplateIds
<1> HIDE DEF Units, Fee, Value, Size, Count, Payload, Programs, Template
<1>4. PICK u \in Nat, f \in Nat, n \in Nat, z \in Nat, k \in Nat, m \in Nat :
        b \in {Units(u), Fee(f), Value(n), Size(z), Count(k), Payload(m),
               Programs(<<"memo", "memo">>), Programs(<<"other">>),
               Template("memo-v1")}
  BY <1>1, SMT
<1> QED
  BY <1>2, <1>3, <1>4, Zenon

LEMMA NextInv == Inv /\ [Next]_vars => Inv'
<1> SUFFICES ASSUME Inv, [Next]_vars PROVE Inv'
  OBVIOUS
<1>1. CASE UNCHANGED vars
  BY <1>1 DEF vars, Inv, Sound, Cleared, Chosen, Released, Submitted
<1>2. CASE Tick
  BY <1>2, TickInv
<1>3. CASE EditFile
  <2>1. file \in Actions /\ file' \in Edits(file)
    BY <1>3 DEF EditFile, Inv
  <2>2. file' \in Actions
    BY <2>1, EditTyped
  <2> QED
    BY <1>3, <2>2, FileInv DEF EditFile
<1>4. ASSUME NEW q \in Parameters, PrepareFile(q) PROVE Inv'
  <2>1. file' \in Actions
    BY <1>4, PrepareValid, ParametersAssumption DEF PrepareFile, Fits
  <2>2. edited' \in BOOLEAN
    BY <1>4 DEF PrepareFile, Inv
  <2> QED
    BY <1>4, <2>1, <2>2, FileInv DEF PrepareFile
<1>5. ASSUME NEW c \in Calls, NEW window \in Windows,
             NEW loopback \in BOOLEAN, NEW acknowledged \in BOOLEAN,
             Execute(c, window, loopback, acknowledged)
      PROVE  Inv'
  BY <1>5, ExecuteInv
<1>6. ASSUME NEW c \in Calls, Step(c) PROVE Inv'
  BY <1>6, GetSlotInv, GetBlockhashInv, SimulateInv, GetFeeInv, SendInv, ConfirmInv
  DEF Step
<1>7. ASSUME NEW c \in Calls, Land(c) PROVE Inv'
  BY <1>7, LandInv
<1>8. ASSUME NEW c \in Calls, PollFails(c) PROVE Inv'
  BY <1>8, PollFailsInv
<1> QED
  BY <1>1, <1>2, <1>3, <1>4, <1>5, <1>6, <1>7, <1>8 DEF Next

LEMMA Invariance == Spec => []Inv
BY InitInv, NextInv, PTL DEF Spec

-----------------------------------------------------------------------------
(* What the invariant gives                                                *)

\* The clock, the file, every call's record and what the cluster holds keep
\* their types, and no transaction is both held and executed.
THEOREM TypeCorrect == Spec => []TypeOK
<1>1. Inv => TypeOK
  <2> SUFFICES ASSUME Inv PROVE TypeOK
    OBVIOUS
  <2>1. ASSUME NEW c \in Calls
        PROVE  /\ call[c].pc \in {"idle"} \cup Waiting \cup Returned
               /\ call[c].action = NoFile \/ call[c].action \in Actions
               /\ call[c].seen \in 0 .. MaxSlot
               /\ call[c].expiry \in 0 .. MaxSlot + BlockhashLife
    <3>1. call[c] \in Call
      BY CallFacts
    <3> QED
      BY <3>1, SMT DEF Call, Pcs
  <2> QED
    BY <2>1 DEF Inv, TypeOK
<1> QED
  BY <1>1, Invariance, PTL

\* Whatever was edited, answered late or interleaved on the way, a transaction
\* that reached the cluster was acknowledged, goes to a loopback node, passed the
\* simulation, is within the fee limit and is the memo the policy allows.
THEOREM SubmittedSafe == Spec => []SubmittedIsSafe
<1>1. Inv => SubmittedIsSafe
  <2> SUFFICES ASSUME Inv, NEW c \in Submitted
               PROVE  Cleared(call[c])
    BY DEF SubmittedIsSafe, Cleared, Chosen
  <2>1. c \in Calls
    BY DEF Inv, Submitted
  <2> QED
    BY <2>1, CallFacts DEF Sound
<1> QED
  BY <1>1, Invariance, PTL

\* The window is checked against a slot read several requests before the send;
\* since slots only grow, no action is executed before its release slot.
THEOREM NothingEarly == Spec => []NothingBeforeRelease
<1>1. Inv => NothingBeforeRelease
  <2> SUFFICES ASSUME Inv, NEW c \in DOMAIN landed
               PROVE  landed[c] >= call[c].window.start
    BY DEF NothingBeforeRelease
  <2>1. c \in Calls /\ c \in Submitted /\ landed[c] \in Int
    BY DEF Inv, Submitted
  <2>2. Released(call[c]) /\ call[c].seen <= landed[c]
    BY <2>1, CallFacts DEF Sound
  <2>3. call[c].window.start \in Int /\ call[c].seen \in Int
    BY <2>1, CallFacts, SMT DEF Call
  <2> QED
    BY <2>1, <2>2, <2>3, SMT DEF Released
<1> QED
  BY <1>1, Invariance, PTL

\* A refusal means nothing was or will be executed, and a receipt is for an
\* executed transaction: only Rpc leaves the caller in doubt.
THEOREM Conclusive == Spec => []ResultsAreConclusive
<1>1. Inv => ResultsAreConclusive
  <2> SUFFICES ASSUME Inv, NEW c \in Calls
               PROVE  /\ call[c].pc \in Refusals => c \notin Submitted
                      /\ call[c].pc = "Ok" => HasLanded(c) /\ call[c].seen <= landed[c]
    BY DEF ResultsAreConclusive
  <2> QED
    BY CallFacts, PcFacts DEF Sound, HasLanded
<1> QED
  BY <1>1, Invariance, PTL
=============================================================================
