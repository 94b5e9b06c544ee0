------------------------ MODULE ParticipantExecution ------------------------
(***************************************************************************)
(* Participants executing a prepared action                                *)
(* (execute_local_memo in crates/mirror-pool-client/src/lib.rs, called by  *)
(* `action execute` of the command line and by the demo).                  *)
(*                                                                         *)
(* Every call of execute_local_memo stops at each RPC request it makes;    *)
(* between two of them it runs alone, and the cluster's clock and the      *)
(* other calls go on meanwhile.  A transaction the cluster has received    *)
(* lands at most once, no later than its blockhash expires; that it has    *)
(* expired is also what ends the polling for it.  The calls                *)
(* share one action file, which the command line writes once and a         *)
(* participant may edit.                                                   *)
(***************************************************************************)
EXTENDS ActionTemplates

CONSTANTS
  Calls,          \* calls of execute_local_memo
  Parameters,     \* the ActionParameters a file may be prepared from
  Fees,           \* what get_fee_for_message may answer
  Windows,        \* [start, end] arguments
  BlockhashLife,  \* slots a blockhash stays valid
  MaxSlot,        \* bound on the clock
  NoFile

ASSUME NumbersAssumption ==
  /\ Fees \subseteq Nat /\ BlockhashLife \in Nat /\ MaxSlot \in Nat
  /\ Windows \subseteq [start : Nat, end : Nat]

ASSUME ParametersAssumption == Parameters \subseteq ActionParameters

VARIABLES
  slot,     \* the cluster's confirmed slot
  file,     \* the PreparedAction on disk
  edited,   \* whether the file was edited after the command line wrote it
  call,     \* the calls
  pending,  \* calls whose transaction the cluster holds but has not executed
  landed    \* the slot each executed transaction landed in

vars == <<slot, file, edited, call, pending, landed>>

\* ClientError.  Rpc is the one that says nothing about the transaction.
Refusals == {"ExecutionDisabled", "UnsupportedAction", "InvalidProgram",
             "OutsideExecutionWindow", "SafetyPolicy", "Wallet"}
Waiting == {"clock", "blockhash", "simulate", "fee", "send", "confirm"}
Returned == Refusals \cup {"Rpc", "Ok"}

Idle == [pc |-> "idle", action |-> NoFile, window |-> [start |-> 0, end |-> 0],
         loopback |-> FALSE, acknowledged |-> FALSE, seen |-> 0, expiry |-> 0,
         simulated |-> FALSE, fee |-> 0]

At(c, pc) == call[c].pc = pc
Return(c, result) == call' = [call EXCEPT ![c].pc = result]

-----------------------------------------------------------------------------
\* `action prepare`: write_new_json does not overwrite.
PrepareFile(q) ==
  /\ file = NoFile
  /\ file' \in Prepare(q)
  /\ UNCHANGED <<slot, edited, call, pending, landed>>

\* What an edited file may differ in: each limit exceeded by one, another
\* shape, template or program.
Edits(a) ==
  {[a EXCEPT !.compute_units = 200001], [a EXCEPT !.priority_fee = 1001],
   [a EXCEPT !.value = 1000001], [a EXCEPT !.estimated_size = 1233],
   [a EXCEPT !.instruction_count = 2], [a EXCEPT !.payload = 5],
   [a EXCEPT !.program_ids = <<"memo", "memo">>],
   [a EXCEPT !.program_ids = <<"other">>], [a EXCEPT !.template_id = "memo-v1"]}

EditFile ==
  /\ file # NoFile /\ ~edited
  /\ file' \in Edits(file)
  /\ edited' = TRUE
  /\ UNCHANGED <<slot, call, pending, landed>>

-----------------------------------------------------------------------------
\* The checks before the first request.
Execute(c, window, loopback, acknowledged) ==
  /\ At(c, "idle") /\ file # NoFile
  /\ call' = [call EXCEPT ![c] =
       [Idle EXCEPT !.action = file, !.window = window, !.loopback = loopback,
                    !.acknowledged = acknowledged,
                    !.pc = IF ~acknowledged THEN "ExecutionDisabled"
                           ELSE IF file.template_id # "memo-v1" THEN "UnsupportedAction"
                           ELSE IF file.program_ids # <<"memo">> THEN "InvalidProgram"
                           ELSE "clock"]]
  /\ UNCHANGED <<slot, file, edited, pending, landed>>

NotTooLate(window, s) == s <= window.end

InWindow(window, s) == window.start <= s /\ s <= window.end

\* get_slot, the window, the policy without sending, and the wallet file.
GetSlot(c) ==
  /\ At(c, "clock")
  /\ \/ Return(c, "Rpc")
     \/ \E wallet \in {"Wallet", "blockhash"} :
          call' = [call EXCEPT
            ![c].pc = IF ~InWindow(call[c].window, slot) THEN "OutsideExecutionWindow"
                      ELSE IF ~Validate(MemoPolicy, call[c].action, call[c].loopback,
                                        FALSE, FALSE, 0, FALSE)
                        THEN "SafetyPolicy"
                      ELSE wallet,
            ![c].seen = slot]
  /\ UNCHANGED <<slot, file, edited, pending, landed>>

\* get_latest_blockhash, and the signature over it.  MaxSlot bounds the model's
\* clock: a blockhash the clock could not outlive is not handed out.
GetBlockhash(c) ==
  /\ At(c, "blockhash")
  /\ \/ Return(c, "Rpc")
     \/ /\ slot + BlockhashLife < MaxSlot
        /\ call' = [call EXCEPT ![c].pc = "simulate",
                                ![c].expiry = slot + BlockhashLife]
  /\ UNCHANGED <<slot, file, edited, pending, landed>>

Simulate(c) ==
  /\ At(c, "simulate")
  /\ \/ Return(c, "Rpc")
     \/ \E succeeded \in BOOLEAN :
          call' = [call EXCEPT ![c].pc = "fee", ![c].simulated = succeeded]
  /\ UNCHANGED <<slot, file, edited, pending, landed>>

UncheckedSend(c, fee) == TRUE

\* The policy with sending, the answers of the simulation and of the fee request.
SendAllowed(c, fee) ==
  Validate(MemoPolicy, call[c].action, call[c].loopback, TRUE, call[c].simulated,
           fee, TRUE)

GetFee(c) ==
  /\ At(c, "fee")
  /\ \/ Return(c, "Rpc")
     \/ \E fee \in Fees :
          call' = [call EXCEPT
            ![c].pc = IF SendAllowed(c, fee) THEN "send" ELSE "SafetyPolicy",
            ![c].fee = fee]
  /\ UNCHANGED <<slot, file, edited, pending, landed>>

\* send_and_confirm_transaction sends; the request may fail before or after the
\* cluster has received the transaction.
Send(c) ==
  /\ At(c, "send")
  /\ \/ Return(c, "Rpc") /\ pending' = pending
     \/ /\ \E result \in {"confirm", "Rpc"} : Return(c, result)
        /\ pending' = pending \cup {c}
  /\ UNCHANGED <<slot, file, edited, landed>>

HasLanded(c) == c \in DOMAIN landed

ConfirmUnseen(c) ==
  /\ At(c, "confirm")
  /\ \E result \in {"Ok", "Rpc"} : Return(c, result)
  /\ UNCHANGED <<slot, file, edited, pending, landed>>

ConfirmPatiently(c) ==
  /\ At(c, "confirm")
  /\ HasLanded(c) /\ Return(c, "Ok")
  /\ UNCHANGED <<slot, file, edited, pending, landed>>

ConfirmResending(c) ==
  /\ At(c, "confirm")
  /\ \/ HasLanded(c) /\ Return(c, "Ok") /\ pending' = pending
     \/ call' = call /\ pending' = pending \cup {c}
  /\ UNCHANGED <<slot, file, edited, landed>>

\* ... and polls until the transaction has a status or its blockhash is not valid
\* any more, two requests between which the transaction may land ...
Confirm(c) ==
  /\ At(c, "confirm")
  /\ \/ HasLanded(c) /\ Return(c, "Ok")
     \/ call[c].expiry < slot /\ Return(c, "Rpc")
  /\ UNCHANGED <<slot, file, edited, pending, landed>>

\* ... or until a request of the polling fails.
PollFails(c) ==
  /\ At(c, "confirm")
  /\ Return(c, "Rpc")
  /\ UNCHANGED <<slot, file, edited, pending, landed>>

Step(c) ==
  GetSlot(c) \/ GetBlockhash(c) \/ Simulate(c) \/ GetFee(c) \/ Send(c) \/ Confirm(c)

-----------------------------------------------------------------------------
\* The cluster executes a transaction whose blockhash is still valid.
Land(c) ==
  /\ c \in pending /\ slot <= call[c].expiry
  /\ landed' = [d \in DOMAIN landed \cup {c} |-> IF d = c THEN slot ELSE landed[d]]
  /\ pending' = pending \ {c}
  /\ UNCHANGED <<slot, file, edited, call>>

Tick ==
  /\ slot < MaxSlot
  /\ slot' = slot + 1
  /\ UNCHANGED <<file, edited, call, pending, landed>>

Init ==
  /\ slot = 0
  /\ file = NoFile /\ edited = FALSE
  /\ call = [c \in Calls |-> Idle]
  /\ pending = {}
  /\ landed = [c \in {} |-> 0]

Next ==
  \/ Tick
  \/ EditFile
  \/ \E q \in Parameters : PrepareFile(q)
  \/ \E c \in Calls :
       \/ \E window \in Windows, loopback, acknowledged \in BOOLEAN :
            Execute(c, window, loopback, acknowledged)
       \/ Step(c)
       \/ PollFails(c)
       \/ Land(c)

Spec == Init /\ [][Next]_vars

\* A request to the RPC node is answered or times out, so a call at a request
\* takes its next step; but the polling has no deadline of its own, and ends
\* because the cluster keeps producing slots.  Nobody owes anybody a call, a
\* landing or a failed request.
FairSpec ==
  /\ Spec
  /\ WF_vars(Tick)
  /\ \A c \in Calls : WF_vars(Step(c))

-----------------------------------------------------------------------------
TemplateIds == {"memo-v1", "compute-budget-shape-v1", "local-token-housekeeping-v1",
                "local-stake-lifecycle-v1"}
ProgramIds == {"memo", "compute_budget", "token", "stake", "other"}

Actions == [template_id : TemplateIds, program_ids : Seq(ProgramIds),
            instruction_count : Nat, payload : Nat, compute_units : Nat,
            priority_fee : Nat, value : Nat, estimated_size : Nat]

TypeOK ==
  /\ slot \in 0 .. MaxSlot
  /\ file = NoFile \/ file \in Actions
  /\ edited \in BOOLEAN
  /\ \A c \in Calls :
       /\ call[c].pc \in {"idle"} \cup Waiting \cup Returned
       /\ call[c].action = NoFile \/ call[c].action \in Actions
       /\ call[c].seen \in 0 .. MaxSlot
       /\ call[c].expiry \in 0 .. MaxSlot + BlockhashLife
  /\ pending \subseteq Calls
  /\ DOMAIN landed \subseteq Calls \ pending

Submitted == pending \cup DOMAIN landed

\* A transaction the cluster holds or has executed was acknowledged, goes to a
\* loopback node, passed the simulation, is within the fee limit and is the memo
\* action the policy allows; whatever happened to the file since, and although
\* the answers arrived in separate requests.
SubmittedIsSafe ==
  \A c \in Submitted :
    /\ call[c].acknowledged /\ call[c].loopback /\ call[c].simulated
    /\ call[c].fee <= MemoPolicy.max_transaction_fee
    /\ call[c].action.template_id = "memo-v1"
    /\ call[c].action.program_ids = <<"memo">>
    /\ WithinLimits(MemoPolicy, call[c].action)

\* No participant's action is executed before the release slot it was given: the
\* window check on an earlier slot is enough for this end of the window.
NothingBeforeRelease ==
  \A c \in DOMAIN landed : landed[c] >= call[c].window.start

\* A result other than Rpc tells the caller what happened: after a refusal nothing
\* was or will be executed, and a receipt is for an executed transaction.
ResultsAreConclusive ==
  \A c \in Calls : /\ call[c].pc \in Refusals => c \notin Submitted
                   /\ call[c].pc = "Ok" => HasLanded(c) /\ call[c].seen <= landed[c]

\* An action file as the command line wrote it, from any template, is within the
\* default policy's limits: the bounds of prepare() and those of validate(),
\* kept in different places, agree after rounding and padding.
PreparedFitsPolicy ==
  file # NoFile /\ ~edited =>
    Validate([DefaultPolicy EXCEPT !.allowed_templates = {file.template_id},
                                   !.allowed_program_ids = {file.program_ids[1]}],
             file, TRUE, FALSE, FALSE, 0, FALSE)

\* Every call returns, whatever the RPC node answers and even if the transaction
\* never lands, as long as slots go by: at the latest when the blockhash expires.
CallsReturn == \A c \in Calls : (call[c].pc \in Waiting) ~> (call[c].pc \in Returned)

\* What README.md says of sending.
\* "inside the same bounded slot window": a participant's action executes no
\* later than the window's last slot.
ExecutedInsideWindow ==
  \A c \in DOMAIN landed : landed[c] <= call[c].window.end
=============================================================================
