---------------------------- MODULE Coordinator ----------------------------
(***************************************************************************)
(* The off-chain coordinator of one round                                  *)
(* (crates/mirror-pool-coordinator/src/lib.rs) over its SQLite store       *)
(* (crates/mirror-pool-store/src/lib.rs).                                  *)
(*                                                                         *)
(* A request is a handler in flight.  Its pc names the await, or the call  *)
(* into the database, it is at; between two of them the handler runs       *)
(* alone.  The store mutex of a process is held from the first database    *)
(* call of a request to its last.  Processes opened on the same file have  *)
(* a mutex each and share only the database, whose transactions are        *)
(* atomic and durable.                                                     *)
(*                                                                         *)
(* A ticket stands for its commitment, which covers all of it.  A Merkle   *)
(* root stands for the set of commitments it was built from: build sorts   *)
(* them, so the root is a function of that set.                            *)
(***************************************************************************)
EXTENDS Integers, Sequences, FiniteSets

CONSTANTS
  Procs,          \* coordinator processes (or Store users) on one database
  Reqs,           \* request slots; each is used once
  Tickets,        \* the tickets clients submit
  Key,            \* coordination_public_key of each ticket
  Expiry,         \* expiry_slot of each ticket
  Genuine,        \* tickets with the right schema, binding and signature
  Minimum,        \* minimum_participants
  Maximum,        \* maximum_participants
  RatePerMinute,  \* requests_per_minute
  Windows,        \* <<release, end>> pairs schedule_release is called with
  Inputs,         \* what each request may ask, and of whom: a set of
                  \* [proc, kind, arg]
  I64Max,         \* largest SQLite integer
  MaxSlot         \* bound on the RPC clock

ASSUME TicketAssumption ==
  /\ Genuine \subseteq Tickets
  /\ DOMAIN Key = Tickets
  /\ Expiry \in [Tickets -> Nat]
  /\ IsFiniteSet(Tickets)

\* Somebody serves the round, and "free" names no request.
ASSUME ProcessAssumption ==
  /\ IsFiniteSet(Procs) /\ Procs # {}
  /\ "free" \notin Reqs

Kinds == {"ticket", "seal", "proof", "schedule"}

NoRoot == {}        \* no cohort_roots row: a root has at least one leaf
NoWindow == <<>>    \* no release_schedules row
NoProc == "none"    \* a request that was not sent

ASSUME InputAssumption ==
  Inputs \in [Reqs -> SUBSET
    (     [proc : Procs, kind : {"ticket", "proof"}, arg : Tickets]
     \cup [proc : Procs, kind : {"seal"}, arg : {NoWindow}]
     \cup [proc : Procs, kind : {"schedule"}, arg : Windows])]

ASSUME ConfigAssumption ==
  /\ Minimum \in Nat /\ Maximum \in Nat /\ RatePerMinute \in Nat
  /\ Windows \subseteq Nat \X Nat /\ I64Max \in Nat /\ MaxSlot \in Nat

VARIABLES
  slot,      \* the confirmed slot the RPC node reports
  request,   \* handlers by request slot
  mutex,     \* the request holding each process's store mutex, or "free"
  rate,      \* RateState of each process
  tickets,   \* join_tickets rows
  root,      \* cohort_roots row: the leaves of the root, or NoRoot
  proofs,    \* cohort_proofs rows: a commitment and the root in its stored proof
  schedule,  \* release_schedules row, or NoWindow
  events     \* immutable_events rows

store == <<tickets, root, proofs, schedule, events>>
vars == <<slot, request, mutex, rate, tickets, root, proofs, schedule, events>>

-----------------------------------------------------------------------------
(* Requests                                                                *)

\* idle: not sent.  slot: awaiting the RPC slot.  rate: awaiting check_rate.
\* store: awaiting the store mutex.  write: holding it, before the last
\* database call.  reply: outcome decided, response not yet delivered.
\* done: delivered.  lost: the client will never hear.
Pcs == {"idle", "slot", "rate", "store", "write", "reply", "done", "lost"}

\* "refused" is every error after which a client knows no more than before:
\* RpcClock (503), RateLimited (429), InvalidTicket (400), CohortFull (409),
\* ProofNotFound (404), ThresholdNotReached and the other store errors (500),
\* and the 408 of the timeout layer.
Replies == {"none", "accepted", "duplicate", "sealed", "proof", "scheduled",
            "conflict", "refused"}

Idle == [kind |-> "ticket", proc |-> NoProc,
         arg |-> NoWindow, slot |-> 0, pc |-> "idle", reply |-> "none",
         root |-> NoRoot, late |-> FALSE]

At(q, kind, pc) == request[q].kind = kind /\ request[q].pc = pc
Owner(q) == request[q].proc

\* Keys are unique per round and commitments are unique.
Clashes(t) == \E u \in tickets : Key[u] = Key[t]

\* A client calls a process.  Only a ticket is checked before the store.  Whether it
\* had expired by then is kept for the properties.
Send(q, input) ==
  /\ request[q].pc = "idle"
  /\ request' = [request EXCEPT ![q] =
       [Idle EXCEPT !.kind = input.kind, !.proc = input.proc, !.arg = input.arg,
                    !.pc = IF input.kind = "ticket" THEN "slot" ELSE "store",
                    !.late = input.kind = "ticket" /\ slot >= Expiry[input.arg]]]
  /\ UNCHANGED <<slot, mutex, rate, store>>

GoTo(q, pc) == request' = [request EXCEPT ![q].pc = pc]

\* A reply carries a root (seal), a proof against one (proof) or none; the
\* handler's locals are gone with it.
AnswerRoot(q, reply, r) ==
  request' = [request EXCEPT ![q] =
    [@ EXCEPT !.pc = "reply", !.reply = reply, !.root = r, !.slot = 0]]
Answer(q, reply) == AnswerRoot(q, reply, NoRoot)

\* Nobody hears the reply.
Lost(q) == [request[q] EXCEPT !.pc = "lost", !.reply = "none", !.root = NoRoot,
                              !.slot = 0]

Free(q) == mutex[Owner(q)] = "free"
Lock(q) == mutex' = [mutex EXCEPT ![Owner(q)] = q]
\* Mutant: the guard outlives the request.
UnlockNever(q) == UNCHANGED mutex
Unlock(q) == mutex' = [mutex EXCEPT ![Owner(q)] = "free"]

FreshRate == [window_over |-> FALSE, accepted |-> 0]

Init ==
  /\ slot = 0
  /\ request = [q \in Reqs |-> Idle]
  /\ mutex = [c \in Procs |-> "free"]
  /\ rate = [c \in Procs |-> FreshRate]
  /\ tickets = {} /\ root = NoRoot /\ proofs = {}
  /\ schedule = NoWindow /\ events = <<>>

-----------------------------------------------------------------------------
(* POST /v1/tickets                                                        *)

\* slot_source.current_slot().await, before anything else is checked.
ReadSlot(q) ==
  /\ At(q, "ticket", "slot")
  /\ \/ request' = [request EXCEPT ![q] = [@ EXCEPT !.slot = slot, !.pc = "rate"]]
     \/ Answer(q, "refused")
  /\ UNCHANGED <<slot, mutex, rate, store>>

\* RateState after check_rate has restarted a window that is over.
CurrentRate(c) == IF rate[c].window_over THEN FreshRate ELSE rate[c]

\* Mutant: off by one.
RateSpentLate(now) == now.accepted > RatePerMinute
RateSpent(now) == now.accepted >= RatePerMinute

\* Mutant: off by one.
VerifiesAtExpiry(q) ==
  /\ request[q].arg \in Genuine
  /\ request[q].slot <= Expiry[request[q].arg]
Verifies(q) ==
  /\ request[q].arg \in Genuine
  /\ request[q].slot < Expiry[request[q].arg]

\* check_rate, then verify with the slot read earlier.  A ticket that does not
\* verify has used up its share of the rate all the same.
CheckRateAndVerify(q) ==
  LET now == CurrentRate(Owner(q)) IN
  /\ At(q, "ticket", "rate")
  /\ IF RateSpent(now)
     THEN /\ Answer(q, "refused")
          /\ rate' = [rate EXCEPT ![Owner(q)] = now]
     ELSE /\ IF Verifies(q) THEN GoTo(q, "store") ELSE Answer(q, "refused")
          /\ rate' = [rate EXCEPT ![Owner(q)] =
                        [now EXCEPT !.accepted = @ + 1]]
  /\ UNCHANGED <<slot, mutex, store>>

\* Mutant: one more than the maximum.
HasRoomAtMax == Cardinality(tickets) <= Maximum
HasRoom == Cardinality(tickets) < Maximum

\* store.lock().await, then ticket_count against the maximum.
CountTickets(q) ==
  /\ At(q, "ticket", "store")
  /\ Free(q)
  /\ IF HasRoom THEN GoTo(q, "write") /\ Lock(q)
                ELSE Answer(q, "refused") /\ UNCHANGED mutex
  /\ UNCHANGED <<slot, rate, store>>

\* Mutant: the ticket is acknowledged without its transaction being committed.
InsertTicketUncommitted(t) == UNCHANGED <<tickets, events>>
\* Mutant: the event is left for later.
InsertTicketSilently(t) == tickets' = tickets \cup {t} /\ UNCHANGED events
\* The transaction of accept_ticket: the row and its event.
InsertTicket(t) ==
  /\ tickets' = tickets \cup {t}
  /\ events' = Append(events, [kind |-> "ticket_accepted", payload |-> {t}])

\* accept_ticket: the uniqueness constraints decide.
AcceptTicket(q) ==
  LET t == request[q].arg IN
  /\ At(q, "ticket", "write")
  /\ Unlock(q)
  /\ IF Clashes(t) THEN Answer(q, "duplicate") /\ UNCHANGED <<tickets, events>>
                   ELSE Answer(q, "accepted") /\ InsertTicket(t)
  /\ UNCHANGED <<slot, rate, root, proofs, schedule>>

-----------------------------------------------------------------------------
(* POST /v1/cohort/seal                                                    *)

\* Mutant: the root is computed again from the tickets there are now.
ReturnedRootRecomputed == tickets
ReturnedRoot == root

\* seal_cohort up to its transaction: an existing root is returned as it is.
LookUpRoot(q) ==
  /\ At(q, "seal", "store")
  /\ Free(q)
  /\ IF root # NoRoot
     THEN AnswerRoot(q, "sealed", ReturnedRoot) /\ UNCHANGED mutex
     ELSE GoTo(q, "write") /\ Lock(q)
  /\ UNCHANGED <<slot, rate, store>>

RootRowTaken == root # NoRoot

\* The proof of every leaf, against the root of these leaves.
ProofRows(leaves) == {[commitment |-> t, root |-> leaves] : t \in leaves}

BelowThreshold == Cardinality(tickets) < Minimum

\* The transaction of seal_cohort: threshold, tree, root row, every proof row
\* and the event, or nothing.  An empty tree is an error; the
\* root row fails on its primary key when another process has sealed since LookUpRoot.
SealCohort(q) ==
  /\ At(q, "seal", "write")
  /\ Unlock(q)
  /\ \/ /\ BelowThreshold \/ tickets = {} \/ RootRowTaken
        /\ Answer(q, "refused")
        /\ UNCHANGED <<root, proofs, events>>
     \/ /\ ~ (BelowThreshold \/ tickets = {} \/ RootRowTaken)
        /\ root' = tickets
        /\ proofs' = proofs \cup ProofRows(tickets)
        /\ events' = Append(events, [kind |-> "cohort_sealed", payload |-> tickets])
        /\ AnswerRoot(q, "sealed", tickets)
  /\ UNCHANGED <<slot, rate, tickets, schedule>>

-----------------------------------------------------------------------------
(* GET /v1/proofs/{commitment}, and Store::schedule_release                *)

StoredProof(t) == {row \in proofs : row.commitment = t}

\* The proof as it was stored: cohort_roots is not read.
ReadProof(q) ==
  /\ At(q, "proof", "store")
  /\ Free(q)
  /\ \/ \E row \in StoredProof(request[q].arg) : AnswerRoot(q, "proof", row.root)
     \/ StoredProof(request[q].arg) = {} /\ Answer(q, "refused")
  /\ UNCHANGED <<slot, mutex, rate, store>>

\* The SELECT of schedule_release: an identical schedule is accepted.
LookUpSchedule(q) ==
  /\ At(q, "schedule", "store")
  /\ Free(q)
  /\ \/ /\ schedule = NoWindow
        /\ GoTo(q, "write") /\ Lock(q)
     \/ /\ schedule # NoWindow
        /\ Answer(q, IF schedule = request[q].arg THEN "scheduled" ELSE "conflict")
        /\ UNCHANGED mutex
  /\ UNCHANGED <<slot, rate, store>>

\* Mutant: the primary key of release_schedules is missing.
ScheduleRowTakenNever == FALSE
ScheduleRowTaken == schedule # NoWindow

\* Its INSERT, outside any transaction: the primary key decides.
InsertSchedule(q) ==
  LET w == request[q].arg IN
  /\ At(q, "schedule", "write")
  /\ Unlock(q)
  /\ \/ /\ w[1] > I64Max \/ w[2] > I64Max \/ ScheduleRowTaken
        /\ Answer(q, "refused")
        /\ UNCHANGED schedule
     \/ /\ w[1] <= I64Max /\ w[2] <= I64Max /\ ~ScheduleRowTaken
        /\ schedule' = w
        /\ Answer(q, "scheduled")
  /\ UNCHANGED <<slot, rate, tickets, root, proofs, events>>

-----------------------------------------------------------------------------
(* What happens around the handlers                                        *)

\* SQLite reports an error (busy for longer than busy_timeout, disk full): the
\* statement or the whole transaction has no effect.
StoreFails(q) ==
  /\ \/ request[q].pc = "write"
     \/ request[q].pc = "store" /\ Free(q)
  /\ Answer(q, "refused")
  /\ mutex' = [mutex EXCEPT ![Owner(q)] = "free"]
  /\ UNCHANGED <<slot, rate, store>>

\* TimeoutLayer drops the handler's future, which can only be at an await.
Timeout(q) ==
  /\ request[q].pc \in {"slot", "rate", "store"}
  /\ Answer(q, "refused")
  /\ UNCHANGED <<slot, mutex, rate, store>>

Deliver(q) ==
  /\ request[q].pc = "reply"
  /\ GoTo(q, "done")
  /\ UNCHANGED <<slot, mutex, rate, store>>

\* The connection breaks before the response arrives.
LoseReply(q) ==
  /\ request[q].pc = "reply"
  /\ request' = [request EXCEPT ![q] = Lost(q)]
  /\ UNCHANGED <<slot, mutex, rate, store>>

\* A process dies and is started again: committed rows stay, an open
\* transaction is rolled back, RateState starts afresh.
CrashAndRestart(c) ==
  /\ request' = [q \in Reqs |->
       IF Owner(q) = c /\ request[q].pc \notin {"idle", "done", "lost"}
       THEN Lost(q) ELSE request[q]]
  /\ mutex' = [mutex EXCEPT ![c] = "free"]
  /\ rate' = [rate EXCEPT ![c] = FreshRate]
  /\ UNCHANGED <<slot, store>>

\* 60 seconds have passed since window_started, which makes a difference when
\* the window has counted a request.
MinutePasses(c) ==
  /\ rate[c].accepted > 0
  /\ rate' = [rate EXCEPT ![c].window_over = TRUE]
  /\ UNCHANGED <<slot, request, mutex, store>>

Tick ==
  /\ slot < MaxSlot
  /\ slot' = slot + 1
  /\ UNCHANGED <<request, mutex, rate, store>>

Client(q) == \E input \in Inputs[q] : Send(q, input)

\* The steps of a handler that needs nothing but the scheduler.
Handle(q) ==
  \/ ReadSlot(q) \/ CheckRateAndVerify(q) \/ AcceptTicket(q) \/ SealCohort(q)
  \/ InsertSchedule(q) \/ Deliver(q)

\* The steps that wait for the process's store mutex.
Acquire(q) ==
  CountTickets(q) \/ LookUpRoot(q) \/ ReadProof(q) \/ LookUpSchedule(q)

Next ==
  \/ \E q \in Reqs : \/ Client(q) \/ Handle(q) \/ Acquire(q)
                     \/ StoreFails(q) \/ Timeout(q) \/ LoseReply(q)
  \/ \E c \in Procs : CrashAndRestart(c) \/ MinutePasses(c)
  \/ Tick

Spec == Init /\ [][Next]_vars

\* The runtime polls every ready task, and tokio's Mutex hands itself to its
\* waiters in order.  No fairness of Timeout is used.
FairSpec ==
  /\ Spec
  /\ \A q \in Reqs : WF_vars(Handle(q)) /\ SF_vars(Acquire(q))

-----------------------------------------------------------------------------
(* Properties                                                              *)

\* Rows and handlers have the shapes above.
TypeOK ==
  /\ slot \in 0 .. MaxSlot
  /\ request \in [Reqs -> [kind : Kinds, proc : Procs \cup {NoProc},
                           arg : Tickets \cup Windows \cup {NoWindow},
                           slot : 0 .. MaxSlot, pc : Pcs, reply : Replies,
                           root : SUBSET Tickets, late : BOOLEAN]]
  /\ mutex \in [Procs -> Reqs \cup {"free"}]
  /\ rate \in [Procs -> [window_over : BOOLEAN, accepted : 0 .. RatePerMinute]]
  /\ tickets \subseteq Tickets /\ root \subseteq Tickets
  /\ proofs \subseteq [commitment : Tickets, root : SUBSET Tickets]
  /\ schedule \in Windows \cup {NoWindow}

\* A client that was told "accepted" has its ticket in the database, whatever
\* crashed since; one that was told "duplicate" has its key there, which is how
\* a client whose first answer was lost learns that it is in.
AnswersAreDurable ==
  \A q \in Reqs :
    At(q, "ticket", "done") =>
      /\ request[q].reply = "accepted" => request[q].arg \in tickets
      /\ request[q].reply = "duplicate" => Clashes(request[q].arg)

\* The count is checked under the mutex of one process only: each further
\* process can push the cohort over the maximum by at most one ticket.
OvershootBounded ==
  Cardinality(tickets) <= Maximum + Cardinality(Procs) - 1

AcceptedBefore(n) ==
  UNION {events[i].payload : i \in {j \in 1 .. n : events[j].kind = "ticket_accepted"}}

\* The event log is the history of the tables: every ticket has one event, a
\* root has one, and the root and the proofs are those of exactly the tickets
\* accepted before the cohort was sealed.
EventsTellTheTables ==
  /\ AcceptedBefore(Len(events)) = tickets
  /\ Len(events) = Cardinality(tickets) + IF root = NoRoot THEN 0 ELSE 1
  /\ proofs = ProofRows(root)
  /\ root # NoRoot =>
       \E i \in DOMAIN events : /\ events[i].kind = "cohort_sealed"
                                /\ AcceptedBefore(i) = root

\* Every seal request that is answered with a root, in any process and after any
\* number of retries and crashes, is answered with the same one, of a cohort that had
\* reached the threshold, and it is the root inside every stored proof that is served.
RootAnswersAgree ==
  \A q \in Reqs :
    request[q].reply \in {"sealed", "proof"} =>
      /\ request[q].root = root /\ Cardinality(root) >= Minimum
      /\ request[q].kind = "proof" => request[q].arg \in root

\* The root and the schedule are written once.
RowsAreImmutable ==
  [][/\ root # NoRoot => root' = root
     /\ schedule # NoWindow => schedule' = schedule]_vars

\* How far a client has come with its call.
CallState(v) ==
  CASE v.pc = "idle" -> "idle"
    [] v.pc \in {"slot", "rate", "store", "write"} -> "open"
    [] v.pc = "reply" -> "answered"
    [] v.pc = "done" -> "heard"
    [] v.pc = "lost" -> "lost"

CallOf(v) == [state |-> CallState(v), kind |-> v.kind, arg |-> v.arg,
              reply |-> v.reply, root |-> v.root]

Service ==
  INSTANCE CohortService WITH
    call    <- [q \in Reqs |-> CallOf(request[q])],
    members <- tickets,
    cohort  <- root,
    window  <- schedule,
    Limit   <- Maximum + Cardinality(Procs) - 1

\* To its clients the coordinator is one atomic service, although a handler waits
\* several times, processes share nothing but the database and crash: every call takes
\* effect once, whole, between being made and being answered, or never; what was
\* heard stays true; only genuine tickets get in, and one per key.
ServiceSpec == Service!Spec

\* Every request that was sent comes to an end without the timeout's help: the
\* store mutex is always handed back.
RequestsEnd ==
  \A q \in Reqs :
    request[q].pc \in {"slot", "rate", "store", "write", "reply"}
      ~> request[q].pc \in {"done", "lost"}

\* A ticket that had expired when its request was sent is never accepted by it,
\* however long the handler waits for its turn: the slot it is judged by is not
\* older than the request.
ExpiredIsRefused ==
  \A q \in Reqs : request[q].late => request[q].reply # "accepted"
=============================================================================
