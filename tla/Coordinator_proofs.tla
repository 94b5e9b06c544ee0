------------------------ MODULE Coordinator_proofs ------------------------
(***************************************************************************)
(* Proofs about the coordinator and its store, for every number of         *)
(* processes on the database, every set of requests and tickets and every  *)
(* policy.                                                                 *)
(***************************************************************************)
EXTENDS Coordinator, FiniteSetTheorems, TLAPS

-----------------------------------------------------------------------------
(* The inductive invariant                                                 *)
(*                                                                         *)
(* What a client was told can only be compared with the rows there are now *)
(* if every handler on its way to an answer carries what it already knows: *)
(* whose mutex it holds, and that an expired ticket never gets past the    *)
(* verification.                                                           *)

Request == [kind : Kinds, proc : Procs \cup {NoProc},
            arg : Tickets \cup Windows \cup {NoWindow},
            slot : 0 .. MaxSlot, pc : Pcs, reply : Replies,
            root : SUBSET Tickets, late : BOOLEAN]

\* A handler in flight is one of the calls of Inputs.
Called(v) ==
  v.pc # "idle" =>
    /\ v.proc \in Procs
    /\ v.kind \in {"ticket", "proof"} => v.arg \in Tickets
    /\ v.kind = "schedule" => v.arg \in Windows

\* Every answer a client has, or may still get, agrees with the rows.
Truthful(v) ==
  /\ v.pc \notin {"reply", "done"} => v.reply = "none"
  /\ v.reply = "accepted" => v.kind = "ticket" /\ v.arg \in tickets
  /\ v.reply = "duplicate" =>
       v.kind = "ticket" /\ \E u \in tickets : Key[u] = Key[v.arg]
  /\ v.reply \in {"sealed", "proof"} => v.root = root /\ root # NoRoot
  /\ v.reply = "sealed" => v.kind = "seal"
  /\ v.reply = "proof" => v.kind = "proof" /\ v.arg \in root

\* A ticket that was late when it was sent is stopped before the store.
Stopped(v) ==
  v.late =>
    /\ v.kind = "ticket" /\ v.arg \in Tickets
    /\ v.pc \in {"slot", "rate", "reply", "done", "lost"}
    /\ v.reply # "accepted"
    /\ slot >= Expiry[v.arg]
    /\ v.pc = "rate" => v.slot >= Expiry[v.arg]

Sound(v) == Called(v) /\ Truthful(v) /\ Stopped(v)

Holds(q) == request[q].pc = "write" => mutex[Owner(q)] = q

\* The root was built from a cohort that had reached the threshold, and every stored
\* proof is against it.
RootSound == /\ proofs = ProofRows(root)
             /\ root # NoRoot => Cardinality(root) >= Minimum

Inv ==
  /\ TypeOK
  /\ \A q \in Reqs : Sound(request[q]) /\ Holds(q)
  /\ RootSound

\* Rows are only added.
StoreGrows ==
  /\ tickets \subseteq tickets'
  /\ root # NoRoot => root' = root

LEMMA IdleSound == Idle \in Request /\ Idle.pc = "idle" /\ Idle.reply = "none" /\ ~ Idle.late
BY ConfigAssumption DEF Idle, Request, Kinds, NoProc, NoWindow, NoRoot, Pcs, Replies

LEMMA InitInv == Init => Inv
<1> SUFFICES ASSUME Init PROVE Inv
  OBVIOUS
<1>1. TypeOK
  BY IdleSound, ConfigAssumption DEF Init, TypeOK, Request, FreshRate, NoRoot
<1>2. \A q \in Reqs : request[q] = Idle
  BY DEF Init
<1>3. Sound(Idle)
  BY IdleSound DEF Sound, Called, Truthful, Stopped
<1> QED
  BY <1>1, <1>2, <1>3, IdleSound DEF Inv, Holds, RootSound, ProofRows, Init, NoRoot

\* Growing tables and a clock that does not go back keep what was sound.
LEMMA SoundStays ==
  ASSUME NEW v, Sound(v), StoreGrows, v.late => slot' >= Expiry[v.arg]
  PROVE  Sound(v)'
BY DEF Sound, Called, Truthful, Stopped, StoreGrows

\* A step of the handler of q that leaves the clock alone: the handlers of the
\* other requests are where they were, and stay sound.
LEMMA HandlerStep ==
  ASSUME Inv, NEW q \in Reqs, NEW v \in Request,
         request' = [request EXCEPT ![q] = v], slot' = slot,
         StoreGrows, Sound(v)',
         v.pc = "write" => mutex'[v.proc] = q,
         \A p \in Reqs \ {q} : request[p].pc = "write" =>
           mutex'[Owner(p)] = mutex[Owner(p)]
  PROVE  /\ request' \in [Reqs -> Request]
         /\ \A p \in Reqs : Sound(request[p])' /\ Holds(p)'
<1>1. request \in [Reqs -> Request]
  BY DEF Inv, TypeOK, Request
<1>2. request' \in [Reqs -> Request]
  BY <1>1
<1>3. ASSUME NEW p \in Reqs PROVE Sound(request[p])' /\ Holds(p)'
  <2>1. CASE p = q
    <3>1. request'[p] = v
      BY <1>1, <2>1
    <3> QED
      BY <2>1, <3>1 DEF Holds, Owner, Sound, Called, Truthful, Stopped
  <2>2. CASE p # q
    <3>1. request'[p] = request[p]
      BY <1>1, <2>2
    <3>2. Sound(request[p]) /\ Holds(p)
      BY DEF Inv
    <3>3. request[p].late => slot' >= Expiry[request[p].arg]
      BY <3>2 DEF Sound, Stopped
    <3>4. Sound(request[p])'
      BY <3>1, <3>2, <3>3, SoundStays DEF Sound, Called, Truthful, Stopped,
         StoreGrows
    <3>5. Holds(p)'
      BY <2>2, <3>1, <3>2 DEF Holds, Owner
    <3> QED
      BY <3>4, <3>5
  <2> QED
    BY <2>1, <2>2
<1> QED
  BY <1>2, <1>3

\* The mutexes that other handlers hold are not touched: a handler takes a free
\* one and gives back its own.
LEMMA OtherMutexes ==
  ASSUME Inv, NEW q \in Reqs, Owner(q) \in Procs, NEW m \in Reqs \cup {"free"},
         mutex' = [mutex EXCEPT ![Owner(q)] = m],
         Free(q) \/ request[q].pc = "write"
  PROVE  /\ mutex' \in [Procs -> Reqs \cup {"free"}]
         /\ mutex'[Owner(q)] = m
         /\ \A p \in Reqs \ {q} : request[p].pc = "write" =>
              mutex'[Owner(p)] = mutex[Owner(p)]
<1>1. mutex \in [Procs -> Reqs \cup {"free"}]
  BY DEF Inv, TypeOK
<1>2. mutex[Owner(q)] \in {"free", q}
  BY DEF Inv, Holds, Free
<1>3. ASSUME NEW p \in Reqs \ {q}, request[p].pc = "write"
      PROVE  mutex'[Owner(p)] = mutex[Owner(p)]
  <2>1. mutex[Owner(p)] = p
    BY <1>3 DEF Inv, Holds
  <2>2. Owner(p) # Owner(q)
    BY <1>2, <2>1, ProcessAssumption
  <2> QED
    BY <1>1, <2>2
<1> QED
  BY <1>1, <1>3

\* What the handler of q knows while it is on its way.
LEMMA HandlerFacts ==
  ASSUME Inv, NEW q \in Reqs
  PROVE  /\ request[q] \in Request /\ Sound(request[q])
         /\ request[q].pc # "idle" => Owner(q) \in Procs
         /\ tickets \subseteq Tickets /\ IsFiniteSet(tickets)
         /\ Cardinality(tickets) \in Nat
         /\ slot \in 0 .. MaxSlot /\ slot \in Nat
         /\ rate \in [Procs -> [window_over : BOOLEAN,
                                accepted : 0 .. RatePerMinute]]
<1>1. /\ request[q] \in Request /\ Sound(request[q])
      /\ tickets \subseteq Tickets /\ slot \in 0 .. MaxSlot
      /\ rate \in [Procs -> [window_over : BOOLEAN,
                             accepted : 0 .. RatePerMinute]]
  BY DEF Inv, TypeOK, Request
<1>2. IsFiniteSet(tickets) /\ Cardinality(tickets) \in Nat
  BY <1>1, TicketAssumption, FS_Subset, FS_CardinalityType
<1> QED
  BY <1>1, <1>2, ConfigAssumption DEF Sound, Called, Owner

\* The record an answer leaves behind.
LEMMA AnswerRecord ==
  ASSUME Inv, NEW q \in Reqs, request[q].pc # "idle",
         NEW reply \in Replies \ {"none"},
         NEW r \in SUBSET Tickets, AnswerRoot(q, reply, r),
         slot' = slot, StoreGrows,
         reply = "accepted" =>
           /\ request[q].kind = "ticket" /\ request[q].arg \in tickets'
           /\ ~ request[q].late,
         reply = "duplicate" =>
           /\ request[q].kind = "ticket"
           /\ \E u \in tickets' : Key[u] = Key[request[q].arg],
         reply \in {"sealed", "proof"} => r = root' /\ root' # NoRoot,
         reply = "sealed" => request[q].kind = "seal",
         reply = "proof" => request[q].kind = "proof" /\ request[q].arg \in root',
         \A p \in Reqs \ {q} : request[p].pc = "write" =>
           mutex'[Owner(p)] = mutex[Owner(p)]
  PROVE  /\ request' \in [Reqs -> Request]
         /\ \A p \in Reqs : Sound(request[p])' /\ Holds(p)'
<1>1. request[q] \in Request /\ Sound(request[q])
  BY HandlerFacts
<1>2. PICK v \in Request :
        /\ request' = [request EXCEPT ![q] = v]
        /\ v.pc = "reply" /\ v.reply = reply /\ v.root = r
        /\ v.kind = request[q].kind /\ v.arg = request[q].arg
        /\ v.proc = request[q].proc /\ v.late = request[q].late
  <2> DEFINE w == [request[q] EXCEPT !.pc = "reply", !.reply = reply,
                                     !.root = r, !.slot = 0]
  <2>1. 0 \in 0 .. MaxSlot /\ "reply" \in Pcs /\ reply \in Replies
    BY ConfigAssumption DEF Pcs
  <2>2. w \in Request
    BY <1>1, <2>1 DEF Request
  <2>3. /\ w.pc = "reply" /\ w.reply = reply /\ w.root = r
        /\ w.kind = request[q].kind /\ w.arg = request[q].arg
        /\ w.proc = request[q].proc /\ w.late = request[q].late
    BY <1>1 DEF Request
  <2>4. request' = [request EXCEPT ![q] = w]
    BY DEF AnswerRoot
  <2> HIDE DEF w
  <2> QED
    BY <2>2, <2>3, <2>4
<1>4. Called(v)'
  BY <1>1, <1>2 DEF Sound, Called
<1>5. Truthful(v)'
  BY <1>2 DEF Truthful
<1>6. Stopped(v)'
  BY <1>1, <1>2 DEF Sound, Stopped
<1>7. Sound(v)'
  BY <1>4, <1>5, <1>6 DEF Sound
<1> QED
  BY <1>2, <1>7, HandlerStep

\* A refusal tells nothing about the rows.
LEMMA Refused ==
  ASSUME Inv, NEW q \in Reqs, request[q].pc # "idle",
         NEW reply \in {"scheduled", "conflict", "refused"}, Answer(q, reply),
         slot' = slot, StoreGrows,
         \A p \in Reqs \ {q} : request[p].pc = "write" =>
           mutex'[Owner(p)] = mutex[Owner(p)]
  PROVE  /\ request' \in [Reqs -> Request]
         /\ \A p \in Reqs : Sound(request[p])' /\ Holds(p)'
<1>1. AnswerRoot(q, reply, {}) /\ {} \in SUBSET Tickets
  BY DEF Answer, NoRoot
<1>2. reply \in Replies \ {"none"} /\ reply \notin {"accepted", "duplicate", "sealed", "proof"}
  BY DEF Replies
<1> QED
  BY <1>1, <1>2, AnswerRecord

\* A handler goes on to its next await or database call.
LEMMA Continues ==
  ASSUME Inv, NEW q \in Reqs, request[q].pc # "idle",
         NEW pc \in {"rate", "store", "write"}, GoTo(q, pc),
         ~ request[q].late,
         slot' = slot, StoreGrows, request[q].reply = "none",
         pc = "write" => mutex'[Owner(q)] = q,
         \A p \in Reqs \ {q} : request[p].pc = "write" =>
           mutex'[Owner(p)] = mutex[Owner(p)]
  PROVE  /\ request' \in [Reqs -> Request]
         /\ \A p \in Reqs : Sound(request[p])' /\ Holds(p)'
<1>1. request[q] \in Request /\ Sound(request[q])
  BY HandlerFacts
<1>2. PICK v \in Request :
        /\ request' = [request EXCEPT ![q] = v]
        /\ v.pc = pc /\ v.reply = "none"
        /\ v.kind = request[q].kind /\ v.arg = request[q].arg
        /\ v.proc = request[q].proc /\ ~ v.late
  <2> DEFINE w == [request[q] EXCEPT !.pc = pc]
  <2>1. /\ w \in Request /\ w.pc = pc /\ w.reply = "none"
        /\ w.kind = request[q].kind /\ w.arg = request[q].arg
        /\ w.proc = request[q].proc /\ ~ w.late
    BY <1>1 DEF Request, Pcs
  <2>2. request' = [request EXCEPT ![q] = w]
    BY DEF GoTo
  <2> HIDE DEF w
  <2> QED
    BY <2>1, <2>2
<1>3. Sound(v)'
  BY <1>1, <1>2 DEF Sound, Called, Truthful, Stopped
<1> QED
  BY <1>2, <1>3, HandlerStep DEF Owner

\* The two halves of the invariant are put together again.
LEMMA Assemble ==
  ASSUME request' \in [Reqs -> Request],
         \A p \in Reqs : Sound(request[p])' /\ Holds(p)',
         slot' \in 0 .. MaxSlot,
         mutex' \in [Procs -> Reqs \cup {"free"}],
         rate' \in [Procs -> [window_over : BOOLEAN, accepted : 0 .. RatePerMinute]],
         tickets' \subseteq Tickets, root' \subseteq Tickets,
         schedule' \in Windows \cup {NoWindow}, RootSound'
  PROVE  Inv'
<1>1. proofs' \subseteq [commitment : Tickets, root : SUBSET Tickets]
  BY DEF RootSound, ProofRows
<1> QED
  BY <1>1 DEF Inv, TypeOK, Request

\* Steps that write nothing to the database.
LEMMA AssembleQuiet ==
  ASSUME Inv, UNCHANGED <<slot, store>>,
         request' \in [Reqs -> Request],
         \A p \in Reqs : Sound(request[p])' /\ Holds(p)',
         mutex' \in [Procs -> Reqs \cup {"free"}],
         rate' \in [Procs -> [window_over : BOOLEAN, accepted : 0 .. RatePerMinute]]
  PROVE  Inv'
<1>1. UNCHANGED <<slot, tickets, root, proofs, schedule>>
  BY DEF store
<1>2. RootSound'
  BY <1>1 DEF Inv, RootSound
<1> QED
  BY <1>1, <1>2, Assemble DEF Inv, TypeOK

LEMMA QuietGrows == ASSUME UNCHANGED store PROVE StoreGrows
BY DEF store, StoreGrows

LEMMA SendInv ==
  ASSUME Inv, NEW q \in Reqs, Client(q)
  PROVE  Inv'
<1>1. PICK input \in Inputs[q] : Send(q, input)
  BY DEF Client
<1>2. /\ input.proc \in Procs /\ input.kind \in Kinds
      /\ input.arg \in Tickets \cup Windows \cup {NoWindow}
      /\ input.kind \in {"ticket", "proof"} => input.arg \in Tickets
      /\ input.kind = "schedule" => input.arg \in Windows
  <2>1. input \in      [proc : Procs, kind : {"ticket", "proof"}, arg : Tickets]
                  \cup [proc : Procs, kind : {"seal"}, arg : {NoWindow}]
                  \cup [proc : Procs, kind : {"schedule"}, arg : Windows]
    BY <1>1, InputAssumption
  <2>2. CASE input \in [proc : Procs, kind : {"ticket", "proof"}, arg : Tickets]
    BY <2>2 DEF Kinds
  <2>3. CASE input \in [proc : Procs, kind : {"seal"}, arg : {NoWindow}]
    BY <2>3 DEF Kinds
  <2>4. CASE input \in [proc : Procs, kind : {"schedule"}, arg : Windows]
    BY <2>4 DEF Kinds
  <2> QED
    BY <2>1, <2>2, <2>3, <2>4
<1> DEFINE late == input.kind = "ticket" /\ slot >= Expiry[input.arg]
<1>3. PICK v \in Request :
        /\ request' = [request EXCEPT ![q] = v]
        /\ v.kind = input.kind /\ v.proc = input.proc /\ v.arg = input.arg
        /\ v.pc \in {"slot", "store"} /\ (v.pc = "slot" <=> input.kind = "ticket")
        /\ v.reply = "none" /\ v.late = late
  <2> DEFINE w == [Idle EXCEPT !.kind = input.kind, !.proc = input.proc,
                     !.arg = input.arg,
                     !.pc = IF input.kind = "ticket" THEN "slot" ELSE "store",
                     !.late = late]
  <2>1. late \in BOOLEAN
    OBVIOUS
  <2>2. request' = [request EXCEPT ![q] = w]
    BY <1>1 DEF Send
  <2> HIDE DEF late
  <2>3. w \in Request
    BY <1>2, <2>1, IdleSound DEF Request, Pcs
  <2>4. /\ w.kind = input.kind /\ w.proc = input.proc /\ w.arg = input.arg
        /\ w.pc = IF input.kind = "ticket" THEN "slot" ELSE "store"
        /\ w.reply = "none" /\ w.late = late
    BY IdleSound DEF Request
  <2> HIDE DEF w
  <2> QED
    BY <2>2, <2>3, <2>4
<1>4. UNCHANGED <<slot, mutex, rate, store>>
  BY <1>1 DEF Send
<1>5. Called(v)' /\ Truthful(v)'
  BY <1>2, <1>3 DEF Called, Truthful
<1>6. Stopped(v)'
  BY <1>2, <1>3, <1>4 DEF Stopped
<1>7. Sound(v)'
  BY <1>5, <1>6 DEF Sound
<1>8. /\ request' \in [Reqs -> Request]
      /\ \A p \in Reqs : Sound(request[p])' /\ Holds(p)'
  BY <1>3, <1>4, <1>7, QuietGrows, HandlerStep
<1> QED
  BY <1>4, <1>8, AssembleQuiet DEF Inv, TypeOK

LEMMA ReadSlotInv ==
  ASSUME Inv, NEW q \in Reqs, ReadSlot(q)
  PROVE  Inv'
<1>1. UNCHANGED <<slot, mutex, rate, store>> /\ StoreGrows
  BY QuietGrows DEF ReadSlot
<1>2. /\ request[q].kind = "ticket" /\ request[q].pc = "slot"
      /\ request[q] \in Request /\ Sound(request[q])
      /\ slot \in 0 .. MaxSlot
  BY HandlerFacts DEF ReadSlot, At
<1>3. CASE Answer(q, "refused")
  BY <1>1, <1>2, <1>3, Refused, AssembleQuiet DEF Inv, TypeOK
<1>4. CASE request' = [request EXCEPT ![q] = [@ EXCEPT !.slot = slot, !.pc = "rate"]]
  <2>1. PICK v \in Request :
          /\ request' = [request EXCEPT ![q] = v]
          /\ v.kind = "ticket" /\ v.proc = request[q].proc
          /\ v.arg = request[q].arg /\ v.pc = "rate" /\ v.slot = slot
          /\ v.reply = request[q].reply /\ v.late = request[q].late
    <3> DEFINE w == [request[q] EXCEPT !.slot = slot, !.pc = "rate"]
    <3>1. /\ w \in Request
          /\ w.kind = "ticket" /\ w.proc = request[q].proc
          /\ w.arg = request[q].arg /\ w.pc = "rate" /\ w.slot = slot
          /\ w.reply = request[q].reply /\ w.late = request[q].late
      BY <1>2 DEF Request, Pcs
    <3>2. request' = [request EXCEPT ![q] = w]
      BY <1>4
    <3> HIDE DEF w
    <3> QED
      BY <3>1, <3>2
  <2>2. Sound(v)'
    BY <1>1, <1>2, <2>1 DEF Sound, Called, Truthful, Stopped
  <2> QED
    BY <1>1, <2>1, <2>2, HandlerStep, AssembleQuiet DEF Inv, TypeOK
<1> QED
  BY <1>3, <1>4 DEF ReadSlot

LEMMA CheckRateAndVerifyInv ==
  ASSUME Inv, NEW q \in Reqs, CheckRateAndVerify(q)
  PROVE  Inv'
<1> DEFINE now == CurrentRate(Owner(q))
<1>1. /\ request[q].kind = "ticket" /\ request[q].pc = "rate"
      /\ UNCHANGED <<slot, mutex, store>> /\ StoreGrows
  BY QuietGrows DEF CheckRateAndVerify, At
<1>2. /\ request[q] \in Request /\ Sound(request[q]) /\ Owner(q) \in Procs
      /\ rate \in [Procs -> [window_over : BOOLEAN,
                             accepted : 0 .. RatePerMinute]]
  BY <1>1, HandlerFacts
<1>3. now \in [window_over : BOOLEAN, accepted : 0 .. RatePerMinute]
  BY <1>2, ConfigAssumption DEF CurrentRate, FreshRate
<1>4. rate' \in [Procs -> [window_over : BOOLEAN, accepted : 0 .. RatePerMinute]]
  <2>1. CASE RateSpent(now)
    BY <1>2, <1>3, <2>1 DEF CheckRateAndVerify
  <2>2. CASE ~ RateSpent(now)
    <3> HIDE DEF now
    <3>1. now.accepted + 1 \in 0 .. RatePerMinute
      BY <1>3, <2>2, ConfigAssumption DEF RateSpent
    <3>2. [now EXCEPT !.accepted = @ + 1] \in
            [window_over : BOOLEAN, accepted : 0 .. RatePerMinute]
      BY <1>3, <3>1
    <3>3. rate' = [rate EXCEPT ![Owner(q)] = [now EXCEPT !.accepted = @ + 1]]
      BY <2>2 DEF CheckRateAndVerify, now
    <3> QED
      BY <1>2, <3>2, <3>3
  <2> QED
    BY <2>1, <2>2
<1>5. CASE Answer(q, "refused")
  BY <1>1, <1>4, <1>5, Refused, AssembleQuiet DEF Inv, TypeOK
<1>6. CASE GoTo(q, "store") /\ Verifies(q)
  <2>1. request[q].arg \in Tickets /\ request[q].slot \in Nat
    BY <1>1, <1>2, ConfigAssumption DEF Sound, Called, Request
  <2>2. ~ request[q].late
    BY <1>1, <1>2, <1>6, <2>1, TicketAssumption DEF Sound, Stopped, Verifies
  <2>3. request[q].reply = "none"
    BY <1>1, <1>2 DEF Sound, Truthful
  <2> QED
    BY <1>1, <1>4, <1>6, <2>2, <2>3, Continues, AssembleQuiet DEF Inv, TypeOK
<1> QED
  BY <1>5, <1>6 DEF CheckRateAndVerify

\* A handler that has the mutex but nothing to write yet.
LEMMA LocksInv ==
  ASSUME Inv, NEW q \in Reqs, request[q].pc = "store", Free(q),
         GoTo(q, "write"), Lock(q), UNCHANGED <<slot, rate, store>>
  PROVE  Inv'
<1>1. /\ Owner(q) \in Procs /\ StoreGrows
      /\ ~ request[q].late /\ request[q].reply = "none"
  BY HandlerFacts, QuietGrows DEF Sound, Stopped, Truthful
<1>2. /\ mutex' \in [Procs -> Reqs \cup {"free"}]
      /\ mutex'[Owner(q)] = q
      /\ \A p \in Reqs \ {q} : request[p].pc = "write" =>
           mutex'[Owner(p)] = mutex[Owner(p)]
  BY <1>1, OtherMutexes DEF Lock
<1> QED
  BY <1>1, <1>2, Continues, AssembleQuiet DEF Inv, TypeOK

LEMMA CountTicketsInv ==
  ASSUME Inv, NEW q \in Reqs, CountTickets(q)
  PROVE  Inv'
<1>1. request[q].pc = "store" /\ Free(q) /\ UNCHANGED <<slot, rate, store>>
  BY DEF CountTickets, At
<1>2. CASE Answer(q, "refused") /\ UNCHANGED mutex
  BY <1>1, <1>2, QuietGrows, Refused, AssembleQuiet DEF Inv, TypeOK
<1> QED
  BY <1>1, <1>2, LocksInv DEF CountTickets

\* A handler that gives its mutex back.
LEMMA Unlocks ==
  ASSUME Inv, NEW q \in Reqs, request[q].pc = "write", Unlock(q)
  PROVE  /\ mutex' \in [Procs -> Reqs \cup {"free"}]
         /\ \A p \in Reqs \ {q} : request[p].pc = "write" =>
              mutex'[Owner(p)] = mutex[Owner(p)]
         /\ Owner(q) \in Procs /\ mutex[Owner(q)] = q
         /\ mutex'[Owner(q)] = "free"
         /\ ~ request[q].late
<1>1. Owner(q) \in Procs /\ ~ request[q].late /\ mutex[Owner(q)] = q
  BY HandlerFacts DEF Sound, Stopped, Inv, Holds
<1> QED
  BY <1>1, OtherMutexes DEF Unlock

LEMMA AcceptTicketInv ==
  ASSUME Inv, NEW q \in Reqs, AcceptTicket(q)
  PROVE  Inv'
<1> DEFINE t == request[q].arg
<1>1. /\ request[q].kind = "ticket" /\ request[q].pc = "write"
      /\ Unlock(q) /\ UNCHANGED <<slot, rate, root, proofs, schedule>>
  BY DEF AcceptTicket, At
<1>2. t \in Tickets /\ tickets \subseteq Tickets
  BY <1>1, HandlerFacts DEF Sound, Called
<1>3. RootSound'
  BY <1>1 DEF Inv, RootSound
<1>4. CASE Clashes(t) /\ Answer(q, "duplicate") /\ UNCHANGED tickets
  <2>1. StoreGrows
    BY <1>1, <1>4 DEF StoreGrows
  <2>2. AnswerRoot(q, "duplicate", {}) /\ {} \in SUBSET Tickets
        /\ "duplicate" \in Replies \ {"none"}
    BY <1>4 DEF Answer, NoRoot, Replies
  <2>3. \E u \in tickets' : Key[u] = Key[t]
    BY <1>4 DEF Clashes
  <2>4. /\ request' \in [Reqs -> Request]
        /\ \A p \in Reqs : Sound(request[p])' /\ Holds(p)'
    BY <1>1, <2>1, <2>2, <2>3, Unlocks, AnswerRecord
  <2> QED
    BY <1>1, <1>3, <1>4, <2>4, Unlocks, Assemble DEF Inv, TypeOK
<1>5. CASE Answer(q, "accepted") /\ tickets' = tickets \cup {t}
  <2>1. StoreGrows /\ tickets' \subseteq Tickets
    BY <1>1, <1>2, <1>5 DEF StoreGrows
  <2>2. AnswerRoot(q, "accepted", {}) /\ {} \in SUBSET Tickets
        /\ "accepted" \in Replies \ {"none"}
    BY <1>5 DEF Answer, NoRoot, Replies
  <2>3. /\ request' \in [Reqs -> Request]
        /\ \A p \in Reqs : Sound(request[p])' /\ Holds(p)'
    BY <1>1, <1>5, <2>1, <2>2, Unlocks, AnswerRecord
  <2> QED
    BY <1>1, <1>3, <1>5, <2>1, <2>3, Unlocks, Assemble DEF Inv, TypeOK
<1> QED
  BY <1>4, <1>5 DEF AcceptTicket, InsertTicket

LEMMA LookUpRootInv ==
  ASSUME Inv, NEW q \in Reqs, LookUpRoot(q)
  PROVE  Inv'
<1>1. /\ request[q].kind = "seal" /\ request[q].pc = "store" /\ Free(q)
      /\ UNCHANGED <<slot, rate, store>>
  BY DEF LookUpRoot, At
<1>2. CASE root # NoRoot
  <2>1. AnswerRoot(q, "sealed", root) /\ UNCHANGED mutex
        /\ "sealed" \in Replies \ {"none"} /\ root' = root
    BY <1>1, <1>2 DEF LookUpRoot, ReturnedRoot, Replies, store
  <2>2. root \in SUBSET Tickets
    BY DEF Inv, TypeOK
  <2>3. /\ request' \in [Reqs -> Request]
        /\ \A p \in Reqs : Sound(request[p])' /\ Holds(p)'
    BY <1>1, <1>2, <2>1, <2>2, QuietGrows, AnswerRecord
  <2> QED
    BY <1>1, <2>1, <2>3, AssembleQuiet DEF Inv, TypeOK
<1> QED
  BY <1>1, <1>2, LocksInv DEF LookUpRoot

LEMMA SealCohortInv ==
  ASSUME Inv, NEW q \in Reqs, SealCohort(q)
  PROVE  Inv'
<1>1. /\ request[q].kind = "seal" /\ request[q].pc = "write"
      /\ Unlock(q) /\ UNCHANGED <<slot, rate, tickets, schedule>>
  BY DEF SealCohort, At
<1>2. CASE Answer(q, "refused") /\ UNCHANGED <<root, proofs>>
  <2>1. StoreGrows /\ RootSound'
    BY <1>1, <1>2 DEF StoreGrows, Inv, RootSound
  <2> QED
    BY <1>1, <1>2, <2>1, Unlocks, Refused, Assemble DEF Inv, TypeOK
<1>3. CASE /\ ~ BelowThreshold /\ tickets # {} /\ ~ RootRowTaken
           /\ root' = tickets /\ proofs' = proofs \cup ProofRows(tickets)
           /\ AnswerRoot(q, "sealed", tickets)
  <2>1. tickets \in SUBSET Tickets /\ Cardinality(tickets) \in Nat
    BY HandlerFacts
  <2>2. root = NoRoot /\ proofs = {} /\ root' # NoRoot
    BY <1>3 DEF RootRowTaken, Inv, RootSound, ProofRows, NoRoot
  <2>3. StoreGrows /\ RootSound'
    <3>1. proofs' = ProofRows(root')
      BY <1>3, <2>2
    <3> QED
      BY <1>1, <1>3, <2>1, <2>2, <3>1, ConfigAssumption
         DEF StoreGrows, RootSound, BelowThreshold, ProofRows
  <2>4. "sealed" \in Replies \ {"none"}
    BY DEF Replies
  <2>5. /\ request' \in [Reqs -> Request]
        /\ \A p \in Reqs : Sound(request[p])' /\ Holds(p)'
    BY <1>1, <1>3, <2>1, <2>2, <2>3, <2>4, Unlocks, AnswerRecord
  <2> QED
    BY <1>1, <1>3, <2>1, <2>3, <2>5, Unlocks, Assemble DEF Inv, TypeOK
<1> QED
  BY <1>2, <1>3 DEF SealCohort

\* A stored proof that is found is of a member, against the root.
LEMMA ProofFound ==
  ASSUME Inv, NEW q \in Reqs, ReadProof(q)
  PROVE  \/ request[q].arg \in root /\ AnswerRoot(q, "proof", root)
         \/ Answer(q, "refused")
<1>1. ASSUME NEW row \in StoredProof(request[q].arg), AnswerRoot(q, "proof", row.root)
      PROVE  request[q].arg \in root /\ AnswerRoot(q, "proof", root)
  <2>1. row \in ProofRows(root) /\ row.commitment = request[q].arg
    BY DEF StoredProof, Inv, RootSound
  <2>2. row.commitment \in root /\ row.root = root
    BY <2>1 DEF ProofRows
  <2> QED
    BY <1>1, <2>1, <2>2
<1> QED
  BY <1>1 DEF ReadProof

LEMMA ReadProofInv ==
  ASSUME Inv, NEW q \in Reqs, ReadProof(q)
  PROVE  Inv'
<1>1. /\ request[q].kind = "proof" /\ request[q].pc = "store"
      /\ UNCHANGED <<slot, mutex, rate, store>> /\ StoreGrows
  BY QuietGrows DEF ReadProof, At
<1>2. CASE Answer(q, "refused")
  BY <1>1, <1>2, Refused, AssembleQuiet DEF Inv, TypeOK
<1>3. CASE request[q].arg \in root /\ AnswerRoot(q, "proof", root)
  <2>1. /\ request[q].arg \in root /\ root # NoRoot /\ root' = root
        /\ root \in SUBSET Tickets /\ "proof" \in Replies \ {"none"}
    BY <1>1, <1>3 DEF Inv, TypeOK, NoRoot, store, Replies
  <2>2. /\ request' \in [Reqs -> Request]
        /\ \A p \in Reqs : Sound(request[p])' /\ Holds(p)'
    BY <1>1, <1>3, <2>1, AnswerRecord
  <2> QED
    BY <1>1, <2>2, AssembleQuiet DEF Inv, TypeOK
<1> QED
  BY <1>2, <1>3, ProofFound

LEMMA LookUpScheduleInv ==
  ASSUME Inv, NEW q \in Reqs, LookUpSchedule(q)
  PROVE  Inv'
<1>1. request[q].pc = "store" /\ Free(q) /\ UNCHANGED <<slot, rate, store>>
  BY DEF LookUpSchedule, At
<1>2. ASSUME NEW reply \in {"scheduled", "conflict"}, Answer(q, reply),
             UNCHANGED mutex
      PROVE  Inv'
  BY <1>1, <1>2, QuietGrows, Refused, AssembleQuiet DEF Inv, TypeOK
<1> QED
  BY <1>1, <1>2, LocksInv DEF LookUpSchedule

LEMMA InsertScheduleInv ==
  ASSUME Inv, NEW q \in Reqs, InsertSchedule(q)
  PROVE  Inv'
<1>1. /\ request[q].kind = "schedule" /\ request[q].pc = "write"
      /\ Unlock(q) /\ UNCHANGED <<slot, rate, tickets, root, proofs>>
  BY DEF InsertSchedule, At
<1>2. StoreGrows /\ RootSound'
  BY <1>1 DEF StoreGrows, Inv, RootSound
<1>3. request[q].arg \in Windows
  BY <1>1, HandlerFacts DEF Sound, Called
<1>4. schedule' \in Windows \cup {NoWindow}
  BY <1>3 DEF InsertSchedule, Inv, TypeOK
<1>5. PICK reply \in {"scheduled", "refused"} : Answer(q, reply)
  BY DEF InsertSchedule
<1>6. /\ request' \in [Reqs -> Request]
      /\ \A p \in Reqs : Sound(request[p])' /\ Holds(p)'
  BY <1>1, <1>2, <1>5, Unlocks, Refused
<1> QED
  BY <1>1, <1>2, <1>4, <1>6, Unlocks, Assemble DEF Inv, TypeOK

\* A failed statement, a timeout and a refusal look the same to the client.
LEMMA StoreFailsInv ==
  ASSUME Inv, NEW q \in Reqs, StoreFails(q)
  PROVE  Inv'
<1>1. /\ request[q].pc \in {"write", "store"}
      /\ Free(q) \/ request[q].pc = "write"
      /\ Answer(q, "refused")
      /\ mutex' = [mutex EXCEPT ![Owner(q)] = "free"]
      /\ UNCHANGED <<slot, rate, store>>
  BY DEF StoreFails
<1>2. Owner(q) \in Procs
  BY <1>1, HandlerFacts
<1>3. /\ mutex' \in [Procs -> Reqs \cup {"free"}]
      /\ \A p \in Reqs \ {q} : request[p].pc = "write" =>
           mutex'[Owner(p)] = mutex[Owner(p)]
  BY <1>1, <1>2, OtherMutexes
<1> QED
  BY <1>1, <1>3, QuietGrows, Refused, AssembleQuiet DEF Inv, TypeOK

LEMMA TimeoutInv ==
  ASSUME Inv, NEW q \in Reqs, Timeout(q)
  PROVE  Inv'
<1>1. /\ request[q].pc # "idle" /\ Answer(q, "refused")
      /\ UNCHANGED <<slot, mutex, rate, store>>
  BY DEF Timeout
<1> QED
  BY <1>1, QuietGrows, Refused, AssembleQuiet DEF Inv, TypeOK

LEMMA DeliverInv ==
  ASSUME Inv, NEW q \in Reqs, Deliver(q)
  PROVE  Inv'
<1>1. /\ request[q].pc = "reply" /\ GoTo(q, "done")
      /\ UNCHANGED <<slot, mutex, rate, store>> /\ StoreGrows
  BY QuietGrows DEF Deliver
<1>2. request[q] \in Request /\ Sound(request[q])
  BY HandlerFacts
<1>3. PICK v \in Request :
        /\ request' = [request EXCEPT ![q] = v]
        /\ v.pc = "done" /\ v.kind = request[q].kind /\ v.arg = request[q].arg
        /\ v.proc = request[q].proc /\ v.reply = request[q].reply
        /\ v.root = request[q].root /\ v.late = request[q].late
  <2> DEFINE w == [request[q] EXCEPT !.pc = "done"]
  <2>1. w \in Request
    BY <1>2 DEF Request, Pcs
  <2>2. /\ w.pc = "done" /\ w.kind = request[q].kind /\ w.arg = request[q].arg
        /\ w.proc = request[q].proc /\ w.reply = request[q].reply
        /\ w.root = request[q].root /\ w.late = request[q].late
    BY <1>2 DEF Request
  <2>3. request' = [request EXCEPT ![q] = w]
    BY <1>1 DEF GoTo
  <2> HIDE DEF w
  <2> QED
    BY <2>1, <2>2, <2>3
<1>4. UNCHANGED <<slot, tickets, root>>
  BY <1>1 DEF store
<1>5. Sound(v)'
  BY <1>1, <1>2, <1>3, <1>4 DEF Sound, Called, Truthful, Stopped
<1> QED
  BY <1>1, <1>3, <1>5, HandlerStep, AssembleQuiet DEF Inv, TypeOK

\* What is left of a request nobody will hear of.
LEMMA LostRecord ==
  ASSUME Inv, NEW q \in Reqs, request[q].pc # "idle"
  PROVE  /\ Lost(q) \in Request
         /\ Lost(q).pc = "lost" /\ Lost(q).reply = "none"
         /\ Lost(q).kind = request[q].kind /\ Lost(q).arg = request[q].arg
         /\ Lost(q).proc = request[q].proc /\ Lost(q).late = request[q].late
<1>1. request[q] \in Request /\ 0 \in 0 .. MaxSlot
  BY HandlerFacts, ConfigAssumption
<1>2. "lost" \in Pcs /\ "none" \in Replies /\ NoRoot \in SUBSET Tickets
  BY DEF Pcs, Replies, NoRoot
<1>3. Lost(q) \in Request
  BY <1>1, <1>2 DEF Lost, Request
<1> QED
  BY <1>1, <1>3 DEF Lost, Request

LEMMA LostSound ==
  ASSUME Inv, NEW q \in Reqs, request[q].pc # "idle", slot' = slot,
         request'[q] = Lost(q)
  PROVE  Sound(request[q])' /\ Holds(q)'
<1>1. PICK v : v = request'[q]
  OBVIOUS
<1>2. Sound(request[q])
  BY HandlerFacts
<1>3. /\ v.pc = "lost" /\ v.reply = "none" /\ v.kind = request[q].kind
      /\ v.arg = request[q].arg /\ v.proc = request[q].proc
      /\ v.late = request[q].late
  BY <1>1, LostRecord
<1>4. Sound(v)'
  BY <1>2, <1>3 DEF Sound, Called, Truthful, Stopped
<1> QED
  BY <1>1, <1>3, <1>4 DEF Holds, Sound, Called, Truthful, Stopped

LEMMA LoseReplyInv ==
  ASSUME Inv, NEW q \in Reqs, LoseReply(q)
  PROVE  Inv'
<1>1. /\ request[q].pc = "reply" /\ request' = [request EXCEPT ![q] = Lost(q)]
      /\ UNCHANGED <<slot, mutex, rate, store>> /\ StoreGrows
  BY QuietGrows DEF LoseReply
<1>2. request \in [Reqs -> Request]
  BY DEF Inv, TypeOK, Request
<1>3. request'[q] = Lost(q)
  BY <1>1, <1>2
<1>4. PICK v \in Request : v = Lost(q)
  BY <1>1, LostRecord
<1>5. Sound(v)' /\ v.pc = "lost"
  BY <1>1, <1>3, <1>4, LostSound, LostRecord
     DEF Sound, Called, Truthful, Stopped
<1> QED
  BY <1>1, <1>4, <1>5, HandlerStep, AssembleQuiet DEF Inv, TypeOK

\* A crash frees the mutex and with it drops every handler that could hold it.
LEMMA CrashAndRestartInv ==
  ASSUME Inv, NEW c \in Procs, CrashAndRestart(c)
  PROVE  Inv'
<1> DEFINE Dropped(p) == Owner(p) = c /\ request[p].pc \notin {"idle", "done", "lost"}
<1>1. /\ UNCHANGED <<slot, store>> /\ StoreGrows
      /\ mutex' = [mutex EXCEPT ![c] = "free"]
      /\ rate' = [rate EXCEPT ![c] = FreshRate]
  BY QuietGrows DEF CrashAndRestart
<1>2. \A p \in Reqs : request'[p] = IF Dropped(p) THEN Lost(p) ELSE request[p]
  BY DEF CrashAndRestart
<1>3. request' \in [Reqs -> Request]
  <2>1. \A p \in Reqs : request'[p] \in Request
    BY <1>2, LostRecord, HandlerFacts
  <2>2. request' = [p \in Reqs |-> request'[p]]
    BY DEF CrashAndRestart
  <2> QED
    BY <2>1, <2>2
<1>4. ASSUME NEW p \in Reqs PROVE Sound(request[p])' /\ Holds(p)'
  <2>1. CASE Dropped(p)
    BY <1>1, <1>2, <2>1, LostSound
  <2>2. CASE ~ Dropped(p)
    <3>1. request'[p] = request[p]
      BY <1>2, <2>2
    <3>2. Sound(request[p]) /\ Holds(p)
      BY DEF Inv
    <3>3. UNCHANGED <<slot, tickets, root>>
      BY <1>1 DEF store
    <3>4. Sound(request[p])'
      BY <3>1, <3>2, <3>3 DEF Sound, Called, Truthful, Stopped
    <3>5. Holds(p)'
      <4>1. mutex \in [Procs -> Reqs \cup {"free"}]
        BY DEF Inv, TypeOK
      <4>2. request[p].pc = "write" => Owner(p) # c /\ Owner(p) \in Procs
        BY <2>2, HandlerFacts
      <4> QED
        BY <1>1, <3>1, <3>2, <4>1, <4>2 DEF Holds, Owner
    <3> QED
      BY <3>4, <3>5
  <2> QED
    BY <2>1, <2>2
<1>5. mutex' \in [Procs -> Reqs \cup {"free"}]
  BY <1>1 DEF Inv, TypeOK
<1>6. FreshRate \in [window_over : BOOLEAN, accepted : 0 .. RatePerMinute]
  BY ConfigAssumption DEF FreshRate
<1>7. rate' \in [Procs -> [window_over : BOOLEAN, accepted : 0 .. RatePerMinute]]
  BY <1>1, <1>6 DEF Inv, TypeOK
<1> QED
  BY <1>1, <1>3, <1>4, <1>5, <1>7, AssembleQuiet

\* Steps of no handler.
LEMMA UntouchedInv ==
  ASSUME Inv, UNCHANGED <<request, mutex, store>>,
         slot' \in 0 .. MaxSlot, slot' >= slot,
         rate' \in [Procs -> [window_over : BOOLEAN, accepted : 0 .. RatePerMinute]]
  PROVE  Inv'
<1>1. UNCHANGED <<tickets, root, proofs, schedule>>
  BY DEF store
<1>2. ASSUME NEW p \in Reqs PROVE Sound(request[p])' /\ Holds(p)'
  <2>1. Sound(request[p]) /\ Holds(p) /\ request'[p] = request[p]
    BY DEF Inv
  <2>2. request[p].late => slot' >= Expiry[request[p].arg]
    <3>1. slot \in Nat /\ slot' \in Nat
      BY ConfigAssumption DEF Inv, TypeOK
    <3> QED
      BY <2>1, <3>1, TicketAssumption DEF Sound, Stopped
  <2>3. Sound(request[p])'
    BY <1>1, <2>1, <2>2 DEF Sound, Called, Truthful, Stopped
  <2> QED
    BY <2>1, <2>3 DEF Holds, Owner
<1>3. RootSound'
  BY <1>1 DEF Inv, RootSound
<1>4. request' \in [Reqs -> Request]
  BY DEF Inv, TypeOK, Request
<1> QED
  BY <1>1, <1>2, <1>3, <1>4, Assemble DEF Inv, TypeOK

LEMMA NextInv == Inv /\ [Next]_vars => Inv'
<1> SUFFICES ASSUME Inv, [Next]_vars PROVE Inv'
  OBVIOUS
<1>1. ASSUME NEW q \in Reqs,
             \/ Client(q) \/ Handle(q) \/ Acquire(q)
             \/ StoreFails(q) \/ Timeout(q) \/ LoseReply(q)
      PROVE  Inv'
  BY <1>1, SendInv, ReadSlotInv, CheckRateAndVerifyInv, AcceptTicketInv,
     SealCohortInv, InsertScheduleInv, DeliverInv, CountTicketsInv,
     LookUpRootInv, ReadProofInv, LookUpScheduleInv, StoreFailsInv, TimeoutInv,
     LoseReplyInv DEF Handle, Acquire
<1>2. ASSUME NEW c \in Procs, MinutePasses(c) PROVE Inv'
  <2>1. rate' \in [Procs -> [window_over : BOOLEAN, accepted : 0 .. RatePerMinute]]
    BY <1>2 DEF MinutePasses, Inv, TypeOK
  <2>2. slot \in 0 .. MaxSlot /\ slot >= slot
    BY ConfigAssumption DEF Inv, TypeOK
  <2> QED
    BY <1>2, <2>1, <2>2, UntouchedInv DEF MinutePasses
<1>3. CASE Tick
  <2>1. slot' \in 0 .. MaxSlot /\ slot' >= slot
    BY <1>3, ConfigAssumption DEF Tick, Inv, TypeOK
  <2> QED
    BY <1>3, <2>1, UntouchedInv DEF Tick, Inv, TypeOK
<1>4. CASE UNCHANGED vars
  <2>1. slot \in 0 .. MaxSlot /\ slot >= slot
    BY ConfigAssumption DEF Inv, TypeOK
  <2> QED
    BY <1>4, <2>1, UntouchedInv DEF vars, store, Inv, TypeOK
<1> QED
  BY <1>1, <1>2, <1>3, <1>4, CrashAndRestartInv DEF Next

LEMMA Invariance == Spec => []Inv
<1> QED
  BY InitInv, NextInv, PTL DEF Spec

\* Every row, every handler and every rate counter keeps its type; no counter
\* exceeds requests_per_minute, over any number of windows and restarts.
THEOREM TypeCorrect == Spec => []TypeOK
<1>1. Inv => TypeOK
  BY DEF Inv
<1> QED
  BY <1>1, Invariance, PTL

\* What a client was told about its ticket stays true of the database through
\* every crash, retry, timeout and lost reply that follows.
THEOREM AnswersStayTrue == Spec => []AnswersAreDurable
<1>1. Inv => AnswersAreDurable
  BY DEF Inv, AnswersAreDurable, Sound, Truthful, At, Clashes
<1> QED
  BY <1>1, Invariance, PTL

\* All the processes on one database answer with one root, of a cohort that had
\* reached the threshold, whoever sealed it.
THEOREM OneRoot == Spec => []RootAnswersAgree
<1>1. Inv => RootAnswersAgree
  BY DEF Inv, RootAnswersAgree, Sound, Truthful, RootSound
<1> QED
  BY <1>1, Invariance, PTL

\* However long a handler waits for the RPC node, the rate lock or the store, a
\* ticket that had expired when it was sent is not accepted.
THEOREM LateIsRefused == Spec => []ExpiredIsRefused
<1>1. Inv => ExpiredIsRefused
  BY DEF Inv, ExpiredIsRefused, Sound, Stopped
<1> QED
  BY <1>1, Invariance, PTL

-----------------------------------------------------------------------------
(* What one step does to the tables                                        *)

\* Only these two transactions write to them and log an event.
TicketAdded(q) ==
  LET t == request[q].arg IN
  /\ AcceptTicket(q)
  /\ t \in Tickets /\ t \notin tickets
  /\ tickets' = tickets \cup {t}
  /\ events' = Append(events, [kind |-> "ticket_accepted", payload |-> {t}])
  /\ UNCHANGED <<root, proofs, schedule>>

CohortSealed ==
  /\ root = NoRoot /\ tickets # {}
  /\ root' = tickets
  /\ events' = Append(events, [kind |-> "cohort_sealed", payload |-> tickets])
  /\ UNCHANGED <<tickets, schedule>>

LEMMA StoreSteps ==
  ASSUME Inv, [Next]_vars
  PROVE  \/ \E q \in Reqs : TicketAdded(q)
         \/ CohortSealed
         \/ /\ UNCHANGED <<tickets, root, proofs, events>>
            /\ schedule # NoWindow => schedule' = schedule
<1> DEFINE Quiet == /\ UNCHANGED <<tickets, root, proofs, events>>
                    /\ schedule # NoWindow => schedule' = schedule
<1>1. ASSUME NEW q \in Reqs, AcceptTicket(q) PROVE TicketAdded(q) \/ Quiet
  <2>1. request[q].arg \in Tickets
    BY <1>1, HandlerFacts DEF Sound, Called, AcceptTicket, At
  <2> QED
    BY <1>1, <2>1 DEF AcceptTicket, InsertTicket, TicketAdded, Clashes
<1>2. ASSUME NEW q \in Reqs, SealCohort(q) PROVE CohortSealed \/ Quiet
  BY <1>2 DEF SealCohort, CohortSealed, RootRowTaken
<1>3. ASSUME NEW q \in Reqs, InsertSchedule(q) PROVE Quiet
  BY <1>3 DEF InsertSchedule, ScheduleRowTaken
<1>4. ASSUME UNCHANGED store PROVE Quiet
  BY <1>4 DEF store
<1>5. ASSUME NEW q \in Reqs,
             \/ Client(q) \/ Handle(q) \/ Acquire(q)
             \/ StoreFails(q) \/ Timeout(q) \/ LoseReply(q)
      PROVE  \/ AcceptTicket(q) \/ SealCohort(q) \/ InsertSchedule(q)
             \/ UNCHANGED store
  BY <1>5 DEF Client, Send, Handle, ReadSlot, CheckRateAndVerify, Deliver,
     Acquire, CountTickets, LookUpRoot, ReadProof, LookUpSchedule, StoreFails,
     Timeout, LoseReply
<1>6. (\E q \in Reqs : AcceptTicket(q) \/ SealCohort(q) \/ InsertSchedule(q))
      \/ UNCHANGED store
  BY <1>5 DEF Next, CrashAndRestart, MinutePasses, Tick, vars, store
<1> HIDE DEF Quiet
<1>7. (\E q \in Reqs : TicketAdded(q)) \/ CohortSealed \/ Quiet
  BY <1>1, <1>2, <1>3, <1>4, <1>6
<1> QED
  BY <1>7 DEF Quiet

\* A root or a schedule that was written is never written again, whichever
\* processes seal or schedule at the same time.
THEOREM RowsStay == Spec => RowsAreImmutable
<1>1. ASSUME Inv, [Next]_vars
      PROVE  /\ root # NoRoot => root' = root
             /\ schedule # NoWindow => schedule' = schedule
  BY <1>1, StoreSteps DEF TicketAdded, CohortSealed
<1>2. Inv /\ [Next]_vars =>
        [/\ root # NoRoot => root' = root
         /\ schedule # NoWindow => schedule' = schedule]_vars
  BY <1>1
<1> QED
  BY <1>2, Invariance, PTL DEF Spec, RowsAreImmutable

-----------------------------------------------------------------------------
(* How far the cohort can exceed the maximum                               *)
(*                                                                         *)
(* OvershootBounded is not inductive: a ticket that has been counted is    *)
(* not a row yet.  The processes whose mutex is held by such a ticket are  *)
(* counted with the rows.                                                  *)

Admitting == {c \in Procs : \E q \in Reqs : At(q, "ticket", "write") /\ Owner(q) = c}

AdmittedBounded ==
  Cardinality(tickets) + Cardinality(Admitting)
    <= Maximum + Cardinality(Procs) - 1

LEMMA AdmittingFinite ==
  /\ IsFiniteSet(Admitting) /\ Cardinality(Admitting) \in Nat
  /\ Cardinality(Admitting) <= Cardinality(Procs)
  /\ Cardinality(Procs) \in Nat /\ Cardinality(Procs) > 0
<1>1. Admitting \subseteq Procs
  BY DEF Admitting
<1>2. IsFiniteSet(Procs) /\ Cardinality(Procs) \in Nat
  BY ProcessAssumption, FS_CardinalityType
<1>3. Cardinality(Procs) # 0
  BY <1>2, ProcessAssumption, FS_EmptySet
<1> QED
  BY <1>1, <1>2, <1>3, FS_Subset, FS_CardinalityType

\* Only a handler that has just counted the rows comes to its transaction.
LEMMA WriterStep ==
  ASSUME Inv, [Next]_vars, NEW q \in Reqs, At(q, "ticket", "write")'
  PROVE  \/ request'[q] = request[q]
         \/ CountTickets(q) /\ HasRoom
<1>1. request \in [Reqs -> Request] /\ request[q] \in Request
  BY DEF Inv, TypeOK, Request
<1>2. request'[q].kind = "ticket" /\ request'[q].pc = "write"
  BY DEF At
<1>3. ASSUME NEW p \in Reqs, NEW v, request' = [request EXCEPT ![p] = v],
             p = q => v.pc # "write" \/ v.kind # "ticket"
      PROVE  request'[q] = request[q]
  BY <1>1, <1>2, <1>3
<1>4. ASSUME NEW p \in Reqs, NEW reply, NEW r, AnswerRoot(p, reply, r)
      PROVE  request'[q] = request[q]
  <2>1. request[p] \in Request
    BY <1>1
  <2>2. [request[p] EXCEPT !.pc = "reply", !.reply = reply, !.root = r,
                           !.slot = 0].pc # "write"
    BY <2>1 DEF Request
  <2> QED
    BY <1>3, <1>4, <2>2 DEF AnswerRoot
<1>5. ASSUME NEW p \in Reqs, NEW pc, GoTo(p, pc),
             pc # "write" \/ request[p].kind # "ticket"
      PROVE  request'[q] = request[q]
  <2>1. request[p] \in Request
    BY <1>1
  <2>2. /\ [request[p] EXCEPT !.pc = pc].pc = pc
        /\ [request[p] EXCEPT !.pc = pc].kind = request[p].kind
    BY <2>1 DEF Request
  <2> QED
    BY <1>3, <1>5, <2>2 DEF GoTo
<1>6. ASSUME NEW p \in Reqs,
             \/ Client(p) \/ Handle(p) \/ Acquire(p)
             \/ StoreFails(p) \/ Timeout(p) \/ LoseReply(p)
      PROVE  request'[q] = request[q] \/ (CountTickets(q) /\ HasRoom)
  <2>1. CASE Client(p)
    <3>1. PICK input \in Inputs[p] : Send(p, input)
      BY <2>1 DEF Client
    <3>2. [Idle EXCEPT !.kind = input.kind, !.proc = input.proc, !.arg = input.arg,
                    !.pc = IF input.kind = "ticket" THEN "slot" ELSE "store",
                    !.late = input.kind = "ticket" /\ slot >= Expiry[input.arg]].pc
            # "write"
      BY DEF Idle
    <3> QED
      BY <1>3, <3>1, <3>2 DEF Send
  <2>2. CASE ReadSlot(p)
    <3>1. request[p] \in Request
      BY <1>1
    <3>2. [request[p] EXCEPT !.slot = slot, !.pc = "rate"].pc # "write"
      BY <3>1 DEF Request
    <3> QED
      BY <1>3, <1>4, <2>2, <3>2 DEF ReadSlot, Answer
  <2>3. CASE CheckRateAndVerify(p)
    BY <1>4, <1>5, <2>3 DEF CheckRateAndVerify, Answer
  <2>4. CASE AcceptTicket(p) \/ SealCohort(p) \/ InsertSchedule(p)
    BY <1>4, <2>4 DEF AcceptTicket, SealCohort, InsertSchedule, Answer
  <2>5. CASE Deliver(p)
    BY <1>5, <2>5 DEF Deliver
  <2>6. CASE CountTickets(p)
    <3>1. CASE p = q
      BY <1>4, <2>6, <3>1 DEF CountTickets, Answer
    <3>2. CASE p # q
      BY <1>1, <1>4, <2>6, <3>2 DEF CountTickets, Answer, GoTo
    <3> QED
      BY <3>1, <3>2
  <2>7. CASE LookUpRoot(p) \/ LookUpSchedule(p)
    BY <1>4, <1>5, <2>7 DEF LookUpRoot, LookUpSchedule, Answer, At
  <2>8. CASE ReadProof(p) \/ StoreFails(p) \/ Timeout(p)
    BY <1>4, <2>8 DEF ReadProof, StoreFails, Timeout, Answer
  <2>9. CASE LoseReply(p)
    BY <1>3, <2>9, LostRecord DEF LoseReply
  <2> QED
    BY <1>6, <2>1, <2>2, <2>3, <2>4, <2>5, <2>6, <2>7, <2>8, <2>9
       DEF Handle, Acquire
<1>7. ASSUME NEW c \in Procs, CrashAndRestart(c) PROVE request'[q] = request[q]
  BY <1>2, <1>7, LostRecord DEF CrashAndRestart
<1> QED
  BY <1>6, <1>7 DEF Next, MinutePasses, Tick, vars

\* Between them, the rows and the tickets about to become rows exceed the
\* maximum by at most one for each process but the one that counted last.
LEMMA AdmittedStep ==
  ASSUME Inv, AdmittedBounded, [Next]_vars
  PROVE  AdmittedBounded'
<1>1. /\ IsFiniteSet(Admitting) /\ Cardinality(Admitting) \in Nat
      /\ Cardinality(Procs) \in Nat /\ Maximum \in Nat
  BY AdmittingFinite, ConfigAssumption
<1>2. /\ IsFiniteSet(Admitting') /\ Cardinality(Admitting') \in Nat
      /\ Cardinality(Admitting') <= Cardinality(Procs)
  <2>1. Admitting' \subseteq Procs
    BY DEF Admitting
  <2> QED
    BY <2>1, ProcessAssumption, FS_Subset, FS_CardinalityType
<1>3. IsFiniteSet(tickets) /\ Cardinality(tickets) \in Nat
  BY TicketAssumption, FS_Subset, FS_CardinalityType DEF Inv, TypeOK
<1>4. CASE \E q \in Reqs : CountTickets(q) /\ HasRoom
  <2>1. tickets' = tickets /\ Cardinality(tickets) < Maximum
    BY <1>4 DEF CountTickets, HasRoom, store
  <2> QED
    BY <1>1, <1>2, <1>3, <2>1 DEF AdmittedBounded
<1>5. CASE ~ \E q \in Reqs : CountTickets(q) /\ HasRoom
  <2>1. \A q \in Reqs : At(q, "ticket", "write")' => request'[q] = request[q]
    BY <1>5, WriterStep
  <2>2. Admitting' \subseteq Admitting
    BY <2>1 DEF Admitting, At, Owner
  <2>3. Cardinality(Admitting') <= Cardinality(Admitting)
    BY <1>1, <2>2, FS_Subset
  <2>4. ASSUME NEW q \in Reqs, TicketAdded(q) PROVE AdmittedBounded'
    <3> DEFINE c == Owner(q)
    <3>1. /\ c \in Procs /\ mutex[c] = q /\ c \in Admitting
          /\ Unlock(q) /\ request[q].pc = "write"
      BY <2>4, Unlocks DEF TicketAdded, AcceptTicket, At, Admitting
    <3>2. request'[q].pc = "reply"
      <4>1. request \in [Reqs -> Request] /\ request[q] \in Request
        BY DEF Inv, TypeOK, Request
      <4>2. PICK reply : AnswerRoot(q, reply, NoRoot)
        BY <2>4 DEF TicketAdded, AcceptTicket, Answer
      <4>3. request'[q] = [request[q] EXCEPT !.pc = "reply", !.reply = reply,
                                             !.root = NoRoot, !.slot = 0]
        BY <4>1, <4>2 DEF AnswerRoot
      <4> QED
        BY <4>1, <4>3 DEF Request
    <3>3. c \notin Admitting'
      <4>1. SUFFICES ASSUME NEW p \in Reqs, At(p, "ticket", "write")',
                            Owner(p)' = c
                     PROVE  FALSE
        BY DEF Admitting
      <4>2. request'[p] = request[p] /\ p # q
        BY <2>1, <3>2, <4>1 DEF At
      <4>3. mutex[c] = p
        BY <4>1, <4>2 DEF Inv, Holds, At, Owner
      <4> QED
        BY <3>1, <4>2, <4>3
    <3>4. Cardinality(Admitting') <= Cardinality(Admitting) - 1
      <4>1. /\ IsFiniteSet(Admitting \ {c})
            /\ Cardinality(Admitting \ {c}) = Cardinality(Admitting) - 1
        BY <1>1, <3>1, FS_RemoveElement
      <4>2. Admitting' \subseteq Admitting \ {c}
        BY <2>2, <3>3
      <4> QED
        BY <4>1, <4>2, FS_Subset
    <3>5. Cardinality(tickets') = Cardinality(tickets) + 1
      BY <1>3, <2>4, FS_AddElement DEF TicketAdded
    <3> QED
      BY <1>1, <1>2, <1>3, <3>4, <3>5 DEF AdmittedBounded
  <2>5. CASE tickets' = tickets
    BY <1>1, <1>2, <1>3, <2>3, <2>5 DEF AdmittedBounded
  <2> QED
    BY <2>4, <2>5, StoreSteps DEF CohortSealed
<1> QED
  BY <1>4, <1>5

\* The strengthened bound holds in every reachable state.
LEMMA PlacesBounded == Spec => []AdmittedBounded
<1>1. Init => AdmittedBounded
  <2> SUFFICES ASSUME Init PROVE AdmittedBounded
    OBVIOUS
  <2>1. Admitting = {} /\ tickets = {}
    BY IdleSound DEF Init, Admitting, At
  <2> QED
    BY <2>1, FS_EmptySet, AdmittingFinite, ConfigAssumption DEF AdmittedBounded
<1>2. Inv /\ AdmittedBounded /\ [Next]_vars => AdmittedBounded'
  BY AdmittedStep
<1> QED
  BY <1>1, <1>2, Invariance, PTL DEF Spec

\* For every number of processes on the database: each of them but one can push
\* the cohort over maximum_participants, by one ticket and no more, however
\* their counts and transactions interleave.
THEOREM OvershootIsBounded == Spec => []OvershootBounded
<1>1. Inv /\ AdmittedBounded => OvershootBounded
  <2> SUFFICES ASSUME Inv, AdmittedBounded PROVE OvershootBounded
    OBVIOUS
  <2>1. Cardinality(tickets) \in Nat
    BY TicketAssumption, FS_Subset, FS_CardinalityType DEF Inv, TypeOK
  <2> QED
    BY <2>1, AdmittingFinite, ConfigAssumption
       DEF AdmittedBounded, OvershootBounded
<1> QED
  BY <1>1, Invariance, PlacesBounded, PTL

-----------------------------------------------------------------------------
(* The event log                                                           *)

Event == [kind : {"ticket_accepted", "cohort_sealed"}, payload : SUBSET Tickets]

EventsInv == events \in Seq(Event) /\ EventsTellTheTables

\* An event does not change what was accepted before it.
LEMMA EarlierEvents ==
  ASSUME events \in Seq(Event), NEW e \in Event, events' = Append(events, e)
  PROVE  /\ events' \in Seq(Event) /\ Len(events') = Len(events) + 1
         /\ Len(events) \in Nat
         /\ \A i \in 1 .. Len(events) : events'[i] = events[i]
         /\ events'[Len(events) + 1] = e
         /\ \A n \in 0 .. Len(events) : AcceptedBefore(n)' = AcceptedBefore(n)
         /\ AcceptedBefore(Len(events))' =
              AcceptedBefore(Len(events)) \cup
                (IF e.kind = "ticket_accepted" THEN e.payload ELSE {})
<1>1. /\ events' \in Seq(Event) /\ Len(events') = Len(events) + 1
      /\ Len(events) \in Nat
      /\ \A i \in 1 .. Len(events) : events'[i] = events[i]
      /\ events'[Len(events) + 1] = e
  OBVIOUS
<1>2. \A n \in 0 .. Len(events) : AcceptedBefore(n)' = AcceptedBefore(n)
  BY <1>1 DEF AcceptedBefore
<1> DEFINE Accepted(ev, n) ==
      UNION {ev[i].payload : i \in {j \in 1 .. n : ev[j].kind = "ticket_accepted"}}
<1>3. Accepted(events', Len(events) + 1) =
        Accepted(events, Len(events)) \cup
          (IF e.kind = "ticket_accepted" THEN e.payload ELSE {})
  BY <1>1
<1> QED
  BY <1>1, <1>2, <1>3 DEF AcceptedBefore

LEMMA InitEvents == Init => EventsInv
<1> SUFFICES ASSUME Init PROVE EventsInv
  OBVIOUS
<1>1. events = <<>> /\ tickets = {} /\ root = NoRoot /\ proofs = ProofRows(root)
  BY DEF Init, NoRoot, ProofRows
<1>2. events \in Seq(Event) /\ Len(events) = 0
  BY <1>1
<1>3. AcceptedBefore(0) = {}
  BY DEF AcceptedBefore
<1> QED
  BY <1>1, <1>2, <1>3, FS_EmptySet DEF EventsInv, EventsTellTheTables

LEMMA EventsStep ==
  ASSUME Inv, EventsInv, [Next]_vars
  PROVE  EventsInv'
<1>1. /\ IsFiniteSet(tickets) /\ Cardinality(tickets) \in Nat
      /\ tickets \subseteq Tickets
  BY TicketAssumption, FS_Subset, FS_CardinalityType DEF Inv, TypeOK
<1>2. /\ events \in Seq(Event) /\ AcceptedBefore(Len(events)) = tickets
      /\ Len(events) = Cardinality(tickets) + IF root = NoRoot THEN 0 ELSE 1
      /\ proofs = ProofRows(root)
  BY DEF EventsInv, EventsTellTheTables
<1>3. (proofs = ProofRows(root))'
  BY NextInv DEF Inv, RootSound
<1>4. ASSUME NEW q \in Reqs, TicketAdded(q) PROVE EventsInv'
  <2> DEFINE t == request[q].arg
             e == [kind |-> "ticket_accepted", payload |-> {t}]
  <2>1. /\ t \in Tickets \ tickets /\ tickets' = tickets \cup {t}
        /\ events' = Append(events, e) /\ root' = root
    BY <1>4 DEF TicketAdded
  <2>2. PICK f \in Event : /\ f.kind = "ticket_accepted" /\ f.payload = {t}
                           /\ events' = Append(events, f)
    <3>1. e \in Event /\ e.kind = "ticket_accepted" /\ e.payload = {t}
      BY <2>1 DEF Event
    <3> HIDE DEF e
    <3> QED
      BY <2>1, <3>1
  <2>3. /\ events' \in Seq(Event) /\ Len(events') = Len(events) + 1
        /\ \A i \in 1 .. Len(events) : events'[i] = events[i]
        /\ \A n \in 0 .. Len(events) : AcceptedBefore(n)' = AcceptedBefore(n)
        /\ AcceptedBefore(Len(events))' = AcceptedBefore(Len(events)) \cup {t}
    BY <1>2, <2>2, EarlierEvents
  <2>4. (AcceptedBefore(Len(events)) = tickets)'
    BY <1>2, <2>1, <2>3 DEF AcceptedBefore
  <2>5. Cardinality(tickets') = Cardinality(tickets) + 1
    BY <1>1, <2>1, FS_AddElement
  <2>6. (root # NoRoot =>
           \E i \in DOMAIN events : /\ events[i].kind = "cohort_sealed"
                                    /\ AcceptedBefore(i) = root)'
    <3> SUFFICES ASSUME root # NoRoot
                 PROVE  \E i \in DOMAIN events' :
                          /\ events'[i].kind = "cohort_sealed"
                          /\ AcceptedBefore(i)' = root
      BY <2>1
    <3>1. PICK i \in DOMAIN events : /\ events[i].kind = "cohort_sealed"
                                     /\ AcceptedBefore(i) = root
      BY DEF EventsInv, EventsTellTheTables
    <3>2. i \in 1 .. Len(events) /\ i \in 0 .. Len(events) /\ i \in DOMAIN events'
      BY <1>2, <2>3, <3>1
    <3> QED
      BY <2>3, <3>1, <3>2
  <2> QED
    BY <1>1, <1>2, <1>3, <2>1, <2>3, <2>4, <2>5, <2>6
       DEF EventsInv, EventsTellTheTables
<1>5. CASE CohortSealed
  <2>1. PICK f \in Event : /\ f.kind = "cohort_sealed"
                           /\ events' = Append(events, f)
    <3> DEFINE e == [kind |-> "cohort_sealed", payload |-> tickets]
    <3>1. e \in Event /\ e.kind = "cohort_sealed"
      BY <1>1 DEF Event
    <3>2. events' = Append(events, e)
      BY <1>5 DEF CohortSealed
    <3> HIDE DEF e
    <3> QED
      BY <3>1, <3>2
  <2>2. /\ events' \in Seq(Event) /\ Len(events') = Len(events) + 1
        /\ Len(events) \in Nat
        /\ events'[Len(events) + 1] = f
        /\ AcceptedBefore(Len(events))' = AcceptedBefore(Len(events))
    BY <1>2, <2>1, EarlierEvents
  <2>3. /\ root = NoRoot /\ root' = tickets /\ tickets' = tickets
        /\ root' # NoRoot
    BY <1>5 DEF CohortSealed, NoRoot
  <2>4. (AcceptedBefore(Len(events)) = tickets)'
    BY <1>2, <2>2, <2>3 DEF AcceptedBefore
  <2>5. \E i \in DOMAIN events' : /\ events'[i].kind = "cohort_sealed"
                                  /\ AcceptedBefore(i)' = root'
    <3>1. Len(events) + 1 \in DOMAIN events'
      BY <2>2
    <3>2. PICK n \in DOMAIN events' : n = Len(events')
      BY <2>2, <3>1
    <3>3. AcceptedBefore(n)' = root'
      BY <2>3, <2>4, <3>2 DEF AcceptedBefore
    <3> QED
      BY <2>1, <2>2, <3>2, <3>3
  <2> QED
    BY <1>1, <1>2, <1>3, <2>2, <2>3, <2>4, <2>5
       DEF EventsInv, EventsTellTheTables
<1>6. CASE UNCHANGED <<tickets, root, proofs, events>>
  BY <1>6 DEF EventsInv, EventsTellTheTables, AcceptedBefore
<1> QED
  BY <1>4, <1>5, <1>6, StoreSteps

\* The event log and the tables are written in the same transactions, so the log
\* always tells which tickets there are, how many, and which of them the root
\* was built from.
THEOREM EventsAgree == Spec => []EventsTellTheTables
<1>1. EventsInv => EventsTellTheTables
  BY DEF EventsInv
<1>2. Inv /\ EventsInv /\ [Next]_vars => EventsInv'
  BY EventsStep
<1> QED
  BY <1>1, <1>2, InitEvents, Invariance, PTL DEF Spec

-----------------------------------------------------------------------------
(* The coordinator implements the service of CohortService                 *)
(*                                                                         *)
(* Every await and every lock is a stutter; a call takes effect in the one *)
(* step of its handler that answers it.  Two facts are needed beyond what  *)
(* was proved above: that a ticket at the store has been verified, and     *)
(* AdmittedBounded for the place of a ticket that was counted before.      *)

Verified(v) ==
  v.kind = "ticket" /\ v.pc \in {"store", "write"} => v.arg \in Genuine

AllVerified == \A q \in Reqs : Verified(request[q])

\* One handler changes; the calls of the others are what they were.
LEMMA OthersKept ==
  ASSUME Inv, NEW q \in Reqs, NEW v, request' = [request EXCEPT ![q] = v]
  PROVE  request'[q] = v /\ Service!Others(q)
<1>1. request \in [Reqs -> Request]
  BY DEF Inv, TypeOK, Request
<1>2. request'[q] = v /\ \A p \in Reqs \ {q} : request'[p] = request[p]
  BY <1>1
<1> QED
  BY <1>2 DEF Service!Others

\* The record of a handler that answers, and what its client sees.
LEMMA AnswerTells ==
  ASSUME Inv, NEW q \in Reqs, NEW reply, NEW r, AnswerRoot(q, reply, r),
         request[q].pc \in {"slot", "rate", "store", "write"}
  PROVE  /\ Service!Tell(q, request[q].kind, reply, r) /\ Service!Others(q)
         /\ request'[q].pc = "reply" /\ request'[q].kind = request[q].kind
<1>1. request[q] \in Request
  BY HandlerFacts
<1>2. PICK v : v = [request[q] EXCEPT !.pc = "reply", !.reply = reply,
                                      !.root = r, !.slot = 0]
  OBVIOUS
<1>3. /\ v.pc = "reply" /\ v.reply = reply /\ v.root = r
      /\ v.kind = request[q].kind /\ v.arg = request[q].arg
  BY <1>1, <1>2 DEF Request
<1>4. request'[q] = v /\ Service!Others(q)
  BY <1>2, OthersKept DEF AnswerRoot
<1>5. CallState(request[q]) = "open" /\ CallState(v) = "answered"
  BY <1>3 DEF CallState
<1>6. /\ CallOf(request[q]).state = "open" /\ CallOf(request[q]).kind = request[q].kind
      /\ CallOf(request[q]).arg = request[q].arg
  BY <1>5 DEF CallOf
<1>7. CallOf(v) = [state |-> "answered", kind |-> request[q].kind,
                   arg |-> request[q].arg, reply |-> reply, root |-> r]
  BY <1>3, <1>5 DEF CallOf
<1> QED
  BY <1>3, <1>4, <1>6, <1>7 DEF Service!Tell, Service!Come

\* A handler that goes on to its next await shows its client nothing.
LEMMA GoOnHidden ==
  ASSUME Inv, NEW q \in Reqs, NEW v, request' = [request EXCEPT ![q] = v],
         v.pc \in {"slot", "rate", "store", "write"},
         request[q].pc \in {"slot", "rate", "store", "write"},
         v.kind = request[q].kind, v.arg = request[q].arg,
         v.reply = request[q].reply, v.root = request[q].root
  PROVE  \A p \in Reqs : CallOf(request'[p]) = CallOf(request[p])
<1>1. request'[q] = v /\ Service!Others(q)
  BY OthersKept
<1>2. CallOf(v) = CallOf(request[q])
  BY DEF CallOf, CallState
<1> QED
  BY <1>1, <1>2 DEF Service!Others

LEMMA GoToHidden ==
  ASSUME Inv, NEW q \in Reqs, NEW pc \in {"slot", "rate", "store", "write"}, GoTo(q, pc),
         request[q].pc \in {"slot", "rate", "store", "write"}
  PROVE  \A p \in Reqs : CallOf(request'[p]) = CallOf(request[p])
<1>1. request[q] \in Request
  BY HandlerFacts
<1>2. PICK v : v = [request[q] EXCEPT !.pc = pc]
  OBVIOUS
<1>3. /\ v.pc = pc /\ v.kind = request[q].kind /\ v.arg = request[q].arg
      /\ v.reply = request[q].reply /\ v.root = request[q].root
  BY <1>1, <1>2 DEF Request
<1> QED
  BY <1>2, <1>3, GoOnHidden DEF GoTo

\* The service counts as the coordinator does.
LEMMA SameCount == \A S : Service!Cardinality(S) = Cardinality(S)
BY DEF Service!Cardinality, Cardinality

\* The service may stutter, or refuse a call: nothing but that call changes.
LEMMA StutterSeen ==
  ASSUME \A p \in Reqs : CallOf(request'[p]) = CallOf(request[p]), UNCHANGED store
  PROVE  UNCHANGED Service!vars
BY DEF Service!vars, store

LEMMA RefusalSeen ==
  ASSUME Inv, NEW q \in Reqs, Answer(q, "refused"),
         request[q].pc \in {"slot", "rate", "store", "write"},
         UNCHANGED <<tickets, root, schedule>>
  PROVE  Service!Next
<1>1. AnswerRoot(q, "refused", {})
  BY DEF Answer, NoRoot
<1>2. Service!Tell(q, request[q].kind, "refused", {}) /\ Service!Others(q)
  BY <1>1, AnswerTells
<1>3. request[q].kind = [p \in Reqs |-> CallOf(request[p])][q].kind
  BY DEF CallOf
<1>4. Service!Refuse(q)
  BY <1>2, <1>3 DEF Service!Refuse, Service!round
<1> QED
  BY <1>2, <1>4 DEF Service!Next, Service!Step

LEMMA SendSeen ==
  ASSUME Inv, NEW q \in Reqs, NEW input \in Inputs[q], Send(q, input)
  PROVE  Service!Next /\ Verified(request'[q])
<1>1. PICK v : /\ request' = [request EXCEPT ![q] = v]
               /\ v.pc \in {"slot", "store"} /\ v.reply = "none" /\ v.root = {}
               /\ v.kind = "ticket" => v.pc = "slot"
  <2> DEFINE w == [Idle EXCEPT !.kind = input.kind, !.proc = input.proc, !.arg = input.arg,
                     !.pc = IF input.kind = "ticket" THEN "slot" ELSE "store",
                     !.late = input.kind = "ticket" /\ slot >= Expiry[input.arg]]
  <2>1. /\ w.pc \in {"slot", "store"} /\ w.reply = "none" /\ w.root = {}
        /\ w.kind = "ticket" => w.pc = "slot"
    BY DEF Idle, NoRoot
  <2>2. request' = [request EXCEPT ![q] = w]
    BY DEF Send
  <2> HIDE DEF w
  <2> QED
    BY <2>1, <2>2
<1>2. request'[q] = v /\ Service!Others(q)
  BY <1>1, OthersKept
<1>3. CallState(v) = "open" /\ CallState(request[q]) = "idle"
  BY <1>1 DEF CallState, Send
<1>4. Service!Open(q)
  BY <1>1, <1>2, <1>3 DEF Service!Open, Service!round, CallOf, Send, store
<1> QED
  BY <1>1, <1>2, <1>4 DEF Service!Next, Service!Step, Verified

LEMMA ReadSlotSeen ==
  ASSUME Inv, NEW q \in Reqs, ReadSlot(q)
  PROVE  Service!Next \/ UNCHANGED Service!vars
<1>1. request[q].pc = "slot" /\ UNCHANGED store /\ UNCHANGED <<tickets, root, schedule>>
  BY DEF ReadSlot, At, store
<1>2. CASE Answer(q, "refused")
  BY <1>1, <1>2, RefusalSeen
<1>3. CASE request' = [request EXCEPT ![q] = [@ EXCEPT !.slot = slot, !.pc = "rate"]]
  <2>1. PICK v : v = [request[q] EXCEPT !.slot = slot, !.pc = "rate"]
    OBVIOUS
  <2>2. /\ v.pc = "rate" /\ v.kind = request[q].kind /\ v.arg = request[q].arg
        /\ v.reply = request[q].reply /\ v.root = request[q].root
    BY <2>1, HandlerFacts DEF Request
  <2>3. \A p \in Reqs : CallOf(request'[p]) = CallOf(request[p])
    BY <1>1, <1>3, <2>1, <2>2, GoOnHidden
  <2> QED
    BY <1>1, <2>3, StutterSeen
<1> QED
  BY <1>2, <1>3 DEF ReadSlot

LEMMA CheckSeen ==
  ASSUME Inv, NEW q \in Reqs, CheckRateAndVerify(q)
  PROVE  Service!Next \/ UNCHANGED Service!vars
<1>1. request[q].pc = "rate" /\ UNCHANGED store /\ UNCHANGED <<tickets, root, schedule>>
  BY DEF CheckRateAndVerify, At, store
<1>2. Answer(q, "refused") \/ GoTo(q, "store")
  BY DEF CheckRateAndVerify
<1> QED
  BY <1>1, <1>2, RefusalSeen, GoToHidden, StutterSeen

LEMMA CountTicketsSeen ==
  ASSUME Inv, NEW q \in Reqs, CountTickets(q)
  PROVE  Service!Next \/ UNCHANGED Service!vars
<1>1. request[q].pc = "store" /\ UNCHANGED store /\ UNCHANGED <<tickets, root, schedule>>
  BY DEF CountTickets, At, store
<1>2. Answer(q, "refused") \/ GoTo(q, "write")
  BY DEF CountTickets
<1> QED
  BY <1>1, <1>2, RefusalSeen, GoToHidden, StutterSeen

\* A ticket that was counted still has its place when it becomes a row.
LEMMA PlaceLeft ==
  ASSUME Inv, AdmittedBounded, NEW q \in Reqs, At(q, "ticket", "write")
  PROVE  Cardinality(tickets) < Maximum + Cardinality(Procs) - 1
<1>1. Owner(q) \in Admitting
  BY HandlerFacts DEF Admitting, At
<1>2. Cardinality(Admitting) \in Nat /\ Cardinality(Admitting) # 0
  BY <1>1, AdmittingFinite, FS_EmptySet
<1>3. Cardinality(tickets) \in Nat /\ Maximum \in Nat /\ Cardinality(Procs) \in Nat
  BY HandlerFacts, AdmittingFinite, ConfigAssumption
<1> QED
  BY <1>2, <1>3 DEF AdmittedBounded

LEMMA AcceptTicketSeen ==
  ASSUME Inv, AdmittedBounded, AllVerified, NEW q \in Reqs, AcceptTicket(q)
  PROVE  Service!Next
<1>1. At(q, "ticket", "write") /\ request[q].kind = "ticket" /\ request[q].pc = "write"
  BY DEF AcceptTicket, At
<1>2. request[q].arg \in Genuine
  BY <1>1 DEF AllVerified, Verified
<1>3. Cardinality(tickets) < Maximum + Cardinality(Procs) - 1
  BY <1>1, PlaceLeft
<1>4. [p \in Reqs |-> CallOf(request[p])][q].arg = request[q].arg
  BY DEF CallOf
<1>5. CASE Clashes(request[q].arg)
  <2>1. AnswerRoot(q, "duplicate", {}) /\ UNCHANGED <<tickets, root, schedule>>
    BY <1>5 DEF AcceptTicket, Answer, NoRoot
  <2>2. Service!Tell(q, "ticket", "duplicate", {}) /\ Service!Others(q)
    BY <1>1, <2>1, AnswerTells
  <2>3. Service!KeyTaken(request[q].arg)
    BY <1>5 DEF Clashes, Service!KeyTaken
  <2>4. Service!Duplicate(q)
    BY <1>2, <1>4, <2>1, <2>2, <2>3 DEF Service!Duplicate, Service!round
  <2> QED
    BY <2>2, <2>4 DEF Service!Next, Service!Step
<1>6. CASE ~Clashes(request[q].arg)
  <2>1. /\ AnswerRoot(q, "accepted", {}) /\ UNCHANGED <<root, schedule>>
        /\ tickets' = tickets \cup {request[q].arg}
    BY <1>6 DEF AcceptTicket, Answer, NoRoot, InsertTicket
  <2>2. Service!Tell(q, "ticket", "accepted", {}) /\ Service!Others(q)
    BY <1>1, <2>1, AnswerTells
  <2>3. ~Service!KeyTaken(request[q].arg)
    BY <1>6 DEF Clashes, Service!KeyTaken
  <2>4. Service!Accept(q)
    BY <1>2, <1>3, <1>4, <2>1, <2>2, <2>3, SameCount DEF Service!Accept
  <2> QED
    BY <2>2, <2>4 DEF Service!Next, Service!Step
<1> QED
  BY <1>5, <1>6

LEMMA LookUpRootSeen ==
  ASSUME Inv, NEW q \in Reqs, LookUpRoot(q)
  PROVE  Service!Next \/ UNCHANGED Service!vars
<1>1. request[q].kind = "seal" /\ request[q].pc = "store"
      /\ UNCHANGED store /\ UNCHANGED <<tickets, root, schedule>>
  BY DEF LookUpRoot, At, store
<1>2. CASE root = NoRoot
  <2>1. GoTo(q, "write")
    BY <1>2 DEF LookUpRoot
  <2> QED
    BY <1>1, <2>1, GoToHidden, StutterSeen
<1>3. CASE root # NoRoot
  <2>1. AnswerRoot(q, "sealed", root)
    BY <1>3 DEF LookUpRoot, ReturnedRoot
  <2>2. Service!Tell(q, "seal", "sealed", root) /\ Service!Others(q)
    BY <1>1, <2>1, AnswerTells
  <2>3. Service!SealAgain(q)
    BY <1>1, <1>3, <2>2 DEF Service!SealAgain, Service!round, NoRoot
  <2> QED
    BY <2>2, <2>3 DEF Service!Next, Service!Step
<1> QED
  BY <1>2, <1>3

LEMMA SealCohortSeen ==
  ASSUME Inv, NEW q \in Reqs, SealCohort(q)
  PROVE  Service!Next
<1>1. request[q].kind = "seal" /\ request[q].pc = "write" /\ UNCHANGED <<tickets, schedule>>
  BY DEF SealCohort, At
<1>2. CASE Answer(q, "refused") /\ UNCHANGED root
  BY <1>1, <1>2, RefusalSeen
<1>3. CASE /\ ~ (BelowThreshold \/ tickets = {} \/ RootRowTaken)
           /\ root' = tickets /\ AnswerRoot(q, "sealed", tickets)
  <2>1. Service!Tell(q, "seal", "sealed", tickets) /\ Service!Others(q)
    BY <1>1, <1>3, AnswerTells
  <2>2. root = {} /\ tickets # {} /\ Cardinality(tickets) >= Minimum
    <3>1. Cardinality(tickets) \in Nat /\ Minimum \in Nat
      BY HandlerFacts, ConfigAssumption
    <3> QED
      BY <1>3, <3>1 DEF BelowThreshold, RootRowTaken, NoRoot
  <2>3. Service!SealNew(q)
    BY <1>1, <1>3, <2>1, <2>2, SameCount DEF Service!SealNew
  <2> QED
    BY <2>1, <2>3 DEF Service!Next, Service!Step
<1> QED
  BY <1>2, <1>3 DEF SealCohort

LEMMA ReadProofSeen ==
  ASSUME Inv, NEW q \in Reqs, ReadProof(q)
  PROVE  Service!Next
<1>1. request[q].kind = "proof" /\ request[q].pc = "store" /\ UNCHANGED <<tickets, root, schedule>>
  BY DEF ReadProof, At, store
<1>2. CASE request[q].arg \in root /\ AnswerRoot(q, "proof", root)
  <2>2. Service!Tell(q, "proof", "proof", root) /\ Service!Others(q)
    BY <1>1, <1>2, AnswerTells
  <2>3. [p \in Reqs |-> CallOf(request[p])][q].arg = request[q].arg
    BY DEF CallOf
  <2>4. Service!Prove(q)
    BY <1>1, <1>2, <2>2, <2>3 DEF Service!Prove, Service!round
  <2> QED
    BY <2>2, <2>4 DEF Service!Next, Service!Step
<1>3. CASE Answer(q, "refused")
  BY <1>1, <1>3, RefusalSeen
<1> QED
  BY <1>2, <1>3, ProofFound

LEMMA LookUpScheduleSeen ==
  ASSUME Inv, NEW q \in Reqs, LookUpSchedule(q)
  PROVE  Service!Next \/ UNCHANGED Service!vars
<1>1. request[q].kind = "schedule" /\ request[q].pc = "store"
      /\ UNCHANGED store /\ UNCHANGED <<tickets, root, schedule>>
  BY DEF LookUpSchedule, At, store
<1>2. CASE schedule = NoWindow /\ GoTo(q, "write")
  BY <1>1, <1>2, GoToHidden, StutterSeen
<1>3. CASE /\ schedule # NoWindow
           /\ Answer(q, IF schedule = request[q].arg THEN "scheduled" ELSE "conflict")
  <2>1. PICK reply : /\ reply = IF schedule = request[q].arg THEN "scheduled" ELSE "conflict"
                     /\ AnswerRoot(q, reply, {})
    BY <1>3 DEF Answer, NoRoot
  <2>2. Service!Tell(q, "schedule", reply, {}) /\ Service!Others(q)
    BY <1>1, <2>1, AnswerTells
  <2>3. [p \in Reqs |-> CallOf(request[p])][q].arg = request[q].arg
    BY DEF CallOf
  <2>4. Service!ScheduleAgain(q)
    BY <1>1, <1>3, <2>1, <2>2, <2>3 DEF Service!ScheduleAgain, Service!round
  <2> QED
    BY <2>2, <2>4 DEF Service!Next, Service!Step
<1> QED
  BY <1>2, <1>3 DEF LookUpSchedule

LEMMA InsertScheduleSeen ==
  ASSUME Inv, NEW q \in Reqs, InsertSchedule(q)
  PROVE  Service!Next
<1>1. request[q].kind = "schedule" /\ request[q].pc = "write" /\ UNCHANGED <<tickets, root>>
  BY DEF InsertSchedule, At
<1>2. CASE Answer(q, "refused") /\ UNCHANGED schedule
  BY <1>1, <1>2, RefusalSeen
<1>3. CASE schedule = NoWindow /\ schedule' = request[q].arg /\ Answer(q, "scheduled")
  <2>1. AnswerRoot(q, "scheduled", {})
    BY <1>3 DEF Answer, NoRoot
  <2>2. Service!Tell(q, "schedule", "scheduled", {}) /\ Service!Others(q)
    BY <1>1, <2>1, AnswerTells
  <2>3. [p \in Reqs |-> CallOf(request[p])][q].arg = request[q].arg
    BY DEF CallOf
  <2>4. request[q].arg # NoWindow
    <3>1. request[q].arg \in Windows
      BY <1>1, HandlerFacts DEF Sound, Called
    <3>2. request[q].arg \in Nat \X Nat
      BY <3>1, ConfigAssumption
    <3>3. DOMAIN request[q].arg = 1 .. 2
      BY <3>2
    <3>4. 1 \in DOMAIN request[q].arg /\ 1 \notin DOMAIN NoWindow
      BY <3>3 DEF NoWindow
    <3> QED
      BY <3>4
  <2>5. Service!ScheduleNew(q)
    BY <1>1, <1>3, <2>2, <2>3, <2>4 DEF Service!ScheduleNew
  <2> QED
    BY <2>2, <2>5 DEF Service!Next, Service!Step
<1> QED
  BY <1>2, <1>3 DEF InsertSchedule, ScheduleRowTaken

LEMMA DeliverSeen ==
  ASSUME Inv, NEW q \in Reqs, Deliver(q)
  PROVE  Service!Next /\ request'[q].pc = "done"
<1>1. request[q].pc = "reply" /\ GoTo(q, "done") /\ UNCHANGED <<tickets, root, schedule>>
  BY DEF Deliver, store
<1>2. PICK v : v = [request[q] EXCEPT !.pc = "done"]
  OBVIOUS
<1>3. /\ v.pc = "done" /\ v.kind = request[q].kind /\ v.arg = request[q].arg
      /\ v.reply = request[q].reply /\ v.root = request[q].root
  BY <1>2, HandlerFacts DEF Request
<1>4. request'[q] = v /\ Service!Others(q)
  BY <1>1, <1>2, OthersKept DEF GoTo
<1>5. CallState(v) = "heard" /\ CallState(request[q]) = "answered"
  BY <1>1, <1>3 DEF CallState
<1>6. Service!Hear(q)
  BY <1>1, <1>3, <1>4, <1>5 DEF Service!Hear, Service!Come, Service!round, CallOf
<1> QED
  BY <1>3, <1>4, <1>6 DEF Service!Next, Service!Step

\* A lost call, as its client sees it.
LEMMA LostCall ==
  ASSUME Inv, NEW q \in Reqs,
         request[q].pc \in {"slot", "rate", "store", "write", "reply"}
  PROVE  /\ CallOf(request[q]).state \in {"open", "answered"}
         /\ CallOf(Lost(q)) = [state |-> "lost", kind |-> CallOf(request[q]).kind,
                               arg |-> CallOf(request[q]).arg, reply |-> "none",
                               root |-> {}]
<1>1. request[q] \in Request
  BY HandlerFacts
<1>2. /\ Lost(q).pc = "lost" /\ Lost(q).reply = "none" /\ Lost(q).root = {}
      /\ Lost(q).kind = request[q].kind /\ Lost(q).arg = request[q].arg
  BY <1>1 DEF Lost, Request, NoRoot
<1>3. CallState(Lost(q)) = "lost" /\ CallState(request[q]) \in {"open", "answered"}
  BY <1>2 DEF CallState
<1> QED
  BY <1>2, <1>3 DEF CallOf

LEMMA LossSeen ==
  ASSUME Inv, UNCHANGED <<tickets, root, schedule>>,
         \A p \in Reqs :
           \/ request'[p] = request[p]
           \/ /\ request'[p] = Lost(p)
              /\ request[p].pc \in {"slot", "rate", "store", "write", "reply"}
  PROVE  Service!Next
<1>1. ASSUME NEW p \in Reqs, request'[p] = Lost(p),
             request[p].pc \in {"slot", "rate", "store", "write", "reply"}
      PROVE  /\ CallOf(request[p]).state \in {"open", "answered"}
             /\ CallOf(request'[p])
                  = [state |-> "lost", kind |-> CallOf(request[p]).kind,
                     arg |-> CallOf(request[p]).arg, reply |-> "none", root |-> {}]
  BY <1>1, LostCall
<1>2. Service!Lose
  BY <1>1 DEF Service!Lose, Service!Come, Service!round
<1> QED
  BY <1>2 DEF Service!Next

\* Only CheckRateAndVerify sends a ticket on to the store.
LEMMA VerifiedStays ==
  ASSUME Inv, AllVerified, NEW q \in Reqs, NEW v,
         request' = [request EXCEPT ![q] = v], Verified(v)
  PROVE  AllVerified'
<1>1. request \in [Reqs -> Request]
  BY DEF Inv, TypeOK, Request
<1>2. \A p \in Reqs : request'[p] = IF p = q THEN v ELSE request[p]
  BY <1>1
<1> QED
  BY <1>2 DEF AllVerified, Verified

LEMMA VerifiedGoTo ==
  ASSUME Inv, AllVerified, NEW q \in Reqs, NEW pc, GoTo(q, pc),
         request[q].kind = "ticket" /\ pc \in {"store", "write"}
           => request[q].arg \in Genuine
  PROVE  AllVerified'
<1>1. PICK v : v = [request[q] EXCEPT !.pc = pc]
  OBVIOUS
<1>2. v.pc = pc /\ v.kind = request[q].kind /\ v.arg = request[q].arg
  BY <1>1, HandlerFacts DEF Request
<1>3. Verified(v)
  BY <1>2 DEF Verified
<1> QED
  BY <1>1, <1>3, VerifiedStays DEF GoTo

LEMMA VerifiedAnswer ==
  ASSUME Inv, AllVerified, NEW q \in Reqs, NEW reply, NEW r, AnswerRoot(q, reply, r)
  PROVE  AllVerified'
<1>1. PICK v : v = [request[q] EXCEPT !.pc = "reply", !.reply = reply, !.root = r, !.slot = 0]
  OBVIOUS
<1>2. v.pc = "reply"
  BY <1>1, HandlerFacts DEF Request
<1>3. Verified(v)
  BY <1>2 DEF Verified
<1> QED
  BY <1>1, <1>3, VerifiedStays DEF AnswerRoot

LEMMA VerifiedStep ==
  ASSUME Inv, AllVerified, [Next]_vars
  PROVE  AllVerified'
<1>1. ASSUME NEW q \in Reqs,
             \/ Client(q) \/ Handle(q) \/ Acquire(q)
             \/ StoreFails(q) \/ Timeout(q) \/ LoseReply(q)
      PROVE  AllVerified'
  <2>1. CASE Client(q)
    <3>1. PICK input \in Inputs[q] : Send(q, input)
      BY <2>1 DEF Client
    <3>2. PICK v : request' = [request EXCEPT ![q] = v]
      BY <3>1 DEF Send
    <3>3. request'[q] = v /\ Verified(request'[q])
      BY <3>1, <3>2, OthersKept, SendSeen
    <3> QED
      BY <3>2, <3>3, VerifiedStays
  <2>2. CASE ReadSlot(q)
    <3>1. PICK v : v = [request[q] EXCEPT !.slot = slot, !.pc = "rate"]
      OBVIOUS
    <3>2. v.pc = "rate"
      BY <3>1, HandlerFacts DEF Request
    <3>3. Verified(v)
      BY <3>2 DEF Verified
    <3> QED
      BY <2>2, <3>1, <3>3, VerifiedStays, VerifiedAnswer DEF ReadSlot, Answer
  <2>3. CASE CheckRateAndVerify(q)
    BY <2>3, VerifiedGoTo, VerifiedAnswer DEF CheckRateAndVerify, Verifies, Answer
  <2>4. CASE CountTickets(q)
    <3>1. request[q].arg \in Genuine
      BY <2>4 DEF CountTickets, At, AllVerified, Verified
    <3> QED
      BY <2>4, <3>1, VerifiedGoTo, VerifiedAnswer DEF CountTickets, Answer
  <2>5. CASE LookUpRoot(q) \/ LookUpSchedule(q)
    BY <2>5, VerifiedGoTo, VerifiedAnswer DEF LookUpRoot, LookUpSchedule, At, Answer
  <2>6. CASE \/ AcceptTicket(q) \/ SealCohort(q) \/ InsertSchedule(q)
             \/ ReadProof(q) \/ StoreFails(q) \/ Timeout(q)
    BY <2>6, VerifiedAnswer DEF AcceptTicket, SealCohort, InsertSchedule, ReadProof,
       StoreFails, Timeout, Answer
  <2>7. CASE Deliver(q)
    BY <2>7, VerifiedGoTo DEF Deliver
  <2>8. CASE LoseReply(q)
    <3>1. Verified(Lost(q))
      BY <2>8, LostRecord DEF LoseReply, Verified
    <3> QED
      BY <2>8, <3>1, VerifiedStays DEF LoseReply
  <2> QED
    BY <1>1, <2>1, <2>2, <2>3, <2>4, <2>5, <2>6, <2>7, <2>8 DEF Handle, Acquire
<1>2. ASSUME NEW c \in Procs, CrashAndRestart(c) PROVE AllVerified'
  <2> SUFFICES ASSUME NEW p \in Reqs PROVE Verified(request'[p])
    BY DEF AllVerified, Verified
  <2>1. request'[p] = request[p] \/ (request'[p] = Lost(p) /\ request[p].pc # "idle")
    BY <1>2 DEF CrashAndRestart
  <2> QED
    BY <2>1, LostRecord DEF AllVerified, Verified
<1>3. CASE UNCHANGED request
  BY <1>3 DEF AllVerified, Verified
<1> QED
  BY <1>1, <1>2, <1>3 DEF Next, MinutePasses, Tick, vars

\* Every step of the coordinator is a step of the service, or hidden from it.
LEMMA StepSeen ==
  ASSUME Inv, AdmittedBounded, AllVerified, [Next]_vars
  PROVE  Service!Next \/ UNCHANGED Service!vars
<1> DEFINE Seen == Service!Next \/ UNCHANGED Service!vars
<1>1. ASSUME NEW q \in Reqs, LoseReply(q) PROVE Seen
  <2>1. /\ request[q].pc = "reply" /\ request' = [request EXCEPT ![q] = Lost(q)]
        /\ UNCHANGED <<tickets, root, schedule>>
    BY <1>1 DEF LoseReply, store
  <2>2. request \in [Reqs -> Request]
    BY DEF Inv, TypeOK, Request
  <2>3. \A p \in Reqs : request'[p] = IF p = q THEN Lost(q) ELSE request[p]
    BY <2>1, <2>2
  <2> QED
    BY <2>1, <2>3, LossSeen
<1>2. ASSUME NEW c \in Procs, CrashAndRestart(c) PROVE Seen
  <2>1. UNCHANGED <<tickets, root, schedule>>
    BY <1>2 DEF CrashAndRestart, store
  <2>2. ASSUME NEW p \in Reqs
        PROVE  \/ request'[p] = request[p]
               \/ /\ request'[p] = Lost(p)
                  /\ request[p].pc \in {"slot", "rate", "store", "write", "reply"}
    <3>1. request[p].pc \in Pcs
      BY HandlerFacts DEF Request
    <3> QED
      BY <1>2, <3>1 DEF CrashAndRestart, Pcs
  <2> QED
    BY <2>1, <2>2, LossSeen
<1>3. ASSUME UNCHANGED <<request, store>> PROVE Seen
  BY <1>3, StutterSeen
<1>4. ASSUME NEW q \in Reqs, StoreFails(q) \/ Timeout(q) PROVE Seen
  <2>1. /\ request[q].pc \in {"slot", "rate", "store", "write"} /\ Answer(q, "refused")
        /\ UNCHANGED <<tickets, root, schedule>>
    BY <1>4 DEF StoreFails, Timeout, store
  <2> QED
    BY <2>1, RefusalSeen
<1>5. ASSUME NEW q \in Reqs, Client(q) \/ Handle(q) \/ Acquire(q) PROVE Seen
  BY <1>5, SendSeen, ReadSlotSeen, CheckSeen, AcceptTicketSeen, SealCohortSeen,
     InsertScheduleSeen, DeliverSeen, CountTicketsSeen, LookUpRootSeen, ReadProofSeen,
     LookUpScheduleSeen DEF Client, Handle, Acquire
<1> HIDE DEF Seen
<1>6. Seen
  BY <1>1, <1>2, <1>3, <1>4, <1>5 DEF Next, MinutePasses, Tick, vars, store
<1> QED
  BY <1>6 DEF Seen

LEMMA InitSeen == Init => AllVerified /\ Service!Init
<1> SUFFICES ASSUME Init PROVE AllVerified /\ Service!Init
  OBVIOUS
<1>1. \A q \in Reqs : request[q] = Idle
  BY DEF Init
<1>2. CallState(Idle) = "idle"
  BY IdleSound DEF CallState
<1>3. AllVerified
  BY <1>1, IdleSound DEF AllVerified, Verified
<1>4. Service!Init
  BY <1>1, <1>2 DEF Service!Init, CallOf, Init, NoRoot
<1> QED
  BY <1>3, <1>4

\* For every number of processes, requests and tickets, through every interleaving
\* of their awaits, every crash, timeout and lost reply, the coordinator and its
\* store are to their clients one service that takes a call in one step.
THEOREM ImplementsService == Spec => ServiceSpec
<1>1. Init => AllVerified /\ Service!Init
  BY InitSeen
<1>2. Inv /\ AdmittedBounded /\ AllVerified /\ [Next]_vars
        => AllVerified' /\ [Service!Next]_(Service!vars)
  BY VerifiedStep, StepSeen
<1> QED
  BY <1>1, <1>2, Invariance, PlacesBounded, PTL DEF Spec, ServiceSpec, Service!Spec

\* The service with its theorem, seen through the same mapping.
Proved ==
  INSTANCE CohortService_proofs WITH
    call    <- [q \in Reqs |-> CallOf(request[q])],
    members <- tickets,
    cohort  <- root,
    window  <- schedule,
    Limit   <- Maximum + Cardinality(Procs) - 1

\* What the service promises holds of the rows and the handlers: among others that
\* the members are genuine and of one key each, and that every "scheduled" or
\* "conflict" a client was told is true of the one release_schedules row.
THEOREM ClientsMayRely == Spec => []Service!Promises
<1>1. Maximum + Cardinality(Procs) - 1 \in Nat
  BY AdmittingFinite, ConfigAssumption
<1>2. Proved!Spec => []Proved!Promises
  BY <1>1, Proved!PromisesKept
<1>3. Service!Init => Proved!Init
  BY DEF Service!Init, Proved!Init
<1>4. [Service!Next]_(Service!vars) => [Proved!Next]_(Proved!vars)
  BY DEF Service!Next, Proved!Next, Service!vars, Proved!vars, Service!round, Proved!round,
     Service!Step, Proved!Step, Service!Others, Proved!Others, Service!Come, Proved!Come,
     Service!Tell, Proved!Tell, Service!KeyTaken, Proved!KeyTaken,
     Service!Open, Proved!Open, Service!Accept, Proved!Accept,
     Service!Duplicate, Proved!Duplicate, Service!SealNew, Proved!SealNew,
     Service!SealAgain, Proved!SealAgain, Service!Prove, Proved!Prove,
     Service!ScheduleNew, Proved!ScheduleNew, Service!ScheduleAgain, Proved!ScheduleAgain,
     Service!Refuse, Proved!Refuse, Service!Hear, Proved!Hear, Service!Lose, Proved!Lose,
     Service!Cardinality, Proved!Cardinality
<1>5. Proved!Promises => Service!Promises
  BY DEF Service!Promises, Proved!Promises, Service!AnswerTrue, Proved!AnswerTrue,
     Service!KeyTaken, Proved!KeyTaken, Service!Cardinality, Proved!Cardinality
<1> QED
  BY <1>2, <1>3, <1>4, <1>5, ImplementsService, PTL
     DEF ServiceSpec, Service!Spec, Proved!Spec

-----------------------------------------------------------------------------
(* Nobody waits for a mutex that nobody will give back                     *)
(*                                                                         *)
(* RequestsEnd needs fairness and stays with TLC.  What it rests on does   *)
(* not: a mutex that is taken is held by a handler of that process which   *)
(* is at its last database call, the call that gives the mutex back.       *)

HeldByWriter ==
  \A c \in Procs :
    mutex[c] # "free" =>
      /\ mutex[c] \in Reqs
      /\ request[mutex[c]].pc = "write" /\ request[mutex[c]].proc = c

\* Whoever holds a mutex after a step of q held it before, or is q at its last call.
MutexStep(q, v) ==
  \A c \in Procs : mutex'[c] # "free" =>
    \/ mutex'[c] = mutex[c] /\ mutex[c] # q
    \/ mutex'[c] = q /\ v.pc = "write" /\ v.proc = c

LEMMA HeldStays ==
  ASSUME Inv, HeldByWriter, NEW q \in Reqs, NEW v,
         request' = [request EXCEPT ![q] = v], MutexStep(q, v)
  PROVE  HeldByWriter'
<1>1. request \in [Reqs -> Request]
  BY DEF Inv, TypeOK, Request
<1>2. \A p \in Reqs : request'[p] = IF p = q THEN v ELSE request[p]
  BY <1>1
<1> SUFFICES ASSUME NEW c \in Procs, mutex'[c] # "free"
             PROVE  /\ mutex'[c] \in Reqs
                    /\ request'[mutex'[c]].pc = "write" /\ request'[mutex'[c]].proc = c
  BY DEF HeldByWriter
<1>3. CASE mutex'[c] = mutex[c] /\ mutex[c] # q
  BY <1>2, <1>3 DEF HeldByWriter
<1>4. CASE mutex'[c] = q /\ v.pc = "write" /\ v.proc = c
  BY <1>2, <1>4
<1> QED
  BY <1>3, <1>4 DEF MutexStep

\* A handler that does not touch its mutex holds none.
LEMMA HeldQuiet ==
  ASSUME Inv, HeldByWriter, NEW q \in Reqs, NEW v,
         request' = [request EXCEPT ![q] = v],
         UNCHANGED mutex, request[q].pc # "write"
  PROVE  HeldByWriter'
<1>1. \A c \in Procs : mutex'[c] = mutex[c] /\ mutex[c] # q
  BY ProcessAssumption DEF HeldByWriter
<1>2. MutexStep(q, v)
  BY <1>1 DEF MutexStep
<1> QED
  BY <1>2, HeldStays

LEMMA HeldLock ==
  ASSUME Inv, HeldByWriter, NEW q \in Reqs, request[q].pc = "store",
         GoTo(q, "write"), Lock(q)
  PROVE  HeldByWriter'
<1>1. PICK v : v = [request[q] EXCEPT !.pc = "write"]
  OBVIOUS
<1>2. v.pc = "write" /\ v.proc = Owner(q) /\ Owner(q) \in Procs
  BY <1>1, HandlerFacts DEF Request, Owner
<1>3. mutex \in [Procs -> Reqs \cup {"free"}]
  BY DEF Inv, TypeOK
<1>4. \A c \in Procs : mutex'[c] = IF c = Owner(q) THEN q ELSE mutex[c]
  BY <1>2, <1>3 DEF Lock
<1>5. \A c \in Procs : mutex[c] # q
  BY ProcessAssumption DEF HeldByWriter
<1>6. request' = [request EXCEPT ![q] = v]
  BY <1>1 DEF GoTo
<1>7. MutexStep(q, v)
  BY <1>2, <1>4, <1>5 DEF MutexStep
<1> QED
  BY <1>6, <1>7, HeldStays

LEMMA HeldUnlock ==
  ASSUME Inv, HeldByWriter, NEW q \in Reqs, Owner(q) \in Procs,
         NEW reply, NEW r, AnswerRoot(q, reply, r),
         mutex' = [mutex EXCEPT ![Owner(q)] = "free"]
  PROVE  HeldByWriter'
<1>1. PICK v : request' = [request EXCEPT ![q] = v]
  BY DEF AnswerRoot
<1>2. mutex \in [Procs -> Reqs \cup {"free"}]
  BY DEF Inv, TypeOK
<1>3. \A c \in Procs : mutex'[c] = IF c = Owner(q) THEN "free" ELSE mutex[c]
  BY <1>2
<1>4. \A c \in Procs : mutex[c] = q => c = Owner(q)
  BY ProcessAssumption DEF HeldByWriter, Owner
<1>5. MutexStep(q, v)
  BY <1>3, <1>4 DEF MutexStep
<1> QED
  BY <1>1, <1>5, HeldStays

LEMMA HeldStep ==
  ASSUME Inv, HeldByWriter, [Next]_vars
  PROVE  HeldByWriter'
<1>1. ASSUME NEW q \in Reqs, UNCHANGED mutex, NEW v, request' = [request EXCEPT ![q] = v],
             request[q].pc # "write"
      PROVE  HeldByWriter'
  BY <1>1, HeldQuiet
<1>2. ASSUME NEW q \in Reqs, UNCHANGED mutex,
             \E v : request' = [request EXCEPT ![q] = v], request[q].pc # "write"
      PROVE  HeldByWriter'
  BY <1>1, <1>2
<1>3. ASSUME NEW q \in Reqs,
             \/ Client(q) \/ ReadSlot(q) \/ CheckRateAndVerify(q) \/ ReadProof(q)
             \/ Timeout(q) \/ Deliver(q) \/ LoseReply(q)
      PROVE  HeldByWriter'
  <2>1. UNCHANGED mutex /\ request[q].pc # "write"
    BY <1>3 DEF Client, Send, ReadSlot, CheckRateAndVerify, ReadProof, Timeout, Deliver,
       LoseReply, At
  <2>2. \E v : request' = [request EXCEPT ![q] = v]
    BY <1>3 DEF Client, Send, ReadSlot, CheckRateAndVerify, ReadProof, Timeout, Deliver,
       LoseReply, Answer, AnswerRoot, GoTo
  <2> QED
    BY <1>2, <2>1, <2>2
<1>4. ASSUME NEW q \in Reqs, CountTickets(q) \/ LookUpRoot(q) \/ LookUpSchedule(q)
      PROVE  HeldByWriter'
  <2>1. /\ request[q].pc = "store"
        /\ \/ GoTo(q, "write") /\ Lock(q)
           \/ UNCHANGED mutex /\ \E reply, r : AnswerRoot(q, reply, r)
    BY <1>4 DEF CountTickets, LookUpRoot, LookUpSchedule, At, Answer
  <2>2. CASE GoTo(q, "write") /\ Lock(q)
    BY <2>1, <2>2, HeldLock
  <2>3. CASE UNCHANGED mutex /\ \E reply, r : AnswerRoot(q, reply, r)
    <3>1. \E v : request' = [request EXCEPT ![q] = v]
      BY <2>3 DEF AnswerRoot
    <3> QED
      BY <1>2, <2>1, <2>3, <3>1
  <2> QED
    BY <2>1, <2>2, <2>3
<1>5. ASSUME NEW q \in Reqs,
             AcceptTicket(q) \/ SealCohort(q) \/ InsertSchedule(q) \/ StoreFails(q)
      PROVE  HeldByWriter'
  <2>1. /\ request[q].pc # "idle" /\ mutex' = [mutex EXCEPT ![Owner(q)] = "free"]
        /\ \E reply, r : AnswerRoot(q, reply, r)
    BY <1>5 DEF AcceptTicket, SealCohort, InsertSchedule, StoreFails, At, Unlock, Answer
  <2>2. Owner(q) \in Procs
    BY <2>1, HandlerFacts
  <2> QED
    BY <2>1, <2>2, HeldUnlock
<1>6. ASSUME NEW c \in Procs, CrashAndRestart(c) PROVE HeldByWriter'
  <2>1. mutex \in [Procs -> Reqs \cup {"free"}]
    BY DEF Inv, TypeOK
  <2>2. \A d \in Procs : mutex'[d] = IF d = c THEN "free" ELSE mutex[d]
    BY <1>6, <2>1 DEF CrashAndRestart
  <2>3. \A p \in Reqs : request[p].proc # c => request'[p] = request[p]
    BY <1>6 DEF CrashAndRestart, Owner
  <2> QED
    BY <2>2, <2>3 DEF HeldByWriter
<1>7. CASE UNCHANGED <<request, mutex>>
  BY <1>7 DEF HeldByWriter
<1> QED
  BY <1>3, <1>4, <1>5, <1>6, <1>7 DEF Next, Handle, Acquire, MinutePasses, Tick, vars

\* Whatever crashed, timed out or failed before: the mutex of a process is free, or
\* its holder is one of that process's handlers and about to give it back.
THEOREM MutexComesBack == Spec => []HeldByWriter
<1>1. Init => HeldByWriter
  BY DEF Init, HeldByWriter
<1>2. Inv /\ HeldByWriter /\ [Next]_vars => HeldByWriter'
  BY HeldStep
<1> QED
  BY <1>1, <1>2, Invariance, PTL DEF Spec
=============================================================================
