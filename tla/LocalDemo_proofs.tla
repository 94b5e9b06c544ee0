------------------------- MODULE LocalDemo_proofs --------------------------
(***************************************************************************)
(* Proofs about the end-to-end demo, for any number of demos, ports,       *)
(* tickets and participants.                                               *)
(*                                                                         *)
(* The invariant is about one demo at a time: its locals x, the            *)
(* transaction t it waits for, its database f, the pool p and round r the  *)
(* chain holds for it, its executed memos m and the slot s.  A step of     *)
(* another demo leaves all of them alone, unless it ends the validator     *)
(* both use, which takes p, r and t away together.                         *)
(***************************************************************************)
EXTENDS LocalDemo, TLAPS

Early == {"store", "restart", "ports", "wait", "fund"}
Pcs == Early \cup {"slot", "send", "confirm", "poll", "check", "evidence", "ok", "err"}

Locals == {"pc", "root", "port", "stage", "polls", "funded", "deadline", "release",
           "expiry", "slots"}

\* The locals that matter for the argument.
IsDemo(x) ==
  /\ DOMAIN x = Locals
  /\ x.pc \in Pcs /\ x.stage \in Nat /\ x.funded \in BOOLEAN
  /\ x.release \in Nat /\ x.slots \in Seq(Nat)

\* Where in the script a demo can be, and that it waits for a transaction only at
\* confirm and while its ledger exists; one that failed may leave a transaction.
InScript(x, t) ==
  /\ t \in {"none", "pending", "landed", "failed"}
  /\ t # "none" => x.pc \in {"confirm", "err"} /\ x.funded
  /\ x.pc \in Early => ~x.funded /\ x.stage = 0
  /\ x.pc = "slot" => x.stage \in {2, 5} \cup Memos
  /\ x.pc \in {"send", "confirm"} => x.stage \in 1 .. 6 + Participants
  /\ x.pc = "poll" => x.stage = 6
  /\ x.pc \in {"check", "evidence", "ok"} => x.stage = 7 + Participants

At(x) == IF x.stage > 6 THEN 7 ELSE x.stage

Reached(x, t) == IF t = "landed" /\ At(x) < 7 THEN At(x) + 1 ELSE At(x)

\* The accounts after the first k - 1 transactions.
Holds(k, p, r) ==
  /\ k \in 1 .. 7
  /\ (k = 1) = (p.version = 0)
  /\ (k \in {1, 2}) = (r.version = 0)
  /\ k = 3 => r.state = "Registration"
  /\ k = 4 => r.state = "ThresholdReached"
  /\ k = 5 => r.state = "Sealed"
  /\ k = 6 => r.state = "ReleaseScheduled"
  /\ k = 7 => r.state = "ExecutionWindow"

\* The chain's side: without its ledger a demo has no accounts; with it they are
\* those of its stage, and the window of the round is the one the demo computed.
OnLedger(x, t, p, r) ==
  /\ DOMAIN p = DOMAIN Chain!ZeroPool /\ DOMAIN r = DOMAIN Chain!ZeroRound
  /\ p.version = 0 => r.version = 0
  /\ p.version # 0 => p.execution_window = WindowLength
  /\ ~x.funded => p.version = 0 /\ r = Chain!ZeroRound
  /\ x.funded => Holds(Reached(x, t), p, r)
  /\ x.funded /\ r.version # 0 /\ r.state \in {"ReleaseScheduled", "ExecutionWindow"} =>
       r.release_slot = x.release /\ r.window_end_slot = WindowEnd(x.release)

IsDb(f) ==
  /\ DOMAIN f = {"tickets", "root", "schedule"}
  /\ DOMAIN f.tickets = {1, 2} /\ f.root = [r \in {1, 2} |-> f.root[r]]

\* The store's side: the root of the first session survives the restart.
InStore(x, f) ==
  /\ IsDb(f)
  /\ x.pc = "store" => f.root[1] = {} /\ f.root[2] = {}
  /\ x.pc = "restart" => /\ f.tickets[1] = Joining[1] /\ f.tickets[2] = Joining[2]
                         /\ f.root[1] = Joining[1] /\ f.root[2] = {}
  /\ x.pc \notin {"store", "restart", "ok", "err"} => f.root = Joining
  /\ x.pc \notin {"store", "err"} \/ x.funded => x.root = Joining[1]

\* A memo executed in the window a demo computed.
Memo(release) ==
  [slot : Nat, state : {"ExecutionWindow"}, release : {release},
   end : {WindowEnd(release)}]

\* Read and executed in turns.
InTurns(slots, m) ==
  /\ Len(m) <= Len(slots)
  /\ \A i \in 1 .. Len(m) : /\ slots[i] <= m[i].slot
                            /\ i < Len(slots) => m[i].slot <= slots[i + 1]

\* A demo that counts its memos: one that failed has forgotten them.
Counting(x) == (x.funded /\ x.pc # "err") \/ x.pc \in {"evidence", "ok"}

\* The participants' side: one slot is read and one memo executed for each, in
\* this order; what is read is in the window and not later than the memo.
InReceipts(x, t, m, s) ==
  /\ m \in Seq(Memo(x.release))
  /\ x.stage < 7 => x.slots = <<>>
  /\ \A i \in 1 .. Len(x.slots) :
       x.slots[i] \in x.release .. WindowEnd(x.release) /\ x.slots[i] <= s
  /\ \A i \in 1 .. Len(m) : m[i].slot <= s
  /\ x.pc # "err" => InTurns(x.slots, m)
  /\ Counting(x) /\ x.stage >= 7 =>
       /\ Len(m) = IF t = "landed" THEN x.stage - 6 ELSE x.stage - 7
       /\ Len(x.slots) = IF x.pc \in {"send", "confirm"} THEN x.stage - 6
                                                         ELSE x.stage - 7

Sound(x, t, f, p, r, m, s) ==
  /\ IsDemo(x)
  /\ InScript(x, t)
  /\ OnLedger(x, t, p, r)
  /\ InStore(x, f)
  /\ InReceipts(x, t, m, s)

Inv ==
  /\ slot \in Nat
  /\ DOMAIN demo = Demos /\ DOMAIN tx = Demos /\ DOMAIN db = Demos
  /\ DOMAIN pool = Demos /\ DOMAIN memos = Demos /\ DOMAIN validator = Demos
  /\ DOMAIN round = Chain!Rounds
  /\ \A d \in Demos :
       Sound(demo[d], tx[d], db[d], pool[d], round[R(d)], memos[d], slot)

LEMMA RoundAddress ==
  ASSUME NEW d \in Demos
  PROVE  R(d) \in Chain!Rounds /\ R(d)[1] = d
BY DEF R, Chain!Rounds, Chain!RoundIds

\* Sound speaks of some of the locals only.
LEMMA SameLocals ==
  ASSUME NEW x, NEW y, NEW t, NEW f, NEW p, NEW r, NEW m, NEW s,
         Sound(x, t, f, p, r, m, s), DOMAIN y = DOMAIN x,
         y.pc = x.pc, y.root = x.root, y.stage = x.stage, y.funded = x.funded,
         y.release = x.release, y.slots = x.slots
  PROVE  Sound(y, t, f, p, r, m, s)
BY DEF Sound, IsDemo, InScript, OnLedger, InStore, Counting, InReceipts, Reached, At

\* A step of one demo.
LEMMA OneDemo ==
  ASSUME Inv, NEW d \in Demos,
         slot' = slot, DOMAIN demo' = Demos, DOMAIN tx' = Demos, DOMAIN db' = Demos,
         DOMAIN pool' = Demos, DOMAIN memos' = Demos, DOMAIN validator' = Demos,
         DOMAIN round' = Chain!Rounds,
         \A e \in Demos \ {d} :
           /\ demo'[e] = demo[e] /\ tx'[e] = tx[e] /\ db'[e] = db[e]
           /\ pool'[e] = pool[e] /\ round'[R(e)] = round[R(e)]
           /\ memos'[e] = memos[e],
         Sound(demo'[d], tx'[d], db'[d], pool'[d], round'[R(d)], memos'[d], slot)
  PROVE  Inv'
<1>1. \A e \in Demos : Sound(demo'[e], tx'[e], db'[e], pool'[e], round'[R(e)],
                             memos'[e], slot')
  <2> SUFFICES ASSUME NEW e \in Demos, e # d
               PROVE  Sound(demo'[e], tx'[e], db'[e], pool'[e], round'[R(e)],
                            memos'[e], slot)
    OBVIOUS
  <2>1. Sound(demo[e], tx[e], db[e], pool[e], round[R(e)], memos[e], slot)
    BY DEF Inv
  <2> QED
    BY <2>1
<1> QED
  BY <1>1 DEF Inv

-----------------------------------------------------------------------------
(* The steps of a demo                                                     *)

LEMMA EmptyDbFacts == IsDb(EmptyDb) /\ EmptyDb.root[1] = {} /\ EmptyDb.root[2] = {}
BY DEF IsDb, EmptyDb

LEMMA AcceptFacts ==
  ASSUME NEW f, IsDb(f), NEW r \in {1, 2}
  PROVE  LET g == AcceptTickets(f, r) IN
         /\ IsDb(g) /\ g.root = f.root /\ g.tickets[r] = Joining[r]
         /\ \A q \in {1, 2} \ {r} : g.tickets[q] = f.tickets[q]
BY DEF AcceptTickets, IsDb

LEMMA SealFacts ==
  ASSUME NEW f, IsDb(f), NEW r \in {1, 2}
  PROVE  LET g == SealCohort(f, r) IN
         /\ IsDb(g) /\ g.tickets = f.tickets
         /\ g.root[r] = IF f.root[r] = {} THEN f.tickets[r] ELSE f.root[r]
         /\ \A q \in {1, 2} \ {r} : g.root[q] = f.root[q]
<1>1. CASE f.root[r] = {}
  BY <1>1 DEF SealCohort, Rows, IsDb
<1>2. CASE f.root[r] # {}
  BY <1>2 DEF SealCohort, IsDb
<1> QED
  BY <1>1, <1>2

LEMMA FirstSessionInv ==
  ASSUME Inv, NEW d \in Demos, FirstSession(d)
  PROVE  Inv'
<1> DEFINE x == demo[d]
           y == demo'[d]
<1>1. Sound(x, tx[d], db[d], pool[d], round[R(d)], memos[d], slot)
  BY DEF Inv
<1>2. x.pc = "store" /\ IsDb(db[d]) /\ db[d].root[1] = {} /\ db[d].root[2] = {}
  BY <1>1 DEF FirstSession, Sound, InStore
<1>3. /\ IsDb(db'[d]) /\ y.root = Joining[1]
      /\ db'[d].tickets[1] = Joining[1] /\ db'[d].tickets[2] = Joining[2]
      /\ db'[d].root[1] = Joining[1] /\ db'[d].root[2] = {}
  <2> DEFINE f == AcceptTickets(db[d], 1)
             g == SealCohort(f, 1)
             h == [g EXCEPT !.schedule[1] = <<500, 504>>]
             k == AcceptTickets(h, 2)
  <2>1. /\ IsDb(f) /\ f.root = db[d].root /\ f.tickets[1] = Joining[1]
    BY <1>2, AcceptFacts
  <2>2. /\ IsDb(g) /\ g.tickets = f.tickets
        /\ g.root[1] = Joining[1] /\ g.root[2] = {}
    <3> HIDE DEF f
    <3> QED
      BY <1>2, <2>1, SealFacts
  <2>3. IsDb(h) /\ h.tickets = g.tickets /\ h.root = g.root
    <3> HIDE DEF g
    <3> QED
      BY <2>2 DEF IsDb
  <2>4. /\ IsDb(k) /\ k.root = h.root /\ k.tickets[2] = Joining[2]
        /\ k.tickets[1] = h.tickets[1]
    <3> HIDE DEF h
    <3> QED
      BY <2>3, AcceptFacts
  <2>5. db'[d] = k /\ y.root = g.root[1]
    <3>1. /\ db' = [db EXCEPT ![d] = k]
          /\ demo' = [demo EXCEPT ![d].pc = "restart", ![d].root = g.root[1]]
      BY DEF FirstSession
    <3> HIDE DEF k, g
    <3> QED
      BY <1>1, <3>1 DEF Inv, Sound, IsDemo
  <2> HIDE DEF f, g, h, k
  <2> QED
    BY <2>1, <2>2, <2>3, <2>4, <2>5
<1>4. /\ DOMAIN y = DOMAIN x /\ y.pc = "restart" /\ y.stage = x.stage
      /\ y.funded = x.funded /\ y.release = x.release /\ y.slots = x.slots
  BY <1>1 DEF FirstSession, Inv, Sound, IsDemo
<1>5. Sound(y, tx[d], db'[d], pool[d], round[R(d)], memos[d], slot)
  <2> HIDE DEF x, y
  <2> QED
    BY <1>1, <1>2, <1>3, <1>4
       DEF Sound, IsDemo, InScript, OnLedger, InStore, Counting, InReceipts, Reached,
           At, Pcs, Early
<1> QED
  BY <1>5, OneDemo DEF FirstSession, Inv, chain

LEMMA SecondSessionInv ==
  ASSUME Inv, NEW d \in Demos, SecondSession(d)
  PROVE  Inv'
<1> DEFINE x == demo[d]
           y == demo'[d]
           f == SealCohort(db[d], 1)
           g == SealCohort(f, 2)
<1>1. Sound(x, tx[d], db[d], pool[d], round[R(d)], memos[d], slot)
  BY DEF Inv
<1>2. /\ x.pc = "restart" /\ IsDb(db[d])
      /\ db[d].tickets[1] = Joining[1] /\ db[d].tickets[2] = Joining[2]
      /\ db[d].root[1] = Joining[1] /\ db[d].root[2] = {}
  BY <1>1 DEF SecondSession, Sound, InStore
<1>3. db'[d] = g
  <2>1. db' = [db EXCEPT ![d] = g]
    BY DEF SecondSession, Resealed
  <2> HIDE DEF g
  <2> QED
    BY <2>1 DEF Inv
<1>4. /\ IsDb(f) /\ f.tickets = db[d].tickets
      /\ f.root[1] = Joining[1] /\ f.root[2] = {}
  BY <1>2, SealFacts
<1>5. IsDb(g) /\ g.root[1] = Joining[1] /\ g.root[2] = Joining[2]
  <2> HIDE DEF f
  <2> QED
    BY <1>2, <1>4, SealFacts
<1>6. g.root = Joining
  <2> HIDE DEF g
  <2> QED
    BY <1>5, DemoAssumption DEF IsDb
<1>7. /\ DOMAIN y = DOMAIN x /\ y.pc = "ports" /\ y.root = x.root
      /\ y.stage = x.stage /\ y.funded = x.funded /\ y.release = x.release
      /\ y.slots = x.slots
  BY <1>1 DEF SecondSession, GoTo, Inv, Sound, IsDemo
<1>8. Sound(y, tx[d], db'[d], pool[d], round[R(d)], memos[d], slot)
  <2> HIDE DEF x, y, g
  <2> QED
    BY <1>1, <1>2, <1>3, <1>5, <1>6, <1>7
       DEF Sound, IsDemo, InScript, OnLedger, InStore, Counting, InReceipts, Reached,
           At, Pcs, Early
<1> QED
  BY <1>8, OneDemo DEF SecondSession, GoTo, Inv, chain

LEMMA StartValidatorInv ==
  ASSUME Inv, NEW d \in Demos, StartValidator(d)
  PROVE  Inv'
<1> DEFINE x == demo[d]
           y == demo'[d]
<1>1. Sound(x, tx[d], db[d], pool[d], round[R(d)], memos[d], slot)
  BY DEF Inv
<1>2. PICK port : demo' = [demo EXCEPT ![d].pc = "wait", ![d].port = port]
  BY DEF StartValidator
<1>3. /\ DOMAIN y = DOMAIN x /\ x.pc = "ports" /\ y.pc = "wait" /\ y.root = x.root
      /\ y.stage = x.stage /\ y.funded = x.funded /\ y.release = x.release
      /\ y.slots = x.slots
  BY <1>1, <1>2 DEF StartValidator, Inv, Sound, IsDemo
<1>4. Sound(y, tx[d], db[d], pool[d], round[R(d)], memos[d], slot)
  <2> HIDE DEF x, y
  <2> QED
    BY <1>1, <1>3
       DEF Sound, IsDemo, InScript, OnLedger, InStore, Counting, InReceipts, Reached,
           At, Pcs, Early
<1>5. DOMAIN demo' = Demos /\ \A e \in Demos \ {d} : demo'[e] = demo[e]
  BY <1>2 DEF Inv
<1> QED
  BY <1>4, <1>5, OneDemo DEF StartValidator, Inv, chain

\* A poll changes nothing the invariant speaks of.
LEMMA PollAgainInv ==
  ASSUME Inv, NEW d \in Demos, PollAgain(d),
         UNCHANGED <<chain, db, validator, tx, memos>>
  PROVE  Inv'
<1> DEFINE x == demo[d]
           y == demo'[d]
<1>1. Sound(x, tx[d], db[d], pool[d], round[R(d)], memos[d], slot)
  BY DEF Inv
<1>2. /\ DOMAIN y = DOMAIN x /\ y.pc = x.pc /\ y.root = x.root
      /\ y.stage = x.stage /\ y.funded = x.funded /\ y.release = x.release
      /\ y.slots = x.slots
  BY <1>1 DEF PollAgain, Inv, Sound, IsDemo
<1>3. Sound(y, tx[d], db[d], pool[d], round[R(d)], memos[d], slot)
  <2> HIDE DEF x, y
  <2> QED
    BY <1>1, <1>2, SameLocals
<1> QED
  BY <1>3, OneDemo DEF PollAgain, Inv, chain

LEMMA WaitForValidatorInv ==
  ASSUME Inv, NEW d \in Demos, WaitForValidator(d)
  PROVE  Inv'
<1>1. CASE ~Reaches(d)
  BY <1>1, PollAgainInv DEF WaitForValidator
<1>2. CASE Reaches(d)
  <2> DEFINE x == demo[d]
             y == demo'[d]
  <2>1. Sound(x, tx[d], db[d], pool[d], round[R(d)], memos[d], slot)
    BY DEF Inv
  <2>2. /\ DOMAIN y = DOMAIN x /\ x.pc = "wait" /\ y.pc = "fund"
        /\ y.root = x.root /\ y.stage = x.stage /\ y.funded = x.funded
        /\ y.release = x.release /\ y.slots = x.slots
    BY <1>2, <2>1 DEF WaitForValidator, Inv, Sound, IsDemo, Locals
  <2>3. Sound(y, tx[d], db[d], pool[d], round[R(d)], memos[d], slot)
    <3> HIDE DEF x, y
    <3> QED
      BY <2>1, <2>2
         DEF Sound, IsDemo, InScript, OnLedger, InStore, Counting, InReceipts, Reached,
           At, Pcs, Early
  <2> QED
    BY <1>2, <2>3, OneDemo DEF WaitForValidator, Inv, chain
<1> QED
  BY <1>1, <1>2

\* The chain has nothing of the demo yet, so it is where the script begins.
LEMMA FundAndDeployInv ==
  ASSUME Inv, NEW d \in Demos, FundAndDeploy(d)
  PROVE  Inv'
<1> DEFINE x == demo[d]
           y == demo'[d]
<1>1. Sound(x, tx[d], db[d], pool[d], round[R(d)], memos[d], slot)
  BY DEF Inv
<1>2. /\ DOMAIN y = DOMAIN x /\ x.pc = "fund" /\ y.pc = "send"
      /\ y.root = x.root /\ y.stage = 1 /\ y.funded = TRUE
      /\ y.release = x.release /\ y.slots = x.slots
  BY <1>1 DEF FundAndDeploy, Inv, Sound, IsDemo
<1>3. /\ tx[d] = "none" /\ pool[d].version = 0 /\ round[R(d)].version = 0
      /\ x.slots = <<>>
  BY <1>1, <1>2 DEF Sound, InScript, OnLedger, InReceipts, Early, Chain!ZeroRound
<1>4. InScript(y, tx[d]) /\ OnLedger(y, tx[d], pool[d], round[R(d)])
  <2> HIDE DEF x, y
  <2> QED
    BY <1>1, <1>2, <1>3, DemoAssumption
       DEF Sound, InScript, OnLedger, Holds, Reached, At, Early
<1>5. InStore(y, db[d]) /\ InReceipts(y, tx[d], memos[d], slot) /\ IsDemo(y)
  <2> HIDE DEF x, y
  <2>1. InStore(y, db[d])
    BY <1>1, <1>2 DEF Sound, InStore
  <2>2. InReceipts(y, tx[d], memos[d], slot)
    BY <1>1, <1>2, <1>3 DEF Sound, Counting, InReceipts
  <2>3. IsDemo(y)
    <3>1. 1 \in Nat /\ TRUE \in BOOLEAN /\ "send" \in Pcs
      BY DEF Pcs
    <3> QED
      BY <1>1, <1>2, <3>1, Zenon DEF Sound, IsDemo
  <2> QED
    BY <2>1, <2>2, <2>3
<1>6. Sound(y, tx[d], db[d], pool[d], round[R(d)], memos[d], slot)
  BY <1>4, <1>5 DEF Sound
<1> QED
  BY <1>6, OneDemo DEF FundAndDeploy, Inv, chain

\* The release is computed before anything of the window is on the chain; a slot a
\* participant keeps was inside the window and not before the last memo.
LEMMA GetSlotInv ==
  ASSUME Inv, NEW d \in Demos, GetSlot(d)
  PROVE  Inv'
<1> DEFINE x == demo[d]
           y == demo'[d]
<1>1. Sound(x, tx[d], db[d], pool[d], round[R(d)], memos[d], slot)
  BY DEF Inv
<1>2. x.pc = "slot" /\ tx[d] = "none"
  BY <1>1 DEF GetSlot, Sound, InScript
<1>3. slot \in Nat /\ ReleaseDelay \in Nat /\ WindowLength \in Nat /\ Participants \in Nat
  BY DemoAssumption DEF Inv
<1>0. CASE x.stage = 2
  <2>1. /\ DOMAIN y = DOMAIN x /\ y.pc = "send"
        /\ y.root = x.root /\ y.stage = x.stage /\ y.funded = x.funded
        /\ y.release = x.release /\ y.slots = x.slots
    BY <1>1, <1>0 DEF GetSlot, Inv, Sound, IsDemo, Locals, Memos
  <2>2. Sound(y, tx[d], db[d], pool[d], round[R(d)], memos[d], slot)
    <3> HIDE DEF x, y
    <3>1. IsDemo(y) /\ InScript(y, tx[d]) /\ InStore(y, db[d])
      BY <1>0, <1>1, <1>2, <1>3, <2>1 DEF Sound, IsDemo, InScript, InStore, Pcs, Early
    <3>2. OnLedger(y, tx[d], pool[d], round[R(d)])
      BY <1>1, <2>1 DEF Sound, OnLedger, Reached, At
    <3>3. InReceipts(y, tx[d], memos[d], slot)
      BY <1>0, <1>1, <1>2, <2>1 DEF Sound, Counting, InReceipts
    <3> QED
      BY <3>1, <3>2, <3>3 DEF Sound
  <2> QED
    BY <1>0, <2>2, OneDemo DEF GetSlot, Inv, chain, x, y
<1>4. CASE x.stage = 5
  <2>1. /\ DOMAIN y = DOMAIN x /\ y.pc = "send"
        /\ y.root = x.root /\ y.stage = x.stage /\ y.funded = x.funded
        /\ y.release = slot + ReleaseDelay /\ y.slots = x.slots
    BY <1>1, <1>4 DEF GetSlot, Inv, Sound, IsDemo, Locals, Memos
  <2> HIDE DEF x, y
  <2>2. x.slots = <<>> /\ memos[d] = <<>>
    BY <1>1, <1>2, <1>4 DEF Sound, InTurns, InReceipts, IsDemo
  <2>3. IsDemo(y) /\ InScript(y, tx[d])
    BY <1>1, <1>2, <1>3, <1>4, <2>1 DEF Sound, IsDemo, InScript, Pcs, Early
  <2>4. OnLedger(y, tx[d], pool[d], round[R(d)])
    <3>1. x.funded => round[R(d)].state = "Sealed"
      BY <1>1, <1>2, <1>4 DEF Sound, OnLedger, Holds, Reached, At
    <3> QED
      BY <1>1, <1>2, <1>4, <2>1, <3>1 DEF Sound, OnLedger, Reached, At
  <2>5. InStore(y, db[d])
    BY <1>1, <1>2, <2>1 DEF Sound, InStore
  <2>6. InReceipts(y, tx[d], memos[d], slot)
    BY <1>4, <2>1, <2>2 DEF InTurns, InReceipts
  <2>7. Sound(y, tx[d], db[d], pool[d], round[R(d)], memos[d], slot)
    BY <2>3, <2>4, <2>5, <2>6 DEF Sound
  <2> QED
    BY <1>4, <2>7, OneDemo DEF GetSlot, Inv, chain, x, y
<1>5. CASE x.stage \in Memos
  <2>1. /\ DOMAIN y = DOMAIN x /\ y.pc = "send"
        /\ y.root = x.root /\ y.stage = x.stage /\ y.funded = x.funded
        /\ y.release = x.release /\ y.slots = Append(x.slots, slot)
        /\ slot \in x.release .. WindowEnd(x.release)
    BY <1>1, <1>5 DEF GetSlot, InWindow, Inv, Sound, IsDemo, Locals, Memos
  <2>2. x.stage \in 7 .. 6 + Participants
    BY <1>5 DEF Memos
  <2> HIDE DEF x, y
  <2>3. x.slots \in Seq(Nat) /\ y.slots \in Seq(Nat) /\ Len(y.slots) = Len(x.slots) + 1
    BY <1>1, <1>3, <2>1 DEF Sound, IsDemo
  <2>4. IsDemo(y) /\ InScript(y, tx[d])
    BY <1>1, <1>2, <1>3, <2>1, <2>2, <2>3 DEF Sound, IsDemo, InScript, Pcs, Early
  <2>5. OnLedger(y, tx[d], pool[d], round[R(d)])
    BY <1>1, <1>2, <2>1 DEF Sound, OnLedger, Reached, At
  <2>6. InStore(y, db[d])
    BY <1>1, <1>2, <2>1 DEF Sound, InStore
  <2>7. \A i \in 1 .. Len(y.slots) :
          y.slots[i] \in x.release .. WindowEnd(x.release) /\ y.slots[i] <= slot
    BY <1>1, <1>3, <2>1, <2>3 DEF Sound, Counting, InReceipts
  <2>8. InReceipts(y, tx[d], memos[d], slot)
    <3>1. /\ memos[d] \in Seq(Memo(y.release)) /\ Len(memos[d]) \in Nat
          /\ InTurns(x.slots, memos[d])
          /\ \A i \in 1 .. Len(memos[d]) : memos[d][i].slot <= slot
      BY <1>1, <1>2, <2>1 DEF Sound, InReceipts
    <3>2. InTurns(y.slots, memos[d])
      <4>0. Len(memos[d]) <= Len(x.slots) /\ Len(x.slots) \in Nat
        BY <2>3, <3>1 DEF InTurns
      <4> SUFFICES ASSUME NEW i \in 1 .. Len(memos[d])
                   PROVE  /\ y.slots[i] <= memos[d][i].slot
                          /\ i < Len(y.slots) => memos[d][i].slot <= y.slots[i + 1]
        <5>1. Len(memos[d]) <= Len(y.slots)
          BY <2>3, <4>0
        <5> QED
          BY <5>1 DEF InTurns
      <4>1. y.slots[i] = x.slots[i]
        BY <2>1, <2>3, <3>1, <4>0
      <4>2. CASE i < Len(x.slots)
        <5>1. y.slots[i + 1] = x.slots[i + 1]
          BY <2>1, <2>3, <3>1, <4>0, <4>2
        <5> QED
          BY <3>1, <4>1, <4>2, <5>1 DEF InTurns
      <4>3. CASE i = Len(x.slots)
        <5>1. y.slots[i + 1] = slot
          BY <2>1, <2>3, <4>3
        <5> QED
          BY <3>1, <4>1, <5>1 DEF InTurns
      <4> QED
        BY <2>3, <3>1, <4>0, <4>2, <4>3
    <3>3. Counting(y) =>
            Len(memos[d]) = y.stage - 7 /\ Len(y.slots) = y.stage - 6
      BY <1>1, <1>2, <2>1, <2>2, <2>3 DEF Sound, Counting, InReceipts
    <3> QED
      BY <1>2, <2>1, <2>2, <2>3, <2>7, <3>1, <3>2, <3>3 DEF InReceipts
  <2>9. Sound(y, tx[d], db[d], pool[d], round[R(d)], memos[d], slot)
    BY <2>4, <2>5, <2>6, <2>8 DEF Sound
  <2> QED
    BY <1>5, <2>9, OneDemo DEF GetSlot, Inv, chain, x, y, Memos
<1> QED
  BY <1>0, <1>4, <1>5 DEF GetSlot

LEMMA SendInv ==
  ASSUME Inv, NEW d \in Demos, Send(d)
  PROVE  Inv'
<1> DEFINE x == demo[d]
           y == demo'[d]
<1>1. Sound(x, tx[d], db[d], pool[d], round[R(d)], memos[d], slot)
  BY DEF Inv
<1>2. x.pc = "send" /\ tx[d] = "none" /\ x.funded
  BY <1>1 DEF Send, Sound, InScript, Succeeds
<1>3. /\ DOMAIN y = DOMAIN x /\ y.pc = "confirm" /\ y.root = x.root
      /\ y.stage = x.stage /\ y.funded = x.funded /\ y.release = x.release
      /\ y.slots = x.slots
  BY <1>1 DEF Send, Inv, Sound, IsDemo
<1>4. tx'[d] = "pending"
  BY DEF Send, Inv
<1>5. Sound(y, tx'[d], db[d], pool[d], round[R(d)], memos[d], slot)
  <2> HIDE DEF x, y
  <2>1. IsDemo(y) /\ InScript(y, tx'[d]) /\ InStore(y, db[d])
    BY <1>1, <1>2, <1>3, <1>4 DEF Sound, IsDemo, InScript, InStore, Pcs, Early
  <2>2. OnLedger(y, tx'[d], pool[d], round[R(d)])
    BY <1>1, <1>2, <1>3, <1>4 DEF Sound, OnLedger, Reached, At
  <2>3. InReceipts(y, tx'[d], memos[d], slot)
    BY <1>1, <1>2, <1>3, <1>4 DEF Sound, Counting, InReceipts
  <2> QED
    BY <2>1, <2>2, <2>3 DEF Sound
<1> QED
  BY <1>5, OneDemo DEF Send, Inv, chain

LEMMA ConfirmInv ==
  ASSUME Inv, NEW d \in Demos, Confirm(d)
  PROVE  Inv'
<1> DEFINE x == demo[d]
           y == demo'[d]
<1>1. Sound(x, tx[d], db[d], pool[d], round[R(d)], memos[d], slot)
  BY DEF Inv
<1>2. x.pc = "confirm" /\ tx[d] = "landed" /\ x.funded
  BY <1>1 DEF Confirm, Confirmed, Sound, InScript
<1>3. x.stage \in 1 .. 6 + Participants /\ Participants \in Nat
  BY <1>1, <1>2, DemoAssumption DEF Sound, InScript
<1>4. PICK pc : pc = AfterStage(d)
  OBVIOUS
<1>5. \/ x.stage = 5 /\ pc = "poll"
      \/ x.stage = 6 + Participants /\ pc = "check"
      \/ x.stage \in {1, 4} \cup 6 .. 5 + Participants /\ pc = "slot"
      \/ x.stage \in 2 .. 3 /\ pc = "send"
  BY <1>3, <1>4 DEF AfterStage
<1>6. /\ DOMAIN y = DOMAIN x /\ y.pc = pc /\ y.root = x.root
      /\ y.stage = x.stage + 1 /\ y.funded = x.funded /\ y.release = x.release
      /\ y.slots = x.slots
  BY <1>1, <1>4 DEF Confirm, Inv, Sound, IsDemo
<1>7. tx'[d] = "none"
  BY DEF Confirm, Inv
<1>8. Sound(y, tx'[d], db[d], pool[d], round[R(d)], memos[d], slot)
  <2> HIDE DEF x, y
  <2>1. IsDemo(y) /\ InStore(y, db[d])
    BY <1>1, <1>2, <1>5, <1>6 DEF Sound, IsDemo, InStore, Pcs
  <2>2. InScript(y, tx'[d])
    BY <1>2, <1>3, <1>5, <1>6, <1>7 DEF InScript, Memos, Early
  <2>3. OnLedger(y, tx'[d], pool[d], round[R(d)])
    <3>1. Reached(y, "none") = Reached(x, "landed")
      BY <1>3, <1>6 DEF Reached, At
    <3> QED
      BY <1>1, <1>2, <1>6, <1>7, <3>1 DEF Sound, OnLedger
  <2>4. InReceipts(y, tx'[d], memos[d], slot)
    <3>1. CASE x.stage < 7
      <4>1. x.slots = <<>> /\ memos[d] = <<>>
        BY <1>1, <1>2, <3>1 DEF Sound, InTurns, InReceipts, IsDemo
      <4>2. y.stage >= 7 => y.stage = 7 /\ y.pc \in {"slot", "check"}
        BY <1>3, <1>5, <1>6, <3>1
      <4> QED
        BY <1>7, <1>6, <4>1, <4>2, <3>1 DEF InTurns, InReceipts
    <3>2. CASE x.stage >= 7
      <4>1. y.pc \in {"slot", "check"}
        BY <1>3, <1>5, <1>6, <3>2
      <4> QED
        BY <1>1, <1>2, <1>3, <1>6, <1>7, <3>2, <4>1 DEF Sound, Counting, InReceipts
    <3> QED
      BY <1>3, <3>1, <3>2
  <2> QED
    BY <2>1, <2>2, <2>3, <2>4 DEF Sound
<1> QED
  BY <1>8, OneDemo DEF Confirm, Inv, chain

LEMMA WaitForSlotInv ==
  ASSUME Inv, NEW d \in Demos, WaitForSlot(d)
  PROVE  Inv'
<1>1. CASE ~(slot >= demo[d].release)
  BY <1>1, PollAgainInv DEF WaitForSlot
<1>2. CASE slot >= demo[d].release
  <2> DEFINE x == demo[d]
             y == demo'[d]
  <2>1. Sound(x, tx[d], db[d], pool[d], round[R(d)], memos[d], slot)
    BY DEF Inv
  <2>2. /\ DOMAIN y = DOMAIN x /\ x.pc = "poll" /\ y.pc = "send"
        /\ y.root = x.root /\ y.stage = x.stage /\ y.funded = x.funded
        /\ y.release = x.release /\ y.slots = x.slots
    BY <1>2, <2>1 DEF WaitForSlot, Inv, Sound, IsDemo, Locals
  <2>3. x.stage = 6 /\ Participants \in Nat
    BY <2>1, <2>2, DemoAssumption DEF Sound, InScript
  <2>4. Sound(y, tx[d], db[d], pool[d], round[R(d)], memos[d], slot)
    <3> HIDE DEF x, y
    <3>1. IsDemo(y) /\ InScript(y, tx[d]) /\ InStore(y, db[d])
      BY <2>1, <2>2, <2>3 DEF Sound, IsDemo, InScript, InStore, Pcs, Early
    <3>2. OnLedger(y, tx[d], pool[d], round[R(d)])
      BY <2>1, <2>2 DEF Sound, OnLedger, Reached, At
    <3>3. InReceipts(y, tx[d], memos[d], slot)
      BY <2>1, <2>2, <2>3 DEF Sound, Counting, InReceipts
    <3> QED
      BY <3>1, <3>2, <3>3 DEF Sound
  <2> QED
    BY <1>2, <2>4, OneDemo DEF WaitForSlot, Inv, chain
<1> QED
  BY <1>1, <1>2

-----------------------------------------------------------------------------
(* The end of a validator                                                  *)

\* Losing its ledger costs a demo its accounts and its transaction; what it has
\* read and what was executed stays.
LEMMA LedgerLost ==
  ASSUME NEW x, NEW y, NEW t, NEW f, NEW p, NEW r, NEW m, NEW s,
         Sound(x, t, f, p, r, m, s), DOMAIN y = DOMAIN x,
         y.pc = x.pc, y.root = x.root, y.stage = x.stage, y.funded = FALSE,
         y.release = x.release, y.slots = x.slots
  PROVE  Sound(y, "none", f, Chain!ZeroPool, Chain!ZeroRound, m, s)
<1>1. IsDemo(y) /\ InStore(y, f)
  BY DEF Sound, IsDemo, InStore
<1>2. InScript(y, "none")
  BY DEF Sound, InScript
<1>3. OnLedger(y, "none", Chain!ZeroPool, Chain!ZeroRound)
  BY DEF OnLedger, Chain!ZeroPool, Chain!ZeroRound
<1>4. InReceipts(y, "none", m, s)
  <2>1. x.pc \in {"evidence", "ok"} => t = "none"
    BY DEF Sound, InScript
  <2> QED
    BY <2>1 DEF Sound, Counting, InReceipts
<1> QED
  BY <1>1, <1>2, <1>3, <1>4 DEF Sound

LEMMA ExitInv ==
  ASSUME Inv, NEW d \in Demos, NEW left, NEW locals, Exit(d, left, locals),
         DOMAIN db' = Demos, DOMAIN memos' = Demos,
         \A e \in Demos \ {d} : db'[e] = db[e] /\ memos'[e] = memos[e],
         NEW t0, NEW p0, NEW r0, Sound(locals, t0, db'[d], p0, r0, memos'[d], slot),
         d \in Gone(d, left) \/ (t0 = tx[d] /\ p0 = pool[d] /\ r0 = round[R(d)])
  PROVE  Inv'
<1> DEFINE Before(e) == IF e = d THEN locals ELSE demo[e]
<1>1. ASSUME NEW e \in Demos
      PROVE  \E t, p, r : /\ Sound(Before(e), t, db'[e], p, r, memos'[e], slot)
                          /\ \/ e \in Gone(d, left)
                             \/ t = tx[e] /\ p = pool[e] /\ r = round[R(e)]
  <2>1. CASE e = d
    BY <2>1
  <2>2. CASE e # d
    <3>1. Sound(demo[e], tx[e], db[e], pool[e], round[R(e)], memos[e], slot)
      BY DEF Inv
    <3> QED
      BY <2>2, <3>1
  <2> QED
    BY <2>1, <2>2
<1>2. ASSUME NEW e \in Demos
      PROVE  Sound(demo'[e], tx'[e], db'[e], pool'[e], round'[R(e)], memos'[e], slot')
  <2> DEFINE x == Before(e)
             y == demo'[e]
  <2>1. PICK t, p, r : /\ Sound(x, t, db'[e], p, r, memos'[e], slot)
                       /\ \/ e \in Gone(d, left)
                          \/ t = tx[e] /\ p = pool[e] /\ r = round[R(e)]
    BY <1>1
  <2>2. y = [x EXCEPT !.funded = x.funded /\ e \notin Gone(d, left)]
    BY DEF Exit
  <2>3. slot' = slot
    BY DEF Exit
  <2> HIDE DEF x, y
  <2>4. /\ DOMAIN y = DOMAIN x /\ y.pc = x.pc /\ y.root = x.root
        /\ y.stage = x.stage /\ y.release = x.release /\ y.slots = x.slots
        /\ y.funded = (x.funded /\ e \notin Gone(d, left))
    BY <2>1, <2>2 DEF Sound, IsDemo
  <2>5. CASE e \in Gone(d, left)
    <3>1. /\ tx'[e] = "none" /\ pool'[e] = Chain!ZeroPool
          /\ round'[R(e)] = Chain!ZeroRound
      BY <2>5, RoundAddress DEF Exit
    <3>2. y.funded = FALSE
      BY <2>4, <2>5
    <3>3. Sound(y, "none", db'[e], Chain!ZeroPool, Chain!ZeroRound, memos'[e], slot)
      BY <2>1, <2>4, <3>2, LedgerLost
    <3> QED
      BY <2>3, <3>1, <3>3 DEF y
  <2>6. CASE e \notin Gone(d, left)
    <3>1. tx'[e] = t /\ pool'[e] = p /\ round'[R(e)] = r
      BY <2>1, <2>6, RoundAddress DEF Exit
    <3>2. y.funded = x.funded
      BY <2>1, <2>4, <2>6, Zenon DEF Sound, IsDemo
    <3>3. Sound(y, t, db'[e], p, r, memos'[e], slot)
      BY <2>1, <2>4, <3>2, SameLocals
    <3> QED
      BY <2>3, <3>1, <3>3 DEF y
  <2> QED
    BY <2>5, <2>6
<1>3. /\ DOMAIN demo' = Demos /\ DOMAIN tx' = Demos /\ DOMAIN pool' = Demos
      /\ DOMAIN validator' = Demos /\ DOMAIN round' = Chain!Rounds /\ slot' \in Nat
  BY DEF Exit, Inv
<1> QED
  BY <1>2, <1>3 DEF Inv

\* A demo that has failed, with nothing of its own on any chain.
LEMMA FreshFailed ==
  Sound([Fresh EXCEPT !.pc = "err"], "none", EmptyDb, Chain!ZeroPool,
        Chain!ZeroRound, <<>>, slot)
<1> DEFINE y == [Fresh EXCEPT !.pc = "err"]
<1>2. /\ DOMAIN y = Locals
      /\ y.pc = "err" /\ y.stage = 0 /\ y.funded = FALSE /\ y.release = 0
      /\ y.slots = <<>>
  BY DEF Fresh, Locals
<1> HIDE DEF y
<1>1. IsDemo(y)
  <2>1. 0 \in Nat /\ FALSE \in BOOLEAN /\ "err" \in Pcs /\ <<>> \in Seq(Nat)
    BY DEF Pcs
  <2> QED
    BY <1>2, <2>1, Zenon DEF IsDemo
<1>3. InScript(y, "none")
  BY <1>2 DEF InScript, Early
<1>4. OnLedger(y, "none", Chain!ZeroPool, Chain!ZeroRound)
  BY <1>2 DEF OnLedger, Chain!ZeroPool, Chain!ZeroRound
<1>5. InStore(y, EmptyDb)
  BY <1>2, EmptyDbFacts DEF InStore
<1>6. InReceipts(y, "none", <<>>, slot)
  BY <1>2 DEF Counting, InReceipts
<1> QED
  BY <1>1, <1>3, <1>4, <1>5, <1>6 DEF Sound, y

\* A demo that has failed while its transaction is on another demo's validator.
LEMMA PendingFailed ==
  ASSUME NEW x, NEW f, NEW p, NEW r, NEW m, NEW s, NEW t, t # "none",
         Sound(x, t, f, p, r, m, s)
  PROVE  Sound([x EXCEPT !.pc = "err"], t, EmptyDb, p, r, <<>>, s)
<1> DEFINE y == [x EXCEPT !.pc = "err"]
<1>1. /\ DOMAIN y = DOMAIN x /\ y.pc = "err" /\ y.root = x.root
      /\ y.stage = x.stage /\ y.funded = x.funded /\ y.release = x.release
      /\ y.slots = x.slots
  BY DEF Sound, IsDemo, Locals
<1> HIDE DEF y
<1>2. x.funded /\ x.pc \in {"confirm", "err"}
  BY DEF Sound, InScript
<1>3. IsDemo(y) /\ InScript(y, t)
  BY <1>1, <1>2 DEF Sound, IsDemo, InScript, Pcs, Early
<1>4. OnLedger(y, t, p, r)
  BY <1>1 DEF Sound, OnLedger, Reached, At
<1>5. InStore(y, EmptyDb)
  BY <1>1, <1>2, EmptyDbFacts DEF Sound, InStore
<1>6. InReceipts(y, t, <<>>, s)
  BY <1>1 DEF Sound, Counting, InReceipts
<1> QED
  BY <1>3, <1>4, <1>5, <1>6 DEF Sound, y

LEMMA FailInv ==
  ASSUME Inv, NEW d \in Demos, Fail(d)
  PROVE  Inv'
<1>1. Sound(demo[d], tx[d], db[d], pool[d], round[R(d)], memos[d], slot)
  BY DEF Inv
<1>2. /\ DOMAIN db' = Demos /\ DOMAIN memos' = Demos /\ db'[d] = EmptyDb
      /\ memos'[d] = <<>>
      /\ \A e \in Demos \ {d} : db'[e] = db[e] /\ memos'[e] = memos[e]
  BY DEF Fail, Inv
<1>3. CASE d \in Gone(d, "none")
  <2>1. Exit(d, "none", [Fresh EXCEPT !.pc = "err"])
    BY <1>3 DEF Fail
  <2> QED
    BY <1>2, <1>3, <2>1, FreshFailed, ExitInv
<1>4. CASE d \notin Gone(d, "none")
  <2>1. Exit(d, "none", [demo[d] EXCEPT !.pc = "err"])
    BY <1>4 DEF Fail
  <2>2. tx[d] # "none"
    BY <1>4 DEF Gone
  <2>3. Sound([demo[d] EXCEPT !.pc = "err"], tx[d], EmptyDb, pool[d], round[R(d)],
              <<>>, slot)
    BY <1>1, <2>2, PendingFailed
  <2> QED
    BY <1>2, <2>1, <2>3, ExitInv
<1> QED
  BY <1>3, <1>4

\* What the round account holds shows that the ledger still exists, so that every
\* memo has been executed and confirmed.
LEMMA CheckRoundInv ==
  ASSUME Inv, NEW d \in Demos, CheckRound(d)
  PROVE  Inv'
<1> DEFINE x == demo[d]
           y == [demo[d] EXCEPT !.pc = "evidence"]
<1>1. Sound(x, tx[d], db[d], pool[d], round[R(d)], memos[d], slot)
  BY DEF Inv
<1>2. x.pc = "check" /\ tx[d] = "none"
  BY <1>1 DEF CheckRound, Sound, InScript
<1>3. x.funded
  BY <1>1, <1>2 DEF CheckRound, RoundMatches, Sound, OnLedger, Chain!ZeroRound
<1>4. Exit(d, "none", y)
  BY DEF CheckRound
<1>5. /\ DOMAIN y = DOMAIN x /\ y.pc = "evidence" /\ y.root = x.root
      /\ y.stage = x.stage /\ y.funded = x.funded /\ y.release = x.release
      /\ y.slots = x.slots
  BY <1>1 DEF Sound, IsDemo
<1>6. db' = db /\ memos' = memos
  BY DEF CheckRound
<1> HIDE DEF x, y
<1>7. Sound(y, "none", db[d], pool[d], round[R(d)], memos[d], slot)
  <2>1. IsDemo(y) /\ InScript(y, "none") /\ InStore(y, db[d])
    BY <1>1, <1>2, <1>5 DEF Sound, IsDemo, InScript, InStore, Pcs, Early
  <2>2. OnLedger(y, "none", pool[d], round[R(d)])
    BY <1>1, <1>2, <1>5 DEF Sound, OnLedger, Reached, At
  <2>3. InReceipts(y, "none", memos[d], slot)
    BY <1>1, <1>2, <1>3, <1>5 DEF Sound, Counting, InReceipts
  <2> QED
    BY <2>1, <2>2, <2>3 DEF Sound
<1> QED
  BY <1>2, <1>4, <1>6, <1>7, ExitInv DEF Inv

LEMMA MakeEvidenceInv ==
  ASSUME Inv, NEW d \in Demos, MakeEvidence(d)
  PROVE  Inv'
<1> DEFINE x == demo[d]
           y == demo'[d]
<1>1. Sound(x, tx[d], db[d], pool[d], round[R(d)], memos[d], slot)
  BY DEF Inv
<1>2. /\ DOMAIN y = DOMAIN x /\ x.pc = "evidence" /\ y.pc = "ok" /\ y.root = x.root
      /\ y.stage = x.stage /\ y.funded = x.funded /\ y.release = x.release
      /\ y.slots = x.slots
  BY <1>1 DEF MakeEvidence, GoTo, Inv, Sound, IsDemo
<1>3. db'[d] = EmptyDb
  BY DEF MakeEvidence, Inv
<1>4. Sound(y, tx[d], db'[d], pool[d], round[R(d)], memos[d], slot)
  <2> HIDE DEF x, y
  <2>1. IsDemo(y) /\ InScript(y, tx[d])
    BY <1>1, <1>2 DEF Sound, IsDemo, InScript, Pcs, Early
  <2>2. OnLedger(y, tx[d], pool[d], round[R(d)])
    BY <1>1, <1>2 DEF Sound, OnLedger, Reached, At
  <2>3. InStore(y, db'[d])
    BY <1>1, <1>2, <1>3, EmptyDbFacts DEF Sound, InStore
  <2>4. InReceipts(y, tx[d], memos[d], slot)
    BY <1>1, <1>2 DEF Sound, Counting, InReceipts
  <2> QED
    BY <2>1, <2>2, <2>3, <2>4 DEF Sound
<1> QED
  BY <1>4, OneDemo DEF MakeEvidence, GoTo, Inv, chain

\* A child that ends by itself.
LEMMA ExitedInv ==
  ASSUME Inv, NEW d \in Demos, Exit(d, "exited", demo[d]), UNCHANGED <<db, memos>>
  PROVE  Inv'
<1>1. Sound(demo[d], tx[d], db'[d], pool[d], round[R(d)], memos'[d], slot)
  BY DEF Inv
<1>2. "exited" # "none"
  OBVIOUS
<1> QED
  BY <1>1, <1>2, ExitInv DEF Inv

LEMMA BindInv ==
  ASSUME Inv, NEW d \in Demos, Bind(d)
  PROVE  Inv'
<1>1. CASE Serving(demo[d].port)
  BY <1>1, ExitedInv DEF Bind
<1>2. CASE ~Serving(demo[d].port)
  <2>1. /\ UNCHANGED <<slot, pool, round, demo, tx, db, memos>>
        /\ DOMAIN validator' = Demos
    BY <1>2 DEF Bind, chain, Inv
  <2> QED
    BY <2>1 DEF Inv
<1> QED
  BY <1>1, <1>2

LEMMA DieInv ==
  ASSUME Inv, NEW d \in Demos, Die(d)
  PROVE  Inv'
BY ExitedInv DEF Die

-----------------------------------------------------------------------------
(* The chain                                                               *)

\* Each instruction finds the accounts its guards ask for and takes them one
\* stage on; nobody else's are touched.
LEMMA InstructionEffect ==
  ASSUME Inv, NEW d \in Demos, Instruction(d), demo[d].funded
  PROVE  /\ slot' = slot /\ DOMAIN pool' = Demos /\ DOMAIN round' = Chain!Rounds
         /\ \A e \in Demos \ {d} :
              pool'[e] = pool[e] /\ round'[R(e)] = round[R(e)]
         /\ demo[d].stage \in 1 .. 6
         /\ DOMAIN pool'[d] = DOMAIN Chain!ZeroPool
         /\ DOMAIN round'[R(d)] = DOMAIN Chain!ZeroRound
         /\ Holds(demo[d].stage + 1, pool'[d], round'[R(d)])
         /\ pool'[d].execution_window = WindowLength
         /\ demo[d].stage >= 5 =>
              /\ round'[R(d)].release_slot = demo[d].release
              /\ round'[R(d)].window_end_slot = WindowEnd(demo[d].release)
<1> DEFINE p == pool[d]
           r == round[R(d)]
           q == pool'[d]
           z == round'[R(d)]
           Others == \A e \in Demos \ {d} :
                       pool'[e] = pool[e] /\ round'[R(e)] = round[R(e)]
           Effect ==
             /\ slot' = slot /\ DOMAIN pool' = Demos /\ DOMAIN round' = Chain!Rounds
             /\ Others /\ demo[d].stage \in 1 .. 6
             /\ DOMAIN q = DOMAIN Chain!ZeroPool /\ DOMAIN z = DOMAIN Chain!ZeroRound
             /\ Holds(demo[d].stage + 1, q, z) /\ q.execution_window = WindowLength
             /\ demo[d].stage >= 5 =>
                  /\ z.release_slot = demo[d].release
                  /\ z.window_end_slot = WindowEnd(demo[d].release)
<1> SUFFICES Effect
  OBVIOUS
<1>1. Sound(demo[d], tx[d], db[d], p, r, memos[d], slot)
  BY DEF Inv
<1>2. /\ DOMAIN p = DOMAIN Chain!ZeroPool /\ DOMAIN r = DOMAIN Chain!ZeroRound
      /\ p.version = 0 => r.version = 0
      /\ p.version # 0 => p.execution_window = WindowLength
      /\ r.version # 0 /\ r.state \in {"ReleaseScheduled", "ExecutionWindow"} =>
           /\ r.release_slot = demo[d].release
           /\ r.window_end_slot = WindowEnd(demo[d].release)
  BY <1>1 DEF Sound, OnLedger
<1>3. \A e \in Demos : R(e) \in Chain!Rounds /\ (e # d => R(e) # R(d))
  BY RoundAddress
<1>4. DOMAIN pool = Demos /\ DOMAIN round = Chain!Rounds
  BY DEF Inv
<1>5. CASE demo[d].stage = 1 /\ Chain!InitializePool(d, d, Policy)
  <2>1. /\ p.version = 0 /\ slot' = slot /\ round' = round
        /\ pool' = [pool EXCEPT ![d] = Chain!NewPool(d, Policy)]
    BY <1>5 DEF Chain!InitializePool, Chain!CreateAccount, Chain!LivePool
  <2>2. q = Chain!NewPool(d, Policy) /\ z = r /\ DOMAIN pool' = Demos /\ Others
    BY <1>3, <1>4, <2>1
  <2>3. /\ DOMAIN q = DOMAIN Chain!ZeroPool /\ q.version = 1
        /\ q.execution_window = WindowLength
    BY <2>2 DEF Chain!NewPool, Chain!ZeroPool, Policy
  <2>4. Holds(2, q, z)
    BY <1>2, <2>1, <2>2, <2>3 DEF Holds
  <2> QED
    BY <1>2, <1>4, <1>5, <2>1, <2>2, <2>3, <2>4
<1>6. CASE demo[d].stage = 2 /\ Chain!OpenRound(d, d, 0, demo[d].deadline, Template)
  <2>1. /\ p.version # 0 /\ slot' = slot
        /\ pool' = [pool EXCEPT ![d].next_round = 0 + 1]
        /\ round' = [round EXCEPT ![R(d)] =
             Chain!NewRound(d, 0, demo[d].deadline, Template)]
    BY <1>6 DEF Chain!OpenRound, Chain!LivePool, R
  <2>2. z = Chain!NewRound(d, 0, demo[d].deadline, Template)
    BY <1>3, <1>4, <2>1
  <2>3. DOMAIN pool' = Demos /\ DOMAIN round' = Chain!Rounds /\ Others
    BY <1>3, <1>4, <2>1
  <2>4. /\ DOMAIN q = DOMAIN p /\ q.version = p.version
        /\ q.execution_window = p.execution_window
    BY <1>2, <1>4, <2>1 DEF Chain!ZeroPool
  <2>5. DOMAIN z = DOMAIN Chain!ZeroRound /\ z.version = 1 /\ z.state = "Registration"
    BY <2>2 DEF Chain!NewRound, Chain!ZeroRound
  <2>6. Holds(3, q, z)
    BY <2>1, <2>4, <2>5 DEF Holds
  <2> QED
    BY <1>2, <1>6, <2>1, <2>3, <2>4, <2>5, <2>6
<1>7. ASSUME NEW k \in 3 .. 6, demo[d].stage = k, p.version # 0,
             slot' = slot, pool' = pool, r.version # 0,
             DOMAIN round' = Chain!Rounds, DOMAIN z = DOMAIN r,
             z.version = r.version, \A e \in Demos \ {d} : round'[R(e)] = round[R(e)],
             k = 3 => z.state = "ThresholdReached",
             k = 4 => z.state = "Sealed",
             k = 5 => /\ z.state = "ReleaseScheduled"
                      /\ z.release_slot = demo[d].release
                      /\ z.window_end_slot = WindowEnd(demo[d].release),
             k = 6 => /\ z.state = "ExecutionWindow" /\ r.state = "ReleaseScheduled"
                      /\ z.release_slot = r.release_slot
                      /\ z.window_end_slot = r.window_end_slot
      PROVE  Effect
  <2>1. q = p
    BY <1>7
  <2>2. Holds(k + 1, q, z)
    BY <1>7, <2>1 DEF Holds
  <2> QED
    BY <1>2, <1>4, <1>7, <2>1, <2>2
<1>8. CASE demo[d].stage = 3 /\ Chain!PublishRoot(d, d, R(d), demo[d].root,
                                                  Cardinality(demo[d].root))
  <2>1. /\ p.version # 0 /\ r.version # 0 /\ slot' = slot /\ pool' = pool
        /\ round' = [round EXCEPT ![R(d)] =
             [r EXCEPT !.cohort_root = demo[d].root,
                       !.accepted_count = Cardinality(demo[d].root),
                       !.state = "ThresholdReached"]]
    BY <1>8 DEF Chain!PublishRoot, Chain!AdminAccounts, Chain!LivePool, Chain!LiveRound
  <2>2. z = [r EXCEPT !.cohort_root = demo[d].root,
                      !.accepted_count = Cardinality(demo[d].root),
                      !.state = "ThresholdReached"]
    BY <1>3, <1>4, <2>1
  <2>3. DOMAIN z = DOMAIN r /\ z.version = r.version /\ z.state = "ThresholdReached"
    BY <1>2, <2>2 DEF Chain!ZeroRound
  <2>4. /\ DOMAIN round' = Chain!Rounds
        /\ \A e \in Demos \ {d} : round'[R(e)] = round[R(e)]
    BY <1>3, <1>4, <2>1
  <2> HIDE DEF z, r, p, q, Effect
  <2> QED
    BY <1>7, <1>8, <2>1, <2>3, <2>4
<1>9. CASE demo[d].stage = 4 /\ Chain!Seal(d, d, R(d))
  <2>1. /\ p.version # 0 /\ r.version # 0 /\ slot' = slot /\ pool' = pool
        /\ round' = [round EXCEPT ![R(d)].state = "Sealed"]
    BY <1>9 DEF Chain!Seal, Chain!AdminAccounts, Chain!LivePool, Chain!LiveRound
  <2>3. DOMAIN z = DOMAIN r /\ z.version = r.version /\ z.state = "Sealed"
    BY <1>2, <1>3, <1>4, <2>1 DEF Chain!ZeroRound
  <2>4. /\ DOMAIN round' = Chain!Rounds
        /\ \A e \in Demos \ {d} : round'[R(e)] = round[R(e)]
    BY <1>3, <1>4, <2>1
  <2> HIDE DEF z, r, p, q, Effect
  <2> QED
    BY <1>7, <1>9, <2>1, <2>3, <2>4
<1>10. CASE demo[d].stage = 5 /\ Chain!Schedule(d, d, R(d), demo[d].release)
  <2>1. /\ p.version # 0 /\ r.version # 0 /\ slot' = slot /\ pool' = pool
        /\ round' = [round EXCEPT ![R(d)] =
             [r EXCEPT !.release_slot = demo[d].release,
                       !.window_end_slot = demo[d].release + p.execution_window,
                       !.state = "ReleaseScheduled"]]
    BY <1>10 DEF Chain!Schedule, Chain!Scheduled, Chain!AdminAccounts,
       Chain!LivePool, Chain!LiveRound
  <2>2. z = [r EXCEPT !.release_slot = demo[d].release,
                      !.window_end_slot = demo[d].release + p.execution_window,
                      !.state = "ReleaseScheduled"]
    BY <1>3, <1>4, <2>1
  <2>3. /\ DOMAIN z = DOMAIN r /\ z.version = r.version
        /\ z.state = "ReleaseScheduled" /\ z.release_slot = demo[d].release
        /\ z.window_end_slot = demo[d].release + p.execution_window
    BY <1>2, <2>2 DEF Chain!ZeroRound
  <2>4. /\ DOMAIN round' = Chain!Rounds
        /\ \A e \in Demos \ {d} : round'[R(e)] = round[R(e)]
    BY <1>3, <1>4, <2>1
  <2>5. z.window_end_slot = WindowEnd(demo[d].release)
    BY <1>2, <2>1, <2>3 DEF WindowEnd
  <2> HIDE DEF z, r, p, q, Effect
  <2> QED
    BY <1>7, <1>10, <2>1, <2>3, <2>4, <2>5
<1>11. CASE demo[d].stage = 6 /\ Chain!Begin(R(d))
  <2>1. /\ r.version # 0 /\ slot' = slot /\ pool' = pool
        /\ r.state = "ReleaseScheduled"
        /\ round' = [round EXCEPT ![R(d)].state = "ExecutionWindow"]
    BY <1>11 DEF Chain!Begin, Chain!LiveRound
  <2>2. p.version # 0
    BY <1>2, <2>1
  <2>3. /\ DOMAIN z = DOMAIN r /\ z.version = r.version
        /\ z.state = "ExecutionWindow" /\ z.release_slot = r.release_slot
        /\ z.window_end_slot = r.window_end_slot
    BY <1>2, <1>3, <1>4, <2>1 DEF Chain!ZeroRound
  <2>4. /\ DOMAIN round' = Chain!Rounds
        /\ \A e \in Demos \ {d} : round'[R(e)] = round[R(e)]
    BY <1>3, <1>4, <2>1
  <2> HIDE DEF z, r, p, q, Effect
  <2> QED
    BY <1>7, <1>11, <2>1, <2>2, <2>3, <2>4
<1> QED
  BY <1>5, <1>6, <1>8, <1>9, <1>10, <1>11 DEF Instruction

\* A transaction that fails is executed by nobody.
LEMMA NotLanded ==
  ASSUME Inv, NEW d \in Demos, tx[d] = "pending",
         tx' = [tx EXCEPT ![d] = "failed"],
         UNCHANGED <<slot, pool, round, demo, db, validator, memos>>
  PROVE  Inv'
<1> DEFINE x == demo[d]
<1>1. Sound(x, "pending", db[d], pool[d], round[R(d)], memos[d], slot)
  BY DEF Inv
<1>2. Sound(x, "failed", db[d], pool[d], round[R(d)], memos[d], slot)
  <2> HIDE DEF x
  <2>1. InScript(x, "failed") /\ OnLedger(x, "failed", pool[d], round[R(d)])
    BY <1>1 DEF Sound, InScript, OnLedger, Reached
  <2>2. InReceipts(x, "failed", memos[d], slot)
    BY <1>1 DEF Sound, Counting, InReceipts
  <2> QED
    BY <1>1, <2>1, <2>2 DEF Sound
<1> QED
  BY <1>2, OneDemo DEF Inv

LEMMA ExpireInv ==
  ASSUME Inv, NEW d \in Demos, Expire(d)
  PROVE  Inv'
BY NotLanded DEF Expire, chain

\* A memo is executed in the state the chain is in, which is the one the demo has
\* brought it to.
LEMMA MemoInv ==
  ASSUME Inv, NEW d \in Demos, tx[d] = "pending", demo[d].stage \in Memos,
         tx' = [tx EXCEPT ![d] = "landed"],
         memos' = [memos EXCEPT ![d] =
           Append(@, [slot |-> slot, state |-> round[R(d)].state,
                      release |-> round[R(d)].release_slot,
                      end |-> round[R(d)].window_end_slot])],
         UNCHANGED <<slot, pool, round, demo, db, validator>>
  PROVE  Inv'
<1> DEFINE x == demo[d]
           r == round[R(d)]
           new == [slot |-> slot, state |-> r.state, release |-> r.release_slot,
                   end |-> r.window_end_slot]
           m == memos[d]
           n == memos'[d]
<1>1. Sound(x, "pending", db[d], pool[d], r, m, slot)
  BY DEF Inv
<1>2. n = Append(m, new) /\ slot \in Nat
  BY DEF Inv
<1>3. x.pc \in {"confirm", "err"} /\ x.funded
  BY <1>1 DEF Sound, InScript
<1>4. x.stage \in 7 .. 6 + Participants /\ Participants \in Nat
  BY DemoAssumption DEF Memos
<1> HIDE DEF x, r, m, n
<1>5. r.version # 0 /\ r.state = "ExecutionWindow"
  BY <1>1, <1>3, <1>4 DEF Sound, OnLedger, Holds, Reached, At
<1>6. r.release_slot = x.release /\ r.window_end_slot = WindowEnd(x.release)
  BY <1>1, <1>3, <1>5 DEF Sound, OnLedger
<1>7. new \in Memo(x.release) /\ new.slot = slot
  BY <1>2, <1>5, <1>6 DEF Memo
<1>8. m \in Seq(Memo(x.release)) /\ x.slots \in Seq(Nat)
  BY <1>1 DEF Sound, Counting, InReceipts, IsDemo
<1> HIDE DEF new
<1>9. /\ n \in Seq(Memo(x.release)) /\ Len(n) = Len(m) + 1 /\ n[Len(m) + 1] = new
      /\ \A i \in 1 .. Len(m) : n[i] = m[i]
  BY <1>2, <1>7, <1>8
<1>10. x.pc # "err" => /\ Len(m) = x.stage - 7 /\ Len(x.slots) = x.stage - 6
                       /\ InTurns(x.slots, m)
  BY <1>1, <1>3, <1>4 DEF Sound, Counting, InReceipts
<1>11. ASSUME x.pc # "err" PROVE InTurns(x.slots, n)
  <2> SUFFICES ASSUME NEW i \in 1 .. Len(n)
               PROVE  /\ x.slots[i] <= n[i].slot
                      /\ i < Len(x.slots) => n[i].slot <= x.slots[i + 1]
    BY <1>4, <1>9, <1>10, <1>11 DEF InTurns
  <2>1. CASE i = Len(m) + 1
    <3>1. i \in 1 .. Len(x.slots) /\ i = Len(x.slots)
      BY <1>4, <1>10, <1>11, <2>1
    <3>2. x.slots[i] <= slot
      BY <1>1, <3>1 DEF Sound, InReceipts
    <3> QED
      BY <1>7, <1>9, <2>1, <3>1, <3>2
  <2>2. CASE i # Len(m) + 1
    <3>1. i \in 1 .. Len(m)
      BY <1>8, <1>9, <2>2
    <3> QED
      BY <1>9, <1>10, <1>11, <3>1 DEF InTurns
  <2> QED
    BY <2>1, <2>2
<1>12. InReceipts(x, "landed", n, slot)
  <2>1. \A i \in 1 .. Len(x.slots) :
          x.slots[i] \in x.release .. WindowEnd(x.release) /\ x.slots[i] <= slot
    BY <1>1 DEF Sound, InReceipts
  <2>2. \A i \in 1 .. Len(n) : n[i].slot <= slot
    <3> SUFFICES ASSUME NEW i \in 1 .. Len(n) PROVE n[i].slot <= slot
      OBVIOUS
    <3>1. i = Len(m) + 1 \/ i \in 1 .. Len(m)
      BY <1>8, <1>9
    <3>2. \A k \in 1 .. Len(m) : m[k].slot <= slot
      BY <1>1 DEF Sound, InReceipts
    <3> QED
      BY <1>2, <1>7, <1>9, <3>1, <3>2
  <2>3. x.pc # "err" => Len(n) = x.stage - 6
    BY <1>4, <1>9, <1>10
  <2> QED
    BY <1>3, <1>4, <1>9, <1>10, <1>11, <2>1, <2>2, <2>3 DEF Counting, InReceipts
<1>13. InScript(x, "landed") /\ OnLedger(x, "landed", pool[d], r)
  BY <1>1, <1>3, <1>4 DEF Sound, InScript, OnLedger, Reached, At
<1>14. Sound(x, "landed", db[d], pool[d], r, n, slot)
  BY <1>1, <1>12, <1>13 DEF Sound
<1>15. tx'[d] = "landed" /\ DOMAIN tx' = Demos /\ DOMAIN memos' = Demos
       /\ \A e \in Demos \ {d} : tx'[e] = tx[e] /\ memos'[e] = memos[e]
  BY DEF Inv
<1> QED
  BY <1>14, <1>15, OneDemo DEF Inv, x, r, n

LEMMA InstructionInv ==
  ASSUME Inv, NEW d \in Demos, tx[d] = "pending", Instruction(d),
         tx' = [tx EXCEPT ![d] = "landed"],
         UNCHANGED <<demo, db, validator, memos>>
  PROVE  Inv'
<1> DEFINE x == demo[d]
           q == pool'[d]
           z == round'[R(d)]
<1>1. Sound(x, "pending", db[d], pool[d], round[R(d)], memos[d], slot)
  BY DEF Inv
<1>2. x.pc \in {"confirm", "err"} /\ x.funded
  BY <1>1 DEF Sound, InScript
<1>3. /\ slot' = slot /\ DOMAIN pool' = Demos /\ DOMAIN round' = Chain!Rounds
      /\ \A e \in Demos \ {d} : pool'[e] = pool[e] /\ round'[R(e)] = round[R(e)]
      /\ x.stage \in 1 .. 6
      /\ DOMAIN q = DOMAIN Chain!ZeroPool /\ DOMAIN z = DOMAIN Chain!ZeroRound
      /\ Holds(x.stage + 1, q, z) /\ q.execution_window = WindowLength
      /\ x.stage >= 5 => /\ z.release_slot = x.release
                         /\ z.window_end_slot = WindowEnd(x.release)
  BY <1>2, InstructionEffect
<1> HIDE DEF x, q, z
<1>4. OnLedger(x, "landed", q, z)
  <2>1. Reached(x, "landed") = x.stage + 1
    BY <1>3 DEF Reached, At
  <2>2. z.version # 0 /\ z.state \in {"ReleaseScheduled", "ExecutionWindow"} =>
          x.stage >= 5
    BY <1>3 DEF Holds
  <2>3. q.version = 0 => z.version = 0
    BY <1>3 DEF Holds
  <2> QED
    BY <1>2, <1>3, <2>1, <2>2, <2>3 DEF OnLedger
<1>5. InScript(x, "landed") /\ InReceipts(x, "landed", memos[d], slot)
  BY <1>1, <1>2, <1>3 DEF Sound, InScript, Counting, InReceipts
<1>6. Sound(x, "landed", db[d], q, z, memos[d], slot)
  BY <1>1, <1>4, <1>5 DEF Sound
<1>7. /\ tx'[d] = "landed" /\ DOMAIN tx' = Demos
      /\ \A e \in Demos \ {d} : tx'[e] = tx[e]
  BY DEF Inv
<1> QED
  BY <1>3, <1>6, <1>7, OneDemo DEF Inv, x, q, z

LEMMA LandInv ==
  ASSUME Inv, NEW d \in Demos, Land(d)
  PROVE  Inv'
<1>1. CASE ~Succeeds(d)
  BY <1>1, NotLanded DEF Land, chain
<1>2. CASE Succeeds(d) /\ demo[d].stage \in Memos
  BY <1>2, MemoInv DEF Land, chain
<1>3. CASE Succeeds(d) /\ demo[d].stage \notin Memos
  BY <1>3, InstructionInv DEF Land
<1> QED
  BY <1>1, <1>2, <1>3

LEMMA TickInv ==
  ASSUME Inv, Tick
  PROVE  Inv'
<1>1. /\ slot' = slot + 1
      /\ UNCHANGED <<pool, round, demo, db, validator, tx, memos>>
  BY DEF Tick, Chain!Tick
<1>2. ASSUME NEW x, NEW t, NEW m, slot \in Nat, IsDemo(x), InReceipts(x, t, m, slot)
      PROVE  InReceipts(x, t, m, slot + 1)
  <2>1. \A i \in 1 .. Len(x.slots) :
          /\ x.slots[i] \in x.release .. WindowEnd(x.release)
          /\ x.slots[i] <= slot + 1
    BY <1>2 DEF InReceipts, IsDemo
  <2>2. \A i \in 1 .. Len(m) : m[i].slot <= slot + 1
    <3> SUFFICES ASSUME NEW i \in 1 .. Len(m) PROVE m[i].slot <= slot + 1
      OBVIOUS
    <3>1. m[i] \in Memo(x.release) /\ m[i].slot <= slot
      BY <1>2 DEF InReceipts
    <3> QED
      BY <1>2, <3>1 DEF Memo
  <2> QED
    BY <1>2, <2>1, <2>2 DEF InReceipts
<1>3. \A d \in Demos : Sound(demo[d], tx[d], db[d], pool[d], round[R(d)],
                             memos[d], slot + 1)
  BY <1>2 DEF Inv, Sound
<1> QED
  BY <1>1, <1>3 DEF Inv

-----------------------------------------------------------------------------
LEMMA InitInv == Init => Inv
<1> SUFFICES ASSUME Init PROVE Inv
  OBVIOUS
<1>1. /\ slot = 0 /\ pool = [p \in Demos |-> Chain!ZeroPool]
      /\ round = [r \in Chain!Rounds |-> Chain!ZeroRound]
  BY DEF Init, Chain!Init
<1>2. \A d \in Demos :
        /\ demo[d] = Fresh /\ tx[d] = "none" /\ db[d] = EmptyDb
        /\ pool[d] = Chain!ZeroPool /\ round[R(d)] = Chain!ZeroRound
        /\ memos[d] = <<>>
  BY <1>1, RoundAddress DEF Init
<1>3. Sound(Fresh, "none", EmptyDb, Chain!ZeroPool, Chain!ZeroRound, <<>>, 0)
  <2>1. PICK x : x = Fresh
    OBVIOUS
  <2>2. /\ DOMAIN x = Locals
        /\ x.pc = "store" /\ x.stage = 0 /\ x.funded = FALSE /\ x.release = 0
        /\ x.slots = <<>>
    BY <2>1 DEF Fresh, Locals
  <2>3. IsDemo(x)
    <3>1. 0 \in Nat /\ FALSE \in BOOLEAN /\ "store" \in Pcs /\ <<>> \in Seq(Nat)
      BY DEF Pcs, Early
    <3> QED
      BY <2>2, <3>1, Zenon DEF IsDemo
  <2>4. InScript(x, "none") /\ InReceipts(x, "none", <<>>, 0)
    BY <2>2 DEF InScript, Counting, InTurns, InReceipts, Early
  <2>5. OnLedger(x, "none", Chain!ZeroPool, Chain!ZeroRound)
    BY <2>2 DEF OnLedger, Chain!ZeroPool, Chain!ZeroRound
  <2>6. InStore(x, EmptyDb)
    BY <2>2, EmptyDbFacts DEF InStore
  <2> QED
    BY <2>1, <2>3, <2>4, <2>5, <2>6 DEF Sound
<1>4. /\ DOMAIN demo = Demos /\ DOMAIN tx = Demos /\ DOMAIN db = Demos
      /\ DOMAIN pool = Demos /\ DOMAIN memos = Demos /\ DOMAIN validator = Demos
      /\ DOMAIN round = Chain!Rounds /\ slot \in Nat
  BY <1>1 DEF Init
<1>5. \A d \in Demos :
        Sound(demo[d], tx[d], db[d], pool[d], round[R(d)], memos[d], slot)
  BY <1>1, <1>2, <1>3
<1> QED
  BY <1>4, <1>5 DEF Inv

LEMMA NextInv == Inv /\ [Next]_vars => Inv'
<1> SUFFICES ASSUME Inv, [Next]_vars PROVE Inv'
  OBVIOUS
<1>1. CASE Tick
  BY <1>1, TickInv
<1>2. ASSUME NEW d \in Demos, Step(d) PROVE Inv'
  <2>1. CASE Progress(d)
    BY <2>1, FirstSessionInv, SecondSessionInv, StartValidatorInv,
       WaitForValidatorInv, FundAndDeployInv, GetSlotInv, SendInv, ConfirmInv,
       WaitForSlotInv, CheckRoundInv, MakeEvidenceInv DEF Progress
  <2>2. CASE Fail(d)
    BY <2>2, FailInv
  <2> QED
    BY <1>2, <2>1, <2>2 DEF Step
<1>3. ASSUME NEW d \in Demos, Fault(d) PROVE Inv'
  BY <1>3, FailInv DEF Fault
<1>4. CASE UNCHANGED vars
  BY <1>4 DEF vars, chain, Inv
<1> QED
  BY <1>1, <1>2, <1>3, <1>4, LandInv, ExpireInv, BindInv, DieInv DEF Next

LEMMA Invariance == Spec => []Inv
BY InitInv, NextInv, PTL DEF Spec

\* With any number of demos on any ports the chain is where each demo believes it
\* is for as long as the demo's ledger exists.
THEOREM DemoInStep == Spec => []ScriptInStep
<1>1. Inv => ScriptInStep
  <2> SUFFICES ASSUME Inv, NEW d \in Demos, demo[d].funded
               PROVE  OnChain(d) = Reached(demo[d], tx[d])
    BY DEF ScriptInStep, Reached, At
  <2>1. Holds(Reached(demo[d], tx[d]), pool[d], round[R(d)])
    BY DEF Inv, Sound, OnLedger
  <2>2. PICK k \in 1 .. 7 : k = Reached(demo[d], tx[d])
    BY <2>1 DEF Holds
  <2>3. OnChain(d) = k
    BY <2>1, <2>2 DEF Holds, OnChain, Chain!LivePool, Chain!LiveRound
  <2> QED
    BY <2>2, <2>3
<1> QED
  BY <1>1, Invariance, PTL

\* What a demo reports is true for any number of participants: the root is the one
\* of the first round's tickets, and every memo was executed once, in the
\* participants' order, while the round was in state ExecutionWindow with the two
\* ends its participant had checked its own slot against.  The slots reported are
\* those read before sending; a memo may be executed after the second end.
THEOREM ReportsAreTrue == Spec => []ReportIsTrue
<1>1. Inv => ReportIsTrue
  <2> SUFFICES ASSUME Inv, NEW d \in Demos, demo[d].pc \in {"evidence", "ok"}
               PROVE  /\ demo[d].root = Joining[1]
                      /\ demo[d].pc = "evidence" => db[d].root = Joining
                      /\ Len(memos[d]) = Participants
                      /\ Len(demo[d].slots) = Participants
                      /\ \A i \in 1 .. Participants :
                           /\ memos[d][i].state = "ExecutionWindow"
                           /\ memos[d][i].release = demo[d].release
                           /\ memos[d][i].end = WindowEnd(demo[d].release)
                           /\ memos[d][i].release <= demo[d].slots[i]
                           /\ demo[d].slots[i] <= memos[d][i].end
                           /\ demo[d].slots[i] <= memos[d][i].slot
                           /\ i < Participants =>
                                memos[d][i].slot <= demo[d].slots[i + 1]
    BY DEF ReportIsTrue
  <2> DEFINE x == demo[d]
             m == memos[d]
  <2>1. Sound(x, tx[d], db[d], pool[d], round[R(d)], m, slot)
    BY DEF Inv
  <2>2. x.root = Joining[1] /\ (x.pc = "evidence" => db[d].root = Joining)
    BY <2>1 DEF Sound, InStore
  <2>3. x.stage = 7 + Participants /\ tx[d] = "none" /\ Participants \in Nat
    BY <2>1, DemoAssumption DEF Sound, InScript
  <2>4. Len(m) = Participants /\ Len(x.slots) = Participants
    BY <2>1, <2>3 DEF Sound, Counting, InReceipts
  <2>5. ASSUME NEW i \in 1 .. Participants
        PROVE  /\ m[i].state = "ExecutionWindow" /\ m[i].release = x.release
               /\ m[i].end = WindowEnd(x.release)
    <3>1. m[i] \in Memo(x.release)
      BY <2>1, <2>3, <2>4 DEF Sound, Counting, InReceipts
    <3> QED
      BY <3>1 DEF Memo
  <2>6. ASSUME NEW i \in 1 .. Participants
        PROVE  /\ x.release <= x.slots[i] /\ x.slots[i] <= WindowEnd(x.release)
               /\ x.slots[i] <= m[i].slot
               /\ i < Participants => m[i].slot <= x.slots[i + 1]
    <3>1. /\ x.slots[i] \in x.release .. WindowEnd(x.release)
          /\ x.slots[i] <= m[i].slot
          /\ i < Participants => m[i].slot <= x.slots[i + 1]
      BY <2>1, <2>4 DEF Sound, InTurns, InReceipts
    <3>2. x.release \in Nat /\ WindowEnd(x.release) \in Nat
      <4>1. WindowLength \in Nat
        BY DemoAssumption
      <4>2. x.release \in Nat
        BY <2>1 DEF Sound, IsDemo
      <4> HIDE DEF x
      <4> QED
        BY <4>1, <4>2 DEF WindowEnd
    <3> QED
      BY <3>1, <3>2
  <2> HIDE DEF x, m
  <2>7. \A i \in 1 .. Participants :
          /\ m[i].state = "ExecutionWindow" /\ m[i].release = x.release
          /\ m[i].end = WindowEnd(x.release)
          /\ m[i].release <= x.slots[i] /\ x.slots[i] <= m[i].end
          /\ x.slots[i] <= m[i].slot
          /\ i < Participants => m[i].slot <= x.slots[i + 1]
    BY <2>5, <2>6
  <2> QED
    BY <2>2, <2>4, <2>7 DEF x, m
<1> QED
  BY <1>1, Invariance, PTL

-----------------------------------------------------------------------------
(* The cohort on the chain is the store's                                  *)
(*                                                                         *)
(* The accounts of a demo that failed may outlive it on somebody else's    *)
(* validator, so this is about every live round, not about demos that are  *)
(* still at work.                                                          *)

\* The states a round is in from publish_root on.
Past == {"ThresholdReached", "Sealed", "ReleaseScheduled", "ExecutionWindow"}

\* The pool has the script's policy, and a round past Registration the root of the
\* tickets the store accepted for round 1, in a number the pool allows.
Published(p, r) ==
  /\ p.version # 0 => /\ p.min_participants = Minimum /\ p.max_participants = Maximum
                      /\ p.backend = "MerkleCohort"
  /\ r.version # 0 =>
       /\ p.version # 0
       /\ r.state \in {"Registration"} \cup Past
       /\ r.state \in Past =>
            /\ r.cohort_root = Joining[1] /\ Joining[1] # {}
            /\ r.accepted_count = Cardinality(Joining[1])
            /\ Minimum <= r.accepted_count /\ r.accepted_count <= Maximum

CohortOnChain == \A d \in Demos : Published(pool[d], round[R(d)])

LEMMA NothingPublished == Published(Chain!ZeroPool, Chain!ZeroRound)
BY DEF Published, Chain!ZeroPool, Chain!ZeroRound

\* An instruction of the script, from the accounts it finds.
LEMMA InstructionPublishes ==
  ASSUME Inv, CohortOnChain, NEW d \in Demos, tx[d] = "pending", Instruction(d)
  PROVE  Published(pool'[d], round'[R(d)])
<1> DEFINE p == pool[d]
           r == round[R(d)]
           q == pool'[d]
           z == round'[R(d)]
           n == Cardinality(Joining[1])
<1>1. Sound(demo[d], "pending", db[d], p, r, memos[d], slot)
  BY DEF Inv
<1>2. /\ demo[d].root = Joining[1]
      /\ DOMAIN p = DOMAIN Chain!ZeroPool /\ DOMAIN r = DOMAIN Chain!ZeroRound
      /\ p.version = 0 => r.version = 0
  BY <1>1 DEF Sound, InScript, InStore, OnLedger
<1>3. Published(p, r)
  BY DEF CohortOnChain
<1>4. DOMAIN pool = Demos /\ DOMAIN round = Chain!Rounds /\ R(d) \in Chain!Rounds
  BY RoundAddress DEF Inv
<1>5. CASE Chain!InitializePool(d, d, Policy)
  <2>1. /\ p.version = 0 /\ round' = round
        /\ pool' = [pool EXCEPT ![d] = Chain!NewPool(d, Policy)]
    BY <1>5 DEF Chain!InitializePool, Chain!CreateAccount, Chain!LivePool
  <2>2. z = r /\ q = Chain!NewPool(d, Policy)
    BY <1>4, <2>1
  <2>3. /\ q.min_participants = Minimum /\ q.max_participants = Maximum
        /\ q.backend = "MerkleCohort"
    BY <2>2 DEF Chain!NewPool, Policy
  <2> QED
    BY <1>2, <2>1, <2>2, <2>3 DEF Published
<1>6. CASE Chain!OpenRound(d, d, 0, demo[d].deadline, Template)
  <2>1. /\ p.version # 0
        /\ pool' = [pool EXCEPT ![d].next_round = 0 + 1]
        /\ round' = [round EXCEPT ![R(d)] =
             Chain!NewRound(d, 0, demo[d].deadline, Template)]
    BY <1>6 DEF Chain!OpenRound, Chain!LivePool, R
  <2>2. /\ q.version = p.version /\ q.min_participants = p.min_participants
        /\ q.max_participants = p.max_participants /\ q.backend = p.backend
    BY <1>2, <1>4, <2>1 DEF Chain!ZeroPool
  <2>3. z.state = "Registration"
    BY <1>4, <2>1 DEF Chain!NewRound
  <2> HIDE DEF p, q, r, z
  <2>4. Published(q, z)
    BY <1>3, <2>1, <2>2, <2>3 DEF Published, Past
  <2> QED
    BY <2>4 DEF q, z
<1>7. CASE Chain!PublishRoot(d, d, R(d), demo[d].root, Cardinality(demo[d].root))
  <2>1. /\ p.version # 0 /\ pool' = pool
        /\ n \in p.min_participants .. p.max_participants /\ Joining[1] # {}
        /\ round' = [round EXCEPT ![R(d)] =
             [r EXCEPT !.cohort_root = Joining[1], !.accepted_count = n,
                       !.state = "ThresholdReached"]]
    BY <1>2, <1>7 DEF Chain!PublishRoot, Chain!AdminAccounts, Chain!LivePool,
       Chain!CountAllowed
  <2>2. /\ z.cohort_root = Joining[1] /\ z.accepted_count = n
        /\ z.state = "ThresholdReached" /\ q = p
    BY <1>2, <1>4, <2>1 DEF Chain!ZeroRound
  <2>3. Minimum <= n /\ n <= Maximum
    BY <1>3, <2>1, DemoAssumption DEF Published
  <2> HIDE DEF p, q, r, z
  <2>4. Published(q, z)
    BY <1>3, <2>1, <2>2, <2>3 DEF Published, Past
  <2> QED
    BY <2>4 DEF q, z
<1>8. ASSUME NEW s, s \in Past, pool' = pool, r.version # 0, r.state \in Past,
             z.state = s, z.cohort_root = r.cohort_root,
             z.accepted_count = r.accepted_count
      PROVE  Published(q, z)
  <2>1. q = p
    BY <1>8
  <2> HIDE DEF p, q, r, z
  <2> QED
    BY <1>3, <1>8, <2>1 DEF Published
<1>9. CASE Chain!Seal(d, d, R(d))
  <2>1. /\ pool' = pool /\ r.version # 0 /\ r.state = "ThresholdReached"
        /\ round' = [round EXCEPT ![R(d)].state = "Sealed"]
    BY <1>9 DEF Chain!Seal, Chain!AdminAccounts, Chain!LiveRound
  <2>2. /\ z.state = "Sealed" /\ z.cohort_root = r.cohort_root
        /\ z.accepted_count = r.accepted_count
    BY <1>2, <1>4, <2>1 DEF Chain!ZeroRound
  <2> QED
    BY <1>8, <2>1, <2>2 DEF Past
<1>10. CASE Chain!Schedule(d, d, R(d), demo[d].release)
  <2>1. /\ pool' = pool /\ r.version # 0 /\ r.state = "Sealed"
        /\ round' = [round EXCEPT ![R(d)] =
             [r EXCEPT !.release_slot = demo[d].release,
                       !.window_end_slot = demo[d].release + p.execution_window,
                       !.state = "ReleaseScheduled"]]
    BY <1>10 DEF Chain!Schedule, Chain!Schedulable, Chain!Scheduled,
       Chain!AdminAccounts, Chain!LiveRound
  <2>2. /\ z.state = "ReleaseScheduled" /\ z.cohort_root = r.cohort_root
        /\ z.accepted_count = r.accepted_count
    BY <1>2, <1>4, <2>1 DEF Chain!ZeroRound
  <2> QED
    BY <1>8, <2>1, <2>2 DEF Past
<1>11. CASE Chain!Begin(R(d))
  <2>1. /\ pool' = pool /\ r.version # 0 /\ r.state = "ReleaseScheduled"
        /\ round' = [round EXCEPT ![R(d)].state = "ExecutionWindow"]
    BY <1>11 DEF Chain!Begin, Chain!LiveRound
  <2>2. /\ z.state = "ExecutionWindow" /\ z.cohort_root = r.cohort_root
        /\ z.accepted_count = r.accepted_count
    BY <1>2, <1>4, <2>1 DEF Chain!ZeroRound
  <2> QED
    BY <1>8, <2>1, <2>2 DEF Past
<1> QED
  BY <1>5, <1>6, <1>7, <1>9, <1>10, <1>11 DEF Instruction

\* A validator takes pool and round of a demo away together, or neither.
LEMMA ExitPublishes ==
  ASSUME CohortOnChain, NEW d \in Demos, NEW left, NEW locals, Exit(d, left, locals)
  PROVE  CohortOnChain'
<1> SUFFICES ASSUME NEW e \in Demos
             PROVE  Published(pool'[e], round'[R(e)])
  BY DEF CohortOnChain
<1>1. \/ pool'[e] = pool[e] /\ round'[R(e)] = round[R(e)]
      \/ pool'[e] = Chain!ZeroPool /\ round'[R(e)] = Chain!ZeroRound
  BY RoundAddress DEF Exit
<1> QED
  BY <1>1, NothingPublished DEF CohortOnChain

LEMMA LandPublishes ==
  ASSUME Inv, CohortOnChain, NEW d \in Demos, Land(d)
  PROVE  CohortOnChain'
<1>1. CASE UNCHANGED chain
  BY <1>1 DEF CohortOnChain, chain
<1>2. CASE Instruction(d)
  <2>1. tx[d] = "pending" /\ demo[d].funded
    BY DEF Land, Inv, Sound, InScript
  <2>2. Published(pool'[d], round'[R(d)])
    BY <1>2, <2>1, InstructionPublishes
  <2>3. \A e \in Demos \ {d} : pool'[e] = pool[e] /\ round'[R(e)] = round[R(e)]
    BY <1>2, <2>1, InstructionEffect
  <2> QED
    BY <2>2, <2>3 DEF CohortOnChain
<1> QED
  BY <1>1, <1>2 DEF Land

LEMMA NextPublishes == Inv /\ CohortOnChain /\ [Next]_vars => CohortOnChain'
<1> SUFFICES ASSUME Inv, CohortOnChain, [Next]_vars PROVE CohortOnChain'
  OBVIOUS
<1>1. CASE UNCHANGED <<pool, round>>
  BY <1>1 DEF CohortOnChain
<1>2. ASSUME NEW d \in Demos, NEW left, NEW locals, Exit(d, left, locals)
      PROVE  CohortOnChain'
  BY <1>2, ExitPublishes
<1>3. ASSUME NEW d \in Demos, Progress(d)
      PROVE  UNCHANGED <<pool, round>> \/ \E left, locals : Exit(d, left, locals)
  BY <1>3 DEF Progress, FirstSession, SecondSession, StartValidator,
     WaitForValidator, FundAndDeploy, GetSlot, Send, Confirm, WaitForSlot,
     CheckRound, MakeEvidence, chain
<1>4. ASSUME NEW d \in Demos, Fail(d) \/ Bind(d) \/ Die(d) \/ Expire(d)
      PROVE  UNCHANGED <<pool, round>> \/ \E left, locals : Exit(d, left, locals)
  BY <1>4 DEF Fail, Bind, Die, Expire, chain
<1>5. ASSUME NEW d \in Demos, Step(d) \/ Fault(d) PROVE CohortOnChain'
  BY <1>1, <1>2, <1>3, <1>4, <1>5 DEF Step, Fault
<1>6. CASE Tick \/ UNCHANGED vars
  BY <1>1, <1>6 DEF Tick, Chain!Tick, vars, chain
<1> QED
  BY <1>1, <1>2, <1>4, <1>5, <1>6, LandPublishes DEF Next

\* From the SQLite file to the chain: in every demo, also in one whose accounts are
\* left on another demo's validator, a round past Registration has the root of
\* the tickets the store accepted, and as many members as there are tickets.
THEOREM StoreReachesChain == Spec => []CohortOnChain
<1>1. Init => CohortOnChain
  BY NothingPublished, RoundAddress DEF Init, Chain!Init, CohortOnChain
<1> QED
  BY <1>1, NextPublishes, Invariance, PTL DEF Spec

\* What the program promises of a cohort holds on the ledgers of the demos as well,
\* although whole ledgers come and go under the program.
THEOREM DemosWithinPolicy == Spec => []Chain!CohortWithinPolicy
<1>1. CohortOnChain => Chain!CohortWithinPolicy
  <2> SUFFICES ASSUME CohortOnChain, NEW a \in Chain!Rounds, round[a].version # 0,
                      round[a].state \in Chain!ThresholdMet
               PROVE  /\ pool[a[1]].min_participants <= round[a].accepted_count
                      /\ round[a].accepted_count <= pool[a[1]].max_participants
                      /\ pool[a[1]].backend = "MerkleCohort"
                      /\ round[a].cohort_root # {}
    BY DEF Chain!CohortWithinPolicy, Chain!CohortSound, Chain!OwnPool, Chain!LiveRound
  <2>1. PICK d \in Demos : a = R(d) /\ a[1] = d
    BY DEF Chain!Rounds, Chain!RoundIds, R
  <2>2. Published(pool[d], round[R(d)])
    BY DEF CohortOnChain
  <2> QED
    BY <2>1, <2>2 DEF Published, Past, Chain!ThresholdMet
<1> QED
  BY <1>1, StoreReachesChain, PTL
=============================================================================
