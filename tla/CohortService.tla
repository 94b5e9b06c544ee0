--------------------------- MODULE CohortService ---------------------------
(***************************************************************************)
(* What the clients of one round may rely on, however many coordinator     *)
(* processes serve it and whatever crashes: one service in which a call    *)
(* takes effect in one step, after it was made and before it is answered,  *)
(* or not at all, and in which an answer that was heard was true then and  *)
(* stays true.  Errors carry no promise: any call may be refused, and any  *)
(* answer lost, with or without its effect.                                *)
(*                                                                         *)
(* The calls are those of crates/mirror-pool-coordinator/src/lib.rs and of *)
(* schedule_release in crates/mirror-pool-store/src/lib.rs.  A root is the *)
(* set of tickets it was built from.                                       *)
(***************************************************************************)
EXTENDS Integers, FiniteSets

CONSTANTS
  Reqs,      \* the calls
  Genuine,   \* the tickets that verify
  Key,       \* the coordination key of each ticket
  Minimum,   \* of a cohort that may be sealed
  Limit,     \* on the tickets of a round
  NoWindow

VARIABLES
  call,      \* [state, kind, arg, reply, root] of every call
  members,   \* the tickets that are in
  cohort,    \* the sealed cohort, {} before
  window     \* the scheduled window, NoWindow before

round == <<members, cohort, window>>
vars == <<call, members, cohort, window>>

-----------------------------------------------------------------------------
\* The call of q, come further.
Come(q, state, reply, r) ==
  [state |-> state, kind |-> call[q].kind, arg |-> call[q].arg,
   reply |-> reply, root |-> r]

Others(q) == \A p \in Reqs \ {q} : call'[p] = call[p]

Open(q) ==
  /\ call[q].state = "idle"
  /\ call'[q].state = "open" /\ call'[q].reply = "none" /\ call'[q].root = {}
  /\ UNCHANGED round

Tell(q, kind, reply, r) ==
  /\ call[q].state = "open" /\ call[q].kind = kind
  /\ call'[q] = Come(q, "answered", reply, r)

KeyTaken(t) == \E u \in members : Key[u] = Key[t]

Accept(q) ==
  /\ Tell(q, "ticket", "accepted", {})
  /\ call[q].arg \in Genuine /\ ~KeyTaken(call[q].arg)
  /\ Cardinality(members) < Limit
  /\ members' = members \cup {call[q].arg}
  /\ UNCHANGED <<cohort, window>>

Duplicate(q) ==
  /\ Tell(q, "ticket", "duplicate", {})
  /\ call[q].arg \in Genuine /\ KeyTaken(call[q].arg)
  /\ UNCHANGED round

SealNew(q) ==
  /\ Tell(q, "seal", "sealed", members)
  /\ cohort = {} /\ members # {} /\ Cardinality(members) >= Minimum
  /\ cohort' = members
  /\ UNCHANGED <<members, window>>

SealAgain(q) ==
  /\ Tell(q, "seal", "sealed", cohort)
  /\ cohort # {}
  /\ UNCHANGED round

Prove(q) ==
  /\ Tell(q, "proof", "proof", cohort)
  /\ call[q].arg \in cohort
  /\ UNCHANGED round

ScheduleNew(q) ==
  /\ Tell(q, "schedule", "scheduled", {})
  /\ window = NoWindow /\ call[q].arg # NoWindow
  /\ window' = call[q].arg
  /\ UNCHANGED <<members, cohort>>

ScheduleAgain(q) ==
  /\ Tell(q, "schedule", IF window = call[q].arg THEN "scheduled" ELSE "conflict", {})
  /\ window # NoWindow
  /\ UNCHANGED round

Refuse(q) ==
  /\ Tell(q, call[q].kind, "refused", {})
  /\ UNCHANGED round

Hear(q) ==
  /\ call[q].state = "answered"
  /\ call'[q] = Come(q, "heard", call[q].reply, call[q].root)
  /\ UNCHANGED round

\* A crash takes the calls of a whole process with it.
Lose ==
  /\ \A q \in Reqs :
       \/ call'[q] = call[q]
       \/ /\ call[q].state \in {"open", "answered"}
          /\ call'[q] = Come(q, "lost", "none", {})
  /\ UNCHANGED round

Step(q) ==
  /\ Others(q)
  /\ \/ Open(q) \/ Accept(q) \/ Duplicate(q) \/ SealNew(q) \/ SealAgain(q)
     \/ Prove(q) \/ ScheduleNew(q) \/ ScheduleAgain(q) \/ Refuse(q) \/ Hear(q)

Init ==
  /\ \A q \in Reqs : call[q].state = "idle"
  /\ members = {} /\ cohort = {} /\ window = NoWindow

Next == Lose \/ \E q \in Reqs : Step(q)

Spec == Init /\ [][Next]_vars

-----------------------------------------------------------------------------
\* An answer, heard or on its way, is true of the round.
AnswerTrue(c) ==
  /\ c.reply = "accepted" => c.arg \in members
  /\ c.reply = "duplicate" => KeyTaken(c.arg)
  /\ c.reply \in {"sealed", "proof"} => c.root = cohort /\ cohort # {}
  /\ c.reply = "proof" => c.arg \in cohort
  /\ c.reply = "scheduled" => window = c.arg /\ window # NoWindow
  /\ c.reply = "conflict" => window # c.arg /\ window # NoWindow

\* What the service amounts to: answers stay true; the members are genuine, of one
\* key each and not more than the limit; the cohort is of members, and large enough.
Promises ==
  /\ \A q \in Reqs : call[q].state \in {"answered", "heard"} => AnswerTrue(call[q])
  /\ members \subseteq Genuine /\ Cardinality(members) <= Limit
  /\ \A t, u \in members : Key[t] = Key[u] => t = u
  /\ cohort \subseteq members
  /\ cohort # {} => Cardinality(cohort) >= Minimum
=============================================================================
