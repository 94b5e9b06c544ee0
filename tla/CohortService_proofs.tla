----------------------- MODULE CohortService_proofs -----------------------
(***************************************************************************)
(* What follows from the service alone, for whatever implements it.        *)
(***************************************************************************)
EXTENDS CohortService, FiniteSetTheorems, TLAPS

Inv == Promises /\ IsFiniteSet(members)

\* The round only grows: members are added, and cohort and window are chosen once.
RoundGrows ==
  /\ members \subseteq members'
  /\ cohort # {} => cohort' = cohort
  /\ window # NoWindow => window' = window

Told(q) == call[q].state \in {"answered", "heard"}

\* A call that is where it was, in a round that has grown.
LEMMA TrueStays ==
  ASSUME Promises, RoundGrows, NEW p \in Reqs, call'[p] = call[p], Told(p)
  PROVE  AnswerTrue(call[p])'
<1>1. PICK c : c = call[p] /\ c = call'[p]
  OBVIOUS
<1>2. AnswerTrue(c)
  BY <1>1 DEF Promises, Told
<1>3. AnswerTrue(c)'
  BY <1>2 DEF RoundGrows, AnswerTrue, KeyTaken
<1> QED
  BY <1>1, <1>3 DEF AnswerTrue, KeyTaken

\* A call that moves and the calls that do not.
LEMMA AnswersStay ==
  ASSUME Promises, RoundGrows, NEW q \in Reqs, Others(q),
         Told(q)' => AnswerTrue(call[q])'
  PROVE  \A p \in Reqs : Told(p)' => AnswerTrue(call[p])'
<1> SUFFICES ASSUME NEW p \in Reqs, p # q, Told(p)' PROVE AnswerTrue(call[p])'
  OBVIOUS
<1>1. call'[p] = call[p] /\ Told(p)
  BY DEF Others, Told
<1> QED
  BY <1>1, TrueStays

\* Steps that leave the round alone keep what is said of it.
LEMMA Quiet ==
  ASSUME Inv, UNCHANGED round, \A p \in Reqs : Told(p)' => AnswerTrue(call[p])'
  PROVE  Inv'
BY DEF Inv, Promises, round, Told

LEMMA QuietGrows == ASSUME UNCHANGED round PROVE RoundGrows
BY DEF round, RoundGrows

\* The answer that Tell gives, with the fields it does not touch.
LEMMA Answer ==
  ASSUME NEW q \in Reqs, NEW kind, NEW reply, NEW r, Tell(q, kind, reply, r)
  PROVE  /\ call'[q].arg = call[q].arg /\ call'[q].reply = reply /\ call'[q].root = r
         /\ call'[q].state = "answered"
BY DEF Tell, Come

LEMMA AcceptKeeps ==
  ASSUME Limit \in Nat, Inv, NEW q \in Reqs, Accept(q), Others(q)
  PROVE  Inv'
<1>1. PICK t : t = call[q].arg
  OBVIOUS
<1>2. /\ call'[q].arg = t /\ call'[q].reply = "accepted"
      /\ t \in Genuine /\ ~KeyTaken(t) /\ Cardinality(members) < Limit
      /\ members' = members \cup {t} /\ UNCHANGED <<cohort, window>>
  BY <1>1, Answer DEF Accept
<1>3. RoundGrows
  BY <1>2 DEF RoundGrows
<1>4. AnswerTrue(call[q])'
  BY <1>2 DEF AnswerTrue
<1>5. \A p \in Reqs : Told(p)' => AnswerTrue(call[p])'
  BY <1>3, <1>4, AnswersStay DEF Inv
<1>6. IsFiniteSet(members) /\ Cardinality(members) \in Nat /\ t \notin members
  BY <1>2, FS_CardinalityType DEF Inv, KeyTaken
<1>7. IsFiniteSet(members') /\ Cardinality(members') = Cardinality(members) + 1
  BY <1>2, <1>6, FS_AddElement
<1>8. Cardinality(members') <= Limit
  BY <1>2, <1>6, <1>7
<1>9. \A u, v \in members' : Key[u] = Key[v] => u = v
  BY <1>2 DEF Inv, Promises, KeyTaken
<1> QED
  BY <1>2, <1>5, <1>7, <1>8, <1>9 DEF Inv, Promises, Told

LEMMA SealNewKeeps ==
  ASSUME Inv, NEW q \in Reqs, SealNew(q), Others(q)
  PROVE  Inv'
<1>1. /\ call'[q].reply = "sealed" /\ call'[q].root = members
      /\ cohort = {} /\ members # {} /\ Cardinality(members) >= Minimum
      /\ cohort' = members /\ UNCHANGED <<members, window>>
  BY Answer DEF SealNew
<1>2. RoundGrows
  BY <1>1 DEF RoundGrows
<1>3. AnswerTrue(call[q])'
  BY <1>1 DEF AnswerTrue
<1>4. \A p \in Reqs : Told(p)' => AnswerTrue(call[p])'
  BY <1>2, <1>3, AnswersStay DEF Inv
<1> QED
  BY <1>1, <1>4 DEF Inv, Promises, Told

LEMMA ScheduleNewKeeps ==
  ASSUME Inv, NEW q \in Reqs, ScheduleNew(q), Others(q)
  PROVE  Inv'
<1>1. /\ call'[q].reply = "scheduled" /\ call'[q].arg = call[q].arg
      /\ window = NoWindow /\ call[q].arg # NoWindow
      /\ window' = call[q].arg /\ UNCHANGED <<members, cohort>>
  BY Answer DEF ScheduleNew
<1>2. RoundGrows
  BY <1>1 DEF RoundGrows
<1>3. AnswerTrue(call[q])'
  BY <1>1 DEF AnswerTrue
<1>4. \A p \in Reqs : Told(p)' => AnswerTrue(call[p])'
  BY <1>2, <1>3, AnswersStay DEF Inv
<1> QED
  BY <1>1, <1>4 DEF Inv, Promises, Told

\* The steps that answer from the round as it is, or answer nothing.
LEMMA QuietKeeps ==
  ASSUME Inv, NEW q \in Reqs, Others(q),
         \/ Open(q) \/ Duplicate(q) \/ SealAgain(q) \/ Prove(q)
         \/ ScheduleAgain(q) \/ Refuse(q) \/ Hear(q)
  PROVE  Inv'
<1>1. UNCHANGED round
  BY DEF Open, Duplicate, SealAgain, Prove, ScheduleAgain, Refuse, Hear
<1>2. Told(q)' => AnswerTrue(call[q])'
  <2>1. CASE Open(q)
    BY <2>1 DEF Open, Told
  <2>2. CASE Duplicate(q)
    BY <1>1, <2>2, Answer DEF Duplicate, AnswerTrue, KeyTaken, round
  <2>3. CASE SealAgain(q)
    BY <1>1, <2>3, Answer DEF SealAgain, AnswerTrue, round
  <2>4. CASE Prove(q)
    <3>1. /\ call'[q].reply = "proof" /\ call'[q].root = cohort
          /\ call'[q].arg = call[q].arg /\ call[q].arg \in cohort
      BY <2>4, Answer DEF Prove
    <3> QED
      BY <1>1, <3>1 DEF AnswerTrue, round
  <2>5. CASE ScheduleAgain(q)
    <3>1. /\ call'[q].reply = IF window = call[q].arg THEN "scheduled" ELSE "conflict"
          /\ call'[q].arg = call[q].arg /\ window # NoWindow
      BY <2>5, Answer DEF ScheduleAgain
    <3> QED
      BY <1>1, <3>1 DEF AnswerTrue, round
  <2>6. CASE Refuse(q)
    BY <2>6, Answer DEF Refuse, AnswerTrue
  <2>7. CASE Hear(q)
    <3>1. /\ Told(q) /\ call'[q].reply = call[q].reply
          /\ call'[q].arg = call[q].arg /\ call'[q].root = call[q].root
      BY <2>7 DEF Hear, Come, Told
    <3>2. AnswerTrue(call[q])
      BY <3>1 DEF Inv, Promises, Told
    <3> QED
      BY <1>1, <3>1, <3>2 DEF AnswerTrue, KeyTaken, round
  <2> QED
    BY <2>1, <2>2, <2>3, <2>4, <2>5, <2>6, <2>7
<1>3. \A p \in Reqs : Told(p)' => AnswerTrue(call[p])'
  BY <1>1, <1>2, QuietGrows, AnswersStay DEF Inv
<1> QED
  BY <1>1, <1>3, Quiet

LEMMA LoseKeeps ==
  ASSUME Inv, Lose
  PROVE  Inv'
<1>1. UNCHANGED round
  BY DEF Lose
<1>2. ASSUME NEW p \in Reqs, Told(p)' PROVE AnswerTrue(call[p])'
  <2>1. call'[p] = call[p]
    <3>1. call'[p] = call[p] \/ call'[p] = Come(p, "lost", "none", {})
      BY DEF Lose
    <3>2. Come(p, "lost", "none", {}).state = "lost"
      BY DEF Come
    <3> QED
      BY <1>2, <3>1, <3>2 DEF Told
  <2> QED
    BY <1>1, <1>2, <2>1, QuietGrows, TrueStays DEF Inv, Told
<1> QED
  BY <1>1, <1>2, Quiet

LEMMA StutterKeeps ==
  ASSUME Inv, UNCHANGED vars
  PROVE  Inv'
BY DEF Inv, Promises, vars, AnswerTrue, KeyTaken

LEMMA NextKeeps ==
  ASSUME Limit \in Nat, Inv, [Next]_vars
  PROVE  Inv'
BY AcceptKeeps, SealNewKeeps, ScheduleNewKeeps, QuietKeeps, LoseKeeps, StutterKeeps
   DEF Next, Step

LEMMA InitKeeps ==
  ASSUME Limit \in Nat, Init
  PROVE  Inv
BY FS_EmptySet DEF Init, Inv, Promises

\* Whoever implements the service never tells a client what is not, or does not
\* stay, true, and never has a member that is forged, of a taken key or over the limit.
THEOREM PromisesKept ==
  ASSUME Limit \in Nat
  PROVE  Spec => []Promises
<1>1. Init => Inv
  BY InitKeeps
<1>2. Inv /\ [Next]_vars => Inv'
  BY NextKeeps
<1>3. Inv => Promises
  BY DEF Inv
<1> QED
  BY <1>1, <1>2, <1>3, PTL DEF Spec
=============================================================================
