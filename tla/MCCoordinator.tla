--------------------------- MODULE MCCoordinator ---------------------------
(* Instances of Coordinator for TLC.                                       *)
EXTENDS Coordinator

CONSTANTS c1, c2, t1, t2, t3, t4, t5, forged

\* t3 reuses the key of t1 and expires first; the other genuine tickets are of
\* different keys; one ticket does not verify.
MCTickets == {t1, t2, t3, t4, t5, forged}
MCGenuine == MCTickets \ {forged}
MCKey == [t \in MCTickets |-> IF t = t3 THEN t1 ELSE t]
MCExpiry == [t \in MCTickets |-> IF t = t3 THEN 1 ELSE 2]
MCWindows == {<<3, 4>>, <<3, 5>>, <<4, 6>>}

Ticket(c, t) == [proc |-> c, kind |-> "ticket", arg |-> t]
Proof(c, t) == [proc |-> c, kind |-> "proof", arg |-> t]
Seal(c) == [proc |-> c, kind |-> "seal", arg |-> NoWindow]
Schedule(c, w) == [proc |-> c, kind |-> "schedule", arg |-> w]

FourReqs == {"q1", "q2", "q3", "q4"}

\* One process, three requests: tickets of two keys, a retry, a ticket that reuses
\* a key, a forged one, a seal, a proof and a schedule.
ThreeReqs == {"q1", "q2", "q3"}
SealInputs ==
  [q \in ThreeReqs |->
     CASE q = "q1" -> {Ticket(c1, t1)}
       [] q = "q2" -> {Ticket(c1, t2), Ticket(c1, t3), Seal(c1)}
       [] q = "q3" -> {Ticket(c1, t1), Ticket(c1, forged), Seal(c1), Proof(c1, t1),
                       Schedule(c1, <<4, 6>>)}]

\* Two processes.  Up to four tickets for the last places, up to two seals, up to
\* two schedules, a forged ticket or a proof.
RaceInputs ==
  [q \in FourReqs |->
     CASE q = "q1" -> {Ticket(c1, t1)}
       [] q = "q2" -> {Ticket(c2, t2)}
       [] q = "q3" -> {Seal(c1), Ticket(c1, t4), Schedule(c1, <<3, 4>>)}
       [] q = "q4" -> {Seal(c2), Ticket(c2, t5), Ticket(c2, forged), Proof(c2, t1),
                       Schedule(c2, <<3, 5>>)}]

=============================================================================
