----------------------------- MODULE MCEvidence -----------------------------
(* Instances of Evidence for TLC.                                          *)
EXTENDS Evidence

\* Moduli small enough for five participants to share every value.
MCModulus ==
  [f \in Features \ {"historical_behavior"} |->
     CASE f \in {"timing", "amount_bucket"} -> 4
       [] f = "instruction_shape" -> 2 [] OTHER -> 1]

\* Binary numerals, so that values of one and of two digits occur.
MCNumeral(n) ==
  LET digits[m \in Nat] == IF m < 2 THEN <<m>> ELSE Append(digits[m \div 2], m % 2)
  IN digits[n]

Scenario(participants, strategy, dropout, periods) ==
  [version |-> 1, participants |-> participants, strategy |-> strategy, window |-> 4,
   dropout |-> dropout, periods |-> periods, features |-> Features]

MCScenarios ==
  {Scenario(4, strategy, 10, 1) : strategy \in {"RandomizedWithinWindow", "LatencyAware"}}
  \cup {Scenario(4, "NarrowWindow", 0, 2), Scenario(5, "NarrowWindow", 10, 1)}
  \cup {Scenario(6, "FixedSlot", 10, 3)}

NoLocal == [submitted |-> 0, confirmed |-> 0, spread |-> 0]
MCLocals == {NoLocal, [submitted |-> 5, confirmed |-> 5, spread |-> 4]}
=============================================================================
