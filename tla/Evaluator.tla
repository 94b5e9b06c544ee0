----------------------------- MODULE Evaluator -----------------------------
(***************************************************************************)
(* The synthetic evaluator (crates/mirror-pool-simulator/src/lib.rs).      *)
(*                                                                         *)
(* evaluate() is a function of the scenario and of the words its seeded    *)
(* generator produces.  A word is 0 or 1 and picks the lower or the upper  *)
(* end of the range it is drawn for.  Scores are counted in grains finer   *)
(* than f64::EPSILON, rates are kept as numerator and denominator; entropy *)
(* is left out.                                                            *)
(***************************************************************************)
EXTENDS Integers, Sequences, FiniteSets, FiniteSetsExt

CONSTANTS
  Modulus,  \* what each feature is reduced by: timing 4, shape 5, fee 3,
            \* funding 7, amount 4
  Full,     \* the score 1.0, in grains
  Unit,     \* the grains one unit of signal adds, 1/28 of a score
  Noise,    \* the grains of the largest noise, 0.15
  Epsilon,  \* the grains of f64::EPSILON
  MaxValue, \* bound: the largest value of a feature
  Numeral(_)  \* a number as Display prints it, a sequence of digits

Strategies == {"FixedSlot", "NarrowWindow", "RandomizedWithinWindow", "LatencyAware"}

Features == {"timing", "instruction_shape", "fee_behavior", "funding_graph",
             "amount_bucket", "historical_behavior"}

\* The values a feature may take.
Values == 0 .. MaxValue

ASSUME ModulusAssumption ==
  /\ MaxValue \in Nat \ {0}
  /\ Modulus \in [Features \ {"historical_behavior"} -> Values \ {0}]

ASSUME ScoreAssumption ==
  Full \in Nat /\ Unit \in Nat /\ Noise \in Nat /\ Epsilon \in Nat \ {0}

\* Different numbers are printed differently.
ASSUME NumeralAssumption ==
  \A m, n \in Values : /\ Numeral(m) \in Seq(Nat)
                       /\ Numeral(m) = Numeral(n) => m = n

Words == {0, 1}
TargetSlot == 10000

\* dropout is in percent.
ValidScenario(s) ==
  /\ s.version = 1
  /\ s.participants \in 2 .. 100000
  /\ s.window # 0
  /\ s.dropout \in 0 .. 99

Participants(s) == 0 .. (s.participants - 1)

\* Mutant: no slot is drawn for an observer who does not look at it.
DrawsUnlessUnobserved(s) ==
  IF s.strategy = "FixedSlot" \/ "timing" \notin s.features THEN 2 ELSE 3
\* The words one participant takes: dropout, slot, noise.
Draws(s) == IF s.strategy = "FixedSlot" THEN 2 ELSE 3

\* The last slot a strategy may pick, counted from the target.
Reach(s) ==
  CASE s.strategy = "FixedSlot" -> 0
    [] s.strategy = "NarrowWindow" -> Min({s.window, 3})
    [] s.strategy = "RandomizedWithinWindow" -> s.window
    [] s.strategy = "LatencyAware" -> Min({s.window, 2})

\* What the observer sees of participant p in a feature.
Feature(s, f, p, slot) ==
  IF f \notin s.features THEN 0
  ELSE CASE f = "timing" -> slot % Modulus[f]
         [] f = "historical_behavior" -> p % Max({s.periods, 1})
         [] OTHER -> p % Modulus[f]

Seen(s, p, slot) == [f \in Features |-> Feature(s, f, p, slot)]

Signal(seen) ==
  seen["timing"] + seen["instruction_shape"] + seen["fee_behavior"]
    + seen["funding_graph"] + seen["amount_bucket"] + seen["historical_behavior"]

\* The separator, which is not a digit.
Colon == -1

Field(n, rest) == Numeral(n) \o <<Colon>> \o rest

\* Mutant: the numerals are printed without separators.
FingerprintRunTogether(seen) ==
  Numeral(seen["timing"]) \o Numeral(seen["instruction_shape"])
    \o Numeral(seen["fee_behavior"]) \o Numeral(seen["funding_graph"])
    \o Numeral(seen["amount_bucket"]) \o Numeral(seen["historical_behavior"])
\* What format! prints of the six values.
Fingerprint(seen) ==
  Field(seen["timing"], Field(seen["instruction_shape"], Field(seen["fee_behavior"],
    Field(seen["funding_graph"], Field(seen["amount_bucket"],
      Numeral(seen["historical_behavior"]))))))

\* One round of the loop in evaluate: word i of the stream is the first one the
\* participant takes.
Observe(s, stream, p) ==
  LET i == p * Draws(s)
      slot == TargetSlot + IF Draws(s) = 3 THEN stream[i + 1] * Reach(s) ELSE 0
      seen == Seen(s, p, slot)
      noise == stream[i + Draws(s) - 1]
  IN [executed |-> s.dropout = 0 \/ stream[i] # 0,
      slot |-> slot,
      fingerprint |-> Fingerprint(seen),
      score |-> Min({Full, Unit * Signal(seen) + Noise * noise}),
      true_link |-> p % 2 = 0]

Trace(s, stream) == [p \in Participants(s) |-> Observe(s, stream, p)]

-----------------------------------------------------------------------------
(* metrics                                                                 *)

Executed(obs) == {p \in DOMAIN obs : obs[p].executed}

Slots(obs) == {obs[p].slot : p \in Executed(obs)}

Spread(obs) ==
  IF Executed(obs) = {} THEN 0 ELSE Max(Slots(obs)) - Min(Slots(obs))

\* ((n - 1) as f64 * fraction).round()
PercentileIndex(n, percent) == ((n - 1) * percent + 50) \div 100

Earlier(obs, d) == {p \in Executed(obs) : obs[p].slot - TargetSlot < d}

\* The deviation at that index of the sorted list, a singleton; empty if the index
\* is past its end.
Percentile(obs, percent) ==
  LET i == PercentileIndex(Cardinality(Executed(obs)), percent) IN
  {d \in {slot - TargetSlot : slot \in Slots(obs)} :
     Cardinality(Earlier(obs, d)) <= i /\ i < Cardinality(Earlier(obs, d + 1))}

Group(obs, p) ==
  {q \in Executed(obs) : obs[q].fingerprint = obs[p].fingerprint}

MinimumK(obs) ==
  IF Executed(obs) = {} THEN 0
  ELSE Min({Cardinality(Group(obs, p)) : p \in Executed(obs)})

Unique(obs) == {p \in Executed(obs) : Group(obs, p) = {p}}

Linked(obs, link) == {p \in Executed(obs) : obs[p].true_link = link}

\* confusion: how many of the participants with that link are flagged.
Flagged(obs, link) == {p \in Linked(obs, link) : 2 * obs[p].score >= Full}

\* Mutant: what is not a win counts nothing.
TwiceWinsStrict(obs, link) ==
  2 * Cardinality({x \in Linked(obs, link) \X Linked(obs, ~link) :
                     obs[x[1]].score > obs[x[2]].score})
\* Twice the wins auc counts for the participants with that link: a higher score is
\* a win, and only then is a difference below EPSILON half of one.
TwiceWins(obs, link) ==
  LET pairs == Linked(obs, link) \X Linked(obs, ~link)
      won == {x \in pairs : obs[x[1]].score > obs[x[2]].score}
  IN 2 * Cardinality(won)
       + Cardinality({x \in pairs \ won : obs[x[2]].score - obs[x[1]].score < Epsilon})

Auc(obs, link) ==
  LET pairs == Linked(obs, link) \X Linked(obs, ~link) IN
  IF pairs = {} THEN [num |-> 1, den |-> 2]
  ELSE [num |-> TwiceWins(obs, link), den |-> 2 * Cardinality(pairs)]
=============================================================================
