\* Every stream of four to six participants for each strategy; two generations with two
\* reporters and a verifier.
CONSTANTS
  Modulus <- MCModulus
  Full = 16
  Unit = 2
  Noise = 3
  Epsilon = 2
  MaxValue = 4
  Numeral <- MCNumeral
  MaxGeneration = 2
  Verifiers = {v1}
  Reporters = {r1, r2}
  Scenarios <- MCScenarios
  Locals <- MCLocals
SPECIFICATION Spec
INVARIANTS SameSeedSameRun AblationCoarsens MetricsSound
INVARIANTS AcceptedIsOneGeneration DoneVerifies ReportOfOneInput
CHECK_DEADLOCK FALSE
