--------------------------- MODULE RoundLifecycle ---------------------------
(***************************************************************************)
(* What a mirror-pool round promises its participants, whatever keeps it:  *)
(* the cohort cannot change once it is sealed, the execution window is     *)
(* chosen once, in the future, and is entered only while it is open, a     *)
(* round settles only after its window, and a finished round stays         *)
(* finished.  RoundState is that of crates/mirror-pool-core/src/lib.rs, and *)
(* every change of phase is an edge of its can_transition_to, with one     *)
(* exception, SettleAtOnce: the program's finalize takes the two edges     *)
(* through Finalizing in one step, so that nobody ever sees a round in     *)
(* that state.  docs/state-machine.md ("Every permitted edge is explicit   *)
(* in `RoundState::can_transition_to`") does not provide for that.         *)
(*                                                                         *)
(* The steps constrain the new values instead of choosing them from a set, *)
(* so that the module needs no bounds and an implementation's step can be  *)
(* compared with it directly.                                              *)
(***************************************************************************)
EXTENDS Integers

CONSTANT Rounds

VARIABLES
  slot,    \* the clock
  phase,   \* RoundState of every round; "Closed" once it is discarded
  cohort,  \* whatever the implementation keeps as the round's cohort
  window   \* the execution window: [release, end]

vars == <<slot, phase, cohort, window>>

RoundState == {"Draft", "Registration", "ThresholdReached", "Sealed",
               "ReleaseScheduled", "ExecutionWindow", "Finalizing",
               "Completed", "Cancelled", "Expired"}

TerminalState == {"Completed", "Cancelled", "Expired"}

\* RoundState::can_transition_to
CanTransitionTo(s, t) ==
  \/ s = "Draft" /\ t \in {"Registration", "Cancelled"}
  \/ s = "Registration" /\ t \in {"ThresholdReached", "Cancelled", "Expired"}
  \/ s = "ThresholdReached" /\ t \in {"Sealed", "Cancelled", "Expired"}
  \/ s = "Sealed" /\ t \in {"ReleaseScheduled", "Cancelled"}
  \/ s = "ReleaseScheduled" /\ t \in {"ExecutionWindow", "Cancelled", "Expired"}
  \/ s = "ExecutionWindow" /\ t \in {"Finalizing", "Cancelled"}
  \/ s = "Finalizing" /\ t \in {"Completed", "Cancelled"}

-----------------------------------------------------------------------------
Others(r) ==
  \A q \in Rounds \ {r} : /\ phase'[q] = phase[q]
                          /\ cohort'[q] = cohort[q]
                          /\ window'[q] = window[q]

\* One edge of the protocol graph.
Move(r, s, t) ==
  /\ CanTransitionTo(s, t)
  /\ phase[r] = s
  /\ phase'[r] = t

Advance == slot' > slot /\ UNCHANGED <<phase, cohort, window>>

Announce(r) == Move(r, "Draft", "Registration")

Enrol(r) ==
  /\ phase[r] \in {"Registration", "ThresholdReached"}
  /\ \/ phase'[r] = phase[r]
     \/ Move(r, "Registration", "ThresholdReached")
  /\ window'[r] = window[r]

SealCohort(r) ==
  /\ Move(r, "ThresholdReached", "Sealed")
  /\ cohort'[r] = cohort[r]
  /\ window'[r] = window[r]

FixWindow(r) ==
  /\ Move(r, "Sealed", "ReleaseScheduled")
  /\ cohort'[r] = cohort[r]
  /\ slot <= window'[r].release
  /\ window'[r].release < window'[r].end

OpenWindow(r) ==
  /\ Move(r, "ReleaseScheduled", "ExecutionWindow")
  /\ window[r].release <= slot
  /\ slot <= window[r].end
  /\ cohort'[r] = cohort[r]
  /\ window'[r] = window[r]

\* Both edges of a settlement at once, as the on-chain finalize takes them.
SettleAtOnce(r) ==
  /\ CanTransitionTo("ExecutionWindow", "Finalizing")
  /\ CanTransitionTo("Finalizing", "Completed")
  /\ phase[r] = "ExecutionWindow"
  /\ phase'[r] = "Completed"

Settle(r) ==
  /\ \/ Move(r, "ExecutionWindow", "Finalizing")
     \/ Move(r, "Finalizing", "Completed")
     \/ SettleAtOnce(r)
  /\ slot > window[r].end
  /\ cohort'[r] = cohort[r]
  /\ window'[r] = window[r]

Abort(r) ==
  /\ \E t \in {"Cancelled", "Expired"} : Move(r, phase[r], t)
  /\ cohort'[r] = cohort[r]
  /\ window'[r] = window[r]

Discard(r) ==
  /\ phase[r] \in TerminalState
  /\ phase'[r] = "Closed"

RoundStep(r) ==
  /\ \/ Announce(r) \/ Enrol(r) \/ SealCohort(r) \/ FixWindow(r)
     \/ OpenWindow(r) \/ Settle(r) \/ Abort(r) \/ Discard(r)
  /\ Others(r)
  /\ slot' = slot

Init == phase = [r \in Rounds |-> "Draft"]

Next == Advance \/ \E r \in Rounds : RoundStep(r)

Spec == Init /\ [][Next]_vars
=============================================================================
