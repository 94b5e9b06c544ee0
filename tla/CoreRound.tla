----------------------------- MODULE CoreRound -----------------------------
(***************************************************************************)
(* PoolConfig and Round of crates/mirror-pool-core/src/lib.rs, kept in the *)
(* rounds table of crates/mirror-pool-store/src/lib.rs.                    *)
(*                                                                         *)
(* A Round is a value: a holder (a process that uses the library) fetches  *)
(* a copy, calls methods on it and puts it back, or dies and loses it.     *)
(* Every method is public, transition() included, and takes its limits     *)
(* from the caller; nothing makes a holder fetch the row again before it   *)
(* puts its copy.                                                          *)
(*                                                                         *)
(* docs/state-machine.md says "Sealing requires threshold and an unset     *)
(* root".  That is true of seal(); transition() takes a round to Sealed,   *)
(* and on to ReleaseScheduled, without root, threshold or window.          *)
(***************************************************************************)
EXTENDS Integers

CONSTANTS
  Holders,    \* users of the library with a copy of the round
  Configs,    \* the configurations offered
  Roots,      \* the roots a holder may seal with
  Releases,   \* the release slots it may ask for
  Maxima,     \* the maximum a caller may give to register
  Minima,     \* the minimum a caller may give to seal
  None,       \* an Option that is None, a missing row, no copy
  U32Max, U64Max,
  MaxParticipants,  \* 100_000
  SchemaVersion,    \* SCHEMA_VERSION
  MaxSlot           \* bound on the clock

ASSUME BoundsAssumption ==
  /\ U32Max \in Nat /\ U64Max \in Nat /\ MaxParticipants \in 0 .. U32Max
  /\ MaxSlot \in 0 .. U64Max /\ Releases \subseteq 0 .. U64Max
  /\ Maxima \subseteq 0 .. U32Max /\ Minima \subseteq 0 .. U32Max

\* The integer fields of a PoolConfig are unsigned.
ASSUME ConfigsAssumption ==
  \A c \in Configs :
    /\ c.min_participants \in 0 .. U32Max /\ c.max_participants \in 0 .. U32Max
    /\ c.registration_duration \in 0 .. U64Max /\ c.execution_window \in 0 .. U64Max
    /\ c.min_release_delay \in 0 .. U64Max /\ c.max_release_delay \in 0 .. U64Max

ASSUME NoneAssumption ==
  None \notin Configs /\ None \notin Roots /\ None \notin 0 .. U64Max

VARIABLES
  slot,    \* the clock holders read
  config,  \* the pool's PoolConfig
  stored,  \* the row of the rounds table
  held,    \* each holder's copy
  current  \* history: the holders whose copy comes from the row as it now is

vars == <<slot, config, stored, held, current>>

\* RoundState and its edges are defined there; nothing else of it is used.
Lifecycle == INSTANCE RoundLifecycle
               WITH Rounds <- {}, phase <- stored, cohort <- stored, window <- stored

-----------------------------------------------------------------------------
\* PoolConfig::validate.  hash_matches stands for the recomputed hash, allowlists
\* for both sets being non-empty.
ParticipantBounds(c) ==
  /\ c.min_participants >= 2
  /\ c.min_participants <= c.max_participants
  /\ c.max_participants <= MaxParticipants

TimingBounds(c) ==
  /\ c.registration_duration # 0 /\ c.execution_window # 0
  /\ c.min_release_delay <= c.max_release_delay
  /\ c.max_timing_dispersion <= c.execution_window

Validate(c) ==
  /\ c.version = SchemaVersion
  /\ ParticipantBounds(c)
  /\ TimingBounds(c)
  /\ c.allowlists
  /\ c.hash_matches

\* `pool create` and insert_pool.
CreatePool(c) ==
  /\ config = None
  /\ Validate(c)
  /\ config' = c
  /\ UNCHANGED <<slot, stored, held, current>>

AnyDeadline(deadline) == TRUE

DeadlineFits(deadline) == deadline <= U64Max

\* `round open`: the deadline is a checked addition.  `via` is no field of the
\* code's: it remembers whether transition() was called in place of a method.
OpenRound(h) ==
  /\ config # None /\ stored = None /\ held[h] = None
  /\ DeadlineFits(slot + config.registration_duration)
  /\ held' = [held EXCEPT ![h] =
       [state |-> "Registration", deadline |-> slot + config.registration_duration,
        accepted |-> 0, root |-> None, release |-> None, end |-> None,
        via |-> "methods"]]
  /\ current' = current \cup {h}
  /\ UNCHANGED <<slot, config, stored>>

-----------------------------------------------------------------------------
Update(h, round) == held' = [held EXCEPT ![h] = round]

\* transition() to a state that a method of its own is meant to enter.
Via(r, next) == IF next \in {"Sealed", "ReleaseScheduled"} THEN "transition" ELSE r.via

Transition(h, next) ==
  /\ held[h] # None
  /\ Lifecycle!CanTransitionTo(held[h].state, next)
  /\ Update(h, [held[h] EXCEPT !.state = next, !.via = Via(held[h], next)])
  /\ UNCHANGED <<slot, config, stored, current>>

RegisterOpen(r) == r.state \notin Lifecycle!TerminalState

MayRegister(r) == r.state \in {"Registration", "ThresholdReached"}

Register(h, max) ==
  /\ held[h] # None
  /\ MayRegister(held[h])
  /\ slot < held[h].deadline
  /\ held[h].accepted < max
  /\ held[h].accepted + 1 <= U32Max
  /\ Update(h, [held[h] EXCEPT !.accepted = @ + 1])
  /\ UNCHANGED <<slot, config, stored, current>>

Seal(h, root, minimum) ==
  /\ held[h] # None
  /\ held[h].state = "ThresholdReached"
  /\ held[h].accepted >= minimum
  /\ held[h].root = None
  /\ Update(h, [held[h] EXCEPT !.root = root, !.state = "Sealed"])
  /\ UNCHANGED <<slot, config, stored, current>>

WrappedEnd(release) == (release + config.execution_window) % (U64Max + 1)

WindowEnd(release) == release + config.execution_window

ScheduleRelease(h, release) ==
  /\ held[h] # None
  /\ held[h].state = "Sealed"
  /\ held[h].release = None
  /\ release >= slot
  /\ release - slot \in config.min_release_delay .. config.max_release_delay
  /\ WindowEnd(release) <= U64Max
  /\ Update(h, [held[h] EXCEPT !.release = release, !.end = WindowEnd(release),
                               !.state = "ReleaseScheduled"])
  /\ UNCHANGED <<slot, config, stored, current>>

-----------------------------------------------------------------------------
\* put_round replaces the row, whatever it holds.
PutRound(h) ==
  /\ held[h] # None
  /\ stored' = held[h]
  /\ current' = {h}
  /\ UNCHANGED <<slot, config, held>>

\* Store::round
FetchRound(h) ==
  /\ stored # None
  /\ Update(h, stored)
  /\ current' = current \cup {h}
  /\ UNCHANGED <<slot, config, stored>>

Crash(h) ==
  /\ held[h] # None
  /\ Update(h, None)
  /\ current' = current \ {h}
  /\ UNCHANGED <<slot, config, stored>>

Tick ==
  /\ slot < MaxSlot
  /\ slot' = slot + 1
  /\ UNCHANGED <<config, stored, held, current>>

Init ==
  /\ slot = 0
  /\ config = None /\ stored = None
  /\ held = [h \in Holders |-> None]
  /\ current = {}

Next ==
  \/ Tick
  \/ \E c \in Configs : CreatePool(c)
  \/ \E h \in Holders :
       \/ OpenRound(h)
       \/ \E next \in Lifecycle!RoundState : Transition(h, next)
       \/ \E max \in Maxima : Register(h, max)
       \/ \E root \in Roots, minimum \in Minima : Seal(h, root, minimum)
       \/ \E release \in Releases : ScheduleRelease(h, release)
       \/ PutRound(h) \/ FetchRound(h) \/ Crash(h)

Spec == Init /\ [][Next]_vars

-----------------------------------------------------------------------------
Option(S) == S \cup {None}

RoundType(r) ==
  /\ r.state \in Lifecycle!RoundState
  /\ r.deadline \in 0 .. U64Max
  /\ r.accepted \in 0 .. U32Max
  /\ r.root \in Option(Roots)
  /\ r.release \in Option(0 .. U64Max)
  /\ r.end \in Option(0 .. U64Max)
  /\ r.via \in {"methods", "transition"}

Copies == ({held[h] : h \in Holders} \cup {stored}) \ {None}

\* Every copy of the round is a well-formed Round within its integer widths.
TypeOK ==
  /\ slot \in 0 .. MaxSlot
  /\ config \in Option(Configs)
  /\ DOMAIN held = Holders /\ current \subseteq Holders
  /\ \A r \in Copies : RoundType(r)

\* The states a round is in from seal(), and from schedule_release(), on.
AfterWindow == {"ReleaseScheduled", "ExecutionWindow", "Finalizing", "Completed"}
AfterSeal == AfterWindow \cup {"Sealed"}

\* In every copy, current or stale, and whatever limits the callers gave: no more
\* are accepted than some caller allowed; a root stands for a cohort that met some
\* caller's threshold and can no longer grow; a window is non-empty, has both ends
\* and belongs to a round that was sealed.  A copy that transition() did not take
\* past seal() or schedule_release() has the root, and the window, of its state.
CopiesAreSound ==
  \A r \in Copies :
    /\ r.accepted > 0 => \E max \in Maxima : r.accepted <= max
    /\ r.root # None => /\ \E minimum \in Minima : r.accepted >= minimum
                        /\ ~MayRegister(r)
    /\ (r.release = None) = (r.end = None)
    /\ r.release # None =>
         /\ r.release < r.end
         /\ r.state \notin {"Draft", "Registration", "ThresholdReached", "Sealed"}
    /\ r.via = "methods" =>
         /\ r.state \in AfterSeal => r.root # None
         /\ r.state \in AfterWindow => r.release # None

\* The row `new` goes on from the row `old`: no registration is lost, the cohort is
\* fixed from the root on, root and window are written once, a sealed round is
\* never open again and a finished one stays as it is.
Continues(old, new) ==
  /\ old.accepted <= new.accepted
  /\ old.root # None => new.root = old.root /\ new.accepted = old.accepted
  /\ old.release # None => new.release = old.release /\ new.end = old.end
  /\ old.state \in AfterSeal => new.state \in AfterSeal \cup Lifecycle!TerminalState
  /\ old.state \in Lifecycle!TerminalState => new.state = old.state

\* put_round compares nothing.  Among several holders, which may crash and lose what
\* they have not put, a put goes on from the row it replaces if nobody else put
\* since the holder fetched: with one holder always, with several only for the
\* first of those that fetched the same row.
RowIsMonotone ==
  [][\A h \in Holders :
       PutRound(h) /\ h \in current /\ stored # None => Continues(stored, stored')]_vars
=============================================================================
