------------------------------ MODULE Evidence ------------------------------
(***************************************************************************)
(* The evidence package: generate and verify of xtask/src/main.rs and      *)
(* `report` of the command line (crates/mirror-pool-cli/src/main.rs) on    *)
(* the same directories.                                                   *)
(*                                                                         *)
(* Generations follow each other; each is of its own build of the program  *)
(* and may die at any point.  Verifiers and reporters run at any time.     *)
(* fs::write and csv::Writer truncate a file before they fill it.  A       *)
(* file's content is the generation it is of, and so is its hash; until it *)
(* is filled it is Partial.                                                *)
(*                                                                         *)
(* The reports are a function of the build, so their place among the file  *)
(* operations does not matter: they are evaluated first, and what is left  *)
(* of them then is the generation's name.                                  *)
(***************************************************************************)
EXTENDS Evaluator

CONSTANTS
  MaxGeneration,  \* bound: how often the package is generated
  Verifiers, Reporters,
  Scenarios,    \* the ablation controls
  Locals        \* what LocalDemoResult says: submitted, confirmed, spread

ASSUME GenerationAssumption == MaxGeneration \in Nat \ {0}

\* The control of the ablations observes every feature.
ASSUME ScenariosAssumption ==
  Scenarios \subseteq [version : Nat, participants : Nat, strategy : Strategies,
                       window : Nat, dropout : Nat, periods : Values,
                       features : {Features}]

\* LocalDemoResult counts one list of slots twice and takes its spread.
ASSUME LocalsAssumption ==
  \A l \in Locals : /\ l.confirmed \in Nat /\ l.submitted = l.confirmed
                    /\ l.confirmed < 2 => l.spread = 0

VARIABLES
  reports,   \* the control and its ablations, while a generation evaluates
  gen,       \* the generation running, or the last one
  disk,      \* evaluation.json, evaluation.csv, evaluation.md
  manifest,  \* manifest.json
  verifier,  \* calls of verify
  reporter,  \* calls of report
  dir        \* the report directory: who wrote each file

vars == <<reports, gen, disk, manifest, verifier, reporter, dir>>

Generations == 1 .. MaxGeneration
Data == {"json", "csv", "md"}
Absent == 0
Partial == -1

NoReports == <<>>
NoManifest == [content |-> Absent]

-----------------------------------------------------------------------------
(* generate: evaluation                                                    *)

CohortSizes == <<10, 100, 1000>>
StrategyCycle ==
  <<"FixedSlot", "NarrowWindow", "RandomizedWithinWindow", "LatencyAware">>

\* The scenario of baseline round i.
Baseline(i) ==
  [version |-> 1, participants |-> CohortSizes[(i % 3) + 1],
   strategy |-> StrategyCycle[(i % 4) + 1],
   window |-> IF i % 3 = 0 THEN 20 ELSE 4,
   dropout |-> IF i % 5 = 0 THEN 35 ELSE 5,
   periods |-> IF i % 4 = 0 THEN 10 ELSE 1,
   features |-> Features]

Without(s, f) == [s EXCEPT !.features = Features \ {f}]

\* The words the generator may produce for its seed.
Streams(s) == [0 .. Draws(s) * s.participants - 1 -> Words]

\* evaluate(), for the control and each same-seed ablation.
Evaluate ==
  /\ gen.pc = "evaluate" /\ reports = NoReports
  /\ \A i \in 0 .. 119 : ValidScenario(Baseline(i))
  /\ \E s \in Scenarios : \E stream \in Streams(s) :
       /\ ValidScenario(s)
       /\ reports' = [scenario |-> s,
                      control |-> Trace(s, stream),
                      ablation |-> [f \in Features |-> Trace(Without(s, f), stream)]]
  /\ UNCHANGED <<gen, disk, manifest, verifier, reporter, dir>>

\* create_dir_all has succeeded, and the reports are serialised.
Serialise ==
  /\ gen.pc = "evaluate" /\ reports # NoReports
  /\ reports' = NoReports
  /\ gen' = [gen EXCEPT !.pc = "open", !.file = "json"]
  /\ UNCHANGED <<disk, manifest, verifier, reporter, dir>>

-----------------------------------------------------------------------------
(* generate: files                                                         *)

Started == [pc |-> "evaluate", id |-> 1, file |-> "json", csv |-> Absent, md |-> Absent]

\* A later generation; its reports are those of its build.
Regenerate ==
  /\ gen.pc \in {"dead", "done"} /\ gen.id + 1 \in Generations
  /\ gen' = [Started EXCEPT !.pc = "open", !.id = gen.id + 1]
  /\ UNCHANGED <<reports, disk, manifest, verifier, reporter, dir>>

OpenFile ==
  /\ gen.pc = "open"
  /\ disk' = [disk EXCEPT ![gen.file] = Partial]
  /\ gen' = [gen EXCEPT !.pc = "fill"]
  /\ UNCHANGED <<reports, manifest, verifier, reporter, dir>>

FillFile ==
  /\ gen.pc = "fill"
  /\ disk' = [disk EXCEPT ![gen.file] = gen.id]
  /\ gen' = CASE gen.file = "json" -> [gen EXCEPT !.pc = "open", !.file = "csv"]
              [] gen.file = "csv" -> [gen EXCEPT !.pc = "open", !.file = "md"]
              [] gen.file = "md" -> [gen EXCEPT !.pc = "hash"]
  /\ UNCHANGED <<reports, manifest, verifier, reporter, dir>>

\* The csv and the md are read back; the json is still in memory.  Then
\* manifest.json is truncated.
OpenManifest ==
  /\ gen.pc = "hash"
  /\ gen' = [gen EXCEPT !.pc = "manifest", !.csv = disk["csv"], !.md = disk["md"]]
  /\ manifest' = [content |-> Partial]
  /\ UNCHANGED <<reports, disk, verifier, reporter, dir>>

\* Mutant: the control was forgotten.
ScenarioCountShort == 120 + Cardinality(Features)
ScenarioCount == 120 + 1 + Cardinality(Features)

FillManifest(local) ==
  /\ gen.pc = "manifest"
  /\ manifest' = [content |-> gen.id, json |-> gen.id, csv |-> gen.csv,
                  md |-> gen.md, scenarios |-> ScenarioCount, pools |-> 1,
                  rounds |-> 120, local |-> local]
  /\ gen' = [gen EXCEPT !.pc = "done"]
  /\ UNCHANGED <<reports, disk, verifier, reporter, dir>>

\* The process is killed, or a write fails.
Die ==
  /\ gen.pc \in {"open", "fill", "hash", "manifest"}
  /\ gen' = [gen EXCEPT !.pc = "dead"]
  /\ UNCHANGED <<reports, disk, manifest, verifier, reporter, dir>>

-----------------------------------------------------------------------------
(* verify                                                                  *)

ReadFile(v, from, file, to) ==
  /\ verifier[v].pc = from
  /\ verifier' = [verifier EXCEPT ![v] =
       IF disk[file] = Absent THEN [@ EXCEPT !.pc = "invalid"]
       ELSE [@ EXCEPT !.pc = to, ![file] = disk[file]]]
  /\ UNCHANGED <<reports, gen, disk, manifest, reporter, dir>>

\* Mutant: one file is not compared.
ChecksumsMatchTwo(m, read) == m.json = read.json /\ m.csv = read.csv
ChecksumsMatch(m, read) ==
  m.json = read.json /\ m.csv = read.csv /\ m.md = read.md

Accepts(m, read) ==
  /\ m.content \in Generations  \* parses, version 1
  /\ m.scenarios >= 127 /\ m.pools >= 1 /\ m.rounds >= 120
  /\ ChecksumsMatch(m, read)
  /\ m.local.confirmed <= m.local.submitted
  /\ m.local.confirmed >= 2 \/ m.local.spread = 0

\* The manifest is read last; the checks follow without further reads.
ReadManifest(v) ==
  /\ verifier[v].pc = "manifest"
  /\ verifier' = [verifier EXCEPT ![v] =
       IF Accepts(manifest, @)
       THEN [@ EXCEPT !.pc = "valid", !.of = manifest.content]
       ELSE [@ EXCEPT !.pc = "invalid"]]
  /\ UNCHANGED <<reports, gen, disk, manifest, reporter, dir>>

Verify(v) ==
  \/ ReadFile(v, "json", "json", "csv")
  \/ ReadFile(v, "csv", "csv", "md")
  \/ ReadFile(v, "md", "md", "manifest")
  \/ ReadManifest(v)

-----------------------------------------------------------------------------
(* report                                                                  *)

ToReporter(r, pc) == reporter' = [reporter EXCEPT ![r].pc = pc]

Parses(content) == content \in Generations

\* fs::read of evaluation.json, which must parse.
ReadInput(r) ==
  /\ reporter[r].pc = "read"
  /\ reporter' = [reporter EXCEPT
       ![r].pc = IF Parses(disk["json"]) THEN "exists" ELSE "err",
       ![r].input = disk["json"]]
  /\ UNCHANGED <<reports, gen, disk, manifest, verifier, dir>>

\* directory.exists()
CheckDir(r) ==
  /\ reporter[r].pc = "exists"
  /\ ToReporter(r, IF dir.exists THEN "err" ELSE "create")
  /\ UNCHANGED <<reports, gen, disk, manifest, verifier, dir>>

\* Mutant: create_dir_all, which is content with a directory that exists.
MayCreateAlways == TRUE
MayCreate == ~dir.exists

CreateDir(r) ==
  /\ reporter[r].pc = "create"
  /\ IF MayCreate THEN /\ dir' = [dir EXCEPT !.exists = TRUE]
                       /\ ToReporter(r, "json")
                  ELSE ToReporter(r, "err") /\ UNCHANGED dir
  /\ UNCHANGED <<reports, gen, disk, manifest, verifier>>

WriteReport(r, file, next) ==
  /\ reporter[r].pc = file
  /\ dir' = [dir EXCEPT ![file] = reporter[r].input]
  /\ ToReporter(r, next)
  /\ UNCHANGED <<reports, gen, disk, manifest, verifier>>

\* The process is killed, or a write fails.
ReporterDies(r) ==
  /\ reporter[r].pc \in {"exists", "create", "json", "md", "csv"}
  /\ ToReporter(r, "err")
  /\ UNCHANGED <<reports, gen, disk, manifest, verifier, dir>>

Report(r) ==
  \/ ReadInput(r) \/ CheckDir(r) \/ CreateDir(r)
  \/ WriteReport(r, "json", "md") \/ WriteReport(r, "md", "csv")
  \/ WriteReport(r, "csv", "ok")
  \/ ReporterDies(r)

-----------------------------------------------------------------------------
Init ==
  /\ reports = NoReports
  /\ gen = Started
  /\ disk = [f \in Data |-> Absent]
  /\ manifest = NoManifest
  /\ verifier = [v \in Verifiers |->
       [pc |-> "json", json |-> Absent, csv |-> Absent, md |-> Absent, of |-> Absent]]
  /\ reporter = [r \in Reporters |-> [pc |-> "read", input |-> Absent]]
  /\ dir = [exists |-> FALSE, json |-> Absent, md |-> Absent, csv |-> Absent]

\* A verifier or reporter that comes before the first file returns an error and
\* leaves no trace.
Next ==
  \/ Evaluate \/ Serialise \/ Regenerate \/ OpenFile \/ FillFile \/ OpenManifest \/ Die
  \/ \E local \in Locals : FillManifest(local)
  \/ /\ disk["json"] # Absent
     /\ (\E v \in Verifiers : Verify(v)) \/ (\E r \in Reporters : Report(r))

Spec == Init /\ [][Next]_vars

-----------------------------------------------------------------------------
(* Properties                                                              *)

\* "6 same-seed feature ablations" compare the same run: whatever an ablation hides
\* from the observer, the same participants execute, in the same slots.
SameSeedSameRun ==
  reports # NoReports =>
    \A f \in Features : \A p \in DOMAIN reports.control :
      LET a == reports.ablation[f][p]
          c == reports.control[p]
      IN a.executed = c.executed /\ a.slot = c.slot

\* Hiding a feature never tells participants apart: those with equal fingerprints
\* keep equal ones, so the smallest group does not shrink and no participant
\* becomes unique.
AblationCoarsens ==
  reports # NoReports =>
    \A f \in Features :
      LET a == reports.ablation[f]
          c == reports.control
      IN /\ \A p \in Executed(c) : Group(c, p) \subseteq Group(a, p)
         /\ MinimumK(a) >= MinimumK(c)
         /\ Unique(a) \subseteq Unique(c)

\* The metrics fit together: the spread stays in the execution window; the median
\* deviation is not above the 95th percentile and both exist as soon as somebody
\* executed; k is 1 exactly when somebody is unique; the AUC is at most 1, and 1 when
\* the threshold flags the linked participants and no other; and no pair is lost:
\* the AUCs of the labels and of the opposite labels add up to at least 1, also
\* where they fall back to one half, and to at most 3/2, because a pair closer than
\* EPSILON is a whole win one way and half a win the other.
MetricsSound ==
  reports # NoReports =>
    \A obs \in {reports.control} \cup {reports.ablation[f] : f \in Features} :
      /\ Spread(obs) <= reports.scenario.window
      /\ Executed(obs) # {} =>
           \E m \in Percentile(obs, 50), q \in Percentile(obs, 95) : m <= q
      /\ (MinimumK(obs) = 1) <=> (Unique(obs) # {})
      /\ LET auc == Auc(obs, TRUE)
             sum == auc.num + Auc(obs, FALSE).num
         IN auc.num <= auc.den /\ auc.den <= sum /\ 2 * sum <= 3 * auc.den
      /\ (/\ Linked(obs, TRUE) # {} /\ Linked(obs, FALSE) # {}
          /\ Flagged(obs, TRUE) = Linked(obs, TRUE)
          /\ Flagged(obs, FALSE) = {}) => Auc(obs, TRUE).num = Auc(obs, TRUE).den

\* What a verifier accepts is of one generation: the three files it read, at
\* different times and possibly while they were replaced, are those of the
\* generation whose manifest it read.
AcceptedIsOneGeneration ==
  \A v \in Verifiers :
    verifier[v].pc = "valid" =>
      \A f \in Data : verifier[v][f] = verifier[v].of

\* A generation that ran to its end has left a package that verify accepts: the
\* numbers one writes and the other demands, kept in two functions, agree, and
\* nothing an earlier generation left behind is in the way.
DoneVerifies == gen.pc = "done" => Accepts(manifest, disk)

\* The files of a report directory are of one input, that of the one reporter who
\* created it, however many start on the same directory.
ReportOfOneInput ==
  /\ \A f, g \in Data : dir[f] # Absent /\ dir[g] # Absent => dir[f] = dir[g]
  /\ \A r \in Reporters :
       reporter[r].pc = "ok" => \A f \in Data : dir[f] = reporter[r].input
=============================================================================
