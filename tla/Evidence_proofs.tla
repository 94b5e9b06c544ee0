-------------------------- MODULE Evidence_proofs ---------------------------
(***************************************************************************)
(* Proofs about the evidence package, for every number of generations,     *)
(* verifiers and reporters and for every control scenario.                 *)
(***************************************************************************)
EXTENDS Evidence, FiniteSetTheorems, FunctionTheorems, SequenceTheorems,
        WellFoundedInduction, TLAPS

-----------------------------------------------------------------------------
(* The files of a generation                                               *)
(*                                                                         *)
(* A generation replaces the files one after the other, so at any moment   *)
(* they may be of several generations; what it has filled so far is its    *)
(* own, and only when all of it is does it write a manifest.  A manifest   *)
(* that parses therefore names one generation only, whatever became of     *)
(* the files since.                                                        *)

GenPcs == {"evaluate", "open", "fill", "hash", "manifest", "done", "dead"}

GenType == [pc : GenPcs, id : Generations, file : Data, csv : Int, md : Int]

VerifierType == [pc : {"json", "csv", "md", "manifest", "valid", "invalid"},
                 json : Int, csv : Int, md : Int, of : Int]

Filled ==
  /\ gen.pc \in {"open", "fill"} =>
       /\ gen.file # "json" => disk["json"] = gen.id
       /\ gen.file = "md" => disk["csv"] = gen.id
  /\ gen.pc \in {"hash", "manifest", "done"} =>
       disk["json"] = gen.id /\ disk["csv"] = gen.id /\ disk["md"] = gen.id
  /\ gen.pc = "manifest" => gen.csv = gen.id /\ gen.md = gen.id
  /\ gen.pc = "done" => Accepts(manifest, disk)

OneGeneration(m) ==
  m.content \in Generations =>
    m.json = m.content /\ m.csv = m.content /\ m.md = m.content

FilesInv ==
  /\ gen \in GenType
  /\ disk \in [Data -> Int]
  /\ verifier \in [Verifiers -> VerifierType]
  /\ Filled
  /\ OneGeneration(manifest)
  /\ \A v \in Verifiers : verifier[v].pc = "valid" =>
       /\ verifier[v].json = verifier[v].of /\ verifier[v].csv = verifier[v].of
       /\ verifier[v].md = verifier[v].of

LEMMA GenerationsAreNumbers ==
  Generations \subseteq Int /\ 1 \in Generations /\ Absent \notin Generations
  /\ Partial \notin Generations
BY GenerationAssumption DEF Generations, Absent, Partial

\* The number of scenarios a manifest names: the rounds, the control and six
\* ablations.
LEMMA ScenariosCounted == ScenarioCount = 127
<1> DEFINE f2 == {"timing", "instruction_shape"}
           f3 == f2 \cup {"fee_behavior"}
           f4 == f3 \cup {"funding_graph"}
           f5 == f4 \cup {"amount_bucket"}
           f6 == f5 \cup {"historical_behavior"}
<1>1. IsFiniteSet({"timing"}) /\ Cardinality({"timing"}) = 1
  BY FS_Singleton
<1>2. f2 = {"timing"} \cup {"instruction_shape"}
  OBVIOUS
<1>3. IsFiniteSet(f2) /\ Cardinality(f2) = 2
  BY <1>1, <1>2, FS_AddElement
<1>4. IsFiniteSet(f3) /\ Cardinality(f3) = 3
  BY <1>3, FS_AddElement
<1>5. IsFiniteSet(f4) /\ Cardinality(f4) = 4
  BY <1>4, FS_AddElement
<1>6. IsFiniteSet(f5) /\ Cardinality(f5) = 5
  BY <1>5, FS_AddElement
<1>7. IsFiniteSet(f6) /\ Cardinality(f6) = 6
  BY <1>6, FS_AddElement
<1>8. Features = f6
  BY DEF Features
<1> QED
  BY <1>7, <1>8 DEF ScenarioCount

LEMMA FilesInit == Init => FilesInv
BY GenerationsAreNumbers
DEF Init, FilesInv, GenType, GenPcs, VerifierType, Filled, OneGeneration, Started,
    Data, Absent, NoManifest

\* A step of the generator that leaves the manifest alone.
LEMMA GeneratorStep ==
  ASSUME FilesInv, gen' \in GenType, disk' \in [Data -> Int], Filled',
         UNCHANGED <<manifest, verifier>>
  PROVE  FilesInv'
BY DEF FilesInv, OneGeneration

LEMMA OpenFileFiles ==
  ASSUME FilesInv, OpenFile
  PROVE  FilesInv'
<1>1. /\ gen.pc = "open" /\ gen \in GenType /\ disk \in [Data -> Int]
      /\ gen' = [gen EXCEPT !.pc = "fill"]
      /\ disk' = [disk EXCEPT ![gen.file] = Partial]
      /\ UNCHANGED <<manifest, verifier>>
  BY DEF OpenFile, FilesInv
<1>2. gen' \in GenType /\ gen'.pc = "fill" /\ gen'.id = gen.id /\ gen'.file = gen.file
  BY <1>1 DEF GenType, GenPcs
<1>3. /\ disk' \in [Data -> Int] /\ gen.file \in Data
      /\ \A f \in Data : f # gen.file => disk'[f] = disk[f]
  BY <1>1 DEF Partial, GenType
<1>4. Filled'
  BY <1>1, <1>2, <1>3 DEF FilesInv, Filled, Data
<1> QED
  BY <1>1, <1>2, <1>3, <1>4, GeneratorStep

LEMMA FillFileFiles ==
  ASSUME FilesInv, FillFile
  PROVE  FilesInv'
<1>1. /\ gen.pc = "fill" /\ gen \in GenType /\ disk \in [Data -> Int]
      /\ disk' = [disk EXCEPT ![gen.file] = gen.id]
      /\ UNCHANGED <<manifest, verifier>>
  BY DEF FillFile, FilesInv
<1>2. /\ gen.file \in Data /\ gen.id \in Int
      /\ gen.file = "json" \/ gen.file = "csv" \/ gen.file = "md"
  BY <1>1, GenerationsAreNumbers DEF GenType, Data
<1>3. /\ disk' \in [Data -> Int] /\ disk'[gen.file] = gen.id
      /\ \A f \in Data : f # gen.file => disk'[f] = disk[f]
  BY <1>1, <1>2
<1>4. CASE gen.file = "json"
  <2>1. gen' = [gen EXCEPT !.pc = "open", !.file = "csv"]
    BY <1>4 DEF FillFile
  <2>2. /\ gen' \in GenType /\ gen'.pc = "open" /\ gen'.id = gen.id
        /\ gen'.file = "csv"
    BY <1>1, <2>1 DEF GenType, GenPcs, Data
  <2>3. Filled'
    BY <1>1, <1>3, <1>4, <2>2 DEF FilesInv, Filled, Data
  <2> QED
    BY <1>1, <1>3, <2>2, <2>3, GeneratorStep
<1>5. CASE gen.file = "csv"
  <2>1. gen' = [gen EXCEPT !.pc = "open", !.file = "md"]
    BY <1>5 DEF FillFile
  <2>2. /\ gen' \in GenType /\ gen'.pc = "open" /\ gen'.id = gen.id
        /\ gen'.file = "md"
    BY <1>1, <2>1 DEF GenType, GenPcs, Data
  <2>3. Filled'
    BY <1>1, <1>3, <1>5, <2>2 DEF FilesInv, Filled, Data
  <2> QED
    BY <1>1, <1>3, <2>2, <2>3, GeneratorStep
<1>6. CASE gen.file = "md"
  <2>1. gen' = [gen EXCEPT !.pc = "hash"]
    BY <1>6 DEF FillFile
  <2>2. gen' \in GenType /\ gen'.pc = "hash" /\ gen'.id = gen.id
    BY <1>1, <2>1 DEF GenType, GenPcs
  <2>3. Filled'
    BY <1>1, <1>3, <1>6, <2>2 DEF FilesInv, Filled, Data
  <2> QED
    BY <1>1, <1>3, <2>2, <2>3, GeneratorStep
<1> QED
  BY <1>2, <1>4, <1>5, <1>6

LEMMA OpenManifestFiles ==
  ASSUME FilesInv, OpenManifest
  PROVE  FilesInv'
<1>1. /\ gen.pc = "hash" /\ gen \in GenType /\ disk \in [Data -> Int]
      /\ gen' = [gen EXCEPT !.pc = "manifest", !.csv = disk["csv"], !.md = disk["md"]]
      /\ manifest' = [content |-> Partial]
      /\ UNCHANGED <<disk, verifier>>
  BY DEF OpenManifest, FilesInv
<1>2. disk["csv"] \in Int /\ disk["md"] \in Int
  BY <1>1 DEF Data
<1>3. /\ gen' \in GenType /\ gen'.pc = "manifest" /\ gen'.id = gen.id
      /\ gen'.csv = disk["csv"] /\ gen'.md = disk["md"]
  BY <1>1, <1>2 DEF GenType, GenPcs
<1>4. Filled'
  BY <1>1, <1>3 DEF FilesInv, Filled
<1>5. OneGeneration(manifest')
  BY <1>1, GenerationsAreNumbers DEF OneGeneration
<1> QED
  BY <1>1, <1>3, <1>4, <1>5 DEF FilesInv, OneGeneration

LEMMA FillManifestFiles ==
  ASSUME FilesInv, NEW local \in Locals, FillManifest(local)
  PROVE  FilesInv'
<1>1. /\ gen.pc = "manifest" /\ gen \in GenType /\ gen.id \in Generations
      /\ gen' = [gen EXCEPT !.pc = "done"]
      /\ manifest' = [content |-> gen.id, json |-> gen.id, csv |-> gen.csv,
                      md |-> gen.md, scenarios |-> ScenarioCount, pools |-> 1,
                      rounds |-> 120, local |-> local]
      /\ UNCHANGED <<disk, verifier>>
  BY DEF FillManifest, FilesInv, GenType
<1>2. /\ disk["json"] = gen.id /\ disk["csv"] = gen.id /\ disk["md"] = gen.id
      /\ gen.csv = gen.id /\ gen.md = gen.id
  BY <1>1 DEF FilesInv, Filled
<1>3. gen' \in GenType /\ gen'.pc = "done" /\ gen'.id = gen.id
  BY <1>1 DEF GenType, GenPcs
<1>4. /\ manifest'.content = gen.id /\ manifest'.json = gen.id
      /\ manifest'.csv = gen.id /\ manifest'.md = gen.id
      /\ manifest'.scenarios = 127 /\ manifest'.pools = 1
      /\ manifest'.rounds = 120 /\ manifest'.local = local
  BY <1>1, <1>2, ScenariosCounted
<1>5. local.confirmed <= local.submitted /\ (local.confirmed >= 2 \/ local.spread = 0)
  BY LocalsAssumption
<1>6. ChecksumsMatch(manifest', disk')
  BY <1>1, <1>2, <1>4 DEF ChecksumsMatch, FilesInv, Data
<1>7. Accepts(manifest', disk')
  BY <1>1, <1>4, <1>5, <1>6 DEF Accepts
<1>8. Filled'
  BY <1>1, <1>2, <1>3, <1>7 DEF Filled
<1>9. OneGeneration(manifest')
  BY <1>4 DEF OneGeneration
<1> QED
  BY <1>1, <1>3, <1>8, <1>9 DEF FilesInv, OneGeneration

LEMMA VerifierStep ==
  ASSUME FilesInv, NEW v \in Verifiers, NEW w \in VerifierType,
         verifier' = [verifier EXCEPT ![v] = w],
         w.pc = "valid" => w.json = w.of /\ w.csv = w.of /\ w.md = w.of,
         UNCHANGED <<gen, disk, manifest>>
  PROVE  FilesInv'
<1>1. verifier' \in [Verifiers -> VerifierType] /\ verifier'[v] = w
      /\ \A u \in Verifiers : u # v => verifier'[u] = verifier[u]
  BY DEF FilesInv
<1> QED
  BY <1>1 DEF FilesInv, Filled, OneGeneration

LEMMA ReadJsonFiles ==
  ASSUME FilesInv, NEW v \in Verifiers, ReadFile(v, "json", "json", "csv")
  PROVE  FilesInv'
<1>1. /\ verifier[v] \in VerifierType /\ disk["json"] \in Int
      /\ UNCHANGED <<gen, disk, manifest>>
  BY DEF ReadFile, FilesInv, Data
<1>2. PICK w \in VerifierType :
        verifier' = [verifier EXCEPT ![v] = w] /\ w.pc # "valid"
  <2> DEFINE w == IF disk["json"] = Absent THEN [verifier[v] EXCEPT !.pc = "invalid"]
                  ELSE [verifier[v] EXCEPT !.pc = "csv", !["json"] = disk["json"]]
  <2>1. verifier' = [verifier EXCEPT ![v] = w]
    BY DEF ReadFile
  <2>2. w \in VerifierType /\ w.pc # "valid"
    BY <1>1 DEF VerifierType
  <2> HIDE DEF w
  <2> QED
    BY <2>1, <2>2
<1> QED
  BY <1>1, <1>2, VerifierStep

LEMMA ReadCsvFiles ==
  ASSUME FilesInv, NEW v \in Verifiers, ReadFile(v, "csv", "csv", "md")
  PROVE  FilesInv'
<1>1. /\ verifier[v] \in VerifierType /\ disk["csv"] \in Int
      /\ UNCHANGED <<gen, disk, manifest>>
  BY DEF ReadFile, FilesInv, Data
<1>2. PICK w \in VerifierType :
        verifier' = [verifier EXCEPT ![v] = w] /\ w.pc # "valid"
  <2> DEFINE w == IF disk["csv"] = Absent THEN [verifier[v] EXCEPT !.pc = "invalid"]
                  ELSE [verifier[v] EXCEPT !.pc = "md", !["csv"] = disk["csv"]]
  <2>1. verifier' = [verifier EXCEPT ![v] = w]
    BY DEF ReadFile
  <2>2. w \in VerifierType /\ w.pc # "valid"
    BY <1>1 DEF VerifierType
  <2> HIDE DEF w
  <2> QED
    BY <2>1, <2>2
<1> QED
  BY <1>1, <1>2, VerifierStep

LEMMA ReadMdFiles ==
  ASSUME FilesInv, NEW v \in Verifiers, ReadFile(v, "md", "md", "manifest")
  PROVE  FilesInv'
<1>1. /\ verifier[v] \in VerifierType /\ disk["md"] \in Int
      /\ UNCHANGED <<gen, disk, manifest>>
  BY DEF ReadFile, FilesInv, Data
<1>2. PICK w \in VerifierType :
        verifier' = [verifier EXCEPT ![v] = w] /\ w.pc # "valid"
  <2> DEFINE w == IF disk["md"] = Absent THEN [verifier[v] EXCEPT !.pc = "invalid"]
                  ELSE [verifier[v] EXCEPT !.pc = "manifest", !["md"] = disk["md"]]
  <2>1. verifier' = [verifier EXCEPT ![v] = w]
    BY DEF ReadFile
  <2>2. w \in VerifierType /\ w.pc # "valid"
    BY <1>1 DEF VerifierType
  <2> HIDE DEF w
  <2> QED
    BY <2>1, <2>2
<1> QED
  BY <1>1, <1>2, VerifierStep

LEMMA ReadManifestFiles ==
  ASSUME FilesInv, NEW v \in Verifiers, ReadManifest(v)
  PROVE  FilesInv'
<1>1. verifier[v] \in VerifierType /\ UNCHANGED <<gen, disk, manifest>>
  BY DEF ReadManifest, FilesInv
<1>2. CASE Accepts(manifest, verifier[v])
  <2>1. PICK n \in Generations : n = manifest.content
    BY <1>2 DEF Accepts
  <2>2. manifest.json = n /\ manifest.csv = n /\ manifest.md = n
    BY <2>1 DEF FilesInv, OneGeneration
  <2>3. verifier[v].json = n /\ verifier[v].csv = n /\ verifier[v].md = n
    BY <1>2, <2>2 DEF Accepts, ChecksumsMatch
  <2> DEFINE w == [verifier[v] EXCEPT !.pc = "valid", !.of = n]
  <2>4. verifier' = [verifier EXCEPT ![v] = w]
    BY <1>2, <2>1 DEF ReadManifest
  <2>5. w \in VerifierType /\ w.json = n /\ w.csv = n /\ w.md = n /\ w.of = n
    BY <1>1, <2>3, GenerationsAreNumbers DEF VerifierType
  <2> HIDE DEF w
  <2>6. PICK u \in VerifierType : u = w
    BY <2>5
  <2> QED
    BY <1>1, <2>4, <2>5, <2>6, VerifierStep
<1>3. CASE ~Accepts(manifest, verifier[v])
  <2> DEFINE w == [verifier[v] EXCEPT !.pc = "invalid"]
  <2>1. verifier' = [verifier EXCEPT ![v] = w]
    BY <1>3 DEF ReadManifest
  <2>2. w \in VerifierType /\ w.pc # "valid"
    BY <1>1 DEF VerifierType
  <2> HIDE DEF w
  <2>3. PICK u \in VerifierType : u = w
    BY <2>2
  <2> QED
    BY <1>1, <2>1, <2>2, <2>3, VerifierStep
<1> QED
  BY <1>2, <1>3

LEMMA FilesNext == FilesInv /\ [Next]_vars => FilesInv'
<1> SUFFICES ASSUME FilesInv, [Next]_vars PROVE FilesInv'
  OBVIOUS
<1>1. CASE UNCHANGED <<gen, disk, manifest, verifier>>
  BY <1>1 DEF FilesInv, Filled, OneGeneration
<1>2. CASE Serialise \/ Regenerate \/ Die
  <2>1. UNCHANGED <<disk, manifest, verifier>> /\ gen \in GenType
    BY <1>2 DEF Serialise, Regenerate, Die, FilesInv
  <2>2. CASE Serialise \/ Regenerate
    <3>1. gen' \in GenType /\ gen'.pc = "open" /\ gen'.file = "json"
      <4>1. CASE Serialise
        BY <2>1, <4>1 DEF Serialise, GenType, GenPcs, Data
      <4>2. CASE Regenerate
        <5>1. PICK n \in Generations : n = gen.id + 1
          BY <4>2 DEF Regenerate
        <5>2. gen' = [pc |-> "open", id |-> n, file |-> "json", csv |-> Absent,
                      md |-> Absent]
          BY <4>2, <5>1 DEF Regenerate, Started
        <5> QED
          BY <5>2 DEF GenType, GenPcs, Data, Absent
      <4> QED
        BY <2>2, <4>1, <4>2
    <3>2. Filled'
      BY <3>1 DEF Filled
    <3> QED
      BY <2>1, <3>1, <3>2, GeneratorStep DEF FilesInv
  <2>3. CASE Die
    <3>1. gen' \in GenType /\ gen'.pc = "dead"
      BY <2>1, <2>3 DEF Die, GenType, GenPcs
    <3>2. Filled'
      BY <3>1 DEF Filled
    <3> QED
      BY <2>1, <3>1, <3>2, GeneratorStep DEF FilesInv
  <2> QED
    BY <1>2, <2>2, <2>3
<1>3. ASSUME NEW local \in Locals, FillManifest(local) PROVE FilesInv'
  BY <1>3, FillManifestFiles
<1>4. ASSUME NEW v \in Verifiers, Verify(v) PROVE FilesInv'
  BY <1>4, ReadJsonFiles, ReadCsvFiles, ReadMdFiles, ReadManifestFiles DEF Verify
<1> QED
  BY <1>1, <1>2, <1>3, <1>4, OpenFileFiles, FillFileFiles, OpenManifestFiles
  DEF Next, vars, Evaluate, Report, ReadInput, CheckDir, CreateDir,
      WriteReport, ReporterDies

LEMMA FilesInvariance == Spec => []FilesInv
BY FilesInit, FilesNext, PTL DEF Spec

\* verify() reads the three files and the manifest at four different moments,
\* between which a generation may replace any of them; what it accepts is of one
\* generation all the same.
THEOREM OneGenerationAccepted == Spec => []AcceptedIsOneGeneration
<1>1. FilesInv => AcceptedIsOneGeneration
  BY DEF FilesInv, AcceptedIsOneGeneration, Data
<1> QED
  BY <1>1, FilesInvariance, PTL

\* generate() and verify() keep their numbers in two places; a generation that
\* ends, after whatever earlier ones left, has written what verify() accepts.
THEOREM FinishedVerifies == Spec => []DoneVerifies
<1>1. FilesInv => DoneVerifies
  BY DEF FilesInv, Filled, DoneVerifies
<1> QED
  BY <1>1, FilesInvariance, PTL

-----------------------------------------------------------------------------
(* A report directory and its reporters                                    *)

ReporterPcs == {"read", "exists", "create", "json", "md", "csv", "ok", "err"}

\* Past create_dir, which succeeds once.
Writing == {"json", "md", "csv", "ok"}

DirInv ==
  /\ dir \in [exists : BOOLEAN, json : Int, md : Int, csv : Int]
  /\ reporter \in [Reporters -> [pc : ReporterPcs, input : Int]]
  /\ ~dir.exists => dir.json = Absent /\ dir.md = Absent /\ dir.csv = Absent
  /\ dir.json # Absent /\ dir.md # Absent => dir.json = dir.md
  /\ dir.json # Absent /\ dir.csv # Absent => dir.json = dir.csv
  /\ dir.md # Absent /\ dir.csv # Absent => dir.md = dir.csv
  /\ \A r \in Reporters : reporter[r].pc \in Writing =>
       /\ dir.exists
       /\ dir.json \in {Absent, reporter[r].input}
       /\ dir.md \in {Absent, reporter[r].input}
       /\ dir.csv \in {Absent, reporter[r].input}
       /\ reporter[r].pc # "json" => dir.json = reporter[r].input
       /\ reporter[r].pc \in {"csv", "ok"} => dir.md = reporter[r].input
       /\ reporter[r].pc = "ok" => dir.csv = reporter[r].input
  /\ \A r, q \in Reporters :
       reporter[r].pc \in Writing /\ reporter[q].pc \in Writing => r = q

LEMMA WriteJsonInv ==
  ASSUME DirInv, NEW r \in Reporters, WriteReport(r, "json", "md")
  PROVE  DirInv'
<1>1. /\ dir' \in [exists : BOOLEAN, json : Int, md : Int, csv : Int]
      /\ reporter[r].pc = "json"
  BY DEF DirInv, WriteReport
<1>2. reporter' \in [Reporters -> [pc : ReporterPcs, input : Int]]
  BY DEF DirInv, WriteReport, ToReporter, ReporterPcs
<1>3. /\ dir'.json = reporter[r].input /\ dir'.md = dir.md /\ dir'.csv = dir.csv
      /\ dir'.exists = dir.exists
  BY DEF DirInv, WriteReport
<1>4. /\ reporter'[r].pc = "md" /\ reporter'[r].input = reporter[r].input
      /\ \A q \in Reporters : q # r => reporter'[q] = reporter[q]
  BY DEF DirInv, WriteReport, ToReporter
<1>5. \A q \in Reporters : reporter[q].pc \in Writing => q = r
  BY <1>1 DEF DirInv, Writing
<1> QED
  BY <1>1, <1>2, <1>3, <1>4, <1>5 DEF DirInv, Writing

LEMMA WriteMdInv ==
  ASSUME DirInv, NEW r \in Reporters, WriteReport(r, "md", "csv")
  PROVE  DirInv'
<1>1. /\ dir' \in [exists : BOOLEAN, json : Int, md : Int, csv : Int]
      /\ reporter[r].pc = "md"
  BY DEF DirInv, WriteReport
<1>2. reporter' \in [Reporters -> [pc : ReporterPcs, input : Int]]
  BY DEF DirInv, WriteReport, ToReporter, ReporterPcs
<1>3. /\ dir'.md = reporter[r].input /\ dir'.json = dir.json /\ dir'.csv = dir.csv
      /\ dir'.exists = dir.exists
  BY DEF DirInv, WriteReport
<1>4. /\ reporter'[r].pc = "csv" /\ reporter'[r].input = reporter[r].input
      /\ \A q \in Reporters : q # r => reporter'[q] = reporter[q]
  BY DEF DirInv, WriteReport, ToReporter
<1>5. \A q \in Reporters : reporter[q].pc \in Writing => q = r
  BY <1>1 DEF DirInv, Writing
<1> QED
  BY <1>1, <1>2, <1>3, <1>4, <1>5 DEF DirInv, Writing

LEMMA WriteCsvInv ==
  ASSUME DirInv, NEW r \in Reporters, WriteReport(r, "csv", "ok")
  PROVE  DirInv'
<1>1. /\ dir' \in [exists : BOOLEAN, json : Int, md : Int, csv : Int]
      /\ reporter[r].pc = "csv"
  BY DEF DirInv, WriteReport
<1>2. reporter' \in [Reporters -> [pc : ReporterPcs, input : Int]]
  BY DEF DirInv, WriteReport, ToReporter, ReporterPcs
<1>3. /\ dir'.csv = reporter[r].input /\ dir'.json = dir.json /\ dir'.md = dir.md
      /\ dir'.exists = dir.exists
  BY DEF DirInv, WriteReport
<1>4. /\ reporter'[r].pc = "ok" /\ reporter'[r].input = reporter[r].input
      /\ \A q \in Reporters : q # r => reporter'[q] = reporter[q]
  BY DEF DirInv, WriteReport, ToReporter
<1>5. \A q \in Reporters : reporter[q].pc \in Writing => q = r
  BY <1>1 DEF DirInv, Writing
<1> QED
  BY <1>1, <1>2, <1>3, <1>4, <1>5 DEF DirInv, Writing

\* A step of one reporter that writes nothing and is not the creation.
LEMMA ReporterStepInv ==
  ASSUME DirInv, NEW r \in Reporters, NEW w \in [pc : ReporterPcs, input : Int],
         reporter' = [reporter EXCEPT ![r] = w], w.pc \notin Writing,
         dir' = dir
  PROVE  DirInv'
<1>1. /\ reporter' \in [Reporters -> [pc : ReporterPcs, input : Int]]
      /\ reporter'[r] = w
      /\ \A q \in Reporters : q # r => reporter'[q] = reporter[q]
  BY DEF DirInv
<1>2. \A q \in Reporters : reporter'[q].pc \in Writing =>
        q # r /\ reporter'[q] = reporter[q]
  BY <1>1
<1> QED
  BY <1>1, <1>2 DEF DirInv

LEMMA ReadInputInv ==
  ASSUME DirInv, NEW r \in Reporters, ReadInput(r), disk["json"] \in Int
  PROVE  DirInv'
<1>1. PICK pc \in {"exists", "err"} :
        reporter' = [reporter EXCEPT ![r].pc = pc, ![r].input = disk["json"]]
  BY DEF ReadInput
<1>2. pc \in ReporterPcs /\ pc \notin Writing
  BY DEF ReporterPcs, Writing
<1> DEFINE w == [reporter[r] EXCEPT !.pc = pc, !.input = disk["json"]]
<1>3. reporter' = [reporter EXCEPT ![r] = w]
  BY <1>1 DEF DirInv
<1>4. w \in [pc : ReporterPcs, input : Int] /\ w.pc = pc
  BY <1>2 DEF DirInv
<1> HIDE DEF w
<1>5. PICK u \in [pc : ReporterPcs, input : Int] : u = w
  BY <1>4
<1> QED
  BY <1>2, <1>3, <1>4, <1>5, ReporterStepInv DEF ReadInput

LEMMA ReporterMoveInv ==
  ASSUME DirInv, NEW r \in Reporters, NEW pc \in {"err", "create"}, ToReporter(r, pc),
         dir' = dir
  PROVE  DirInv'
<1> DEFINE w == [reporter[r] EXCEPT !.pc = pc]
<1>1. reporter' = [reporter EXCEPT ![r] = w]
  BY DEF ToReporter
<1>2. w \in [pc : ReporterPcs, input : Int] /\ w.pc = pc
  BY DEF DirInv, ReporterPcs
<1> HIDE DEF w
<1>3. PICK u \in [pc : ReporterPcs, input : Int] : u = w
  BY <1>2
<1> QED
  BY <1>1, <1>2, <1>3, ReporterStepInv DEF Writing

LEMMA CheckDirInv ==
  ASSUME DirInv, NEW r \in Reporters, CheckDir(r)
  PROVE  DirInv'
<1>1. PICK pc \in {"err", "create"} : ToReporter(r, pc)
  BY DEF CheckDir
<1> QED
  BY <1>1, ReporterMoveInv DEF CheckDir

LEMMA CreateDirInv ==
  ASSUME DirInv, NEW r \in Reporters, CreateDir(r)
  PROVE  DirInv'
<1>1. CASE dir.exists
  BY <1>1, ReporterMoveInv DEF CreateDir, MayCreate
<1>2. CASE ~dir.exists
  <2>1. /\ dir' = [dir EXCEPT !.exists = TRUE] /\ ToReporter(r, "json")
       
    BY <1>2 DEF CreateDir, MayCreate
  <2>2. /\ dir' \in [exists : BOOLEAN, json : Int, md : Int, csv : Int]
        /\ dir'.json = Absent /\ dir'.md = Absent /\ dir'.csv = Absent /\ dir'.exists
    BY <1>2, <2>1 DEF DirInv
  <2>3. /\ reporter' \in [Reporters -> [pc : ReporterPcs, input : Int]]
        /\ reporter'[r].pc = "json"
        /\ \A q \in Reporters : q # r => reporter'[q] = reporter[q]
    BY <2>1 DEF DirInv, ToReporter, ReporterPcs
  <2>4. \A q \in Reporters : reporter[q].pc \notin Writing
    BY <1>2 DEF DirInv
  <2> QED
    BY <2>1, <2>2, <2>3, <2>4 DEF DirInv, Writing
<1> QED
  BY <1>1, <1>2

LEMMA DirInit == Init => DirInv
BY DEF Init, DirInv, ReporterPcs, Writing, Absent

LEMMA DirNext == FilesInv /\ DirInv /\ [Next]_vars => DirInv'
<1> SUFFICES ASSUME FilesInv, DirInv, [Next]_vars PROVE DirInv'
  OBVIOUS
<1>1. CASE UNCHANGED <<reporter, dir>>
  BY <1>1 DEF DirInv
<1>2. ASSUME NEW r \in Reporters, Report(r) PROVE DirInv'
  <2>1. disk["json"] \in Int
    BY DEF FilesInv, Data
  <2> QED
    BY <1>2, <2>1, ReadInputInv, CheckDirInv, CreateDirInv, WriteJsonInv, WriteMdInv,
       WriteCsvInv, ReporterMoveInv DEF Report, ReporterDies
<1> QED
  BY <1>1, <1>2 DEF Next, vars, Evaluate, Serialise, Regenerate, OpenFile, FillFile,
     OpenManifest, Die, FillManifest, Verify, ReadFile, ReadManifest

\* exists() and create_dir are two calls, and any number of reporters may pass the
\* first; the directory still holds the files of one input only.
THEOREM OneInputReported == Spec => []ReportOfOneInput
<1>1. DirInv => ReportOfOneInput
  BY DEF DirInv, ReportOfOneInput, Data, Writing
<1> QED
  BY <1>1, DirInit, DirNext, FilesInvariance, PTL DEF Spec

-----------------------------------------------------------------------------
(* The evaluator: what a trace is made of                                  *)

\* A scenario with any features switched on: the control or an ablation of it.
ScenarioType == [version : Nat, participants : Nat, strategy : Strategies,
                 window : Nat, dropout : Nat, periods : Values,
                 features : SUBSET Features]

\* The smallest of two numbers.
LEMMA MinOfTwo ==
  ASSUME NEW a \in Int, NEW b \in Int
  PROVE  /\ Min({a, b}) \in {a, b}
         /\ Min({a, b}) <= a /\ Min({a, b}) <= b
<1>1. \E x \in {a, b} : \A y \in {a, b} : x <= y
  OBVIOUS
<1> QED
  BY <1>1 DEF Min

LEMMA MaxOfTwo ==
  ASSUME NEW a \in Int, NEW b \in Int
  PROVE  /\ Max({a, b}) \in {a, b}
         /\ a <= Max({a, b}) /\ b <= Max({a, b})
<1>1. \E x \in {a, b} : \A y \in {a, b} : x >= y
  OBVIOUS
<1> QED
  BY <1>1 DEF Max

LEMMA TargetIsNat == TargetSlot \in Nat
BY SMT DEF TargetSlot

LEMMA ReachInWindow ==
  ASSUME NEW s \in ScenarioType
  PROVE  Reach(s) \in Nat /\ Reach(s) <= s.window /\ s.window \in Nat
<1>1. s.window \in Nat /\ s.strategy \in Strategies
  BY DEF ScenarioType
<1>2. /\ Min({s.window, 3}) \in Nat /\ Min({s.window, 3}) <= s.window
      /\ Min({s.window, 2}) \in Nat /\ Min({s.window, 2}) <= s.window
  <2>1. s.window \in Int /\ 2 \in Int /\ 3 \in Int
    BY <1>1
  <2>2. /\ Min({s.window, 3}) \in {s.window, 3} /\ Min({s.window, 3}) <= s.window
        /\ Min({s.window, 2}) \in {s.window, 2} /\ Min({s.window, 2}) <= s.window
    BY <2>1, MinOfTwo, Zenon
  <2> QED
    BY <1>1, <2>2
<1> QED
  BY <1>1, <1>2 DEF Reach, Strategies

LEMMA Remainder ==
  ASSUME NEW n \in Nat, NEW m \in Values \ {0}
  PROVE  n % m \in Values
<1>1. MaxValue \in Nat
  BY ModulusAssumption
<1>2. m \in Nat \ {0} /\ m <= MaxValue
  BY <1>1 DEF Values
<1>3. n % m \in Nat /\ n % m < m
  BY <1>2
<1> QED
  BY <1>1, <1>2, <1>3 DEF Values

LEMMA SeenIsValue ==
  ASSUME NEW s \in ScenarioType, NEW p \in Nat, NEW slot \in Nat
  PROVE  Seen(s, p, slot) \in [Features -> Values]
<1> SUFFICES ASSUME NEW f \in Features
             PROVE  Feature(s, f, p, slot) \in Values
  BY DEF Seen
<1>1. f # "historical_behavior" => Modulus[f] \in Values \ {0}
  BY ModulusAssumption
<1>2. s.periods \in Values /\ 1 \in Values /\ 0 \in Values /\ s.periods \in Int
  BY ModulusAssumption DEF ScenarioType, Values
<1>3. PICK m : m = Max({s.periods, 1})
  OBVIOUS
<1>4. m \in Values \ {0}
  <2>1. m \in {s.periods, 1} /\ 1 <= m
    BY <1>2, <1>3, MaxOfTwo
  <2> QED
    BY <1>2, <2>1
<1>5. f # "historical_behavior" => slot % Modulus[f] \in Values /\ p % Modulus[f] \in Values
  BY <1>1, Remainder
<1>6. p % m \in Values
  BY <1>4, Remainder
<1> QED
  BY <1>2, <1>3, <1>5, <1>6 DEF Feature

\* What the evaluator records of a participant: within its integers and, for the
\* slot, within the window.
LEMMA ObservationTyped ==
  ASSUME NEW s \in ScenarioType, NEW stream \in Streams(s), NEW p \in Participants(s),
         NEW o, o = Observe(s, stream, p)
  PROVE  /\ o.executed \in BOOLEAN
         /\ o.slot \in TargetSlot .. TargetSlot + s.window
         /\ o.score \in Int
         /\ o.true_link \in BOOLEAN
<1>1. s.participants \in Nat /\ p \in Nat /\ p < s.participants
  BY DEF Participants, ScenarioType
<1>2. PICK d \in {2, 3} : d = Draws(s)
  BY DEF Draws
<1>3. PICK i \in Nat : i = p * d /\ i + d <= d * s.participants
  BY <1>1, <1>2
<1>4. stream \in [0 .. d * s.participants - 1 -> Words]
  BY <1>2 DEF Streams
<1>5. /\ i + d - 1 \in 0 .. d * s.participants - 1
      /\ d = 3 => i + 1 \in 0 .. d * s.participants - 1
  BY <1>1, <1>2, <1>3
<1>6. stream[i + d - 1] \in Words /\ (d = 3 => stream[i + 1] \in Words)
  BY <1>4, <1>5
<1> DEFINE offset == IF d = 3 THEN stream[i + 1] * Reach(s) ELSE 0
<1>7. offset \in Nat /\ offset <= s.window
  BY <1>6, ReachInWindow DEF Words
<1> HIDE DEF offset
<1>8. PICK slot \in TargetSlot .. TargetSlot + s.window : slot = TargetSlot + offset
  BY <1>7, TargetIsNat, ReachInWindow
<1>9. slot \in Nat
  BY <1>8, TargetIsNat
<1>10. PICK n \in Int :
         n = Unit * Signal(Seen(s, p, slot)) + Noise * stream[i + d - 1]
  <2>1. PICK seen \in [Features -> Nat] : seen = Seen(s, p, slot)
    <3>1. Seen(s, p, slot) \in [Features -> Values] /\ Values \subseteq Nat
      BY <1>1, <1>9, SeenIsValue, ModulusAssumption DEF Values
    <3> QED
      BY <3>1
  <2>2. PICK n \in Nat : n = Signal(Seen(s, p, slot))
    <3>1. Signal(seen) \in Nat
      BY DEF Signal, Features
    <3> QED
      BY <2>1, <3>1
  <2>3. PICK w \in Nat : w = stream[i + d - 1]
    BY <1>6 DEF Words
  <2>4. Unit * n + Noise * w \in Int
    BY ScoreAssumption
  <2> QED
    BY <2>2, <2>3, <2>4
<1>11. o = [executed |-> s.dropout = 0 \/ stream[i] # 0, slot |-> slot,
            fingerprint |-> Fingerprint(Seen(s, p, slot)),
            score |-> Min({Full, n}), true_link |-> p % 2 = 0]
  BY <1>2, <1>3, <1>8, <1>10 DEF Observe, offset
<1>12. Min({Full, n}) \in Int
  <2>1. Full \in Int
    BY ScoreAssumption
  <2>2. Min({Full, n}) \in {Full, n}
    BY <2>1, MinOfTwo, Zenon
  <2> QED
    BY <2>1, <2>2
<1> QED
  BY <1>11, <1>12

\* While a generation evaluates, the reports are those of one scenario and one
\* stream of words.
Evaluated(s, stream) ==
  reports = [scenario |-> s, control |-> Trace(s, stream),
             ablation |-> [f \in Features |-> Trace(Without(s, f), stream)]]

ReportsInv ==
  reports # NoReports => \E s \in Scenarios : \E stream \in Streams(s) : Evaluated(s, stream)

LEMMA ReportsInvariance == Spec => []ReportsInv
<1>1. Init => ReportsInv
  BY DEF Init, ReportsInv
<1>2. ReportsInv /\ [Next]_vars => ReportsInv'
  <2> SUFFICES ASSUME ReportsInv, [Next]_vars PROVE ReportsInv'
    OBVIOUS
  <2>1. CASE UNCHANGED reports
    BY <2>1 DEF ReportsInv, Evaluated
  <2>2. CASE Evaluate
    BY <2>2 DEF Evaluate, ReportsInv, Evaluated
  <2>3. CASE Serialise
    BY <2>3 DEF Serialise, ReportsInv
  <2> QED
    BY <2>1, <2>2, <2>3 DEF Next, vars, Regenerate, OpenFile, FillFile, OpenManifest,
       Die, FillManifest, Verify, ReadFile, ReadManifest, Report, ReadInput, CheckDir, CreateDir,
       WriteReport, ReporterDies
<1> QED
  BY <1>1, <1>2, PTL DEF Spec

LEMMA ControlFacts ==
  ASSUME NEW s \in Scenarios
  PROVE  s \in ScenarioType /\ s.features = Features
BY ScenariosAssumption DEF ScenarioType

\* An ablation is a scenario that differs in the features alone.
LEMMA AblationFacts ==
  ASSUME NEW s \in ScenarioType, NEW f \in Features, NEW a, a = Without(s, f)
  PROVE  /\ a \in ScenarioType
         /\ a.features = Features \ {f}
         /\ a.participants = s.participants /\ a.strategy = s.strategy
         /\ a.window = s.window /\ a.dropout = s.dropout /\ a.periods = s.periods
         /\ Draws(a) = Draws(s) /\ Reach(a) = Reach(s)
         /\ Participants(a) = Participants(s) /\ Streams(a) = Streams(s)
<1>1. /\ a \in ScenarioType
      /\ a.features = Features \ {f}
      /\ a.participants = s.participants /\ a.strategy = s.strategy
      /\ a.window = s.window /\ a.dropout = s.dropout /\ a.periods = s.periods
  BY DEF Without, ScenarioType
<1>2. Draws(a) = Draws(s) /\ Reach(a) = Reach(s)
  BY <1>1 DEF Draws, Reach
<1> QED
  BY <1>1, <1>2 DEF Participants, Streams

\* The slot a participant executes in.
SlotOf(s, stream, p) ==
  TargetSlot + IF Draws(s) = 3 THEN stream[p * Draws(s) + 1] * Reach(s) ELSE 0

LEMMA ObservationFields ==
  ASSUME NEW s, NEW stream, NEW p, NEW o, o = Observe(s, stream, p)
  PROVE  /\ o.executed = (s.dropout = 0 \/ stream[p * Draws(s)] # 0)
         /\ o.slot = SlotOf(s, stream, p)
         /\ o.fingerprint = Fingerprint(Seen(s, p, SlotOf(s, stream, p)))
         /\ o.true_link = (p % 2 = 0)
BY DEF Observe, SlotOf

\* The same participants execute, in the same slots.
LEMMA AblationSameRun ==
  ASSUME NEW s \in ScenarioType, NEW stream, NEW f \in Features,
         NEW p \in Participants(s)
  PROVE  /\ Observe(Without(s, f), stream, p).executed = Observe(s, stream, p).executed
         /\ Observe(Without(s, f), stream, p).slot = Observe(s, stream, p).slot
         /\ SlotOf(Without(s, f), stream, p) = SlotOf(s, stream, p)
<1>1. PICK a : a = Without(s, f)
  OBVIOUS
<1>2. /\ a.dropout = s.dropout /\ Draws(a) = Draws(s) /\ Reach(a) = Reach(s)
  BY <1>1, AblationFacts
<1>3. SlotOf(a, stream, p) = SlotOf(s, stream, p)
  BY <1>2 DEF SlotOf
<1>4. /\ Observe(a, stream, p).executed = Observe(s, stream, p).executed
      /\ Observe(a, stream, p).slot = Observe(s, stream, p).slot
  BY <1>2, <1>3, ObservationFields
<1> QED
  BY <1>1, <1>3, <1>4

LEMMA TraceFacts ==
  ASSUME NEW s, NEW stream
  PROVE  /\ DOMAIN Trace(s, stream) = Participants(s)
         /\ \A p \in Participants(s) : Trace(s, stream)[p] = Observe(s, stream, p)
BY DEF Trace

\* Whatever an ablation hides, the run it observes is the control's: the draws are
\* taken whether or not anybody looks at what they decide.
THEOREM SameRunObserved == Spec => []SameSeedSameRun
<1>1. ReportsInv => SameSeedSameRun
  <2> SUFFICES ASSUME ReportsInv, reports # NoReports, NEW f \in Features,
                      NEW p \in DOMAIN reports.control
               PROVE  /\ reports.ablation[f][p].executed = reports.control[p].executed
                      /\ reports.ablation[f][p].slot = reports.control[p].slot
    BY DEF SameSeedSameRun
  <2>1. PICK s, stream : s \in Scenarios /\ stream \in Streams(s) /\ Evaluated(s, stream)
    BY DEF ReportsInv
  <2>2. /\ reports.control = Trace(s, stream)
        /\ reports.ablation[f] = Trace(Without(s, f), stream)
    BY <2>1 DEF Evaluated
  <2>3. s \in ScenarioType /\ p \in Participants(s)
    BY <2>1, <2>2, ControlFacts, TraceFacts
  <2>4. p \in Participants(Without(s, f))
    BY <2>3, AblationFacts
  <2>5. /\ reports.control[p] = Observe(s, stream, p)
        /\ reports.ablation[f][p] = Observe(Without(s, f), stream, p)
    BY <2>2, <2>3, <2>4, TraceFacts
  <2> QED
    BY <2>3, <2>5, AblationSameRun
<1> QED
  BY <1>1, ReportsInvariance, PTL

-----------------------------------------------------------------------------
(* The evaluator: groups of equal fingerprints                             *)

LEMMA LeastElement ==
  ASSUME NEW S, S \subseteq Nat, S # {}
  PROVE  \E x \in S : \A y \in S : x <= y
<1> DEFINE R == OpToRel(<, Nat)
<1>1. \A x, y \in Nat : x < y => <<x, y>> \in R
  BY DEF OpToRel
<1>2. IsWellFoundedOn(R, Nat)
  BY NatLessThanWellFounded
<1> HIDE DEF R
<1>3. PICK x \in S : \A y \in S : ~(<<y, x>> \in R)
  BY <1>2, WFMin
<1>4. \A y \in S : x <= y
  <2> SUFFICES ASSUME NEW y \in S PROVE x <= y
    OBVIOUS
  <2>1. x \in Nat /\ y \in Nat
    OBVIOUS
  <2>2. ~(y < x)
    BY <1>1, <1>3, <2>1, Zenon
  <2> QED
    BY <2>1, <2>2, SMT
<1> QED
  BY <1>4

LEMMA LeastIsMin ==
  ASSUME NEW S, S \subseteq Nat, S # {}
  PROVE  Min(S) \in S /\ \A y \in S : Min(S) <= y
BY LeastElement DEF Min

LEMMA GreatestIsMax ==
  ASSUME NEW S, NEW b \in Nat, S \subseteq 0 .. b, S # {}
  PROVE  Max(S) \in S /\ \A y \in S : y <= Max(S)
<1> DEFINE T == {b - y : y \in S}
<1>0. \A y \in S : y \in Nat /\ b - y \in Nat
  OBVIOUS
<1>1. T \subseteq Nat /\ T # {}
  BY <1>0, Zenon
<1>2. PICK t \in T : \A u \in T : t <= u
  BY <1>1, LeastElement
<1>3. PICK x \in S : t = b - x
  BY <1>2
<1>4. \A y \in S : b - x <= b - y
  BY <1>2, <1>3
<1>5. \A y \in S : x >= y
  BY <1>0, <1>4
<1>6. Max(S) \in S /\ \A y \in S : Max(S) >= y
  BY <1>5 DEF Max
<1> QED
  BY <1>6

\* The smallest group is a group, and no group is smaller.
LEMMA SmallestGroup ==
  ASSUME NEW obs, IsFiniteSet(Executed(obs)), Executed(obs) # {}
  PROVE  /\ MinimumK(obs) \in Nat
         /\ \E p \in Executed(obs) : MinimumK(obs) = Cardinality(Group(obs, p))
         /\ \A p \in Executed(obs) : MinimumK(obs) <= Cardinality(Group(obs, p))
<1> DEFINE K == {Cardinality(Group(obs, p)) : p \in Executed(obs)}
<1>1. \A p \in Executed(obs) : Cardinality(Group(obs, p)) \in Nat
  <2> SUFFICES ASSUME NEW p \in Executed(obs) PROVE Cardinality(Group(obs, p)) \in Nat
    OBVIOUS
  <2>1. Group(obs, p) \in SUBSET Executed(obs)
    BY DEF Group
  <2> QED
    BY <2>1, FS_Subset, FS_CardinalityType
<1>2. K \subseteq Nat /\ K # {}
  BY <1>1
<1>3. MinimumK(obs) = Min(K)
  BY DEF MinimumK
<1>4. Min(K) \in K /\ \A y \in K : Min(K) <= y
  BY <1>2, LeastIsMin
<1>5. Min(K) \in Nat
  BY <1>2, <1>4
<1> QED
  BY <1>3, <1>4, <1>5

\* A group of one is a unique participant.
LEMMA SmallestIsUnique ==
  ASSUME NEW obs, IsFiniteSet(Executed(obs))
  PROVE  (MinimumK(obs) = 1) <=> (Unique(obs) # {})
<1>1. CASE Executed(obs) = {}
  BY <1>1 DEF MinimumK, Unique
<1>2. CASE Executed(obs) # {}
  <2>1. \A p \in Executed(obs) :
          /\ IsFiniteSet(Group(obs, p)) /\ p \in Group(obs, p)
          /\ Cardinality(Group(obs, p)) \in Nat
    <3> SUFFICES ASSUME NEW p \in Executed(obs)
                 PROVE  /\ IsFiniteSet(Group(obs, p)) /\ p \in Group(obs, p)
                        /\ Cardinality(Group(obs, p)) \in Nat
      OBVIOUS
    <3>1. Group(obs, p) \in SUBSET Executed(obs) /\ p \in Group(obs, p)
      BY DEF Group
    <3> QED
      BY <3>1, FS_Subset, FS_CardinalityType
  <2>2. \A p \in Executed(obs) : 1 <= Cardinality(Group(obs, p))
    BY <2>1, FS_EmptySet
  <2>3. \A p \in Executed(obs) :
          Cardinality(Group(obs, p)) = 1 <=> Group(obs, p) = {p}
    <3> SUFFICES ASSUME NEW p \in Executed(obs)
                 PROVE  Cardinality(Group(obs, p)) = 1 <=> Group(obs, p) = {p}
      OBVIOUS
    <3>1. IsFiniteSet({p}) /\ Cardinality({p}) = 1
      BY FS_Singleton
    <3>2. {p} \in SUBSET Group(obs, p)
      BY <2>1
    <3> QED
      BY <2>1, <3>1, <3>2, FS_Subset
  <2>4. /\ MinimumK(obs) \in Nat
        /\ \E p \in Executed(obs) : MinimumK(obs) = Cardinality(Group(obs, p))
        /\ \A p \in Executed(obs) : MinimumK(obs) <= Cardinality(Group(obs, p))
    BY <1>2, SmallestGroup
  <2>5. ASSUME MinimumK(obs) = 1 PROVE Unique(obs) # {}
    BY <2>3, <2>4, <2>5 DEF Unique
  <2>6. ASSUME NEW p \in Unique(obs) PROVE MinimumK(obs) = 1
    <3>1. p \in Executed(obs) /\ Cardinality(Group(obs, p)) = 1
      BY <2>3 DEF Unique
    <3> QED
      BY <2>2, <2>4, <3>1
  <2> QED
    BY <2>5, <2>6
<1> QED
  BY <1>1, <1>2

\* Merging groups makes no group smaller and nobody unique.
LEMMA CoarserTrace ==
  ASSUME NEW a, NEW c, IsFiniteSet(Executed(c)), Executed(a) = Executed(c),
         \A p \in Executed(c) : Group(c, p) \subseteq Group(a, p)
  PROVE  /\ MinimumK(a) >= MinimumK(c)
         /\ Unique(a) \subseteq Unique(c)
<1>1. \A p \in Executed(c) : p \in Group(c, p)
  BY DEF Group
<1>2. Unique(a) \subseteq Unique(c)
  BY <1>1 DEF Unique
<1>3. CASE Executed(c) = {}
  <2>1. MinimumK(a) = 0 /\ MinimumK(c) = 0
    BY <1>3 DEF MinimumK
  <2> QED
    BY <1>2, <2>1
<1>4. CASE Executed(c) # {}
  <2>1. PICK p \in Executed(c) : MinimumK(a) = Cardinality(Group(a, p))
    BY <1>4, SmallestGroup
  <2>2. MinimumK(c) <= Cardinality(Group(c, p)) /\ MinimumK(c) \in Nat
    BY <1>4, SmallestGroup
  <2>3. Group(a, p) \in SUBSET Executed(c) /\ Group(c, p) \in SUBSET Group(a, p)
    BY DEF Group
  <2>4. IsFiniteSet(Group(a, p))
    BY <2>3, FS_Subset
  <2>5. /\ Cardinality(Group(c, p)) <= Cardinality(Group(a, p))
        /\ IsFiniteSet(Group(c, p))
    BY <2>3, <2>4, FS_Subset
  <2>6. Cardinality(Group(c, p)) \in Nat /\ Cardinality(Group(a, p)) \in Nat
    BY <2>4, <2>5, FS_CardinalityType
  <2>7. MinimumK(a) >= MinimumK(c)
    BY <2>1, <2>2, <2>5, <2>6
  <2> QED
    BY <1>2, <2>7
<1> QED
  BY <1>3, <1>4

\* A colon is no digit: texts that are equal are equal before the first colon and
\* after it.
LEMMA FieldTellsApart ==
  ASSUME NEW m \in Values, NEW n \in Values, NEW x \in Seq(Int), NEW y \in Seq(Int),
         Field(m, x) = Field(n, y)
  PROVE  m = n /\ x = y
<1>1. PICK a \in Seq(Nat), b \in Seq(Nat) : a = Numeral(m) /\ b = Numeral(n)
  BY NumeralAssumption
<1>2. a \in Seq(Int) /\ b \in Seq(Int)
  OBVIOUS
<1>3. PICK u, v : u = a \o <<Colon>> \o x /\ v = b \o <<Colon>> \o y /\ u = v
  BY <1>1 DEF Field
<1>4. Colon \in Int /\ Colon \notin Nat
  BY DEF Colon
<1>5. /\ Len(u) = Len(a) + 1 + Len(x) /\ Len(v) = Len(b) + 1 + Len(y)
      /\ \A i \in 1 .. Len(a) : u[i] = a[i]
      /\ u[Len(a) + 1] = Colon
      /\ \A i \in 1 .. Len(x) : u[Len(a) + 1 + i] = x[i]
      /\ \A i \in 1 .. Len(b) : v[i] = b[i]
      /\ v[Len(b) + 1] = Colon
      /\ \A i \in 1 .. Len(y) : v[Len(b) + 1 + i] = y[i]
  BY <1>2, <1>3, <1>4
<1>6. Len(a) = Len(b)
  <2>1. ASSUME Len(a) < Len(b) PROVE FALSE
    <3>1. Len(a) + 1 \in 1 .. Len(b)
      BY <2>1
    <3>2. b[Len(a) + 1] \in Nat
      BY <3>1, ElementOfSeq
    <3>3. b[Len(a) + 1] = Colon
      BY <1>3, <1>5, <3>1
    <3> QED
      BY <1>4, <3>2, <3>3
  <2>2. ASSUME Len(b) < Len(a) PROVE FALSE
    <3>1. Len(b) + 1 \in 1 .. Len(a)
      BY <2>2
    <3>2. a[Len(b) + 1] \in Nat
      BY <3>1, ElementOfSeq
    <3>3. a[Len(b) + 1] = Colon
      BY <1>3, <1>5, <3>1
    <3> QED
      BY <1>4, <3>2, <3>3
  <2> QED
    BY <2>1, <2>2
<1>7. a = b
  <2>1. \A i \in 1 .. Len(a) : a[i] = b[i]
    BY <1>3, <1>5, <1>6
  <2> QED
    BY <1>6, <2>1, SeqEqual
<1>8. Len(x) = Len(y)
  BY <1>3, <1>5, <1>6
<1>9. \A i \in 1 .. Len(x) : x[i] = y[i]
  BY <1>3, <1>5, <1>6, <1>8
<1>10. x = y
  BY <1>8, <1>9, SeqEqual
<1> QED
  BY <1>1, <1>7, <1>10, NumeralAssumption

LEMMA FieldType ==
  ASSUME NEW n \in Values, NEW x \in Seq(Int)
  PROVE  Field(n, x) \in Seq(Int)
<1>1. PICK a \in Seq(Nat) : a = Numeral(n)
  BY NumeralAssumption
<1>2. a \in Seq(Int) /\ Colon \in Int
  BY DEF Colon
<1> QED
  BY <1>1, <1>2 DEF Field

\* The text of a fingerprint has the six values in it.
LEMMA FingerprintTellsApart ==
  ASSUME NEW a \in [Features -> Values], NEW b \in [Features -> Values],
         Fingerprint(a) = Fingerprint(b)
  PROVE  a = b
<1> DEFINE
     h(v) == Numeral(v["historical_behavior"])
     g(v) == Field(v["amount_bucket"], h(v))
     k(v) == Field(v["funding_graph"], g(v))
     l(v) == Field(v["fee_behavior"], k(v))
     m(v) == Field(v["instruction_shape"], l(v))
<1>1. ASSUME NEW f \in Features PROVE a[f] \in Values /\ b[f] \in Values
  OBVIOUS
<1>2. "timing" \in Features /\ "instruction_shape" \in Features
      /\ "fee_behavior" \in Features /\ "funding_graph" \in Features
      /\ "amount_bucket" \in Features /\ "historical_behavior" \in Features
  BY DEF Features
<1>3. /\ Field(a["timing"], m(a)) = Field(b["timing"], m(b))
  BY DEF Fingerprint
<1>4. h(a) \in Seq(Int) /\ h(b) \in Seq(Int)
  <2>1. PICK x \in Seq(Nat), y \in Seq(Nat) : x = h(a) /\ y = h(b)
    BY <1>2, NumeralAssumption
  <2> QED
    BY <2>1
<1>5. g(a) \in Seq(Int) /\ g(b) \in Seq(Int)
  BY <1>2, <1>4, FieldType
<1>6. k(a) \in Seq(Int) /\ k(b) \in Seq(Int)
  BY <1>2, <1>5, FieldType
<1>7. l(a) \in Seq(Int) /\ l(b) \in Seq(Int)
  BY <1>2, <1>6, FieldType
<1>8. m(a) \in Seq(Int) /\ m(b) \in Seq(Int)
  BY <1>2, <1>7, FieldType
<1>9. a["timing"] = b["timing"] /\ m(a) = m(b)
  BY <1>2, <1>3, <1>8, FieldTellsApart
<1>10. a["instruction_shape"] = b["instruction_shape"] /\ l(a) = l(b)
  BY <1>2, <1>7, <1>9, FieldTellsApart
<1>11. a["fee_behavior"] = b["fee_behavior"] /\ k(a) = k(b)
  BY <1>2, <1>6, <1>10, FieldTellsApart
<1>12. a["funding_graph"] = b["funding_graph"] /\ g(a) = g(b)
  BY <1>2, <1>5, <1>11, FieldTellsApart
<1>13. a["amount_bucket"] = b["amount_bucket"] /\ h(a) = h(b)
  BY <1>2, <1>4, <1>12, FieldTellsApart
<1>14. a["historical_behavior"] = b["historical_behavior"]
  BY <1>2, <1>13, NumeralAssumption
<1>15. \A f \in Features : a[f] = b[f]
  BY <1>9, <1>10, <1>11, <1>12, <1>13, <1>14 DEF Features
<1> QED
  BY <1>15

\* A hidden feature is the same for everybody, the others are as before.
LEMMA AblationSeen ==
  ASSUME NEW s \in ScenarioType, s.features = Features, NEW f \in Features,
         NEW p, NEW slot
  PROVE  Seen(Without(s, f), p, slot)
           = [g \in Features |-> IF g = f THEN 0 ELSE Seen(s, p, slot)[g]]
<1>1. PICK a : a = Without(s, f)
  OBVIOUS
<1>2. a.features = Features \ {f} /\ a.periods = s.periods
  BY <1>1, AblationFacts
<1>3. \A g \in Features :
        Feature(a, g, p, slot) = IF g = f THEN 0 ELSE Feature(s, g, p, slot)
  BY <1>2 DEF Feature
<1> QED
  BY <1>1, <1>3 DEF Seen

LEMMA TraceFinite ==
  ASSUME NEW s \in ScenarioType, NEW stream
  PROVE  IsFiniteSet(Executed(Trace(s, stream)))
<1>1. s.participants \in Nat
  BY DEF ScenarioType
<1>2. IsFiniteSet(Participants(s))
  BY <1>1, FS_Interval DEF Participants
<1>3. Executed(Trace(s, stream)) \in SUBSET Participants(s)
  BY TraceFacts DEF Executed
<1> QED
  BY <1>2, <1>3, FS_Subset

LEMMA AblationGroups ==
  ASSUME NEW s \in ScenarioType, s.features = Features, NEW f \in Features,
         NEW stream \in Streams(s),
         NEW a, a = Trace(Without(s, f), stream), NEW c, c = Trace(s, stream)
  PROVE  /\ Executed(a) = Executed(c)
         /\ \A p \in Executed(c) : Group(c, p) \subseteq Group(a, p)
<1>1. Participants(Without(s, f)) = Participants(s)
  BY AblationFacts
<1>2. /\ DOMAIN a = Participants(s) /\ DOMAIN c = Participants(s)
      /\ \A p \in Participants(s) : /\ a[p] = Observe(Without(s, f), stream, p)
                                    /\ c[p] = Observe(s, stream, p)
  BY <1>1, TraceFacts
<1>3. \A p \in Participants(s) : a[p].executed = c[p].executed
  BY <1>2, AblationSameRun
<1>4. Executed(a) = Executed(c)
  BY <1>2, <1>3 DEF Executed
<1>5. \A p \in Participants(s) :
        /\ c[p].fingerprint = Fingerprint(Seen(s, p, SlotOf(s, stream, p)))
        /\ a[p].fingerprint = Fingerprint(Seen(Without(s, f), p, SlotOf(s, stream, p)))
  BY <1>2, ObservationFields, AblationSameRun
<1>6. \A p \in Participants(s) : Seen(s, p, SlotOf(s, stream, p)) \in [Features -> Values]
  <2> TAKE p \in Participants(s)
  <2>1. PICK o : o = Observe(s, stream, p)
    OBVIOUS
  <2>2. o.slot \in TargetSlot .. TargetSlot + s.window /\ o.slot = SlotOf(s, stream, p)
    BY <2>1, ObservationTyped, ObservationFields
  <2>3. SlotOf(s, stream, p) \in Nat /\ p \in Nat
    BY <2>2, TargetIsNat, ReachInWindow DEF Participants, ScenarioType
  <2> QED
    BY <2>3, SeenIsValue
<1>7. \A p, q \in Participants(s) :
        c[q].fingerprint = c[p].fingerprint => a[q].fingerprint = a[p].fingerprint
  <2> SUFFICES ASSUME NEW p \in Participants(s), NEW q \in Participants(s),
                      c[q].fingerprint = c[p].fingerprint
               PROVE  a[q].fingerprint = a[p].fingerprint
    OBVIOUS
  <2> DEFINE Hide(seen) == [g \in Features |-> IF g = f THEN 0 ELSE seen[g]]
             SeenOf(r) == Seen(s, r, SlotOf(s, stream, r))
  <2>1. SeenOf(p) = SeenOf(q)
    BY <1>5, <1>6, FingerprintTellsApart
  <2>2. \A r \in Participants(s) : a[r].fingerprint = Fingerprint(Hide(SeenOf(r)))
    BY <1>5, AblationSeen
  <2> HIDE DEF Hide, SeenOf
  <2> QED
    BY <2>1, <2>2
<1>8. Executed(c) \subseteq Participants(s)
  BY <1>2 DEF Executed
<1>9. ASSUME NEW p \in Executed(c), NEW q \in Group(c, p) PROVE q \in Group(a, p)
  BY <1>4, <1>7, <1>8, <1>9 DEF Group
<1> QED
  BY <1>4, <1>9

\* Hiding a feature only merges groups of equal fingerprints, for every number of
\* participants, every stream and every modulus.
THEOREM AblationMerges == Spec => []AblationCoarsens
<1>1. ReportsInv => AblationCoarsens
  <2> SUFFICES ASSUME ReportsInv, reports # NoReports, NEW f \in Features,
                      NEW a, a = reports.ablation[f], NEW c, c = reports.control
               PROVE  /\ \A p \in Executed(c) : Group(c, p) \subseteq Group(a, p)
                      /\ MinimumK(a) >= MinimumK(c)
                      /\ Unique(a) \subseteq Unique(c)
    BY DEF AblationCoarsens
  <2>1. PICK s, stream : s \in Scenarios /\ stream \in Streams(s) /\ Evaluated(s, stream)
    BY DEF ReportsInv
  <2>2. c = Trace(s, stream) /\ a = Trace(Without(s, f), stream)
    BY <2>1 DEF Evaluated
  <2>3. s \in ScenarioType /\ s.features = Features
    BY <2>1, ControlFacts
  <2>4. /\ Executed(a) = Executed(c)
        /\ \A p \in Executed(c) : Group(c, p) \subseteq Group(a, p)
    BY <2>1, <2>2, <2>3, AblationGroups
  <2>5. IsFiniteSet(Executed(c))
    BY <2>2, <2>3, TraceFinite
  <2> QED
    BY <2>4, <2>5, CoarserTrace
<1> QED
  BY <1>1, ReportsInvariance, PTL

-----------------------------------------------------------------------------
(* The evaluator: metrics                                                  *)

\* The executed participants of a trace.
Typed(obs, window) ==
  /\ IsFiniteSet(Executed(obs))
  /\ \A p \in Executed(obs) :
       /\ obs[p].slot \in TargetSlot .. TargetSlot + window
       /\ obs[p].score \in Int
       /\ obs[p].true_link \in BOOLEAN

LEMMA TraceTyped ==
  ASSUME NEW s \in ScenarioType, NEW stream \in Streams(s), NEW obs,
         obs = Trace(s, stream)
  PROVE  Typed(obs, s.window)
<1>1. \A p \in Executed(obs) : p \in Participants(s) /\ obs[p] = Observe(s, stream, p)
  BY TraceFacts DEF Executed
<1>2. IsFiniteSet(Executed(obs))
  BY TraceFinite
<1> QED
  BY <1>1, <1>2, ObservationTyped DEF Typed

LEMMA SpreadInWindow ==
  ASSUME NEW obs, NEW window \in Nat, Typed(obs, window)
  PROVE  Spread(obs) <= window
<1>1. CASE Executed(obs) = {}
  BY <1>1 DEF Spread
<1>2. CASE Executed(obs) # {}
  <2>1. PICK b \in Nat : b = TargetSlot + window
    BY TargetIsNat
  <2>2. TargetSlot \in Nat
    BY TargetIsNat
  <2>3. \A x \in Slots(obs) : x \in TargetSlot .. b
    BY <2>1 DEF Slots, Typed
  <2>4. Slots(obs) # {}
    BY <1>2 DEF Slots
  <2>5. Slots(obs) \subseteq 0 .. b /\ Slots(obs) \subseteq Nat
    BY <2>2, <2>3
  <2>6. Max(Slots(obs)) \in TargetSlot .. b
    BY <2>1, <2>3, <2>4, <2>5, GreatestIsMax
  <2>7. Min(Slots(obs)) \in TargetSlot .. b
    BY <2>3, <2>4, <2>5, LeastIsMin
  <2>8. Spread(obs) = Max(Slots(obs)) - Min(Slots(obs))
    BY <1>2 DEF Spread
  <2> QED
    BY <2>1, <2>2, <2>6, <2>7, <2>8
<1> QED
  BY <1>1, <1>2

\* Earlier(obs, d) grows with d, from nobody to everybody.
LEMMA EarlierGrows ==
  ASSUME NEW obs, NEW window \in Nat, Typed(obs, window)
  PROVE  /\ \A d \in Int : Cardinality(Earlier(obs, d)) \in Nat
         /\ \A d, e \in Int :
              d <= e => Cardinality(Earlier(obs, d)) <= Cardinality(Earlier(obs, e))
         /\ Cardinality(Earlier(obs, 0)) = 0
         /\ Earlier(obs, window + 1) = Executed(obs)
         /\ \A d \in Int : Earlier(obs, d) # Earlier(obs, d + 1) =>
              d \in {slot - TargetSlot : slot \in Slots(obs)}
<1>1. \A p \in Executed(obs) :
        /\ obs[p].slot \in Int /\ 0 <= obs[p].slot - TargetSlot
        /\ obs[p].slot - TargetSlot <= window
        /\ obs[p].slot - TargetSlot \in Int
  BY TargetIsNat DEF Typed
<1>2. \A d \in Int : IsFiniteSet(Earlier(obs, d))
  <2> SUFFICES ASSUME NEW d \in Int PROVE IsFiniteSet(Earlier(obs, d))
    OBVIOUS
  <2>1. Earlier(obs, d) \in SUBSET Executed(obs)
    BY DEF Earlier
  <2> QED
    BY <2>1, FS_Subset DEF Typed
<1>3. \A d \in Int : Cardinality(Earlier(obs, d)) \in Nat
  BY <1>2, FS_CardinalityType
<1>4. ASSUME NEW d \in Int, NEW e \in Int, d <= e
      PROVE  Cardinality(Earlier(obs, d)) <= Cardinality(Earlier(obs, e))
  <2>1. Earlier(obs, d) \in SUBSET Earlier(obs, e)
    BY <1>1, <1>4 DEF Earlier
  <2> QED
    BY <1>2, <2>1, FS_Subset
<1>5. Earlier(obs, 0) = {}
  BY <1>1 DEF Earlier
<1>6. Cardinality(Earlier(obs, 0)) = 0
  BY <1>5, FS_EmptySet
<1>7. Earlier(obs, window + 1) = Executed(obs)
  BY <1>1 DEF Earlier
<1>8. ASSUME NEW d \in Int, Earlier(obs, d) # Earlier(obs, d + 1)
      PROVE  d \in {slot - TargetSlot : slot \in Slots(obs)}
  <2>1. PICK p \in Executed(obs) :
          ~(obs[p].slot - TargetSlot < d <=> obs[p].slot - TargetSlot < d + 1)
    BY <1>8 DEF Earlier
  <2>2. obs[p].slot - TargetSlot = d
    BY <1>1, <2>1
  <2> QED
    BY <2>2 DEF Slots
<1> QED
  BY <1>3, <1>4, <1>6, <1>7, <1>8

\* There is a deviation at every index of the sorted list.
LEMMA RankExists ==
  ASSUME NEW obs, NEW window \in Nat, Typed(obs, window), NEW i \in Nat,
         i < Cardinality(Executed(obs))
  PROVE  \E d \in {slot - TargetSlot : slot \in Slots(obs)} :
           /\ d \in Int
           /\ Cardinality(Earlier(obs, d)) <= i
           /\ i < Cardinality(Earlier(obs, d + 1))
<1> DEFINE S == {d \in Nat : i < Cardinality(Earlier(obs, d + 1))}
<1>1. window \in S
  BY EarlierGrows
<1>2. PICK d \in S : \A e \in S : d <= e
  BY <1>1, LeastElement
<1>3. d \in Nat /\ i < Cardinality(Earlier(obs, d + 1))
  BY <1>2
<1>4. Cardinality(Earlier(obs, d)) <= i
  <2>1. CASE d = 0
    BY <2>1, EarlierGrows
  <2>2. CASE d # 0
    <3>1. d - 1 \in Nat /\ d - 1 + 1 = d /\ d - 1 \notin S
      BY <1>2, <1>3, <2>2
    <3>2. ~(i < Cardinality(Earlier(obs, d)))
      BY <3>1
    <3>3. Cardinality(Earlier(obs, d)) \in Nat
      BY <1>3, EarlierGrows
    <3> QED
      BY <3>2, <3>3
  <2> QED
    BY <2>1, <2>2
<1>5. Earlier(obs, d) # Earlier(obs, d + 1)
  <2>1. /\ Cardinality(Earlier(obs, d)) \in Nat
        /\ Cardinality(Earlier(obs, d + 1)) \in Nat
    BY <1>3, EarlierGrows
  <2> QED
    BY <1>3, <1>4, <2>1
<1>6. d \in {slot - TargetSlot : slot \in Slots(obs)}
  BY <1>3, <1>5, EarlierGrows
<1> QED
  BY <1>3, <1>4, <1>6

LEMMA PercentilesOrdered ==
  ASSUME NEW obs, NEW window \in Nat, Typed(obs, window), Executed(obs) # {}
  PROVE  \E m \in Percentile(obs, 50), q \in Percentile(obs, 95) : m <= q
<1>1. PICK n \in Nat : n = Cardinality(Executed(obs)) /\ n > 0
  <2>1. IsFiniteSet(Executed(obs))
    BY DEF Typed
  <2>2. Cardinality(Executed(obs)) \in Nat /\ Cardinality(Executed(obs)) # 0
    BY <2>1, FS_EmptySet, FS_CardinalityType
  <2> QED
    BY <2>2
<1>2. PICK i, j \in Nat : /\ i = PercentileIndex(n, 50) /\ j = PercentileIndex(n, 95)
                          /\ i <= j /\ j < n
  <2>1. /\ PercentileIndex(n, 50) \in Nat /\ PercentileIndex(n, 95) \in Nat
        /\ PercentileIndex(n, 50) <= PercentileIndex(n, 95)
        /\ PercentileIndex(n, 95) < n
    BY <1>1 DEF PercentileIndex
  <2> QED
    BY <2>1
<1>3. PICK m \in {slot - TargetSlot : slot \in Slots(obs)} :
        /\ m \in Int /\ Cardinality(Earlier(obs, m)) <= i
        /\ i < Cardinality(Earlier(obs, m + 1))
  <2>1. i < Cardinality(Executed(obs))
    BY <1>1, <1>2
  <2> QED
    BY <2>1, RankExists
<1>4. PICK q \in {slot - TargetSlot : slot \in Slots(obs)} :
        /\ q \in Int /\ Cardinality(Earlier(obs, q)) <= j
        /\ j < Cardinality(Earlier(obs, q + 1))
  BY <1>1, <1>2, RankExists
<1>5. m \in Percentile(obs, 50) /\ q \in Percentile(obs, 95)
  BY <1>1, <1>2, <1>3, <1>4 DEF Percentile
<1>6. m <= q
  <2> SUFFICES ASSUME q < m PROVE FALSE
    BY <1>3, <1>4
  <2>1. q + 1 \in Int /\ q + 1 <= m
    BY <1>3, <1>4
  <2>2. /\ Cardinality(Earlier(obs, q + 1)) <= Cardinality(Earlier(obs, m))
        /\ Cardinality(Earlier(obs, q + 1)) \in Nat
        /\ Cardinality(Earlier(obs, m)) \in Nat
    BY <1>3, <2>1, EarlierGrows
  <2> QED
    BY <1>2, <1>3, <1>4, <2>2
<1> QED
  BY <1>5, <1>6

\* The pairs auc() compares, split by the outcome.
Won(obs, A, B) == {x \in A \X B : obs[x[1]].score > obs[x[2]].score}
Even(obs, A, B) == {x \in A \X B : obs[x[1]].score = obs[x[2]].score}
Lost(obs, A, B) == {x \in A \X B : obs[x[2]].score > obs[x[1]].score}

LEMMA Swapped ==
  ASSUME NEW S, NEW T, IsFiniteSet(S),
         \A x \in S : <<x[2], x[1]>> \in T /\ x = <<x[1], x[2]>>,
         \A y \in T : <<y[2], y[1]>> \in S /\ y = <<y[1], y[2]>>
  PROVE  Cardinality(T) = Cardinality(S)
<1> DEFINE swap == [x \in S |-> <<x[2], x[1]>>]
<1>1. swap \in [S -> T]
  OBVIOUS
<1>2. ASSUME NEW x \in S, NEW y \in S, swap[x] = swap[y] PROVE x = y
  <2>1. x[1] = y[1] /\ x[2] = y[2]
    BY <1>2
  <2> QED
    BY <2>1
<1>3. ASSUME NEW y \in T PROVE \E x \in S : swap[x] = y
  <2>1. <<y[2], y[1]>> \in S /\ y = <<y[1], y[2]>>
    OBVIOUS
  <2>2. swap[<<y[2], y[1]>>] = y
    BY <2>1
  <2> QED
    BY <2>1, <2>2
<1> HIDE DEF swap
<1>4. swap \in Bijection(S, T)
  BY <1>1, <1>2, <1>3, Fun_IsBij
<1>5. ExistsBijection(S, T)
  BY <1>4 DEF ExistsBijection
<1> QED
  BY <1>5, FS_Bijection

LEMMA DisjointUnion ==
  ASSUME NEW S, NEW T, IsFiniteSet(S), IsFiniteSet(T), S \cap T = {}
  PROVE  /\ IsFiniteSet(S \cup T)
         /\ Cardinality(S \cup T) = Cardinality(S) + Cardinality(T)
<1>1. Cardinality(S) \in Nat /\ Cardinality(T) \in Nat /\ Cardinality({}) = 0
  BY FS_CardinalityType, FS_EmptySet
<1>2. /\ IsFiniteSet(S \cup T)
      /\ Cardinality(S \cup T)
           = Cardinality(S) + Cardinality(T) - Cardinality(S \cap T)
  BY FS_Union
<1>3. Cardinality(S \cap T) = 0
  BY <1>1, Zenon
<1> QED
  BY <1>1, <1>2, <1>3

Counted(obs, A, B) ==
  /\ Cardinality(Won(obs, A, B)) \in Nat
  /\ Cardinality(Even(obs, A, B)) \in Nat
  /\ Cardinality(Lost(obs, A, B)) \in Nat
  /\ Cardinality(A \X B) = Cardinality(Won(obs, A, B))
       + Cardinality(Even(obs, A, B)) + Cardinality(Lost(obs, A, B))
  /\ Cardinality(Won(obs, B, A)) = Cardinality(Lost(obs, A, B))
  /\ Cardinality(Even(obs, B, A)) = Cardinality(Even(obs, A, B))

\* Every pair is won, tied or lost, and what one side loses the other one wins.
LEMMA PairsCounted ==
  ASSUME NEW obs, NEW A, NEW B, IsFiniteSet(A), IsFiniteSet(B),
         \A p \in A \cup B : obs[p].score \in Int
  PROVE  Counted(obs, A, B)
<1> DEFINE W == Won(obs, A, B)
           E == Even(obs, A, B)
           L == Lost(obs, A, B)
<1>1. IsFiniteSet(A \X B)
  BY FS_Product
<1>2. W \in SUBSET (A \X B) /\ E \in SUBSET (A \X B) /\ L \in SUBSET (A \X B)
  BY DEF Won, Even, Lost
<1>3. IsFiniteSet(W) /\ IsFiniteSet(E) /\ IsFiniteSet(L)
  BY <1>1, <1>2, FS_Subset
<1>4. Cardinality(W) \in Nat /\ Cardinality(E) \in Nat /\ Cardinality(L) \in Nat
  BY <1>3, FS_CardinalityType
<1>5. \A x \in A \X B : obs[x[1]].score \in Int /\ obs[x[2]].score \in Int
  OBVIOUS
<1>6. A \X B = (W \cup E) \cup L
  <2>1. \A x \in A \X B : x \in W \/ x \in E \/ x \in L
    BY <1>5 DEF Won, Even, Lost
  <2> QED
    BY <1>2, <2>1
<1>7. W \cap E = {} /\ (W \cup E) \cap L = {}
  <2>1. \A x \in A \X B : /\ ~(x \in W /\ x \in E) /\ ~(x \in W /\ x \in L)
                          /\ ~(x \in E /\ x \in L)
    BY <1>5 DEF Won, Even, Lost
  <2> QED
    BY <1>2, <2>1
<1>8. Cardinality(W \cup E) = Cardinality(W) + Cardinality(E) /\ IsFiniteSet(W \cup E)
  BY <1>3, <1>7, DisjointUnion
<1>9. Cardinality((W \cup E) \cup L) = Cardinality(W \cup E) + Cardinality(L)
  BY <1>3, <1>7, <1>8, DisjointUnion
<1>10. Cardinality(A \X B) = Cardinality(W) + Cardinality(E) + Cardinality(L)
  BY <1>6, <1>8, <1>9
<1>11. Cardinality(Won(obs, B, A)) = Cardinality(L)
  <2>1. \A x \in L : <<x[2], x[1]>> \in Won(obs, B, A) /\ x = <<x[1], x[2]>>
    BY DEF Lost, Won
  <2>2. \A y \in Won(obs, B, A) : <<y[2], y[1]>> \in L /\ y = <<y[1], y[2]>>
    BY DEF Lost, Won
  <2> HIDE DEF L
  <2> QED
    BY <1>3, <2>1, <2>2, Swapped
<1>12. Cardinality(Even(obs, B, A)) = Cardinality(E)
  <2>1. \A x \in E : <<x[2], x[1]>> \in Even(obs, B, A) /\ x = <<x[1], x[2]>>
    BY DEF Even
  <2>2. \A y \in Even(obs, B, A) : <<y[2], y[1]>> \in E /\ y = <<y[1], y[2]>>
    BY DEF Even
  <2> HIDE DEF E
  <2> QED
    BY <1>3, <2>1, <2>2, Swapped
<1> QED
  BY <1>4, <1>10, <1>11, <1>12 DEF Counted

\* The pairs that count half.
Halved(obs, A, B) ==
  {x \in (A \X B) \ Won(obs, A, B) : obs[x[2]].score - obs[x[1]].score < Epsilon}

\* They are the even ones and some of the lost ones.
LEMMA HalvedCounted ==
  ASSUME NEW obs, NEW A, NEW B, IsFiniteSet(A), IsFiniteSet(B),
         \A p \in A \cup B : obs[p].score \in Int
  PROVE  /\ Cardinality(Halved(obs, A, B)) \in Nat
         /\ Cardinality(Even(obs, A, B)) <= Cardinality(Halved(obs, A, B))
         /\ Cardinality(Halved(obs, A, B))
              <= Cardinality(Even(obs, A, B)) + Cardinality(Lost(obs, A, B))
<1> DEFINE H == Halved(obs, A, B)
           E == Even(obs, A, B)
           L == Lost(obs, A, B)
<1>1. IsFiniteSet(A \X B)
  BY FS_Product
<1>2. H \in SUBSET (A \X B) /\ E \in SUBSET (A \X B) /\ L \in SUBSET (A \X B)
  BY DEF Halved, Even, Lost
<1>3. IsFiniteSet(H) /\ IsFiniteSet(E) /\ IsFiniteSet(L)
  BY <1>1, <1>2, FS_Subset
<1>4. \A x \in A \X B : obs[x[1]].score \in Int /\ obs[x[2]].score \in Int
  OBVIOUS
<1>5. \A x \in A \X B : /\ x \in E => x \in H
                        /\ x \in H => x \in E \/ x \in L
                        /\ ~(x \in E /\ x \in L)
  BY <1>4, ScoreAssumption DEF Halved, Even, Lost, Won
<1>6. E \in SUBSET H /\ H \in SUBSET (E \cup L) /\ E \cap L = {}
  BY <1>2, <1>5
<1>7. /\ IsFiniteSet(E \cup L)
      /\ Cardinality(E \cup L) = Cardinality(E) + Cardinality(L)
  BY <1>3, <1>6, DisjointUnion
<1>8. /\ Cardinality(E) <= Cardinality(H)
      /\ Cardinality(H) <= Cardinality(E \cup L)
  BY <1>3, <1>6, <1>7, FS_Subset
<1>9. Cardinality(H) \in Nat
  BY <1>3, FS_CardinalityType
<1> QED
  BY <1>7, <1>8, <1>9

\* What the two directions count together: each pair at least once and at most one
\* and a half times.
NoPairLost(auc, opposite) ==
  /\ auc.num <= auc.den
  /\ auc.den <= auc.num + opposite.num
  /\ 2 * (auc.num + opposite.num) <= 3 * auc.den

\* No pair is lost between the labels and the opposite ones, and the AUC is 1 when
\* the threshold separates the two groups.
LEMMA AucSound ==
  ASSUME NEW obs, NEW window \in Nat, Typed(obs, window)
  PROVE  /\ NoPairLost(Auc(obs, TRUE), Auc(obs, FALSE))
         /\ (/\ Linked(obs, TRUE) # {} /\ Linked(obs, FALSE) # {}
             /\ Flagged(obs, TRUE) = Linked(obs, TRUE)
             /\ Flagged(obs, FALSE) = {}) => Auc(obs, TRUE).num = Auc(obs, TRUE).den
<1>1. PICK A, B : A = Linked(obs, TRUE) /\ B = Linked(obs, FALSE)
  OBVIOUS
<1>2. A \in SUBSET Executed(obs) /\ B \in SUBSET Executed(obs)
  BY <1>1 DEF Linked
<1>3. IsFiniteSet(A) /\ IsFiniteSet(B)
  BY <1>2, FS_Subset DEF Typed
<1>4. \A p \in A \cup B : obs[p].score \in Int
  BY <1>2 DEF Typed
<1>5. Counted(obs, A, B)
  BY <1>3, <1>4, PairsCounted
<1>6. Linked(obs, ~TRUE) = B /\ Linked(obs, ~FALSE) = A
  <2>1. (~TRUE) = FALSE /\ (~FALSE) = TRUE
    OBVIOUS
  <2> QED
    BY <1>1, <2>1 DEF Linked
<1>7. PICK k, l : /\ k = TwiceWins(obs, TRUE) /\ l = TwiceWins(obs, FALSE)
                  /\ k = 2 * Cardinality(Won(obs, A, B)) + Cardinality(Halved(obs, A, B))
                  /\ l = 2 * Cardinality(Won(obs, B, A)) + Cardinality(Halved(obs, B, A))
  BY <1>1, <1>6 DEF TwiceWins, Won, Halved
<1>8. PICK t, u : t = Auc(obs, TRUE) /\ u = Auc(obs, FALSE)
  OBVIOUS
<1> SUFFICES /\ NoPairLost(t, u)
             /\ (A # {} /\ B # {} /\ Flagged(obs, TRUE) = A /\ Flagged(obs, FALSE) = {})
                  => t.num = t.den
  BY <1>1, <1>8, Zenon
<1>9. CASE A = {} \/ B = {}
  <2>1. A \X B = {} /\ B \X A = {}
    BY <1>9
  <2>2. t = [num |-> 1, den |-> 2] /\ u = [num |-> 1, den |-> 2]
    BY <1>1, <1>6, <1>8, <2>1 DEF Auc
  <2>3. NoPairLost(t, u)
    BY <2>2 DEF NoPairLost
  <2> QED
    BY <1>9, <2>3, Zenon
<1>10. CASE A # {} /\ B # {}
  <2>1. A \X B # {} /\ B \X A # {}
    <3>1. PICK a \in A, b \in B : TRUE
      BY <1>10
    <3>2. <<a, b>> \in A \X B /\ <<b, a>> \in B \X A
      OBVIOUS
    <3> QED
      BY <3>2
  <2>2. /\ t = [num |-> k, den |-> 2 * Cardinality(A \X B)]
        /\ u = [num |-> l, den |-> 2 * Cardinality(B \X A)]
    BY <1>1, <1>6, <1>7, <1>8, <2>1 DEF Auc
  <2>3. t.num = k /\ u.num = l /\ t.den = 2 * Cardinality(A \X B)
    BY <2>2
  <2>4. NoPairLost(t, u)
    <3>1. PICK w \in Nat, e \in Nat, r \in Nat :
            /\ w = Cardinality(Won(obs, A, B)) /\ e = Cardinality(Even(obs, A, B))
            /\ r = Cardinality(Lost(obs, A, B)) /\ r = Cardinality(Won(obs, B, A))
            /\ e = Cardinality(Even(obs, B, A)) /\ Cardinality(A \X B) = w + e + r
      BY <1>5 DEF Counted
    <3>2. w = Cardinality(Lost(obs, B, A))
      <4>1. \A p \in B \cup A : obs[p].score \in Int
        BY <1>4
      <4>2. Counted(obs, B, A)
        BY <1>3, <4>1, PairsCounted
      <4> QED
        BY <3>1, <4>2 DEF Counted
    <3>3. PICK x \in Nat : x = Cardinality(Halved(obs, A, B)) /\ e <= x /\ x <= e + r
      BY <1>3, <1>4, <3>1, HalvedCounted
    <3>4. PICK y \in Nat : y = Cardinality(Halved(obs, B, A)) /\ e <= y /\ y <= e + w
      BY <1>3, <1>4, <3>1, <3>2, HalvedCounted
    <3>5. k = 2 * w + x /\ l = 2 * r + y
      BY <1>7, <3>1, <3>3, <3>4
    <3> QED
      BY <2>3, <3>1, <3>3, <3>4, <3>5 DEF NoPairLost
  <2>5. ASSUME Flagged(obs, TRUE) = A, Flagged(obs, FALSE) = {}
        PROVE  t.num = t.den
    <3>1. Full \in Int
      BY ScoreAssumption
    <3>2. \A p \in A : 2 * obs[p].score >= Full
      BY <2>5 DEF Flagged
    <3>3. \A q \in B : ~(2 * obs[q].score >= Full)
      BY <1>1, <2>5 DEF Flagged
    <3>4. \A p \in A, q \in B : obs[p].score > obs[q].score
      BY <1>4, <3>1, <3>2, <3>3
    <3>5. Won(obs, A, B) = A \X B
      BY <3>4 DEF Won
    <3>6. Cardinality(Won(obs, A, B)) = Cardinality(A \X B) /\ Halved(obs, A, B) = {}
      BY <3>5 DEF Halved
    <3>7. Cardinality(Halved(obs, A, B)) = 0
      BY <3>6, FS_EmptySet
    <3> QED
      BY <1>5, <1>7, <2>3, <3>6, <3>7 DEF Counted
  <2> QED
    BY <2>4, <2>5
<1> QED
  BY <1>9, <1>10

\* The metrics of every report fit together, for every number of participants, every
\* stream, window and modulus.
THEOREM MetricsFit == Spec => []MetricsSound
<1>1. ReportsInv => MetricsSound
  <2> SUFFICES ASSUME ReportsInv, reports # NoReports,
                      NEW obs \in {reports.control}
                                    \cup {reports.ablation[f] : f \in Features}
               PROVE
      /\ Spread(obs) <= reports.scenario.window
      /\ Executed(obs) # {} =>
           \E m \in Percentile(obs, 50), q \in Percentile(obs, 95) : m <= q
      /\ (MinimumK(obs) = 1) <=> (Unique(obs) # {})
      /\ NoPairLost(Auc(obs, TRUE), Auc(obs, FALSE))
      /\ (/\ Linked(obs, TRUE) # {} /\ Linked(obs, FALSE) # {}
          /\ Flagged(obs, TRUE) = Linked(obs, TRUE)
          /\ Flagged(obs, FALSE) = {}) => Auc(obs, TRUE).num = Auc(obs, TRUE).den
    BY DEF MetricsSound, NoPairLost
  <2>1. PICK s, stream : s \in Scenarios /\ stream \in Streams(s) /\ Evaluated(s, stream)
    BY DEF ReportsInv
  <2>2. /\ reports.scenario = s /\ reports.control = Trace(s, stream)
        /\ \A f \in Features : reports.ablation[f] = Trace(Without(s, f), stream)
    BY <2>1 DEF Evaluated
  <2>3. s \in ScenarioType /\ s.window \in Nat
    BY <2>1, ControlFacts, ReachInWindow
  <2>4. Typed(reports.control, s.window)
    BY <2>1, <2>2, <2>3, TraceTyped
  <2>5. ASSUME NEW f \in Features PROVE Typed(reports.ablation[f], s.window)
    <3>1. PICK a : a = Without(s, f)
      OBVIOUS
    <3>2. a \in ScenarioType /\ a.window = s.window /\ Streams(a) = Streams(s)
      BY <2>3, <3>1, AblationFacts
    <3>3. Typed(Trace(a, stream), a.window)
      BY <2>1, <3>2, TraceTyped
    <3> QED
      BY <2>2, <3>1, <3>2, <3>3
  <2>6. Typed(obs, s.window)
    BY <2>4, <2>5
  <2>7. IsFiniteSet(Executed(obs))
    BY <2>6 DEF Typed
  <2>8. Spread(obs) <= s.window
    BY <2>3, <2>6, SpreadInWindow
  <2>9. Executed(obs) # {} =>
          \E m \in Percentile(obs, 50), q \in Percentile(obs, 95) : m <= q
    BY <2>3, <2>6, PercentilesOrdered
  <2>10. (MinimumK(obs) = 1) <=> (Unique(obs) # {})
    BY <2>7, SmallestIsUnique
  <2> QED
    BY <2>2, <2>3, <2>6, <2>8, <2>9, <2>10, AucSound
<1> QED
  BY <1>1, ReportsInvariance, PTL
=============================================================================
