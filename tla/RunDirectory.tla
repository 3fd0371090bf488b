---------------------------- MODULE RunDirectory ----------------------------
(***************************************************************************)
(* Run directories of packages/bayescycle: the commands that create one    *)
(* from source files (sample, prior-predictive, recover ...), the          *)
(* follow-up commands that add a derived artifact to one (diagnose ...),   *)
(* and replay.  Each command is a process; processes share the file system *)
(* and nothing else, and any of them can be killed, or see a step raise,   *)
(* between two file-system operations.  No command cleans up after itself. *)
(*                                                                         *)
(* A file's content is a value of the model: for a source file a version,  *)
(* for model.ir.json and for the input document the version they were made *)
(* from (sha256 and canonical serialization are injective on versions).    *)
(* Every write is an open that truncates, then the content.                *)
(***************************************************************************)
EXTENDS Naturals, FiniteSets

CONSTANTS Procs,      \* command invocations
          Jobs,       \* what an invocation may be asked to do, see JobType
          Dirs,       \* run directories
          Versions,   \* contents of a source file
          Overlap,    \* may two live commands write the same artifacts?
          Absent,     \* content of a file that does not exist
          Partial,    \* content of a file opened for writing and not written
          None,       \* a value an invocation does not hold
          MaxEdits,   \* bound: edits of the source files
          MaxStops    \* bound: commands killed or ended by an exception

(* "planned" kinds (sample, prior-predictive) parse the data document while  *)
(* planning and write what they parsed; "copied" kinds (recover, sbc) copy   *)
(* the scenario file while materializing.                                    *)
RunCmds == {"planned", "copied"}
JobType == [cmd : RunCmds \cup {"replay", "diagnose"}, dir : Dirs, orig : Dirs]
ASSUME JobsAssumption == Jobs \subseteq JobType

Sources == {"model", "doc"}
RunFiles == {"model.ir.json", "input", "run.json", "output"}
Files == RunFiles \cup {"diagnostics"}

VARIABLES
    src,     \* src[s]: the content of source file s
    files,   \* files[d][f]: Absent, Partial or the content
    used,    \* used[d]: the inputs the engine read for d's output
    pc,      \* pc[p]: the next step of invocation p
    job,     \* job[p]: its job
    kind,    \* kind[p]: the run kind it executes
    plan,    \* plan[p]: the hashes and contents it holds in memory
    verdict, \* verdict[p]: what a replay reported
    edits, stops

vars == <<src, files, used, pc, job, kind, plan, verdict, edits, stops>>

Content == Versions \cup {Absent, Partial}
MetaType == [kind : RunCmds, model : Versions, doc : Content]
OutputType == [of : Content]
PlanType == [mhash : Versions \cup {None}, dhash : Content \cup {None},
             doc : Content \cup {None}, ir : Content \cup {None},
             out : OutputType \cup {None},
             record : MetaType \cup {None}]

(* A file that is missing or being written is told from any content. *)
ASSUME ValuesAssumption ==
    /\ Absent # Partial
    /\ \A v \in {Absent, Partial} :
        v \notin Versions /\ v \notin MetaType /\ v \notin OutputType
    /\ None \notin Content \X Content
ASSUME BoundsAssumption == MaxEdits \in Nat /\ MaxStops \in Nat

Live == {"load", "verifyModel", "verifyDoc", "hashModel", "hashDoc", "readDoc",
         "validate", "loadModel", "ensure", "openIr", "writeIr", "openInput",
         "writeInput", "hashCopy", "openRun", "writeRun", "engine",
         "openOutput", "writeOutput", "compare", "require", "reject", "recheck",
         "readOutput", "openDerived", "writeDerived"}

TypeOK ==
    /\ src \in [Sources -> Versions]
    /\ files \in [Dirs -> [Files -> Content \cup MetaType \cup OutputType]]
    /\ \A d \in Dirs :
        /\ files[d]["model.ir.json"] \in Content
        /\ files[d]["input"] \in Content
        /\ files[d]["run.json"] \in MetaType \cup {Absent, Partial}
        /\ files[d]["output"] \in OutputType \cup {Absent, Partial}
        /\ files[d]["diagnostics"] \in OutputType \cup {Absent, Partial}
    /\ used \in [Dirs -> (Content \X Content) \cup {None}]
    /\ pc \in [Procs -> Live \cup {"idle", "done", "stopped"}]
    /\ job \in [Procs -> Jobs \cup {None}]
    /\ kind \in [Procs -> RunCmds \cup {"none"}]
    /\ plan \in [Procs -> PlanType]
    /\ verdict \in [Procs -> {"none", "byte-identical", "different"}]
    /\ edits \in 0..MaxEdits
    /\ stops \in 0..MaxStops

NoPlan == [mhash |-> None, dhash |-> None, doc |-> None, ir |-> None,
           out |-> None, record |-> None]

Init ==
    /\ src \in [Sources -> Versions]
    /\ files = [d \in Dirs |-> [f \in Files |-> Absent]]
    /\ used = [d \in Dirs |-> None]
    /\ pc = [p \in Procs |-> "idle"]
    /\ job = [p \in Procs |-> None]
    /\ kind = [p \in Procs |-> "none"]
    /\ plan = [p \in Procs |-> NoPlan]
    /\ verdict = [p \in Procs |-> "none"]
    /\ edits = 0
    /\ stops = 0

Complete(content) == content \notin {Absent, Partial}
Out(p) == job[p].dir
\* Mutant: a directory without run.json is taken for a new one.
NoRun(d) == files[d]["run.json"] = Absent
DirEmpty(d) == \A f \in Files : files[d][f] = Absent

Goto(p, step) == pc' = [pc EXCEPT ![p] = step]
Plan(p, field, value) == plan' = [plan EXCEPT ![p][field] = value]
Put(d, f, content) == files' = [files EXCEPT ![d][f] = content]

Disk == <<src, files, used>>
Bounds == <<edits, stops>>

-----------------------------------------------------------------------------
(* The user starts a command.  Unless Overlap, no live command writes the *)
(* same artifacts of the same directory.                                  *)
Derives(j) == j.cmd = "diagnose"
Conflict(j, k) == j.dir = k.dir /\ Derives(j) = Derives(k)

FirstStep(j) == CASE j.cmd = "replay" -> "load"
                  [] j.cmd = "diagnose" -> "require"
                  [] OTHER -> "hashModel"

Start(p, j) ==
    /\ pc[p] = "idle"
    /\ Overlap \/ \A q \in Procs : pc[q] \in Live => ~Conflict(job[q], j)
    /\ job' = [job EXCEPT ![p] = j]
    /\ kind' = [kind EXCEPT ![p] = IF j.cmd \in RunCmds THEN j.cmd ELSE "none"]
    /\ Goto(p, FirstStep(j))
    /\ UNCHANGED <<Disk, plan, verdict, Bounds>>

(* The user edits a source file. *)
Edit(s, v) ==
    /\ edits < MaxEdits
    /\ v # src[s]
    /\ src' = [src EXCEPT ![s] = v]
    /\ edits' = edits + 1
    /\ UNCHANGED <<files, used, pc, job, kind, plan, verdict, stops>>

(* The process is killed, or a step of it raises for a reason of its own *)
(* (an unreadable file, a model that does not load, a full disk).        *)
Stop(p) ==
    /\ pc[p] \in Live
    /\ stops < MaxStops
    /\ stops' = stops + 1
    /\ Goto(p, "stopped")
    /\ UNCHANGED <<Disk, job, kind, plan, verdict, edits>>

-----------------------------------------------------------------------------
(* Planning: plan_model_run_context, plan_model_scenario_context.  Hashes are *)
(* taken from one read of a source file and contents from a later one.        *)
Planned(p, at, field, value, next) ==
    /\ pc[p] = at
    /\ Plan(p, field, value)
    /\ Goto(p, next)
    /\ UNCHANGED <<Disk, job, kind, verdict, Bounds>>

HashModel(p) == Planned(p, "hashModel", "mhash", src["model"], "hashDoc")
HashDoc(p) == Planned(p, "hashDoc", "dhash", src["doc"],
                      IF kind[p] = "planned" THEN "readDoc" ELSE "validate")
ReadDoc(p) == Planned(p, "readDoc", "doc", src["doc"], "validate")
LoadModel(p) == Planned(p, "loadModel", "ir", src["model"], "ensure")

(* _validate_output_dir, while planning and again in _ensure_output_dir. *)
\* Mutant: a directory that is not empty is accepted.
AnyDir(p, at, next) ==
    /\ pc[p] = at
    /\ Goto(p, next)
    /\ UNCHANGED <<Disk, job, kind, plan, verdict, Bounds>>
ValidateDir(p, at, next) ==
    /\ pc[p] = at
    /\ Goto(p, IF DirEmpty(Out(p)) THEN next ELSE "stopped")
    /\ UNCHANGED <<Disk, job, kind, plan, verdict, Bounds>>

-----------------------------------------------------------------------------
(* Materializing: the files are written one after the other, "w" truncating *)
(* whatever is there.                                                       *)
WriteFile(p, at, f, content, next) ==
    /\ pc[p] = at
    /\ Put(Out(p), f, content)
    /\ Goto(p, next)
    /\ UNCHANGED <<src, used, job, kind, plan, verdict, Bounds>>

WriteIr(p) == \/ WriteFile(p, "openIr", "model.ir.json", Partial, "writeIr")
              \/ WriteFile(p, "writeIr", "model.ir.json", plan[p].ir, "openInput")

WriteInput(p) ==
    \/ WriteFile(p, "openInput", "input", Partial, "writeInput")
    \/ /\ kind[p] = "planned"
       /\ WriteFile(p, "writeInput", "input", plan[p].doc, "openRun")
    \/ /\ kind[p] = "copied"
       /\ WriteFile(p, "writeInput", "input", src["doc"], "hashCopy")

(* materialize_model_scenario_context records the hash of the copy. *)
\* Mutant: the hash taken while planning is kept.
KeepPlannedHash(p) == Planned(p, "hashCopy", "dhash", plan[p].dhash, "openRun")
HashCopy(p) == Planned(p, "hashCopy", "dhash", files[Out(p)]["input"], "openRun")

(* write_run_metadata opens run.json with "x". *)
OpenRun(p) ==
    /\ pc[p] = "openRun"
    /\ IF files[Out(p)]["run.json"] = Absent
       THEN Put(Out(p), "run.json", Partial) /\ Goto(p, "writeRun")
       ELSE Goto(p, "stopped") /\ UNCHANGED files
    /\ UNCHANGED <<src, used, job, kind, plan, verdict, Bounds>>

WriteRun(p) ==
    WriteFile(p, "writeRun", "run.json",
              [kind |-> kind[p], model |-> plan[p].mhash, doc |-> plan[p].dhash],
              "engine")

-----------------------------------------------------------------------------
(* The engine is given the paths of model.ir.json and of the input document; *)
(* it reads them, then writes the output.  Its result depends on the model   *)
(* only, as a prior-predictive run's does: different documents can give      *)
(* byte-identical outputs.  Inputs it cannot parse make it fail.             *)
EngineReads(p) ==
    /\ pc[p] = "engine"
    /\ LET ir == files[Out(p)]["model.ir.json"]
           doc == files[Out(p)]["input"]
       IN IF Complete(ir) /\ Complete(doc)
          THEN /\ plan' = [plan EXCEPT ![p].out = [of |-> ir],
                                       ![p].ir = ir, ![p].doc = doc]
               /\ Goto(p, "openOutput")
          ELSE Goto(p, "stopped") /\ UNCHANGED plan
    /\ UNCHANGED <<Disk, job, kind, verdict, Bounds>>

EngineWrites(p) ==
    \/ WriteFile(p, "openOutput", "output", Partial, "writeOutput")
    \/ /\ pc[p] = "writeOutput"
       /\ Put(Out(p), "output", plan[p].out)
       /\ used' = [used EXCEPT ![Out(p)] = <<plan[p].ir, plan[p].doc>>]
       /\ Goto(p, IF job[p].cmd = "replay" THEN "compare" ELSE "done")
       /\ UNCHANGED <<src, job, kind, plan, verdict, Bounds>>

-----------------------------------------------------------------------------
(* replay: the recorded hashes are checked against the source files, then *)
(* the command is planned again from the same source files.               *)
Load(p) ==
    /\ pc[p] = "load"
    /\ LET record == files[job[p].orig]["run.json"]
       IN IF Complete(record)
          THEN /\ Plan(p, "record", record)
               /\ kind' = [kind EXCEPT ![p] = record.kind]
               /\ Goto(p, "verifyModel")
          ELSE Goto(p, "stopped") /\ UNCHANGED <<plan, kind>>
    /\ UNCHANGED <<Disk, job, verdict, Bounds>>

VerifySource(p, at, s, recorded, next) ==
    /\ pc[p] = at
    /\ Goto(p, IF src[s] = recorded THEN next ELSE "stopped")
    /\ UNCHANGED <<Disk, job, kind, plan, verdict, Bounds>>

VerifySources(p) ==
    \/ VerifySource(p, "verifyModel", "model", plan[p].record.model, "verifyDoc")
    \/ VerifySource(p, "verifyDoc", "doc", plan[p].record.doc, "hashModel")

(* compare_replay_artifacts: the model IR, the inputs and the outputs. *)
\* Mutant: only the outputs are compared.
OutputReferences == {"output"}
ArtifactReferences == {"model.ir.json", "input", "output"}
Identical(f, original, replay) ==
    /\ files[original][f] # Absent
    /\ files[replay][f] # Absent
    /\ files[original][f] = files[replay][f]

Compare(p) ==
    /\ pc[p] = "compare"
    /\ verdict' = [verdict EXCEPT ![p] =
                    IF \A f \in ArtifactReferences : Identical(f, job[p].orig, Out(p))
                    THEN "byte-identical" ELSE "different"]
    /\ Goto(p, "done")
    /\ UNCHANGED <<Disk, job, kind, plan, Bounds>>

-----------------------------------------------------------------------------
(* diagnose: the posterior must be a file and the report must not exist, *)
(* when planned and again when materialized.                             *)
Require(p) ==
    /\ pc[p] = "require"
    /\ Goto(p, IF files[Out(p)]["output"] # Absent THEN "reject" ELSE "stopped")
    /\ UNCHANGED <<Disk, job, kind, plan, verdict, Bounds>>

RejectExisting(p, at, next) ==
    /\ pc[p] = at
    /\ Goto(p, IF files[Out(p)]["diagnostics"] = Absent THEN next ELSE "stopped")
    /\ UNCHANGED <<Disk, job, kind, plan, verdict, Bounds>>

(* The engine reads the posterior; of one that is still being written, or   *)
(* that a killed run left, it may make a report or fail (Stop).             *)
ReadOutput(p) ==
    Planned(p, "readOutput", "out",
            IF Complete(files[Out(p)]["output"]) THEN files[Out(p)]["output"]
            ELSE [of |-> Partial],
            "openDerived")

WriteDerived(p) ==
    \/ WriteFile(p, "openDerived", "diagnostics", Partial, "writeDerived")
    \/ WriteFile(p, "writeDerived", "diagnostics", plan[p].out, "done")

-----------------------------------------------------------------------------
PlanRun(p) ==
    \/ HashModel(p) \/ HashDoc(p) \/ ReadDoc(p)
    \/ ValidateDir(p, "validate", "loadModel")
    \/ LoadModel(p)

MaterializeRun(p) ==
    \/ ValidateDir(p, "ensure", "openIr")
    \/ WriteIr(p) \/ WriteInput(p) \/ HashCopy(p) \/ OpenRun(p) \/ WriteRun(p)

Execute(p) == EngineReads(p) \/ EngineWrites(p)
Replay(p) == Load(p) \/ VerifySources(p) \/ Compare(p)
Diagnose(p) ==
    \/ Require(p)
    \/ RejectExisting(p, "reject", "recheck")
    \/ RejectExisting(p, "recheck", "readOutput")
    \/ ReadOutput(p)
    \/ WriteDerived(p)

Step(p) == PlanRun(p) \/ MaterializeRun(p) \/ Execute(p) \/ Replay(p) \/ Diagnose(p)

AllEnded == \A p \in Procs : pc[p] \in {"done", "stopped"}

Next ==
    \/ \E p \in Procs : Step(p) \/ Stop(p) \/ \E j \in Jobs : Start(p, j)
    \/ \E s \in Sources, v \in Versions : Edit(s, v)
    \/ AllEnded /\ UNCHANGED vars

Spec == Init /\ [][Next]_vars

-----------------------------------------------------------------------------
(* A complete artifact of a run directory is never changed: a command that   *)
(* finds one refuses.  ("Durable run artifacts are append-only", docs/       *)
(* invariants.md:31.)                                                        *)
AppendOnly ==
    [][\A d \in Dirs, f \in Files :
        Complete(files[d][f]) => files'[d][f] = files[d][f]]_vars

(* A run directory is of one piece, whenever the user edits the sources and  *)
(* wherever commands were killed and retried: the hash run.json records for a *)
(* copied input is that of the file beside it (operations.py:516-521), an    *)
(* output was computed from the model and the input beside it, and run.json  *)
(* is there to say how.                                                      *)
OutputIsOfItsInputs ==
    \A d \in Dirs :
        LET record == files[d]["run.json"]
        IN /\ Complete(record) /\ record.kind = "copied" => record.doc = files[d]["input"]
           /\ files[d]["output"] # Absent => Complete(record)
           /\ Complete(files[d]["output"]) =>
                used[d] = <<files[d]["model.ir.json"], files[d]["input"]>>

(* A replay that reports byte-identical artifacts had its engine read what   *)
(* the original's read, although the sources may have been edited after they *)
(* were verified and engines map different inputs to equal outputs.          *)
IdenticalMeansSameInputs ==
    \A p \in Procs : verdict[p] = "byte-identical" =>
        used[Out(p)] # None /\ used[Out(p)] = used[job[p].orig]
=============================================================================
