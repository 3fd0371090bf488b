---------------------------- MODULE GenerationRun ----------------------------
(***************************************************************************)
(* Functional generation runs of packages/bayescycle                       *)
(* (_workflow/generation_runs.py): `generate` builds a plan in memory,     *)
(* writes its payloads, lets the engine write the output, verifies the     *)
(* output against the plan and publishes run.json last; load_generation_run*)
(* reads a run back, every payload checked against run.json; `replay`      *)
(* loads a run and generates again from the loaded plan.                   *)
(*                                                                         *)
(* Commands are processes that share the file system, also when they name  *)
(* the same output directory; any of them can be killed between two steps. *)
(* A payload is a value of the model and equal to its digest.  The source  *)
(* payloads of a posterior or fixed source are written, hashed and checked *)
(* as the design is, and are left out.                                     *)
(***************************************************************************)
EXTENDS Naturals, FiniteSets, Sequences

CONSTANTS Procs,      \* command invocations
          Dirs,       \* run directories
          Jobs,       \* what an invocation may be asked to do, see JobType
          Models, Designs, Seeds,
          Absent,     \* content of a file that does not exist
          Partial,    \* content of a file opened for writing and not written
          None,       \* a value an invocation does not hold
          MaxStops    \* bound: commands killed or ended by an exception

(* A plan, and the job of building it from the user's files or of replaying *)
(* the run in `orig`.                                                       *)
PlanType == [model : Models, design : Designs, seed : Seeds]
JobType == [cmd : {"generate"}, dir : Dirs, plan : PlanType]
           \cup [cmd : {"replay"}, dir : Dirs, orig : Dirs]
ASSUME JobsAssumption == Jobs \subseteq JobType

VARIABLES
    files,     \* files[d][f]: Absent, Partial or the content
    pc,        \* pc[p]: the next step of invocation p
    job,       \* job[p]: its job
    plan,      \* plan[p]: the plan it executes
    output,    \* output[p]: what the engine made, then what was verified
    loading,   \* loading[p]: what load_generation_run has read so far
    loaded,    \* loaded[p]: the record it returned
    published, \* published[d]: the plan of the command that published d's run
    contested, \* directories given to two commands that were live together
    stops

vars == <<files, pc, job, plan, output, loading, loaded, published, contested, stops>>

Payloads == <<"generation-plan.json", "model.ir.json", "design.json",
              "generated_datasets.ndjson">>
Files == {Payloads[i] : i \in 1..4} \cup {"run.json"}

(* What the engine writes records the digests of what it read. *)
OutputType == PlanType

Live == {"load", "plan", "validate", "ensure", "open", "write", "engine",
         "openOutput", "writeOutput", "verify", "openRun", "writeRun", "reload"}

Content == Models \cup Designs \cup PlanType
RunType == [Files \ {"run.json"} -> Content]
OnDisk == [Files -> Content \cup RunType \cup {Absent, Partial}]

(* A file that is missing or being written is told from any content, and *)
(* None from what an invocation can hold.                                *)
ASSUME ValuesAssumption ==
    /\ Absent # Partial
    /\ \A v \in {Absent, Partial} :
        v \notin Models /\ v \notin Designs /\ v \notin PlanType /\ v \notin RunType
    /\ None \notin PlanType /\ None \notin RunType
    /\ None \notin [dir : Dirs, payloads : OnDisk]
ASSUME MaxStopsAssumption == MaxStops \in Nat

KindOf(f) == CASE f = "model.ir.json" -> Models
               [] f = "design.json" -> Designs
               [] f = "generation-plan.json" -> PlanType
               [] f = "generated_datasets.ndjson" -> OutputType
               [] f = "run.json" -> RunType
FilesOK ==
    /\ files \in [Dirs -> OnDisk]
    /\ \A d \in Dirs, f \in Files : files[d][f] \in KindOf(f) \cup {Absent, Partial}

TypeOK ==
    /\ FilesOK
    /\ pc \in [Procs -> (Live \cup {"idle", "done", "stopped"}) \X (1..6)]
    /\ job \in [Procs -> Jobs \cup {None}]
    /\ plan \in [Procs -> PlanType \cup {None}]
    /\ output \in [Procs -> OutputType \cup {None}]
    /\ loading \in [Procs -> OnDisk]
    /\ loaded \in [Procs -> [dir : Dirs, payloads : OnDisk] \cup {None}]
    /\ published \in [Dirs -> PlanType \cup {None}]
    /\ contested \subseteq Dirs
    /\ stops \in 0..MaxStops

NoFiles == [f \in Files |-> Absent]

Init ==
    /\ files = [d \in Dirs |-> NoFiles]
    /\ pc = [p \in Procs |-> <<"idle", 1>>]
    /\ job = [p \in Procs |-> None]
    /\ plan = [p \in Procs |-> None]
    /\ output = [p \in Procs |-> None]
    /\ loading = [p \in Procs |-> NoFiles]
    /\ loaded = [p \in Procs |-> None]
    /\ published = [d \in Dirs |-> None]
    /\ contested = {}
    /\ stops = 0

Complete(content) == content \notin {Absent, Partial}
Out(p) == job[p].dir
At(p, step) == pc[p][1] = step
Index(p) == pc[p][2]
Goto(p, step) == pc' = [pc EXCEPT ![p] = <<step, 1>>]
GotoNth(p, step, n) == pc' = [pc EXCEPT ![p] = <<step, n>>]
Put(d, f, content) == files' = [files EXCEPT ![d][f] = content]

Memory == <<job, plan, output, loading, loaded>>
Ghosts == <<published, contested>>

-----------------------------------------------------------------------------
IsLive(p) == pc[p][1] \in Live

(* The user starts a command. *)
Start(p, j) ==
    /\ At(p, "idle")
    /\ job' = [job EXCEPT ![p] = j]
    /\ Goto(p, IF j.cmd = "replay" THEN "load" ELSE "plan")
    /\ contested' = IF \E q \in Procs : IsLive(q) /\ Out(q) = j.dir
                    THEN contested \cup {j.dir} ELSE contested
    /\ UNCHANGED <<files, plan, output, loading, loaded, published, stops>>

(* The process is killed, or a step raises or the engine fails for a reason *)
(* of its own.  Nothing is cleaned up.                                      *)
Stop(p) ==
    /\ IsLive(p)
    /\ stops < MaxStops
    /\ stops' = stops + 1
    /\ Goto(p, "stopped")
    /\ UNCHANGED <<files, Memory, Ghosts>>

(* build_generation_plan: each file is read once, and hashed from memory. *)
BuildPlan(p) ==
    /\ At(p, "plan")
    /\ plan' = [plan EXCEPT ![p] = job[p].plan]
    /\ Goto(p, "validate")
    /\ UNCHANGED <<files, job, output, loading, loaded, Ghosts, stops>>

DirEmpty(d) == \A f \in Files : files[d][f] = Absent

(* _validate_output_dir, then again in _ensure_output_dir. *)
\* Mutant: a directory that is not empty is accepted.
AnyDir(p, at, next) ==
    /\ At(p, at)
    /\ Goto(p, next)
    /\ UNCHANGED <<files, Memory, Ghosts, stops>>
ValidateDir(p, at, next) ==
    /\ At(p, at)
    /\ Goto(p, IF DirEmpty(Out(p)) THEN next ELSE "stopped")
    /\ UNCHANGED <<files, Memory, Ghosts, stops>>

-----------------------------------------------------------------------------
(* materialize_generation_run: model, design, plan, each truncated first. *)
Written == <<"model.ir.json", "design.json", "generation-plan.json">>
ContentOf(q, f) == CASE f = "model.ir.json" -> q.model
                     [] f = "design.json" -> q.design
                     [] OTHER -> q

OpenPayload(p) ==
    /\ At(p, "open")
    /\ Put(Out(p), Written[Index(p)], Partial)
    /\ GotoNth(p, "write", Index(p))
    /\ UNCHANGED <<Memory, Ghosts, stops>>

WritePayload(p) ==
    /\ At(p, "write")
    /\ Put(Out(p), Written[Index(p)], ContentOf(plan[p], Written[Index(p)]))
    /\ IF Index(p) < Len(Written) THEN GotoNth(p, "open", Index(p) + 1)
                                  ELSE Goto(p, "engine")
    /\ UNCHANGED <<Memory, Ghosts, stops>>

(* The engine is given the payloads' paths, the count and the seed. *)
EngineReads(p) ==
    /\ At(p, "engine")
    /\ LET model == files[Out(p)]["model.ir.json"]
           design == files[Out(p)]["design.json"]
       IN IF Complete(model) /\ Complete(design)
          THEN /\ output' = [output EXCEPT ![p] = [model |-> model, design |-> design,
                                                   seed |-> plan[p].seed]]
               /\ Goto(p, "openOutput")
          ELSE Goto(p, "stopped") /\ UNCHANGED output
    /\ UNCHANGED <<files, job, plan, loading, loaded, Ghosts, stops>>

EngineWrites(p) ==
    \/ /\ At(p, "openOutput")
       /\ Put(Out(p), "generated_datasets.ndjson", Partial)
       /\ Goto(p, "writeOutput")
       /\ UNCHANGED <<Memory, Ghosts, stops>>
    \/ /\ At(p, "writeOutput")
       /\ Put(Out(p), "generated_datasets.ndjson", output[p])
       /\ Goto(p, "verify")
       /\ UNCHANGED <<Memory, Ghosts, stops>>

(* verify_generated_datasets compares digests, count and seed with the plan. *)
OutputMatches(q, out) ==
    out.model = q.model /\ out.design = q.design /\ out.seed = q.seed

(* _verify_generated_output reads the file once and keeps the bytes. *)
VerifyOutput(p) ==
    /\ At(p, "verify")
    /\ LET out == files[Out(p)]["generated_datasets.ndjson"]
       IN IF Complete(out) /\ OutputMatches(plan[p], out)
          THEN /\ output' = [output EXCEPT ![p] = out]
               /\ Goto(p, "openRun")
          ELSE Goto(p, "stopped") /\ UNCHANGED output
    /\ UNCHANGED <<files, job, plan, loading, loaded, Ghosts, stops>>

(* _write_generation_metadata: the digests of the plan in memory and of the *)
(* verified output, in a run.json that must not exist.                      *)
\* Mutant: the digests of what is in the directory now.
DigestsOnDisk(p) == [f \in Files \ {"run.json"} |-> files[Out(p)][f]]
Digests(p) ==
    [f \in Files \ {"run.json"} |->
        IF f = "generated_datasets.ndjson" THEN output[p] ELSE ContentOf(plan[p], f)]

\* Mutant: run.json is opened with "w".
ReopenRun(p) ==
    /\ At(p, "openRun")
    /\ Put(Out(p), "run.json", Partial)
    /\ Goto(p, "writeRun")
    /\ UNCHANGED <<Memory, Ghosts, stops>>
OpenRun(p) ==
    /\ At(p, "openRun")
    /\ IF files[Out(p)]["run.json"] = Absent
       THEN Put(Out(p), "run.json", Partial) /\ Goto(p, "writeRun")
       ELSE Goto(p, "stopped") /\ UNCHANGED files
    /\ UNCHANGED <<Memory, Ghosts, stops>>

WriteRun(p) ==
    /\ At(p, "writeRun")
    /\ Put(Out(p), "run.json", Digests(p))
    /\ published' = [published EXCEPT ![Out(p)] = plan[p]]
    /\ Goto(p, IF job[p].cmd = "replay" THEN "reload" ELSE "done")
    /\ UNCHANGED <<Memory, contested, stops>>

-----------------------------------------------------------------------------
(* load_generation_run: run.json, then the payloads one at a time, each      *)
(* compared with its digest, then the plan document resolved against them.  *)
(* A replay loads the original, and its own run once it is published, to     *)
(* compare the payloads of the two records.                                  *)
LoadDir(p) == IF At(p, "load") THEN job[p].orig ELSE Out(p)
IsLoading(p) == At(p, "load") \/ At(p, "reload")

LoadMetadata(p) ==
    /\ IsLoading(p) /\ Index(p) = 1
    /\ LET run == files[LoadDir(p)]["run.json"]
       IN IF Complete(run)
          THEN /\ loading' = [loading EXCEPT ![p] = [NoFiles EXCEPT !["run.json"] = run]]
               /\ GotoNth(p, pc[p][1], 2)
          ELSE Goto(p, "stopped") /\ UNCHANGED loading
    /\ UNCHANGED <<files, job, plan, output, loaded, Ghosts, stops>>

\* Mutant: the digest is not compared.
AnyDigest(content, digest) == TRUE
DigestAccepted(content, digest) == content = digest

LoadPayload(p) ==
    /\ IsLoading(p) /\ Index(p) \in 2..Len(Payloads) + 1
    /\ LET f == Payloads[Index(p) - 1]
           content == files[LoadDir(p)][f]
       IN IF Complete(content) /\ DigestAccepted(content, loading[p]["run.json"][f])
          THEN /\ loading' = [loading EXCEPT ![p][f] = content]
               /\ GotoNth(p, pc[p][1], Index(p) + 1)
          ELSE Goto(p, "stopped") /\ UNCHANGED loading
    /\ UNCHANGED <<files, job, plan, output, loaded, Ghosts, stops>>

(* resolve_generation_plan_document and _verify_generated_output, on the *)
(* bytes read; the replay goes on with the plan, or stops here when only *)
(* checking.                                                             *)
Resolve(p) ==
    /\ IsLoading(p) /\ Index(p) = Len(Payloads) + 2
    /\ LET q == loading[p]["generation-plan.json"]
       IN IF /\ q.model = loading[p]["model.ir.json"]
             /\ q.design = loading[p]["design.json"]
             /\ OutputMatches(q, loading[p]["generated_datasets.ndjson"])
          THEN /\ loaded' = [loaded EXCEPT ![p] = [dir |-> LoadDir(p), payloads |-> loading[p]]]
               /\ plan' = [plan EXCEPT ![p] = q]
               /\ \/ At(p, "load") /\ Goto(p, "validate")
                  \/ Goto(p, "done")
          ELSE Goto(p, "stopped") /\ UNCHANGED <<loaded, plan>>
    /\ UNCHANGED <<files, job, output, loading, Ghosts, stops>>

-----------------------------------------------------------------------------
Generate(p) ==
    \/ BuildPlan(p)
    \/ ValidateDir(p, "validate", "ensure")
    \/ ValidateDir(p, "ensure", "open")
    \/ OpenPayload(p) \/ WritePayload(p)
    \/ EngineReads(p) \/ EngineWrites(p)
    \/ VerifyOutput(p)
    \/ OpenRun(p) \/ WriteRun(p)

Load(p) == LoadMetadata(p) \/ LoadPayload(p) \/ Resolve(p)

AllEnded == \A p \in Procs : pc[p][1] \in {"done", "stopped"}

Next ==
    \/ \E p \in Procs : Generate(p) \/ Load(p) \/ Stop(p) \/ \E j \in Jobs : Start(p, j)
    \/ AllEnded /\ UNCHANGED vars

Spec == Init /\ [][Next]_vars

-----------------------------------------------------------------------------
(* A run that loads is, payload for payload, the run one command published,  *)
(* even when other commands were writing to the same directory before,       *)
(* during or after the load ("verified" in a replay document means this).    *)
LoadedIsWhatWasPublished ==
    \A p \in Procs : loaded[p] # None =>
        LET q == published[loaded[p].dir]
            payloads == loaded[p].payloads
        IN /\ q # None
           /\ payloads["generation-plan.json"] = q
           /\ payloads["model.ir.json"] = q.model
           /\ payloads["design.json"] = q.design
           /\ OutputMatches(q, payloads["generated_datasets.ndjson"])

(* A directory is published once: of commands that race for it, one writes  *)
(* run.json ("refusing to overwrite it", generation_runs.py:540).           *)
PublishedOnce ==
    [][\A d \in Dirs : published[d] # None =>
        /\ published'[d] = published[d]
        /\ files'[d]["run.json"] = files[d]["run.json"]]_vars

(* When no two live commands ever shared its directory, a published run is   *)
(* whole from the moment run.json is there: a crash before leaves no         *)
(* run.json, a retry after is refused, and every payload has its digest.     *)
UncontestedRunIsWhole ==
    \A d \in Dirs \ contested : LET run == files[d]["run.json"] IN
        Complete(run) =>
            /\ \A f \in Files \ {"run.json"} : files[d][f] = run[f]
            /\ OutputMatches(published[d], files[d]["generated_datasets.ndjson"])

(* A run directory is a cell that is written once.  A command that publishes *)
(* it file by file and a load that reads it file by file look, to whoever    *)
(* uses what was loaded, like one write and one read: the content appears    *)
(* with run.json, of one plan throughout, and what a load returns is the     *)
(* content of the directory when it returns, whoever was overwriting the     *)
(* payloads meanwhile.                                                       *)
PayloadFiles == Files \ {"run.json"}
RunOf(q) ==
    [f \in PayloadFiles |-> IF f = "generated_datasets.ndjson" THEN q ELSE ContentOf(q, f)]
RunsOfPlans == {RunOf(q) : q \in PlanType}
Stored ==
    [d \in Dirs |-> IF Complete(files[d]["run.json"]) THEN files[d]["run.json"] ELSE None]
Taken ==
    [p \in Procs |->
        IF loaded[p] = None THEN None
        ELSE [dir |-> loaded[p].dir,
              content |-> [f \in PayloadFiles |-> loaded[p].payloads[f]]]]
Abstract == INSTANCE WriteOnce WITH
              Readers <- Procs, Contents <- RunsOfPlans, stored <- Stored, taken <- Taken
RunsAreAtomic == Abstract!Spec
=============================================================================
