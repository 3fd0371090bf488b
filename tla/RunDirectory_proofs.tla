------------------------- MODULE RunDirectory_proofs -------------------------
(***************************************************************************)
(* Proofs about RunDirectory, for every set of commands, jobs, directories *)
(* and versions, every number of edits and of kills, when no two live      *)
(* commands write the same artifacts of a directory (~Overlap).            *)
(*                                                                         *)
(* A directory then has at most one live command that makes its run, and   *)
(* at most one that derives from it.  The first found it empty, so at each *)
(* of its steps it is known which files are there; nobody else writes      *)
(* them, and what the user does to the sources meanwhile does not matter,  *)
(* because nothing is compared with them again.                            *)
(***************************************************************************)
EXTENDS RunDirectory, TLAPS

Planning == {"hashModel", "hashDoc", "readDoc", "validate", "loadModel", "ensure"}
Verifying == {"verifyModel", "verifyDoc"}
BeforeRun == {"openIr", "writeIr", "openInput", "writeInput", "hashCopy", "openRun"}
AfterRun == {"engine", "openOutput", "writeOutput"}
Writing == BeforeRun \cup AfterRun \cup {"writeRun"}
Deriving == {"require", "reject", "recheck", "readOutput", "openDerived", "writeDerived"}

\* What command p holds in memory.
Held(p) ==
    /\ pc[p] # "idle" => job[p] \in Jobs
    /\ pc[p] \in Live => (pc[p] \in Deriving <=> Derives(job[p]))
    /\ pc[p] \in Verifying \cup Planning \cup Writing => kind[p] \in RunCmds
    /\ pc[p] \in (Planning \ {"hashModel"}) \cup Writing => plan[p].mhash \in Versions
    /\ pc[p] \in (Planning \ {"hashModel", "hashDoc"}) \cup Writing => plan[p].dhash \in Content
    /\ pc[p] \in {"ensure", "openIr", "writeIr"} => plan[p].ir \in Content
    /\ pc[p] \in {"validate", "loadModel", "ensure", "openIr", "writeIr", "openInput", "writeInput"}
         /\ kind[p] = "planned" => plan[p].doc \in Content
    /\ pc[p] \in {"openOutput", "writeOutput", "openDerived", "writeDerived"} =>
         plan[p].out \in OutputType
    /\ pc[p] \in {"openOutput", "writeOutput"} => plan[p].ir \in Content /\ plan[p].doc \in Content
    /\ verdict[p] # "none" => pc[p] = "done"

\* What a command at the step `at` that has the memory m and executes a run of
\* kind k knows of its directory, whose files are dir.
Knows(at, k, m, dir) ==
    /\ at = "openIr" => dir["model.ir.json"] = Absent
    /\ at = "writeIr" => dir["model.ir.json"] = Partial
    /\ at \in {"openIr", "writeIr", "openInput"} => dir["input"] = Absent
    /\ at = "writeInput" => dir["input"] = Partial
    /\ at \in BeforeRun => dir["run.json"] = Absent
    /\ at = "writeRun" => dir["run.json"] = Partial
    /\ at \in AfterRun => Complete(dir["run.json"])
    /\ at \in Writing \ {"writeOutput"} => dir["output"] = Absent
    /\ at = "writeOutput" => dir["output"] = Partial
    /\ at = "compare" => Complete(dir["output"])
    /\ at \in {"openRun", "writeRun"} /\ k = "copied" => m.dhash = dir["input"]
    /\ at \in {"openOutput", "writeOutput"} => m.ir = dir["model.ir.json"] /\ m.doc = dir["input"]
    /\ at \in {"readOutput", "openDerived"} => dir["diagnostics"] = Absent
    /\ at = "writeDerived" => dir["diagnostics"] = Partial
Known(p) == Knows(pc[p], kind[p], plan[p], files[Out(p)])

\* Live commands that write the same artifacts are one.
Alone ==
    \A p, q \in Procs :
        pc[p] \in Live /\ pc[q] \in Live /\ Conflict(job[p], job[q]) => p = q

\* A run with the files dir whose engine read `inputs` is of one piece.
OfOnePiece(dir, inputs) ==
    /\ Complete(dir["run.json"]) /\ dir["run.json"].kind = "copied" =>
         dir["run.json"].doc = dir["input"]
    /\ dir["output"] # Absent => Complete(dir["run.json"])
    /\ Complete(dir["output"]) => inputs = <<dir["model.ir.json"], dir["input"]>>
    /\ inputs # None => Complete(dir["output"])

IInv ==
    /\ TypeOK
    /\ Alone
    /\ \A p \in Procs : Held(p) /\ Known(p)
    /\ \A d \in Dirs : OfOnePiece(files[d], used[d])
    /\ IdenticalMeansSameInputs
-----------------------------------------------------------------------------
\* The files, one by one; those of a run and the derived one.
LEMMA Names ==
  /\ Files = {"model.ir.json", "input", "run.json", "output", "diagnostics"}
  /\ RunFiles = {"model.ir.json", "input", "run.json", "output"}
BY DEF Files, RunFiles

\* A started command names directories of the model.
LEMMA JobDirs ==
  ASSUME NEW p \in Procs, job[p] \in Jobs
  PROVE  Out(p) \in Dirs /\ job[p].orig \in Dirs /\ (Derives(job[p]) <=> job[p].cmd = "diagnose")
BY JobsAssumption DEF JobType, Out, Derives

\* The initial states satisfy the invariant.
LEMMA InitIInv == Init => IInv
<1> SUFFICES ASSUME Init PROVE IInv
  OBVIOUS
<1>1. TypeOK
  <2>1. NoPlan \in PlanType
    BY DEF NoPlan, PlanType
  <2> QED BY <2>1, Names, BoundsAssumption DEF Init, TypeOK, Content
<1>2. Alone
  BY DEF Init, Alone, Live
<1>3. \A p \in Procs : Held(p) /\ Known(p)
  BY DEF Init, Held, Known, Knows, Live, Verifying, Planning, Writing, BeforeRun, AfterRun, Deriving
<1>4. \A d \in Dirs : OfOnePiece(files[d], used[d])
  BY Names DEF Init, OfOnePiece, Complete
<1>5. IdenticalMeansSameInputs
  BY DEF Init, IdenticalMeansSameInputs
<1> QED BY <1>1, <1>2, <1>3, <1>4, <1>5 DEF IInv

-----------------------------------------------------------------------------
\* What a step of p leaves alone: other commands and their memory, other
\* directories, and in its own the artifacts of the other class.
StepsIn(p) ==
    /\ pc[p] \in Live
    /\ job' = job
    /\ \A q \in Procs \ {p} : /\ pc'[q] = pc[q] /\ kind'[q] = kind[q]
                              /\ plan'[q] = plan[q] /\ verdict'[q] = verdict[q]
    /\ \A d \in Dirs \ {Out(p)} : files'[d] = files[d] /\ used'[d] = used[d]
    /\ Derives(job[p]) => \A f \in RunFiles : files'[Out(p)][f] = files[Out(p)][f]
    /\ ~Derives(job[p]) => files'[Out(p)]["diagnostics"] = files[Out(p)]["diagnostics"]

\* What is known depends on the step, and only on the artifacts of its class.
LEMMA KnownFiles ==
  ASSUME NEW at, NEW k, NEW m, NEW dir, NEW dir2, Knows(at, k, m, dir),
         at \in Deriving => dir2["diagnostics"] = dir["diagnostics"],
         at \notin Deriving => \A f \in RunFiles : dir2[f] = dir[f]
  PROVE  Knows(at, k, m, dir2)
<1>1. CASE at \in Deriving
  BY <1>1 DEF Knows, Deriving, Writing, BeforeRun, AfterRun
<1>2. CASE at \notin Deriving
  BY <1>2, Names DEF Knows, Deriving, Complete
<1> QED BY <1>1, <1>2

\* At its other steps a command knows nothing.
LEMMA NothingKnown ==
  ASSUME NEW at, NEW k, NEW m, NEW dir,
         at \notin Writing \cup {"compare", "readOutput", "openDerived", "writeDerived"}
  PROVE  Knows(at, k, m, dir)
BY DEF Knows, Writing, BeforeRun, AfterRun

\* So the invariant is kept by it of everybody else.
LEMMA Elsewhere ==
  ASSUME IInv, NEW p \in Procs, StepsIn(p), TypeOK', Held(p)',
         Known(p)', OfOnePiece(files[Out(p)], used[Out(p)])',
         IdenticalMeansSameInputs'
  PROVE  IInv'
<1>1. \A q \in Procs : Out(q)' = Out(q)
  BY DEF StepsIn, Out
<1>2. Alone'
  BY DEF IInv, Alone, StepsIn
<1>3. ASSUME NEW q \in Procs, q # p PROVE Held(q)' /\ Known(q)'
  <2>1. Held(q)'
    BY <1>3 DEF IInv, StepsIn, Held
  <2>2. pc'[q] = pc[q] /\ kind'[q] = kind[q] /\ plan'[q] = plan[q]
    BY <1>3 DEF StepsIn
  <2>3. CASE pc[q] \notin Live
    <3>1. Known(q)'
      BY <2>2, <2>3, NothingKnown DEF Known, Writing, BeforeRun, AfterRun, Live
    <3> QED BY <2>1, <3>1
  <2>4. CASE pc[q] \in Live
    <3>1. job[q] \in Jobs /\ Out(q) \in Dirs /\ Held(q) /\ Known(q)
      BY <2>4, JobDirs DEF IInv, Held, Live
    <3>2. /\ pc[q] \in Deriving => files'[Out(q)]["diagnostics"] = files[Out(q)]["diagnostics"]
          /\ pc[q] \notin Deriving => \A f \in RunFiles : files'[Out(q)][f] = files[Out(q)][f]
      <4>1. CASE Out(q) # Out(p)
        <5>1. Out(q) \in Dirs \ {Out(p)}
          BY <3>1, <4>1
        <5>2. files'[Out(q)] = files[Out(q)]
          BY <5>1 DEF StepsIn
        <5> QED BY <5>2
      <4>2. CASE Out(q) = Out(p)
        <5>1. ~(Derives(job[q]) <=> Derives(job[p]))
          BY <1>3, <2>4, <4>2 DEF IInv, Alone, StepsIn, Conflict, Out, Derives
        <5>2. Derives(job[q]) <=> pc[q] \in Deriving
          BY <2>4, <3>1 DEF Held
        <5> QED BY <4>2, <5>1, <5>2 DEF StepsIn
      <4> QED BY <4>1, <4>2
    <3>3. Known(q)'
      BY <1>1, <2>2, <3>1, <3>2, KnownFiles DEF Known
    <3> QED BY <2>1, <3>3
  <2> QED BY <2>3, <2>4
<1>4. ASSUME NEW d \in Dirs PROVE OfOnePiece(files[d], used[d])'
  <2>1. CASE d # Out(p)
    BY <2>1 DEF IInv, StepsIn, OfOnePiece, Complete
  <2>2. CASE d = Out(p)
    BY <1>1, <2>2 DEF OfOnePiece, Complete
  <2> QED BY <2>1, <2>2
<1> QED BY <1>2, <1>3, <1>4 DEF IInv
-----------------------------------------------------------------------------
\* A step that writes no file and gives no verdict.
LEMMA Moves ==
  ASSUME IInv, NEW p \in Procs, pc[p] \in Live,
         NEW step \in Live \cup {"done", "stopped"}, Goto(p, step),
         UNCHANGED <<src, files, used, job, verdict, edits>>, stops' \in 0..MaxStops,
         kind' \in [Procs -> RunCmds \cup {"none"}], plan' \in [Procs -> PlanType],
         \A q \in Procs \ {p} : kind'[q] = kind[q] /\ plan'[q] = plan[q],
         Held(p)', Known(p)'
  PROVE  IInv'
<1>1. /\ pc' \in [Procs -> Live \cup {"idle", "done", "stopped"}]
      /\ \A q \in Procs \ {p} : pc'[q] = pc[q]
  BY DEF IInv, TypeOK, Goto
<1>2. TypeOK'
  BY <1>1 DEF IInv, TypeOK
<1>3. StepsIn(p)
  BY <1>1 DEF StepsIn
<1>4. OfOnePiece(files[Out(p)], used[Out(p)])'
  <2>1. Out(p) \in Dirs /\ Out(p)' = Out(p)
    BY JobDirs DEF IInv, Held, Live, Out
  <2> QED BY <2>1 DEF IInv, OfOnePiece, Complete
<1>5. IdenticalMeansSameInputs'
  BY DEF IInv, IdenticalMeansSameInputs, Out
<1> QED BY <1>2, <1>3, <1>4, <1>5, Elsewhere

\* A field of the memory is set.
LEMMA PlanField ==
  ASSUME TypeOK, NEW p \in Procs,
         NEW field \in {"mhash", "dhash", "doc", "ir", "out", "record"}, NEW value,
         field = "mhash" => value \in Versions,
         field \in {"dhash", "doc", "ir"} => value \in Content,
         field = "out" => value \in OutputType,
         field = "record" => value \in MetaType,
         Plan(p, field, value)
  PROVE  /\ plan' \in [Procs -> PlanType]
         /\ plan'[p][field] = value
         /\ \A f \in {"mhash", "dhash", "doc", "ir", "out", "record"} \ {field} :
              plan'[p][f] = plan[p][f]
         /\ \A q \in Procs \ {p} : plan'[q] = plan[q]
<1>1. plan \in [Procs -> PlanType] /\ plan' = [plan EXCEPT ![p][field] = value]
  BY DEF TypeOK, Plan
<1>2. plan[p] \in PlanType
  BY <1>1
<1>3. [plan[p] EXCEPT ![field] = value] \in PlanType
  BY <1>2 DEF PlanType
<1> QED BY <1>1, <1>2, <1>3 DEF PlanType

\* The steps that plan a run, and what the two readers hold.
LEMMA PlanningIInv ==
  ASSUME IInv, NEW p \in Procs,
         HashModel(p) \/ HashDoc(p) \/ ReadDoc(p) \/ LoadModel(p) \/ HashCopy(p) \/ ReadOutput(p)
  PROVE  IInv'
<1> USE DEF Planned
<1>0. src["model"] \in Versions /\ src["doc"] \in Versions
  BY DEF IInv, TypeOK, Sources
<1>1. /\ Held(p) /\ Known(p) /\ pc[p] \in Live /\ job[p] \in Jobs /\ Out(p) \in Dirs
      /\ UNCHANGED <<src, files, used, job, kind, verdict, edits, stops>>
      /\ kind \in [Procs -> RunCmds \cup {"none"}] /\ stops \in 0..MaxStops
      /\ Out(p)' = Out(p)
      /\ pc \in [Procs -> Live \cup {"idle", "done", "stopped"}]
  BY JobDirs DEF IInv, TypeOK, Held, HashModel, HashDoc, ReadDoc, LoadModel, HashCopy, ReadOutput,
                 Live, Disk, Bounds, Out
<1>2. CASE HashModel(p)
  <2>1. Plan(p, "mhash", src["model"]) /\ Goto(p, "hashDoc") /\ pc[p] = "hashModel"
    BY <1>2 DEF HashModel
  <2>2. /\ plan' \in [Procs -> PlanType] /\ plan'[p].mhash \in Versions
        /\ \A q \in Procs \ {p} : plan'[q] = plan[q]
    BY <1>0, <2>1, PlanField DEF IInv
  <2>3. pc'[p] = "hashDoc"
    BY <1>1, <2>1 DEF Goto
  <2>4. Held(p)'
    BY <1>1, <2>1, <2>2, <2>3 DEF Held, Live, Deriving, Verifying, Planning, Writing, BeforeRun, AfterRun
  <2>5. Known(p)'
    BY <2>3, NothingKnown DEF Known, Writing, BeforeRun, AfterRun
  <2> QED BY <1>1, <2>1, <2>2, <2>4, <2>5, Moves DEF Live
<1>3. CASE HashDoc(p)
  <2>1. PICK step \in {"readDoc", "validate"} :
          Plan(p, "dhash", src["doc"]) /\ Goto(p, step) /\ pc[p] = "hashDoc"
                                       /\ (kind[p] = "planned" => step = "readDoc")
    BY <1>3 DEF HashDoc
  <2>2. /\ plan' \in [Procs -> PlanType] /\ plan'[p].dhash \in Content
        /\ plan'[p].mhash = plan[p].mhash
        /\ \A q \in Procs \ {p} : plan'[q] = plan[q]
    BY <1>0, <2>1, PlanField DEF IInv, Content
  <2>3. pc'[p] = step
    BY <1>1, <2>1 DEF Goto
  <2>4. Held(p)'
    BY <1>1, <2>1, <2>2, <2>3 DEF Held, Live, Deriving, Verifying, Planning, Writing, BeforeRun, AfterRun
  <2>5. Known(p)'
    BY <2>3, NothingKnown DEF Known, Writing, BeforeRun, AfterRun
  <2> QED BY <1>1, <2>1, <2>2, <2>4, <2>5, Moves DEF Live
<1>4. CASE ReadDoc(p)
  <2>1. Plan(p, "doc", src["doc"]) /\ Goto(p, "validate") /\ pc[p] = "readDoc"
    BY <1>4 DEF ReadDoc
  <2>2. /\ plan' \in [Procs -> PlanType] /\ plan'[p].doc \in Content
        /\ plan'[p].mhash = plan[p].mhash /\ plan'[p].dhash = plan[p].dhash
        /\ \A q \in Procs \ {p} : plan'[q] = plan[q]
    BY <1>0, <2>1, PlanField DEF IInv, Content
  <2>3. pc'[p] = "validate"
    BY <1>1, <2>1 DEF Goto
  <2>4. Held(p)'
    BY <1>1, <2>1, <2>2, <2>3 DEF Held, Live, Deriving, Verifying, Planning, Writing, BeforeRun, AfterRun
  <2>5. Known(p)'
    BY <2>3, NothingKnown DEF Known, Writing, BeforeRun, AfterRun
  <2> QED BY <1>1, <2>1, <2>2, <2>4, <2>5, Moves DEF Live
<1>5. CASE LoadModel(p)
  <2>1. Plan(p, "ir", src["model"]) /\ Goto(p, "ensure") /\ pc[p] = "loadModel"
    BY <1>5 DEF LoadModel
  <2>2. /\ plan' \in [Procs -> PlanType] /\ plan'[p].ir \in Content
        /\ plan'[p].mhash = plan[p].mhash /\ plan'[p].dhash = plan[p].dhash
        /\ plan'[p].doc = plan[p].doc
        /\ \A q \in Procs \ {p} : plan'[q] = plan[q]
    BY <1>0, <2>1, PlanField DEF IInv, Content
  <2>3. pc'[p] = "ensure"
    BY <1>1, <2>1 DEF Goto
  <2>4. Held(p)'
    BY <1>1, <2>1, <2>2, <2>3 DEF Held, Live, Deriving, Verifying, Planning, Writing, BeforeRun, AfterRun
  <2>5. Known(p)'
    BY <2>3, NothingKnown DEF Known, Writing, BeforeRun, AfterRun
  <2> QED BY <1>1, <2>1, <2>2, <2>4, <2>5, Moves DEF Live
<1>6. CASE HashCopy(p)
  <2> DEFINE input == files[Out(p)]["input"]
  <2>0. input \in Content
    BY <1>1 DEF IInv, TypeOK
  <2>1. Plan(p, "dhash", input) /\ Goto(p, "openRun") /\ pc[p] = "hashCopy"
    BY <1>6 DEF HashCopy
  <2> HIDE DEF input
  <2>2. /\ plan' \in [Procs -> PlanType] /\ plan'[p].dhash = input
        /\ plan'[p].mhash = plan[p].mhash
        /\ \A q \in Procs \ {p} : plan'[q] = plan[q]
    BY <2>0, <2>1, PlanField DEF IInv
  <2>3. pc'[p] = "openRun"
    BY <1>1, <2>1 DEF Goto
  <2>4. Held(p)'
    BY <1>1, <2>0, <2>1, <2>2, <2>3 DEF Held, Live, Deriving, Verifying, Planning, Writing, BeforeRun, AfterRun
  <2>5. Known(p)'
    BY <1>1, <2>1, <2>2, <2>3 DEF Known, Knows, Writing, BeforeRun, AfterRun, input
  <2> QED BY <1>1, <2>1, <2>2, <2>4, <2>5, Moves DEF Live
<1>7. CASE ReadOutput(p)
  <2> DEFINE out == IF Complete(files[Out(p)]["output"]) THEN files[Out(p)]["output"] ELSE [of |-> Partial]
  <2>0. out \in OutputType
    BY <1>1 DEF IInv, TypeOK, Complete, OutputType, Content
  <2>1. Plan(p, "out", out) /\ Goto(p, "openDerived") /\ pc[p] = "readOutput"
    BY <1>7 DEF ReadOutput
  <2> HIDE DEF out
  <2>2. /\ plan' \in [Procs -> PlanType] /\ plan'[p].out \in OutputType
        /\ \A q \in Procs \ {p} : plan'[q] = plan[q]
    BY <2>0, <2>1, PlanField DEF IInv
  <2>3. pc'[p] = "openDerived"
    BY <1>1, <2>1 DEF Goto
  <2>4. Held(p)'
    BY <1>1, <2>1, <2>2, <2>3 DEF Held, Live, Deriving, Verifying, Planning, Writing, BeforeRun, AfterRun
  <2>5. Known(p)'
    BY <1>1, <2>1, <2>3 DEF Known, Knows, Writing, BeforeRun, AfterRun
  <2> QED BY <1>1, <2>1, <2>2, <2>4, <2>5, Moves DEF Live
<1> QED BY <1>2, <1>3, <1>4, <1>5, <1>6, <1>7

\* The steps that only choose what comes next.
LEMMA ChoosingIInv ==
  ASSUME IInv, NEW p \in Procs,
         \/ ValidateDir(p, "validate", "loadModel") \/ ValidateDir(p, "ensure", "openIr")
         \/ VerifySources(p) \/ Require(p) \/ Stop(p)
         \/ RejectExisting(p, "reject", "recheck") \/ RejectExisting(p, "recheck", "readOutput")
  PROVE  IInv'
<1>1. /\ Held(p) /\ Known(p) /\ pc[p] \in Live /\ job[p] \in Jobs /\ Out(p) \in Dirs
      /\ UNCHANGED <<src, files, used, job, kind, plan, verdict, edits>>
      /\ kind \in [Procs -> RunCmds \cup {"none"}] /\ stops' \in 0..MaxStops
      /\ plan \in [Procs -> PlanType]
      /\ Out(p)' = Out(p)
      /\ pc \in [Procs -> Live \cup {"idle", "done", "stopped"}]
  BY JobDirs, BoundsAssumption
     DEF IInv, TypeOK, Held, ValidateDir, VerifySources, VerifySource, Require, Stop,
         RejectExisting, Live, Disk, Bounds, Out
<1>2. PICK step \in Live \cup {"done", "stopped"} :
        /\ Goto(p, step)
        /\ \/ step = "stopped"
           \/ pc[p] = "validate" /\ step = "loadModel"
           \/ pc[p] = "ensure" /\ step = "openIr" /\ DirEmpty(Out(p))
           \/ pc[p] = "verifyModel" /\ step = "verifyDoc"
           \/ pc[p] = "verifyDoc" /\ step = "hashModel"
           \/ pc[p] = "require" /\ step = "reject"
           \/ pc[p] = "reject" /\ step = "recheck"
           \/ pc[p] = "recheck" /\ step = "readOutput" /\ files[Out(p)]["diagnostics"] = Absent
  BY DEF ValidateDir, VerifySources, VerifySource, Require, Stop, RejectExisting, Live
<1>3. pc'[p] = step
  BY <1>1, <1>2 DEF Goto
<1>4. Held(p)'
  BY <1>1, <1>2, <1>3
     DEF Held, Live, Deriving, Verifying, Planning, Writing, BeforeRun, AfterRun
<1>5. Known(p)'
  <2>1. CASE step \in {"openIr", "readOutput"}
    BY <1>1, <1>2, <1>3, <2>1, Names DEF Known, Knows, Writing, BeforeRun, AfterRun, DirEmpty
  <2>2. CASE step \notin {"openIr", "readOutput"}
    BY <1>2, <1>3, <2>2, NothingKnown DEF Known, Writing, BeforeRun, AfterRun
  <2> QED BY <2>1, <2>2
<1> QED BY <1>1, <1>2, <1>4, <1>5, Moves
\* The engine reads its inputs.
LEMMA EngineReadsIInv ==
  ASSUME IInv, NEW p \in Procs, EngineReads(p)
  PROVE  IInv'
<1> DEFINE ir == files[Out(p)]["model.ir.json"]
<1> DEFINE doc == files[Out(p)]["input"]
<1>1. /\ Held(p) /\ Known(p) /\ pc[p] = "engine" /\ job[p] \in Jobs /\ Out(p) \in Dirs
      /\ UNCHANGED <<src, files, used, job, kind, verdict, edits, stops>>
      /\ kind \in [Procs -> RunCmds \cup {"none"}] /\ stops \in 0..MaxStops
      /\ plan \in [Procs -> PlanType]
      /\ Out(p)' = Out(p)
      /\ pc \in [Procs -> Live \cup {"idle", "done", "stopped"}]
      /\ ir \in Content /\ doc \in Content
  BY JobDirs DEF IInv, TypeOK, Held, EngineReads, Live, Disk, Bounds, Out
<1>2. CASE Complete(ir) /\ Complete(doc)
  <2>1. /\ plan' = [plan EXCEPT ![p] = [plan[p] EXCEPT !.out = [of |-> ir], !.ir = ir, !.doc = doc]]
        /\ Goto(p, "openOutput")
    BY <1>1, <1>2 DEF EngineReads
  <2> DEFINE read == [plan[p] EXCEPT !.out = [of |-> ir], !.ir = ir, !.doc = doc]
  <2>2. /\ read \in PlanType /\ read.out \in OutputType /\ read.ir = ir /\ read.doc = doc
        /\ read.mhash = plan[p].mhash /\ read.dhash = plan[p].dhash
    BY <1>1 DEF PlanType, OutputType
  <2> HIDE DEF read
  <2>3. /\ plan' \in [Procs -> PlanType] /\ plan'[p] = read
        /\ \A q \in Procs \ {p} : plan'[q] = plan[q]
    BY <1>1, <2>1, <2>2 DEF read
  <2>4. pc'[p] = "openOutput"
    BY <1>1, <2>1 DEF Goto
  <2>5. Held(p)'
    BY <1>1, <2>2, <2>3, <2>4
       DEF Held, Live, Deriving, Verifying, Planning, Writing, BeforeRun, AfterRun
  <2>6. Known(p)'
    BY <1>1, <2>2, <2>3, <2>4 DEF Known, Knows, Writing, BeforeRun, AfterRun
  <2> QED BY <1>1, <2>1, <2>3, <2>5, <2>6, Moves DEF Live
<1>3. CASE ~(Complete(ir) /\ Complete(doc))
  <2>1. Goto(p, "stopped") /\ plan' = plan
    BY <1>3 DEF EngineReads
  <2>2. pc'[p] = "stopped"
    BY <1>1, <2>1 DEF Goto
  <2>3. Held(p)' /\ Known(p)'
    BY <1>1, <2>1, <2>2, NothingKnown
       DEF Held, Known, Live, Deriving, Verifying, Planning, Writing, BeforeRun, AfterRun
  <2> QED BY <1>1, <2>1, <2>3, Moves DEF Live
<1> QED BY <1>2, <1>3

\* A replay reads the record of the original.
LEMMA LoadIInv ==
  ASSUME IInv, NEW p \in Procs, Load(p)
  PROVE  IInv'
<1> DEFINE record == files[job[p].orig]["run.json"]
<1>1. /\ Held(p) /\ Known(p) /\ pc[p] = "load" /\ job[p] \in Jobs /\ Out(p) \in Dirs
      /\ UNCHANGED <<src, files, used, job, verdict, edits, stops>>
      /\ kind \in [Procs -> RunCmds \cup {"none"}] /\ stops \in 0..MaxStops
      /\ plan \in [Procs -> PlanType]
      /\ Out(p)' = Out(p)
      /\ pc \in [Procs -> Live \cup {"idle", "done", "stopped"}]
      /\ record \in MetaType \cup {Absent, Partial}
  BY JobDirs DEF IInv, TypeOK, Held, Load, Live, Disk, Bounds, Out
<1>2. CASE Complete(record)
  <2>1. /\ Plan(p, "record", record) /\ Goto(p, "verifyModel")
        /\ kind' = [kind EXCEPT ![p] = record.kind]
    BY <1>2 DEF Load
  <2>2. record \in MetaType /\ record.kind \in RunCmds
    BY <1>1, <1>2 DEF Complete, MetaType
  <2> HIDE DEF record
  <2>3. /\ plan' \in [Procs -> PlanType]
        /\ \A q \in Procs \ {p} : plan'[q] = plan[q]
    BY <2>1, <2>2, PlanField DEF IInv
  <2>4. /\ kind' \in [Procs -> RunCmds \cup {"none"}] /\ kind'[p] \in RunCmds
        /\ \A q \in Procs \ {p} : kind'[q] = kind[q]
    BY <1>1, <2>1, <2>2
  <2>5. pc'[p] = "verifyModel"
    BY <1>1, <2>1 DEF Goto
  <2>6. Held(p)' /\ Known(p)'
    BY <1>1, <2>4, <2>5, NothingKnown
       DEF Held, Known, Live, Deriving, Verifying, Planning, Writing, BeforeRun, AfterRun
  <2> QED BY <1>1, <2>1, <2>3, <2>4, <2>6, Moves DEF Live
<1>3. CASE ~Complete(record)
  <2>1. Goto(p, "stopped") /\ plan' = plan /\ kind' = kind
    BY <1>3 DEF Load
  <2>2. pc'[p] = "stopped"
    BY <1>1, <2>1 DEF Goto
  <2>3. Held(p)' /\ Known(p)'
    BY <1>1, <2>1, <2>2, NothingKnown
       DEF Held, Known, Live, Deriving, Verifying, Planning, Writing, BeforeRun, AfterRun
  <2> QED BY <1>1, <2>1, <2>3, Moves DEF Live
<1> QED BY <1>2, <1>3

\* The comparison.  The replay's output is complete; artifacts equal to its
\* model and input are those its engine read, and the original's.
LEMMA CompareIInv ==
  ASSUME IInv, NEW p \in Procs, Compare(p)
  PROVE  IInv'
<1> DEFINE d == Out(p)
<1> DEFINE o == job[p].orig
<1>1. /\ Held(p) /\ Known(p) /\ pc[p] = "compare" /\ job[p] \in Jobs /\ d \in Dirs /\ o \in Dirs
      /\ UNCHANGED <<src, files, used, job, kind, plan, edits, stops>>
      /\ kind \in [Procs -> RunCmds \cup {"none"}] /\ stops \in 0..MaxStops
      /\ plan \in [Procs -> PlanType]
      /\ d' = d /\ o' = o
      /\ pc' = [pc EXCEPT ![p] = "done"]
      /\ pc \in [Procs -> Live \cup {"idle", "done", "stopped"}]
      /\ verdict \in [Procs -> {"none", "byte-identical", "different"}]
  BY JobDirs DEF IInv, TypeOK, Held, Compare, Live, Disk, Bounds, Out, Goto
<1>2. PICK v \in {"byte-identical", "different"} :
        /\ verdict' = [verdict EXCEPT ![p] = v]
        /\ v = "byte-identical" => \A f \in ArtifactReferences : Identical(f, o, d)
  BY DEF Compare
<1>3. /\ pc' \in [Procs -> Live \cup {"idle", "done", "stopped"}] /\ pc'[p] = "done"
      /\ \A q \in Procs \ {p} : pc'[q] = pc[q] /\ verdict'[q] = verdict[q]
      /\ verdict' \in [Procs -> {"none", "byte-identical", "different"}] /\ verdict'[p] = v
  BY <1>1, <1>2
<1>4. TypeOK' /\ StepsIn(p)
  BY <1>1, <1>3 DEF IInv, TypeOK, StepsIn, Live
<1>5. Held(p)' /\ Known(p)'
  BY <1>1, <1>3, NothingKnown
     DEF Held, Known, Live, Deriving, Verifying, Planning, Writing, BeforeRun, AfterRun
<1>6. OfOnePiece(files[d], used[d])'
  BY <1>1 DEF IInv, OfOnePiece, Complete
<1>7. v = "byte-identical" => used[d] # None /\ used[d] = used[o]
  <2>1. SUFFICES ASSUME v = "byte-identical" PROVE used[d] # None /\ used[d] = used[o]
    OBVIOUS
  <2>2. /\ files[o]["model.ir.json"] = files[d]["model.ir.json"]
        /\ files[o]["input"] = files[d]["input"]
        /\ files[o]["output"] = files[d]["output"]
    BY <1>2, <2>1 DEF ArtifactReferences, Identical
  <2>3. Complete(files[d]["output"]) /\ Complete(files[o]["output"])
    BY <1>1, <2>2 DEF Known, Knows
  <2>4. /\ used[d] = <<files[d]["model.ir.json"], files[d]["input"]>>
        /\ used[o] = <<files[o]["model.ir.json"], files[o]["input"]>>
    BY <1>1, <2>3 DEF IInv, OfOnePiece
  <2>5. used[d] \in Content \X Content
    BY <1>1, <2>4 DEF IInv, TypeOK
  <2> QED BY <2>2, <2>4, <2>5, ValuesAssumption
<1>8. IdenticalMeansSameInputs'
  <2>1. \A q \in Procs : q # p /\ verdict'[q] = "byte-identical" =>
          used[Out(q)] # None /\ used[Out(q)] = used[job[q].orig]
    BY <1>3 DEF IInv, IdenticalMeansSameInputs
  <2> QED BY <1>1, <1>3, <1>7, <2>1 DEF IdenticalMeansSameInputs, Out
<1> QED BY <1>4, <1>5, <1>6, <1>8, Elsewhere
-----------------------------------------------------------------------------
\* Writing a file of a directory with content of its kind.
KindOf(f) == CASE f = "run.json" -> MetaType
               [] f \in {"output", "diagnostics"} -> OutputType
               [] f \in {"model.ir.json", "input"} -> Content
LEMMA PutFile ==
  ASSUME TypeOK, NEW d \in Dirs, NEW f \in Files,
         NEW value \in KindOf(f) \cup {Absent, Partial}, Put(d, f, value)
  PROVE  /\ files' \in [Dirs -> [Files -> Content \cup MetaType \cup OutputType]]
         /\ \A e \in Dirs, g \in Files :
              files'[e][g] = IF e = d /\ g = f THEN value ELSE files[e][g]
         /\ \A e \in Dirs \ {d} : files'[e] = files[e]
         /\ \A e \in Dirs :
              /\ files'[e]["model.ir.json"] \in Content
              /\ files'[e]["input"] \in Content
              /\ files'[e]["run.json"] \in MetaType \cup {Absent, Partial}
              /\ files'[e]["output"] \in OutputType \cup {Absent, Partial}
              /\ files'[e]["diagnostics"] \in OutputType \cup {Absent, Partial}
<1>1. value \in Content \cup MetaType \cup OutputType
  BY Names DEF KindOf, Content
<1>2. /\ files' \in [Dirs -> [Files -> Content \cup MetaType \cup OutputType]]
      /\ \A e \in Dirs, g \in Files :
           files'[e][g] = IF e = d /\ g = f THEN value ELSE files[e][g]
      /\ \A e \in Dirs \ {d} : files'[e] = files[e]
  BY <1>1 DEF TypeOK, Put
<1>3. \A g \in Files : g = f => value \in KindOf(g) \cup {Absent, Partial}
  OBVIOUS
<1>4. Absent \in Content /\ Partial \in Content
  BY DEF Content
<1>5. ASSUME NEW e \in Dirs
      PROVE  /\ files'[e]["model.ir.json"] \in Content
             /\ files'[e]["input"] \in Content
             /\ files'[e]["run.json"] \in MetaType \cup {Absent, Partial}
             /\ files'[e]["output"] \in OutputType \cup {Absent, Partial}
             /\ files'[e]["diagnostics"] \in OutputType \cup {Absent, Partial}
  BY <1>2, <1>3, <1>4, Names DEF TypeOK, KindOf
<1> QED BY <1>2, <1>5

\* A step that writes a file which is not complete, for its command's class.
LEMMA Writes ==
  ASSUME IInv, NEW p \in Procs, pc[p] \in Live,
         NEW f \in Files, NEW value \in KindOf(f) \cup {Absent, Partial},
         Derives(job[p]) <=> f = "diagnostics",
         Put(Out(p), f, value),
         NEW step \in Live \cup {"done", "stopped"}, Goto(p, step),
         UNCHANGED <<src, job, kind, plan, verdict, edits, stops>>,
         used' \in [Dirs -> (Content \X Content) \cup {None}],
         \A d \in Dirs \ {Out(p)} : used'[d] = used[d],
         \A d \in Dirs : used[d] # None => used'[d] = used[d],
         Held(p)', Known(p)', OfOnePiece(files[Out(p)], used[Out(p)])'
  PROVE  IInv'
<1>1. /\ pc' \in [Procs -> Live \cup {"idle", "done", "stopped"}]
      /\ \A q \in Procs \ {p} : pc'[q] = pc[q]
  BY DEF IInv, TypeOK, Goto
<1>2. Out(p) \in Dirs
  BY JobDirs DEF IInv, Held, Live
<1>3. TypeOK'
  BY <1>1, <1>2, PutFile DEF IInv, TypeOK
<1>4. StepsIn(p)
  <2>1. /\ \A d \in Dirs \ {Out(p)} : files'[d] = files[d]
        /\ \A g \in Files \ {f} : files'[Out(p)][g] = files[Out(p)][g]
    BY <1>2, PutFile DEF IInv
  <2> QED BY <1>1, <2>1, Names DEF StepsIn
<1>5. IdenticalMeansSameInputs'
  <2>1. \A q \in Procs : verdict[q] = "byte-identical" => Out(q) \in Dirs /\ job[q].orig \in Dirs
    BY JobDirs DEF IInv, Held
  <2> QED BY <2>1 DEF IInv, IdenticalMeansSameInputs, Out
<1> QED BY <1>3, <1>4, <1>5, Elsewhere

\* model.ir.json and the input: the directory has no run.json yet.
LEMMA WriteInputsIInv ==
  ASSUME IInv, NEW p \in Procs, WriteIr(p) \/ WriteInput(p)
  PROVE  IInv'
<1>1. /\ Held(p) /\ Known(p) /\ pc[p] \in {"openIr", "writeIr", "openInput", "writeInput"}
      /\ job[p] \in Jobs /\ Out(p) \in Dirs /\ Out(p)' = Out(p)
      /\ UNCHANGED <<src, used, job, kind, plan, verdict, edits, stops>>
      /\ pc \in [Procs -> Live \cup {"idle", "done", "stopped"}]
      /\ used \in [Dirs -> (Content \X Content) \cup {None}]
      /\ src["doc"] \in Content /\ Partial \in Content
  BY JobDirs DEF IInv, TypeOK, Held, WriteIr, WriteInput, WriteFile, Live, Bounds, Out, Sources, Content
<1>2. PICK f \in {"model.ir.json", "input"}, value \in Content, step \in Live :
        /\ Put(Out(p), f, value) /\ Goto(p, step)
        /\ \/ pc[p] = "openIr" /\ f = "model.ir.json" /\ value = Partial /\ step = "writeIr"
           \/ pc[p] = "writeIr" /\ f = "model.ir.json" /\ step = "openInput"
           \/ pc[p] = "openInput" /\ f = "input" /\ value = Partial /\ step = "writeInput"
           \/ pc[p] = "writeInput" /\ f = "input" /\ step = "openRun" /\ kind[p] = "planned"
           \/ pc[p] = "writeInput" /\ f = "input" /\ step = "hashCopy"
  <2>1. CASE WriteIr(p)
    <3>1. plan[p].ir \in Content
      BY <1>1, <2>1 DEF WriteIr, WriteFile, Held
    <3> QED BY <1>1, <2>1, <3>1 DEF WriteIr, WriteFile, Live
  <2>2. CASE WriteInput(p)
    <3>1. kind[p] = "planned" => plan[p].doc \in Content
      BY <1>1, <2>2 DEF WriteInput, WriteFile, Held
    <3> QED BY <1>1, <2>2, <3>1 DEF WriteInput, WriteFile, Live
  <2> QED BY <2>1, <2>2
<1>3. f \in Files /\ value \in KindOf(f) \cup {Absent, Partial}
  BY Names DEF KindOf
<1>4. \A g \in Files : files'[Out(p)][g] = IF g = f THEN value ELSE files[Out(p)][g]
  BY <1>1, <1>2, <1>3, PutFile DEF IInv
<1>5. pc'[p] = step
  BY <1>1, <1>2 DEF Goto
<1>6. Held(p)'
  BY <1>1, <1>2, <1>5
     DEF Held, Live, Deriving, Verifying, Planning, Writing, BeforeRun, AfterRun
<1>7. Known(p)'
  <2>1. files'[Out(p)]["run.json"] = Absent /\ files'[Out(p)]["output"] = Absent
    BY <1>1, <1>2, <1>4, Names DEF Known, Knows, Writing, BeforeRun, AfterRun
  <2>2. step = "writeIr" => files'[Out(p)]["model.ir.json"] = Partial
    BY <1>1, <1>2, <1>4, Names
  <2>3. step \in {"writeIr", "openInput"} => files'[Out(p)]["input"] = Absent
    BY <1>1, <1>2, <1>4, Names DEF Known, Knows
  <2>4. step = "writeInput" => files'[Out(p)]["input"] = Partial
    BY <1>1, <1>2, <1>4, Names
  <2> QED
    BY <1>1, <1>2, <1>5, <2>1, <2>2, <2>3, <2>4 DEF Known, Knows, Writing, BeforeRun, AfterRun
<1>8. OfOnePiece(files[Out(p)], used[Out(p)])'
  <2>1. files[Out(p)]["run.json"] = Absent /\ files[Out(p)]["output"] = Absent
    BY <1>1 DEF Known, Knows, Writing, BeforeRun, AfterRun
  <2>2. used[Out(p)] = None
    BY <1>1, <2>1 DEF IInv, OfOnePiece, Complete
  <2>3. files'[Out(p)]["run.json"] = Absent /\ files'[Out(p)]["output"] = Absent
    BY <1>2, <1>4, <2>1, Names
  <2> QED BY <1>1, <2>2, <2>3 DEF OfOnePiece, Complete
<1>9. ~Derives(job[p]) /\ f # "diagnostics"
  BY <1>1, <1>2 DEF Held, Live, Deriving
<1>10. pc[p] \in Live
  BY <1>1 DEF Live
<1> QED BY <1>1, <1>2, <1>3, <1>6, <1>7, <1>8, <1>9, <1>10, Writes
\* run.json, opened and written.
LEMMA WriteRecordIInv ==
  ASSUME IInv, NEW p \in Procs, OpenRun(p) \/ WriteRun(p)
  PROVE  IInv'
<1> DEFINE dir == files[Out(p)]
<1>1. /\ Held(p) /\ Known(p) /\ pc[p] \in {"openRun", "writeRun"}
      /\ job[p] \in Jobs /\ Out(p) \in Dirs /\ Out(p)' = Out(p)
      /\ UNCHANGED <<src, used, job, kind, plan, verdict, edits, stops>>
      /\ pc \in [Procs -> Live \cup {"idle", "done", "stopped"}]
      /\ used \in [Dirs -> (Content \X Content) \cup {None}]
  BY JobDirs DEF IInv, TypeOK, Held, OpenRun, WriteRun, WriteFile, Live, Bounds, Out
<1> DEFINE record == [kind |-> kind[p], model |-> plan[p].mhash, doc |-> plan[p].dhash]
<1>2. /\ record \in MetaType
      /\ kind[p] = "copied" => record.doc = dir["input"]
      /\ record.kind = kind[p]
      /\ dir["output"] = Absent
  BY <1>1 DEF Held, Known, Knows, MetaType, Writing, BeforeRun, AfterRun
<1>3. PICK value \in {Partial, record}, step \in {"writeRun", "engine"} :
        /\ Put(Out(p), "run.json", value) /\ Goto(p, step)
        /\ \/ pc[p] = "openRun" /\ value = Partial /\ step = "writeRun"
           \/ pc[p] = "writeRun" /\ value = record /\ step = "engine"
  BY <1>1 DEF OpenRun, WriteRun, WriteFile, Known, Knows, BeforeRun
<1>4. "run.json" \in Files /\ value \in KindOf("run.json") \cup {Absent, Partial}
  BY <1>2, <1>3, Names DEF KindOf
<1>5. \A g \in Files : files'[Out(p)][g] = IF g = "run.json" THEN value ELSE dir[g]
  BY <1>1, <1>3, <1>4, PutFile DEF IInv
<1>6. pc'[p] = step
  BY <1>1, <1>3 DEF Goto
<1>7. Held(p)'
  BY <1>1, <1>3, <1>6
     DEF Held, Live, Deriving, Verifying, Planning, Writing, BeforeRun, AfterRun
<1>8. /\ files'[Out(p)]["run.json"] = value
      /\ files'[Out(p)]["output"] = Absent
      /\ files'[Out(p)]["input"] = dir["input"]
  BY <1>2, <1>5, Names
<1>9. Complete(record)
  BY <1>2, ValuesAssumption DEF Complete
<1> HIDE DEF record
<1>10. Known(p)'
  BY <1>1, <1>3, <1>6, <1>8, <1>9 DEF Known, Knows, Writing, BeforeRun, AfterRun, Complete
<1>11. OfOnePiece(files[Out(p)], used[Out(p)])'
  <2>1. used[Out(p)] = None
    BY <1>1, <1>2 DEF IInv, OfOnePiece, Complete
  <2> QED BY <1>1, <1>2, <1>3, <1>8, <2>1 DEF OfOnePiece, Complete
<1>12. ~Derives(job[p]) /\ pc[p] \in Live
  BY <1>1 DEF Held, Live, Deriving
<1> HIDE DEF dir
<1> QED BY <1>1, <1>3, <1>4, <1>7, <1>10, <1>11, <1>12, Writes DEF Live

\* The output: run.json says how it was made, and the inputs are beside it.
LEMMA EngineWritesIInv ==
  ASSUME IInv, NEW p \in Procs, EngineWrites(p)
  PROVE  IInv'
<1> DEFINE dir == files[Out(p)]
<1>1. /\ Held(p) /\ Known(p) /\ pc[p] \in {"openOutput", "writeOutput"}
      /\ job[p] \in Jobs /\ Out(p) \in Dirs /\ Out(p)' = Out(p)
      /\ UNCHANGED <<src, job, kind, plan, verdict, edits, stops>>
      /\ pc \in [Procs -> Live \cup {"idle", "done", "stopped"}]
      /\ used \in [Dirs -> (Content \X Content) \cup {None}]
  BY JobDirs DEF IInv, TypeOK, Held, EngineWrites, WriteFile, Live, Bounds, Out
<1>2. /\ plan[p].out \in OutputType /\ plan[p].ir \in Content /\ plan[p].doc \in Content
      /\ plan[p].ir = dir["model.ir.json"] /\ plan[p].doc = dir["input"]
      /\ Complete(dir["run.json"]) /\ ~Complete(dir["output"])
  BY <1>1 DEF Held, Known, Knows, AfterRun, Writing, BeforeRun, Complete
<1>3. used[Out(p)] = None
  BY <1>1, <1>2 DEF IInv, OfOnePiece
<1>4. PICK value \in {Partial, plan[p].out}, step \in {"writeOutput", "compare", "done"} :
        /\ Put(Out(p), "output", value) /\ Goto(p, step)
        /\ \/ pc[p] = "openOutput" /\ value = Partial /\ step = "writeOutput" /\ used' = used
           \/ /\ pc[p] = "writeOutput" /\ value = plan[p].out /\ step # "writeOutput"
              /\ used' = [used EXCEPT ![Out(p)] = <<plan[p].ir, plan[p].doc>>]
  BY <1>1 DEF EngineWrites, WriteFile
<1>5. "output" \in Files /\ value \in KindOf("output") \cup {Absent, Partial}
  BY <1>2, <1>4, Names DEF KindOf
<1>6. \A g \in Files : files'[Out(p)][g] = IF g = "output" THEN value ELSE dir[g]
  BY <1>1, <1>4, <1>5, PutFile DEF IInv
<1>7. pc'[p] = step
  BY <1>1, <1>4 DEF Goto
<1>8. Held(p)'
  BY <1>1, <1>2, <1>4, <1>7
     DEF Held, Live, Deriving, Verifying, Planning, Writing, BeforeRun, AfterRun
<1>9. /\ files'[Out(p)]["output"] = value
      /\ files'[Out(p)]["run.json"] = dir["run.json"]
      /\ files'[Out(p)]["model.ir.json"] = dir["model.ir.json"]
      /\ files'[Out(p)]["input"] = dir["input"]
  BY <1>6, Names
<1>10. Complete(plan[p].out)
  BY <1>2, ValuesAssumption DEF Complete
<1>11. /\ used' \in [Dirs -> (Content \X Content) \cup {None}]
       /\ \A d \in Dirs \ {Out(p)} : used'[d] = used[d]
       /\ \A d \in Dirs : used[d] # None => used'[d] = used[d]
       /\ value = plan[p].out => used'[Out(p)] = <<dir["model.ir.json"], dir["input"]>>
       /\ value # plan[p].out => used'[Out(p)] = None
  <2>1. CASE used' = used /\ value = Partial
    BY <1>1, <1>3, <1>10, <2>1 DEF Complete
  <2>2. CASE used' = [used EXCEPT ![Out(p)] = <<plan[p].ir, plan[p].doc>>] /\ value = plan[p].out
    BY <1>1, <1>2, <1>3, <2>2
  <2> QED BY <1>4, <2>1, <2>2
<1>12. Known(p)'
  BY <1>1, <1>2, <1>4, <1>7, <1>9, <1>10
     DEF Known, Knows, Writing, BeforeRun, AfterRun, Complete
<1>13. OfOnePiece(files[Out(p)], used[Out(p)])'
  BY <1>1, <1>2, <1>4, <1>9, <1>10, <1>11 DEF IInv, OfOnePiece, Complete
<1>14. ~Derives(job[p]) /\ pc[p] \in Live
  BY <1>1 DEF Held, Live, Deriving
<1> HIDE DEF dir
<1> QED BY <1>1, <1>4, <1>5, <1>8, <1>11, <1>12, <1>13, <1>14, Writes DEF Live

\* The derived report.
LEMMA WriteDerivedIInv ==
  ASSUME IInv, NEW p \in Procs, WriteDerived(p)
  PROVE  IInv'
<1> DEFINE dir == files[Out(p)]
<1>1. /\ Held(p) /\ Known(p) /\ pc[p] \in {"openDerived", "writeDerived"}
      /\ job[p] \in Jobs /\ Out(p) \in Dirs /\ Out(p)' = Out(p)
      /\ UNCHANGED <<src, used, job, kind, plan, verdict, edits, stops>>
      /\ pc \in [Procs -> Live \cup {"idle", "done", "stopped"}]
      /\ used \in [Dirs -> (Content \X Content) \cup {None}]
      /\ plan[p].out \in OutputType
  BY JobDirs DEF IInv, TypeOK, Held, WriteDerived, WriteFile, Live, Bounds, Out
<1>2. PICK value \in {Partial, plan[p].out}, step \in {"writeDerived", "done"} :
        /\ Put(Out(p), "diagnostics", value) /\ Goto(p, step)
        /\ step = "writeDerived" => value = Partial
  BY <1>1 DEF WriteDerived, WriteFile
<1>3. "diagnostics" \in Files /\ value \in KindOf("diagnostics") \cup {Absent, Partial}
  BY <1>1, <1>2, Names DEF KindOf
<1>4. \A g \in Files : files'[Out(p)][g] = IF g = "diagnostics" THEN value ELSE dir[g]
  BY <1>1, <1>2, <1>3, PutFile DEF IInv
<1>5. pc'[p] = step
  BY <1>1, <1>2 DEF Goto
<1>6. Held(p)'
  BY <1>1, <1>2, <1>5
     DEF Held, Live, Deriving, Verifying, Planning, Writing, BeforeRun, AfterRun
<1>7. /\ files'[Out(p)]["diagnostics"] = value
      /\ files'[Out(p)]["output"] = dir["output"]
      /\ files'[Out(p)]["run.json"] = dir["run.json"]
      /\ files'[Out(p)]["model.ir.json"] = dir["model.ir.json"]
      /\ files'[Out(p)]["input"] = dir["input"]
  BY <1>4, Names
<1>8. Known(p)'
  BY <1>1, <1>2, <1>5, <1>7 DEF Known, Knows, Writing, BeforeRun, AfterRun
<1>9. OfOnePiece(files[Out(p)], used[Out(p)])'
  <2>1. OfOnePiece(dir, used[Out(p)])
    BY <1>1 DEF IInv
  <2> QED BY <1>1, <1>7, <2>1 DEF OfOnePiece, Complete
<1>10. Derives(job[p]) /\ pc[p] \in Live
  BY <1>1 DEF Held, Live, Deriving
<1> HIDE DEF dir
<1> QED BY <1>1, <1>2, <1>3, <1>6, <1>8, <1>9, <1>10, Writes DEF Live

-----------------------------------------------------------------------------
\* A command starts where no live one writes the same artifacts.
LEMMA StartIInv ==
  ASSUME ~Overlap, IInv, NEW p \in Procs, NEW j \in Jobs, Start(p, j)
  PROVE  IInv'
<1>1. /\ j.cmd \in RunCmds \cup {"replay", "diagnose"} /\ (Derives(j) <=> j.cmd = "diagnose")
  BY JobsAssumption DEF JobType, Derives
<1>2. /\ UNCHANGED <<src, files, used, plan, verdict, edits, stops>>
      /\ pc[p] = "idle"
      /\ job' \in [Procs -> Jobs \cup {None}] /\ job'[p] = j
      /\ kind' \in [Procs -> RunCmds \cup {"none"}]
      /\ j.cmd \in RunCmds => kind'[p] = j.cmd
      /\ pc' \in [Procs -> Live \cup {"idle", "done", "stopped"}] /\ pc'[p] = FirstStep(j)
      /\ \A q \in Procs \ {p} : pc'[q] = pc[q] /\ job'[q] = job[q] /\ kind'[q] = kind[q]
      /\ \A q \in Procs : pc[q] \in Live => ~Conflict(job[q], j)
  <2>1. FirstStep(j) \in Live
    BY DEF FirstStep, Live
  <2> QED BY <2>1 DEF Start, IInv, TypeOK, Goto, Disk, Bounds, RunCmds
<1>3. TypeOK'
  BY <1>2 DEF IInv, TypeOK
<1>4. Alone'
  <2>1. \A q \in Procs : pc[q] \in Live => ~Conflict(j, job[q])
    BY <1>2 DEF Conflict, Derives
  <2> QED BY <1>2, <2>1 DEF IInv, Alone
<1>5. Held(p)'
  <2>1. verdict[p] = "none"
    BY <1>2 DEF IInv, Held, TypeOK
  <2>2. \/ j.cmd = "replay" /\ pc'[p] = "load"
        \/ j.cmd = "diagnose" /\ pc'[p] = "require"
        \/ j.cmd \in RunCmds /\ pc'[p] = "hashModel"
    BY <1>1, <1>2 DEF FirstStep, RunCmds
  <2> QED
    BY <1>1, <1>2, <2>1, <2>2
       DEF Held, Live, Deriving, Verifying, Planning, Writing, BeforeRun, AfterRun, RunCmds
<1>6. Known(p)'
  <2>1. pc'[p] \in {"load", "require", "hashModel"}
    BY <1>2 DEF FirstStep
  <2> QED BY <2>1, NothingKnown DEF Known, Writing, BeforeRun, AfterRun
<1>7. ASSUME NEW q \in Procs, q # p PROVE Held(q)' /\ Known(q)'
  BY <1>2, <1>7 DEF IInv, Held, Known, Out
<1>8. \A d \in Dirs : OfOnePiece(files[d], used[d])'
  BY <1>2 DEF IInv, OfOnePiece, Complete
<1>9. IdenticalMeansSameInputs'
  <2>1. \A q \in Procs : verdict[q] = "byte-identical" => q # p
    BY <1>2 DEF IInv, Held
  <2> QED BY <1>2, <2>1 DEF IInv, IdenticalMeansSameInputs, Out
<1> QED BY <1>3, <1>4, <1>5, <1>6, <1>7, <1>8, <1>9 DEF IInv

\* Every step keeps the invariant; the sources may be edited at any time.
LEMMA NextIInv == ~Overlap /\ IInv /\ [Next]_vars => IInv'
<1> SUFFICES ASSUME ~Overlap, IInv, [Next]_vars PROVE IInv'
  OBVIOUS
<1>1. CASE UNCHANGED <<files, used, pc, job, kind, plan, verdict>> /\ TypeOK'
  BY <1>1 DEF IInv, Alone, Held, Known, Out, OfOnePiece, Complete, IdenticalMeansSameInputs
<1>2. CASE UNCHANGED vars
  BY <1>1, <1>2 DEF vars, IInv, TypeOK
<1>3. ASSUME NEW s \in Sources, NEW v \in Versions, Edit(s, v) PROVE IInv'
  <2>1. TypeOK'
    BY <1>3, BoundsAssumption DEF Edit, IInv, TypeOK
  <2> QED BY <1>1, <1>3, <2>1 DEF Edit
<1>4. ASSUME NEW p \in Procs, Step(p) \/ Stop(p) \/ \E j \in Jobs : Start(p, j) PROVE IInv'
  BY <1>4, PlanningIInv, ChoosingIInv, EngineReadsIInv, LoadIInv, CompareIInv, WriteInputsIInv,
     WriteRecordIInv, EngineWritesIInv, WriteDerivedIInv, StartIInv
     DEF Step, PlanRun, MaterializeRun, Execute, Replay, Diagnose
<1> QED BY <1>2, <1>3, <1>4 DEF Next

-----------------------------------------------------------------------------
\* The inductive invariant holds of every reachable state.
THEOREM Invariance == ASSUME ~Overlap PROVE Spec => []IInv
<1>1. IInv /\ [Next]_vars => IInv'
  BY NextIInv
<1> QED BY <1>1, InitIInv, PTL DEF Spec

\* The variables keep their types.
THEOREM TypeCorrect == ASSUME ~Overlap PROVE Spec => []TypeOK
<1>1. IInv => TypeOK
  BY DEF IInv
<1> QED BY <1>1, Invariance, PTL

\* A run directory is of one piece wherever commands are killed: a recorded
\* copy is the file beside the record, an output was computed from the model
\* and the input beside it, and has its record.
THEOREM RunsAreOfOnePiece == ASSUME ~Overlap PROVE Spec => []OutputIsOfItsInputs
<1>1. IInv => OutputIsOfItsInputs
  BY DEF IInv, OfOnePiece, OutputIsOfItsInputs
<1> QED BY <1>1, Invariance, PTL

\* A replay reports byte-identical artifacts only when its engine read what
\* the original's engine read.
THEOREM IdenticalReplays == ASSUME ~Overlap PROVE Spec => []IdenticalMeansSameInputs
<1>1. IInv => IdenticalMeansSameInputs
  BY DEF IInv
<1> QED BY <1>1, Invariance, PTL

-----------------------------------------------------------------------------
\* A command writes a file that is not there, or that it opened itself.
LEMMA OnlyIncompleteWritten ==
  ASSUME IInv, NEW p \in Procs, WriteIr(p) \/ WriteInput(p) \/ OpenRun(p) \/ WriteRun(p)
                                \/ EngineWrites(p) \/ WriteDerived(p)
  PROVE  \/ UNCHANGED files
         \/ \E f \in Files : \E value :
              Put(Out(p), f, value) /\ ~Complete(files[Out(p)][f])
<1>1. Known(p)
  BY DEF IInv
<1>2. CASE WriteIr(p)
  <2>1. \E value : Put(Out(p), "model.ir.json", value)
    BY <1>2 DEF WriteIr, WriteFile
  <2>2. pc[p] \in {"openIr", "writeIr"}
    BY <1>2 DEF WriteIr, WriteFile
  <2>3. ~Complete(files[Out(p)]["model.ir.json"])
    BY <1>1, <2>2 DEF Known, Knows, Complete
  <2> QED BY <2>1, <2>3, Names
<1>3. CASE WriteInput(p)
  <2>1. \E value : Put(Out(p), "input", value)
    BY <1>3 DEF WriteInput, WriteFile
  <2>2. pc[p] \in {"openInput", "writeInput"}
    BY <1>3 DEF WriteInput, WriteFile
  <2>3. ~Complete(files[Out(p)]["input"])
    BY <1>1, <2>2 DEF Known, Knows, Complete
  <2> QED BY <2>1, <2>3, Names
<1>4. CASE OpenRun(p) \/ WriteRun(p)
  <2>1. UNCHANGED files \/ \E value : Put(Out(p), "run.json", value)
    BY <1>4 DEF OpenRun, WriteRun, WriteFile
  <2>2. pc[p] \in {"openRun", "writeRun"}
    BY <1>4 DEF OpenRun, WriteRun, WriteFile
  <2>3. ~Complete(files[Out(p)]["run.json"])
    BY <1>1, <2>2 DEF Known, Knows, Complete, BeforeRun
  <2> QED BY <2>1, <2>3, Names
<1>5. CASE EngineWrites(p)
  <2>1. \E value : Put(Out(p), "output", value)
    BY <1>5 DEF EngineWrites, WriteFile
  <2>2. pc[p] \in {"openOutput", "writeOutput"}
    BY <1>5 DEF EngineWrites, WriteFile
  <2>3. ~Complete(files[Out(p)]["output"])
    BY <1>1, <2>2 DEF Known, Knows, Complete, Writing, AfterRun
  <2> QED BY <2>1, <2>3, Names
<1>6. CASE WriteDerived(p)
  <2>1. \E value : Put(Out(p), "diagnostics", value)
    BY <1>6 DEF WriteDerived, WriteFile
  <2>2. pc[p] \in {"openDerived", "writeDerived"}
    BY <1>6 DEF WriteDerived, WriteFile
  <2>3. ~Complete(files[Out(p)]["diagnostics"])
    BY <1>1, <2>2 DEF Known, Knows, Complete
  <2> QED BY <2>1, <2>3, Names
<1> QED BY <1>2, <1>3, <1>4, <1>5, <1>6

\* A complete artifact never changes, wherever commands are killed and however
\* the sources are edited.
THEOREM ArtifactsAreAppendOnly == ASSUME ~Overlap PROVE Spec => AppendOnly
<1> DEFINE Kept == \A d \in Dirs, f \in Files :
                     Complete(files[d][f]) => files'[d][f] = files[d][f]
<1>1. ASSUME IInv, [Next]_vars PROVE [Kept]_vars
  <2>1. CASE UNCHANGED files
    BY <2>1
  <2>2. ASSUME NEW p \in Procs, NEW f \in Files, NEW value,
               Put(Out(p), f, value), ~Complete(files[Out(p)][f])
        PROVE  Kept
    <3>1. \A d \in Dirs : files[d] \in [Files -> Content \cup MetaType \cup OutputType]
      BY <1>1 DEF IInv, TypeOK
    <3>2. files \in [Dirs -> [Files -> Content \cup MetaType \cup OutputType]]
      BY <1>1 DEF IInv, TypeOK
    <3>3. ASSUME NEW d \in Dirs, NEW g \in Files, d # Out(p) \/ g # f
          PROVE  files'[d][g] = files[d][g]
      BY <2>2, <3>1, <3>2, <3>3 DEF Put
    <3> QED BY <2>2, <3>3
  <2>3. CASE UNCHANGED vars
    BY <2>1, <2>3 DEF vars
  <2>4. ASSUME NEW s \in Sources, NEW v \in Versions, Edit(s, v) PROVE Kept
    BY <2>1, <2>4 DEF Edit
  <2>5. ASSUME NEW p \in Procs, Stop(p) \/ \E j \in Jobs : Start(p, j) PROVE Kept
    BY <2>1, <2>5 DEF Stop, Start, Disk
  <2>6. ASSUME NEW p \in Procs, Step(p) PROVE Kept
    <3>1. CASE WriteIr(p) \/ WriteInput(p) \/ OpenRun(p) \/ WriteRun(p)
               \/ EngineWrites(p) \/ WriteDerived(p)
      BY <1>1, <2>1, <2>2, <3>1, OnlyIncompleteWritten
    <3>2. CASE PlanRun(p) \/ ValidateDir(p, "ensure", "openIr") \/ HashCopy(p)
      BY <2>1, <3>2 DEF PlanRun, HashModel, HashDoc, ReadDoc, LoadModel, HashCopy, Planned,
                        ValidateDir, Disk
    <3>3. CASE EngineReads(p) \/ Replay(p)
      BY <2>1, <3>3 DEF EngineReads, Replay, Load, VerifySources, VerifySource, Compare, Disk
    <3>4. CASE \/ Require(p) \/ RejectExisting(p, "reject", "recheck")
               \/ RejectExisting(p, "recheck", "readOutput") \/ ReadOutput(p)
      BY <2>1, <3>4 DEF Require, RejectExisting, ReadOutput, Planned, Disk
    <3> QED BY <2>6, <3>1, <3>2, <3>3, <3>4 DEF Step, MaterializeRun, Execute, Diagnose
  <2> QED BY <1>1, <2>3, <2>4, <2>5, <2>6 DEF Next
<1> QED BY <1>1, Invariance, PTL DEF Spec, AppendOnly
=============================================================================
