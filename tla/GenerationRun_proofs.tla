------------------------ MODULE GenerationRun_proofs ------------------------
(***************************************************************************)
(* Proofs about GenerationRun, for every set of commands, jobs and         *)
(* directories: whatever commands race for a directory and wherever they   *)
(* are killed, one of them publishes it, and what loads from it is that.   *)
(*                                                                         *)
(* run.json is what the argument turns on.  It is created once, by the     *)
(* command at "writeRun", of which a directory has at most one; from then  *)
(* on it agrees with what was published and does not change, so a load     *)
(* that has read it compares every payload with the published one, even    *)
(* while another command is still overwriting the payloads.                *)
(***************************************************************************)
EXTENDS GenerationRun, TLAPS

Planned == {"validate", "ensure", "open", "write", "engine", "openOutput",
            "writeOutput", "verify", "openRun", "writeRun", "reload"}

\* A started command has its job, and one past its planning has its plan.
JobsAreGiven ==
    \A p \in Procs :
        /\ ~At(p, "idle") => job[p] \in Jobs
        /\ At(p, "plan") => job[p].cmd = "generate"
        /\ At(p, "load") => job[p].cmd = "replay"
        /\ pc[p][1] \in Planned => plan[p] \in PlanType
        /\ pc[p][1] \in {"open", "write"} => Index(p) \in 1..3

\* An output is of the engine, and from verify on it matches the plan.
OutputsAreVerified ==
    \A p \in Procs :
        /\ pc[p][1] \in {"openOutput", "writeOutput"} => output[p] \in PlanType
        /\ pc[p][1] \in {"openRun", "writeRun"} =>
            output[p] \in PlanType /\ OutputMatches(plan[p], output[p])

\* A directory has at most one command that writes its run.json.
OneWriter ==
    \A p \in Procs : At(p, "writeRun") =>
        /\ files[Out(p)]["run.json"] = Partial
        /\ \A q \in Procs \ {p} : At(q, "writeRun") => Out(q) # Out(p)

\* The digests in run.json are those of the plan q and of an output of it.
Records(run, q) ==
    /\ run["generation-plan.json"] = q
    /\ run["model.ir.json"] = q.model
    /\ run["design.json"] = q.design
    /\ OutputMatches(q, run["generated_datasets.ndjson"])

\* run.json is complete when, and only when, the run was published.
RunIsPublished ==
    \A d \in Dirs :
        /\ published[d] # None => Complete(files[d]["run.json"])
        /\ Complete(files[d]["run.json"]) =>
            published[d] \in PlanType /\ Records(files[d]["run.json"], published[d])

\* What a load has read: the published run.json and payloads with its digests.
LoadingAgrees ==
    \A p \in Procs : IsLoading(p) /\ Index(p) >= 2 =>
        /\ Complete(files[LoadDir(p)]["run.json"])
        /\ loading[p]["run.json"] = files[LoadDir(p)]["run.json"]
        /\ \A i \in 1..4 : i + 1 < Index(p) =>
            loading[p][Payloads[i]] = loading[p]["run.json"][Payloads[i]]

IInv ==
    /\ TypeOK
    /\ JobsAreGiven
    /\ OutputsAreVerified
    /\ OneWriter
    /\ RunIsPublished
    /\ LoadingAgrees
    /\ LoadedIsWhatWasPublished

-----------------------------------------------------------------------------
\* The files a command names, one by one.
LEMMA Names ==
  /\ Payloads[1] = "generation-plan.json" /\ Payloads[2] = "model.ir.json"
  /\ Payloads[3] = "design.json" /\ Payloads[4] = "generated_datasets.ndjson"
  /\ Len(Payloads) = 4
  /\ Written[1] = "model.ir.json" /\ Written[2] = "design.json"
  /\ Written[3] = "generation-plan.json" /\ Len(Written) = 3
  /\ Files = {"generation-plan.json", "model.ir.json", "design.json",
              "generated_datasets.ndjson", "run.json"}
<1>1. /\ Payloads[1] = "generation-plan.json" /\ Payloads[2] = "model.ir.json"
      /\ Payloads[3] = "design.json" /\ Payloads[4] = "generated_datasets.ndjson"
      /\ Len(Payloads) = 4
  BY DEF Payloads
<1>2. /\ Written[1] = "model.ir.json" /\ Written[2] = "design.json"
      /\ Written[3] = "generation-plan.json" /\ Len(Written) = 3
  BY DEF Written
<1>3. {Payloads[i] : i \in 1..4} = {Payloads[1], Payloads[2], Payloads[3], Payloads[4]}
  <2>1. \A i \in 1..4 : i = 1 \/ i = 2 \/ i = 3 \/ i = 4
    OBVIOUS
  <2>2. 1 \in 1..4 /\ 2 \in 1..4 /\ 3 \in 1..4 /\ 4 \in 1..4
    OBVIOUS
  <2> QED BY <2>1, <2>2
<1> QED BY <1>1, <1>2, <1>3 DEF Files

\* A command that has started names directories of the model.
LEMMA JobDirs ==
  ASSUME JobsAreGiven, NEW p \in Procs, ~At(p, "idle")
  PROVE  /\ Out(p) \in Dirs
         /\ IsLoading(p) => LoadDir(p) \in Dirs
         /\ At(p, "plan") => job[p].plan \in PlanType
BY JobsAssumption DEF JobsAreGiven, JobType, Out, IsLoading, LoadDir, At

\* The initial states satisfy the invariant.
LEMMA InitIInv == Init => IInv
<1> SUFFICES ASSUME Init PROVE IInv
  OBVIOUS
<1>1. FilesOK /\ NoFiles \in OnDisk
  BY DEF Init, NoFiles, FilesOK, OnDisk
<1>2. TypeOK
  BY <1>1, MaxStopsAssumption DEF Init, TypeOK
<1>3. \A p \in Procs : pc[p][1] = "idle"
  BY DEF Init
<1>4. JobsAreGiven /\ OutputsAreVerified /\ OneWriter /\ LoadingAgrees
  BY <1>3 DEF JobsAreGiven, OutputsAreVerified, OneWriter, LoadingAgrees, IsLoading, At, Planned
<1>5. RunIsPublished /\ LoadedIsWhatWasPublished
  <2>1. \A d \in Dirs : files[d]["run.json"] = Absent /\ published[d] = None
    BY Names DEF Init, NoFiles
  <2>2. \A p \in Procs : loaded[p] = None
    BY DEF Init
  <2> QED BY <2>1, <2>2 DEF RunIsPublished, LoadedIsWhatWasPublished, Complete
<1> QED BY <1>2, <1>4, <1>5 DEF IInv

\* A step of p that leaves every run.json alone, and neither reaches "writeRun"
\* nor goes on with a load, keeps what the invariant says of run.json.
LEMMA QuietStep ==
  ASSUME IInv, NEW p \in Procs,
         \A d \in Dirs : files'[d]["run.json"] = files[d]["run.json"],
         UNCHANGED <<loading, loaded, published>>,
         \A q \in Procs \ {p} : pc'[q] = pc[q] /\ job'[q] = job[q],
         pc'[p][1] # "writeRun",
         pc'[p][1] \in {"load", "reload"} => pc'[p][2] = 1
  PROVE  (OneWriter /\ RunIsPublished /\ LoadingAgrees /\ LoadedIsWhatWasPublished)'
<1> USE DEF IInv
<1>1. OneWriter'
  <2> SUFFICES ASSUME NEW q \in Procs, At(q, "writeRun")'
               PROVE  /\ files'[Out(q)']["run.json"] = Partial
                      /\ \A r \in Procs \ {q} : At(r, "writeRun")' => Out(r)' # Out(q)'
    BY DEF OneWriter
  <2>1. q # p /\ At(q, "writeRun") /\ Out(q)' = Out(q)
    BY DEF At, Out
  <2>2. Out(q) \in Dirs
    BY <2>1, JobDirs DEF At
  <2>3. \A r \in Procs \ {q} : At(r, "writeRun")' => At(r, "writeRun") /\ Out(r)' = Out(r)
    BY DEF At, Out
  <2> QED BY <2>1, <2>2, <2>3 DEF OneWriter
<1>2. RunIsPublished'
  BY DEF RunIsPublished
<1>3. LoadingAgrees'
  <2> SUFFICES ASSUME NEW q \in Procs, IsLoading(q)', Index(q)' >= 2
               PROVE  /\ Complete(files'[LoadDir(q)']["run.json"])
                      /\ loading[q]["run.json"] = files'[LoadDir(q)']["run.json"]
                      /\ \A i \in 1..4 : i + 1 < Index(q)' =>
                           loading[q][Payloads[i]] = loading[q]["run.json"][Payloads[i]]
    BY DEF LoadingAgrees, Complete
  <2>1. q # p
    BY DEF IsLoading, At, Index
  <2>2. IsLoading(q) /\ Index(q)' = Index(q) /\ LoadDir(q)' = LoadDir(q)
    BY <2>1 DEF IsLoading, At, Index, LoadDir, Out
  <2>3. LoadDir(q) \in Dirs
    BY <2>2, JobDirs DEF IsLoading, At
  <2> QED BY <2>2, <2>3 DEF LoadingAgrees
<1>4. LoadedIsWhatWasPublished'
  BY DEF LoadedIsWhatWasPublished
<1> QED BY <1>1, <1>2, <1>3, <1>4

\* Writing one file of a directory with content of its kind.
LEMMA PutFile ==
  ASSUME FilesOK, NEW d \in Dirs, NEW f \in Files,
         NEW v \in KindOf(f) \cup {Absent, Partial}, Put(d, f, v)
  PROVE  /\ FilesOK'
         /\ files'[d][f] = v
         /\ \A e \in Dirs, g \in Files : e # d \/ g # f => files'[e][g] = files[e][g]
<1>1. v \in Content \cup RunType \cup {Absent, Partial}
  BY Names DEF KindOf, Content, OutputType
<1>2. /\ files' \in [Dirs -> OnDisk]
      /\ files'[d][f] = v
      /\ \A e \in Dirs, g \in Files : e # d \/ g # f => files'[e][g] = files[e][g]
  BY <1>1 DEF FilesOK, OnDisk, Put
<1> QED BY <1>2 DEF FilesOK

\* A command goes to another step.
LEMMA GoesTo ==
  ASSUME TypeOK, NEW p \in Procs, NEW step \in Live \cup {"done", "stopped"}, Goto(p, step)
  PROVE  /\ pc' \in [Procs -> (Live \cup {"idle", "done", "stopped"}) \X (1..6)]
         /\ pc'[p][1] = step /\ pc'[p][2] = 1
         /\ \A q \in Procs \ {p} : pc'[q] = pc[q]
BY DEF TypeOK, Goto

\* Start, the planning and the tests of the output directory.
LEMMA PlanningIInv ==
  ASSUME IInv, NEW p \in Procs,
         \/ \E j \in Jobs : Start(p, j)
         \/ Stop(p) \/ BuildPlan(p)
         \/ ValidateDir(p, "validate", "ensure") \/ ValidateDir(p, "ensure", "open")
  PROVE  IInv'
<1> USE DEF IInv
<1>1. /\ UNCHANGED <<files, output, loading, loaded, published>>
      /\ contested' \subseteq Dirs /\ stops' \in 0..MaxStops
      /\ \A q \in Procs \ {p} : pc'[q] = pc[q] /\ job'[q] = job[q] /\ plan'[q] = plan[q]
      /\ pc' \in [Procs -> (Live \cup {"idle", "done", "stopped"}) \X (1..6)]
      /\ pc'[p][2] = 1
      /\ pc'[p][1] \in {"load", "plan", "validate", "ensure", "open", "stopped"}
      /\ job' \in [Procs -> Jobs \cup {None}]
      /\ plan' \in [Procs -> PlanType \cup {None}]
      /\ job'[p] \in Jobs
      /\ pc'[p][1] = "plan" => job'[p].cmd = "generate"
      /\ pc'[p][1] = "load" => job'[p].cmd = "replay"
      /\ pc'[p][1] \in Planned => plan'[p] \in PlanType
  <2>1. CASE \E j \in Jobs : Start(p, j)
    <3>1. PICK j \in Jobs : Start(p, j)
      BY <2>1
    <3>2. j.dir \in Dirs /\ j.cmd \in {"generate", "replay"}
      BY JobsAssumption DEF JobType
    <3> QED
      BY <3>1, <3>2, MaxStopsAssumption
         DEF Start, TypeOK, Live, Goto, Planned
  <2>2. CASE Stop(p)
    BY <2>2, MaxStopsAssumption
       DEF Stop, IsLive, TypeOK, Live, Goto, Planned, Memory, Ghosts, JobsAreGiven, At
  <2>3. CASE BuildPlan(p)
    <3>1. job[p].plan \in PlanType
      BY <2>3, JobDirs DEF BuildPlan, At
    <3> QED
      BY <2>3, <3>1 DEF BuildPlan, TypeOK, Live, Goto, Planned, Ghosts, JobsAreGiven, At
  <2>4. CASE ValidateDir(p, "validate", "ensure") \/ ValidateDir(p, "ensure", "open")
    <3>1. /\ pc[p][1] \in {"validate", "ensure"}
          /\ \E step \in {"ensure", "open", "stopped"} : Goto(p, step)
          /\ UNCHANGED <<files, Memory, Ghosts, stops>>
      BY <2>4 DEF ValidateDir, At
    <3>2. /\ pc' \in [Procs -> (Live \cup {"idle", "done", "stopped"}) \X (1..6)]
          /\ pc'[p][1] \in {"ensure", "open", "stopped"} /\ pc'[p][2] = 1
          /\ \A q \in Procs \ {p} : pc'[q] = pc[q]
      BY <3>1, GoesTo DEF Live
    <3> QED
      BY <3>1, <3>2 DEF TypeOK, Planned, Memory, Ghosts, JobsAreGiven, At
  <2> QED BY <2>1, <2>2, <2>3, <2>4
<1>2. TypeOK'
  BY <1>1 DEF TypeOK, FilesOK
<1>3. JobsAreGiven' /\ OutputsAreVerified'
  BY <1>1 DEF JobsAreGiven, OutputsAreVerified, At, Index
<1>4. (OneWriter /\ RunIsPublished /\ LoadingAgrees /\ LoadedIsWhatWasPublished)'
  <2>1. \A d \in Dirs : files'[d]["run.json"] = files[d]["run.json"]
    BY <1>1
  <2> QED BY <1>1, <2>1, QuietStep
<1> QED BY <1>2, <1>3, <1>4

\* The payloads, the engine and its output: run.json is not touched.
LEMMA WritingIInv ==
  ASSUME IInv, NEW p \in Procs,
         \/ OpenPayload(p) \/ WritePayload(p)
         \/ EngineReads(p) \/ EngineWrites(p) \/ VerifyOutput(p)
  PROVE  IInv'
<1> USE DEF IInv
<1>1. /\ UNCHANGED <<job, plan, loading, loaded, published, contested, stops>>
      /\ FilesOK'
      /\ \A d \in Dirs : files'[d]["run.json"] = files[d]["run.json"]
      /\ \A q \in Procs \ {p} : pc'[q] = pc[q] /\ output'[q] = output[q]
      /\ pc' \in [Procs -> (Live \cup {"idle", "done", "stopped"}) \X (1..6)]
      /\ pc'[p][1] \in {"open", "write", "engine", "openOutput", "writeOutput", "verify",
                        "openRun", "stopped"}
      /\ pc'[p][1] \in {"open", "write"} => pc'[p][2] \in 1..3
      /\ output' \in [Procs -> PlanType \cup {None}]
      /\ ~At(p, "idle") /\ plan[p] \in PlanType
      /\ pc'[p][1] \in {"openOutput", "writeOutput"} => output'[p] \in PlanType
      /\ pc'[p][1] = "openRun" =>
           output'[p] \in PlanType /\ OutputMatches(plan[p], output'[p])
  <2>0. pc[p][1] \in Planned => ~At(p, "idle") /\ Out(p) \in Dirs /\ plan[p] \in PlanType
    BY JobDirs DEF JobsAreGiven, At, Planned
  <2>1. CASE OpenPayload(p)
    <3>1. Index(p) \in 1..3 /\ Out(p) \in Dirs /\ ~At(p, "idle") /\ plan[p] \in PlanType
      BY <2>1, <2>0 DEF OpenPayload, JobsAreGiven, At, Planned
    <3>2. Written[Index(p)] \in Files \ {"run.json"}
      BY <3>1, Names
    <3>3. FilesOK' /\ \A d \in Dirs : files'[d]["run.json"] = files[d]["run.json"]
      BY <2>1, <3>1, <3>2, PutFile, Names DEF OpenPayload, TypeOK
    <3> QED
      BY <2>1, <3>1, <3>3 DEF OpenPayload, TypeOK, Live, GotoNth, Memory, Ghosts, OutputType
  <2>2. CASE WritePayload(p)
    <3>1. Index(p) \in 1..3 /\ Out(p) \in Dirs /\ ~At(p, "idle") /\ plan[p] \in PlanType
      BY <2>2, <2>0 DEF WritePayload, JobsAreGiven, At, Planned
    <3>2. /\ Written[Index(p)] \in Files \ {"run.json"}
          /\ ContentOf(plan[p], Written[Index(p)]) \in KindOf(Written[Index(p)])
      <4>1. plan[p].model \in Models /\ plan[p].design \in Designs
        BY <3>1 DEF PlanType
      <4>2. \A f \in {"model.ir.json", "design.json", "generation-plan.json"} :
              ContentOf(plan[p], f) \in KindOf(f)
        BY <3>1, <4>1 DEF ContentOf, KindOf
      <4>3. Written[Index(p)] \in {"model.ir.json", "design.json", "generation-plan.json"}
        BY <3>1, Names
      <4> QED BY <4>2, <4>3, Names
    <3>3. FilesOK' /\ \A d \in Dirs : files'[d]["run.json"] = files[d]["run.json"]
      BY <2>2, <3>1, <3>2, PutFile, Names DEF WritePayload, TypeOK
    <3>4. /\ pc' \in [Procs -> (Live \cup {"idle", "done", "stopped"}) \X (1..6)]
          /\ \A q \in Procs \ {p} : pc'[q] = pc[q]
          /\ pc'[p][1] \in {"open", "engine"} /\ pc'[p][2] \in 1..3
      BY <2>2, <3>1, Names DEF WritePayload, TypeOK, Live, Goto, GotoNth
    <3> QED
      BY <2>2, <3>1, <3>3, <3>4 DEF WritePayload, TypeOK, Memory, Ghosts, OutputType
  <2>3. CASE EngineReads(p)
    <3>1. Out(p) \in Dirs /\ ~At(p, "idle") /\ plan[p] \in PlanType
      BY <2>3, <2>0 DEF EngineReads, At, Planned
    <3>2. /\ files[Out(p)]["model.ir.json"] \in Models \cup {Absent, Partial}
          /\ files[Out(p)]["design.json"] \in Designs \cup {Absent, Partial}
      BY <3>1, Names DEF TypeOK, FilesOK, KindOf
    <3>3. /\ pc' \in [Procs -> (Live \cup {"idle", "done", "stopped"}) \X (1..6)]
          /\ \A q \in Procs \ {p} : pc'[q] = pc[q] /\ output'[q] = output[q]
          /\ pc'[p][1] \in {"openOutput", "stopped"}
          /\ UNCHANGED <<files, job, plan, loading, loaded, published, contested, stops>>
          /\ output' \in [Procs -> PlanType \cup {None}]
          /\ pc'[p][1] = "openOutput" => output'[p] \in PlanType
      <4> DEFINE model == files[Out(p)]["model.ir.json"]
      <4> DEFINE design == files[Out(p)]["design.json"]
      <4>1. CASE Complete(model) /\ Complete(design)
        <5>1. /\ output' = [output EXCEPT ![p] = [model |-> model, design |-> design,
                                                 seed |-> plan[p].seed]]
              /\ Goto(p, "openOutput")
          BY <2>3, <4>1 DEF EngineReads
        <5>2. [model |-> model, design |-> design, seed |-> plan[p].seed] \in PlanType
          BY <3>1, <3>2, <4>1 DEF Complete, PlanType
        <5> HIDE DEF model, design
        <5>3. /\ output' \in [Procs -> PlanType \cup {None}] /\ output'[p] \in PlanType
              /\ \A q \in Procs \ {p} : output'[q] = output[q]
          BY <5>1, <5>2 DEF TypeOK, OutputType
        <5>4. /\ pc' \in [Procs -> (Live \cup {"idle", "done", "stopped"}) \X (1..6)]
              /\ pc'[p][1] = "openOutput"
              /\ \A q \in Procs \ {p} : pc'[q] = pc[q]
          BY <5>1, GoesTo DEF Live
        <5> QED
          BY <2>3, <5>3, <5>4 DEF EngineReads, Ghosts
      <4>2. CASE ~(Complete(model) /\ Complete(design))
        <5>1. Goto(p, "stopped") /\ UNCHANGED output
          BY <2>3, <4>2 DEF EngineReads
        <5>2. /\ pc' \in [Procs -> (Live \cup {"idle", "done", "stopped"}) \X (1..6)]
              /\ pc'[p][1] = "stopped"
              /\ \A q \in Procs \ {p} : pc'[q] = pc[q]
          BY <5>1, GoesTo DEF Live
        <5> QED
          BY <2>3, <5>1, <5>2 DEF EngineReads, Ghosts, TypeOK, OutputType
      <4> QED BY <4>1, <4>2
    <3> QED
      BY <3>1, <3>3 DEF TypeOK, FilesOK
  <2>4. CASE EngineWrites(p)
    <3>1. /\ Out(p) \in Dirs /\ ~At(p, "idle") /\ plan[p] \in PlanType
          /\ output[p] \in PlanType
      BY <2>4, <2>0 DEF EngineWrites, OutputsAreVerified, At, Planned
    <3>2. /\ "generated_datasets.ndjson" \in Files
          /\ "run.json" # "generated_datasets.ndjson" /\ "run.json" \in Files
          /\ output[p] \in KindOf("generated_datasets.ndjson")
      BY <3>1, Names DEF KindOf, OutputType
    <3>3. FilesOK' /\ \A d \in Dirs : files'[d]["run.json"] = files[d]["run.json"]
      BY <2>4, <3>1, <3>2, PutFile DEF EngineWrites, TypeOK
    <3> QED
      BY <2>4, <3>1, <3>3
         DEF EngineWrites, TypeOK, Live, Goto, Memory, Ghosts, OutputType
  <2>5. CASE VerifyOutput(p)
    <3>1. Out(p) \in Dirs /\ ~At(p, "idle") /\ plan[p] \in PlanType
      BY <2>5, <2>0 DEF VerifyOutput, At, Planned
    <3>2. files[Out(p)]["generated_datasets.ndjson"] \in PlanType \cup {Absent, Partial}
      BY <3>1, Names DEF TypeOK, FilesOK, KindOf, OutputType
    <3> DEFINE out == files[Out(p)]["generated_datasets.ndjson"]
    <3>3. CASE Complete(out) /\ OutputMatches(plan[p], out)
      <4>1. output' = [output EXCEPT ![p] = out] /\ Goto(p, "openRun") /\ out \in PlanType
        BY <2>5, <3>2, <3>3 DEF VerifyOutput, Complete
      <4>2. OutputMatches(plan[p], out)
        BY <3>3
      <4> HIDE DEF out
      <4>3. /\ output' \in [Procs -> PlanType \cup {None}] /\ output'[p] = out
            /\ \A q \in Procs \ {p} : output'[q] = output[q]
        BY <4>1 DEF TypeOK, OutputType
      <4>4. /\ pc' \in [Procs -> (Live \cup {"idle", "done", "stopped"}) \X (1..6)]
            /\ pc'[p][1] = "openRun"
            /\ \A q \in Procs \ {p} : pc'[q] = pc[q]
        BY <4>1, GoesTo DEF Live
      <4> QED
        BY <2>5, <3>1, <4>1, <4>2, <4>3, <4>4 DEF VerifyOutput, Ghosts, TypeOK, FilesOK
    <3>4. CASE ~(Complete(out) /\ OutputMatches(plan[p], out))
      <4>1. Goto(p, "stopped") /\ UNCHANGED output
        BY <2>5, <3>4 DEF VerifyOutput
      <4>2. /\ pc' \in [Procs -> (Live \cup {"idle", "done", "stopped"}) \X (1..6)]
            /\ pc'[p][1] = "stopped"
            /\ \A q \in Procs \ {p} : pc'[q] = pc[q]
        BY <4>1, GoesTo DEF Live
      <4> QED
        BY <2>5, <3>1, <4>1, <4>2 DEF VerifyOutput, Ghosts, TypeOK, FilesOK, OutputType
    <3> QED BY <3>3, <3>4
  <2> QED BY <2>1, <2>2, <2>3, <2>4, <2>5
<1>2. TypeOK'
  BY <1>1 DEF TypeOK, OutputType
<1>3. JobsAreGiven'
  BY <1>1 DEF JobsAreGiven, At, Index
<1>4. OutputsAreVerified'
  BY <1>1 DEF OutputsAreVerified
<1>5. (OneWriter /\ RunIsPublished /\ LoadingAgrees /\ LoadedIsWhatWasPublished)'
  BY <1>1, QuietStep
<1> QED BY <1>2, <1>3, <1>4, <1>5

\* run.json is created: until now the directory had none, so none is published
\* or being loaded there and nobody else is writing it.
LEMMA OpenRunIInv ==
  ASSUME IInv, NEW p \in Procs, OpenRun(p)
  PROVE  IInv'
<1> USE DEF IInv
<1> DEFINE d == Out(p)
<1>1. /\ d \in Dirs /\ ~At(p, "idle") /\ plan[p] \in PlanType
      /\ output[p] \in PlanType /\ OutputMatches(plan[p], output[p])
      /\ "run.json" \in Files
  BY JobDirs, Names DEF OpenRun, JobsAreGiven, OutputsAreVerified, At, Planned
<1>2. UNCHANGED <<job, plan, output, loading, loaded, published, contested, stops>>
  BY DEF OpenRun, Memory, Ghosts
<1>3. CASE files[d]["run.json"] # Absent
  <2>1. UNCHANGED files /\ Goto(p, "stopped")
    BY <1>3 DEF OpenRun
  <2>2. /\ pc' \in [Procs -> (Live \cup {"idle", "done", "stopped"}) \X (1..6)]
        /\ pc'[p][1] = "stopped"
        /\ \A q \in Procs \ {p} : pc'[q] = pc[q]
    BY <2>1, GoesTo DEF Live
  <2>3. TypeOK'
    BY <1>2, <2>1, <2>2 DEF TypeOK, FilesOK
  <2>4. JobsAreGiven' /\ OutputsAreVerified'
    BY <1>1, <1>2, <2>2 DEF JobsAreGiven, OutputsAreVerified, At, Index, Planned
  <2>5. (OneWriter /\ RunIsPublished /\ LoadingAgrees /\ LoadedIsWhatWasPublished)'
    <3>1. \A e \in Dirs : files'[e]["run.json"] = files[e]["run.json"]
      BY <2>1
    <3> QED BY <1>2, <2>2, <3>1, QuietStep
  <2> QED BY <2>3, <2>4, <2>5
<1>4. CASE files[d]["run.json"] = Absent
  <2>1. Put(d, "run.json", Partial) /\ Goto(p, "writeRun")
    BY <1>4 DEF OpenRun
  <2>2. /\ pc' \in [Procs -> (Live \cup {"idle", "done", "stopped"}) \X (1..6)]
        /\ pc'[p][1] = "writeRun"
        /\ \A q \in Procs \ {p} : pc'[q] = pc[q]
    BY <2>1, GoesTo DEF Live
  <2>3. /\ FilesOK' /\ files'[d]["run.json"] = Partial
        /\ \A e \in Dirs : e # d => files'[e]["run.json"] = files[e]["run.json"]
    BY <1>1, <2>1, PutFile DEF TypeOK
  <2> HIDE DEF d
  <2>4. TypeOK'
    BY <1>2, <2>2, <2>3 DEF TypeOK
  <2>5. JobsAreGiven' /\ OutputsAreVerified'
    BY <1>1, <1>2, <2>2 DEF JobsAreGiven, OutputsAreVerified, At, Index, Planned
  <2>6. \A q \in Procs \ {p} : At(q, "writeRun") => Out(q) \in Dirs /\ Out(q) # d
    <3>1. \A q \in Procs \ {p} : At(q, "writeRun") => files[Out(q)]["run.json"] = Partial
      BY DEF OneWriter
    <3>2. \A q \in Procs : At(q, "writeRun") => Out(q) \in Dirs
      BY JobDirs DEF At
    <3> QED BY <1>4, <3>1, <3>2, ValuesAssumption
  <2>7. OneWriter'
    BY <1>2, <2>2, <2>3, <2>6 DEF OneWriter, At, Out, d
  <2>8. RunIsPublished'
    <3>1. published[d] = None
      BY <1>1, <1>4 DEF RunIsPublished, Complete
    <3>2. published' = published
      BY <1>2
    <3> QED BY <2>3, <3>1, <3>2 DEF RunIsPublished, Complete
  <2>9. LoadingAgrees'
    <3> SUFFICES ASSUME NEW q \in Procs, IsLoading(q)', Index(q)' >= 2
                 PROVE  /\ Complete(files'[LoadDir(q)']["run.json"])
                        /\ loading[q]["run.json"] = files'[LoadDir(q)']["run.json"]
                        /\ \A i \in 1..4 : i + 1 < Index(q)' =>
                             loading[q][Payloads[i]] = loading[q]["run.json"][Payloads[i]]
      BY <1>2 DEF LoadingAgrees, Complete
    <3>1. q # p
      BY <2>2 DEF IsLoading, At
    <3>2. IsLoading(q) /\ Index(q)' = Index(q) /\ LoadDir(q)' = LoadDir(q)
      BY <1>2, <2>2, <3>1 DEF IsLoading, At, Index, LoadDir, Out
    <3>3. LoadDir(q) \in Dirs
      BY <3>2, JobDirs DEF IsLoading, At
    <3>4. LoadDir(q) # d
      BY <1>4, <3>2 DEF LoadingAgrees, Complete
    <3> QED BY <2>3, <3>2, <3>3, <3>4 DEF LoadingAgrees
  <2>10. LoadedIsWhatWasPublished'
    BY <1>2 DEF LoadedIsWhatWasPublished
  <2> QED BY <2>4, <2>5, <2>7, <2>8, <2>9, <2>10
<1> QED BY <1>3, <1>4

\* run.json is written: it records what the command publishes.
LEMMA WriteRunIInv ==
  ASSUME IInv, NEW p \in Procs, WriteRun(p)
  PROVE  IInv'
<1> USE DEF IInv
<1> DEFINE d == Out(p)
<1>1. /\ d \in Dirs /\ job[p] \in Jobs /\ plan[p] \in PlanType
      /\ output[p] \in PlanType /\ OutputMatches(plan[p], output[p])
      /\ files[d]["run.json"] = Partial
  BY JobDirs DEF WriteRun, JobsAreGiven, OutputsAreVerified, OneWriter, At, Planned
<1>2. UNCHANGED <<job, plan, output, loading, loaded, contested, stops>>
  BY DEF WriteRun, Memory
<1>3. /\ pc' \in [Procs -> (Live \cup {"idle", "done", "stopped"}) \X (1..6)]
      /\ pc'[p][1] \in {"reload", "done"} /\ pc'[p][2] = 1
      /\ \A q \in Procs \ {p} : pc'[q] = pc[q]
  <2>1. Goto(p, "reload") \/ Goto(p, "done")
    BY DEF WriteRun
  <2> QED BY <2>1, GoesTo DEF Live
<1>4. Digests(p) \in RunType /\ Records(Digests(p), plan[p])
  <2>1. plan[p].model \in Models /\ plan[p].design \in Designs
    BY <1>1 DEF PlanType
  <2>2. \A f \in Files \ {"run.json"} : ContentOf(plan[p], f) \in Content
    BY <1>1, <2>1 DEF ContentOf, Content
  <2>3. Digests(p) \in RunType
    BY <1>1, <2>2 DEF Digests, RunType, Content
  <2>4. /\ Digests(p)["generation-plan.json"] = plan[p]
        /\ Digests(p)["model.ir.json"] = plan[p].model
        /\ Digests(p)["design.json"] = plan[p].design
        /\ Digests(p)["generated_datasets.ndjson"] = output[p]
    BY Names DEF Digests, ContentOf
  <2> QED BY <1>1, <2>3, <2>4 DEF Records
<1>5. /\ FilesOK' /\ files'[d]["run.json"] = Digests(p)
      /\ \A e \in Dirs : e # d => files'[e]["run.json"] = files[e]["run.json"]
  <2>1. "run.json" \in Files /\ Digests(p) \in KindOf("run.json") \cup {Absent, Partial}
    BY <1>4, Names DEF KindOf
  <2>2. Put(d, "run.json", Digests(p))
    BY DEF WriteRun
  <2> QED BY <1>1, <2>1, <2>2, PutFile DEF TypeOK
<1>6. /\ published' \in [Dirs -> PlanType \cup {None}]
      /\ published'[d] = plan[p] /\ published[d] = None
      /\ \A e \in Dirs : e # d => published'[e] = published[e]
  <2>1. published' = [published EXCEPT ![d] = plan[p]]
    BY DEF WriteRun
  <2>2. published[d] = None
    BY <1>1 DEF RunIsPublished, Complete
  <2> QED BY <1>1, <2>1, <2>2 DEF TypeOK
<1> HIDE DEF d
<1>7. TypeOK'
  BY <1>2, <1>3, <1>5, <1>6 DEF TypeOK
<1>8. JobsAreGiven' /\ OutputsAreVerified'
  BY <1>1, <1>2, <1>3 DEF JobsAreGiven, OutputsAreVerified, At, Index, Planned
<1>9. OneWriter'
  <2>1. \A q \in Procs : At(q, "writeRun") => Out(q) \in Dirs
    BY JobDirs DEF At
  <2>2. \A q \in Procs \ {p} : At(q, "writeRun") => Out(q) # d
    BY DEF OneWriter, WriteRun, d
  <2>3. \A q \in Procs : At(q, "writeRun")' => q # p /\ At(q, "writeRun") /\ Out(q)' = Out(q)
    BY <1>2, <1>3 DEF At, Out
  <2> QED BY <1>5, <2>1, <2>2, <2>3 DEF OneWriter
<1>10. RunIsPublished'
  BY <1>1, <1>4, <1>5, <1>6, ValuesAssumption DEF RunIsPublished, Complete
<1>11. LoadingAgrees'
  <2> SUFFICES ASSUME NEW q \in Procs, IsLoading(q)', Index(q)' >= 2
               PROVE  /\ Complete(files'[LoadDir(q)']["run.json"])
                      /\ loading[q]["run.json"] = files'[LoadDir(q)']["run.json"]
                      /\ \A i \in 1..4 : i + 1 < Index(q)' =>
                           loading[q][Payloads[i]] = loading[q]["run.json"][Payloads[i]]
    BY <1>2 DEF LoadingAgrees, Complete
  <2>1. q # p
    BY <1>3 DEF Index
  <2>2. IsLoading(q) /\ Index(q)' = Index(q) /\ LoadDir(q)' = LoadDir(q)
    BY <1>2, <1>3, <2>1 DEF IsLoading, At, Index, LoadDir, Out
  <2>3. LoadDir(q) \in Dirs
    BY <2>2, JobDirs DEF IsLoading, At
  <2>4. LoadDir(q) # d
    BY <1>1, <2>2 DEF LoadingAgrees, Complete
  <2> QED BY <1>5, <2>2, <2>3, <2>4 DEF LoadingAgrees
<1>12. LoadedIsWhatWasPublished'
  <2> SUFFICES ASSUME NEW q \in Procs, loaded[q] # None
               PROVE  published'[loaded[q].dir] = published[loaded[q].dir]
    BY <1>2 DEF LoadedIsWhatWasPublished
  <2>1. loaded[q].dir \in Dirs
    BY DEF TypeOK
  <2>2. loaded[q].dir # d
    BY <1>6 DEF LoadedIsWhatWasPublished
  <2> QED BY <1>6, <2>1, <2>2
<1> QED BY <1>7, <1>8, <1>9, <1>10, <1>11, <1>12

\* A step of a load writes nothing: what remains to be shown is what it says of
\* the command p that loads.
LEMMA LoadStep ==
  ASSUME IInv, NEW p \in Procs, IsLoading(p),
         UNCHANGED <<files, job, output, published, contested, stops>>,
         pc' \in [Procs -> (Live \cup {"idle", "done", "stopped"}) \X (1..6)],
         pc'[p][1] \in {"load", "reload", "validate", "done", "stopped"},
         pc'[p][1] = "load" => At(p, "load"),
         plan' \in [Procs -> PlanType \cup {None}],
         pc'[p][1] \in Planned => plan'[p] \in PlanType,
         loading' \in [Procs -> OnDisk],
         loaded' \in [Procs -> [dir : Dirs, payloads : OnDisk] \cup {None}],
         \A q \in Procs \ {p} :
           /\ pc'[q] = pc[q] /\ plan'[q] = plan[q]
           /\ loading'[q] = loading[q] /\ loaded'[q] = loaded[q]
  PROVE  /\ (TypeOK /\ JobsAreGiven /\ OutputsAreVerified /\ OneWriter /\ RunIsPublished)'
         /\ \A q \in Procs \ {p} : IsLoading(q)' /\ Index(q)' >= 2 =>
              /\ Complete(files[LoadDir(q)']["run.json"])
              /\ loading'[q]["run.json"] = files[LoadDir(q)']["run.json"]
              /\ \A i \in 1..4 : i + 1 < Index(q)' =>
                   loading'[q][Payloads[i]] = loading'[q]["run.json"][Payloads[i]]
<1> USE DEF IInv
<1>1. TypeOK'
  BY DEF TypeOK, FilesOK
<1>2. JobsAreGiven'
  BY DEF JobsAreGiven, At, Index, IsLoading
<1>3. OutputsAreVerified'
  BY DEF OutputsAreVerified, At, IsLoading
<1>4. OneWriter'
  <2>1. \A q \in Procs : At(q, "writeRun")' => q # p /\ At(q, "writeRun")
    BY DEF At
  <2> QED BY <2>1 DEF OneWriter, Out
<1>5. RunIsPublished'
  BY DEF RunIsPublished
<1>6. \A q \in Procs \ {p} :
        IsLoading(q)' => IsLoading(q) /\ Index(q)' = Index(q) /\ LoadDir(q)' = LoadDir(q)
  BY DEF IsLoading, At, Index, LoadDir, Out
<1>7. \A q \in Procs \ {p} : IsLoading(q)' /\ Index(q)' >= 2 =>
        /\ Complete(files[LoadDir(q)']["run.json"])
        /\ loading'[q]["run.json"] = files[LoadDir(q)']["run.json"]
        /\ \A i \in 1..4 : i + 1 < Index(q)' =>
             loading'[q][Payloads[i]] = loading'[q]["run.json"][Payloads[i]]
  BY <1>6 DEF LoadingAgrees
<1> QED BY <1>1, <1>2, <1>3, <1>4, <1>5, <1>7

\* A load that ends without a result.
LEMMA LoadRefused ==
  ASSUME IInv, NEW p \in Procs, IsLoading(p), Goto(p, "stopped"),
         UNCHANGED <<files, job, plan, output, loading, loaded, published, contested, stops>>
  PROVE  IInv'
<1> USE DEF IInv
<1>1. /\ pc' \in [Procs -> (Live \cup {"idle", "done", "stopped"}) \X (1..6)]
      /\ pc'[p][1] = "stopped"
      /\ \A q \in Procs \ {p} : pc'[q] = pc[q]
  BY GoesTo DEF Live
<1>2. (TypeOK /\ JobsAreGiven /\ OutputsAreVerified /\ OneWriter /\ RunIsPublished)'
  BY <1>1, LoadStep DEF TypeOK, Planned
<1>3. (OneWriter /\ RunIsPublished /\ LoadingAgrees /\ LoadedIsWhatWasPublished)'
  <2>1. \A d \in Dirs : files'[d]["run.json"] = files[d]["run.json"]
    OBVIOUS
  <2> QED BY <1>1, <2>1, QuietStep
<1> QED BY <1>2, <1>3

\* The load reads one more file, run.json or a payload with the digest there.
LEMMA LoadReads ==
  ASSUME IInv, NEW p \in Procs, IsLoading(p),
         pc' \in [Procs -> (Live \cup {"idle", "done", "stopped"}) \X (1..6)],
         pc'[p][1] = pc[p][1], pc'[p][2] \in 2..6,
         loading' \in [Procs -> OnDisk],
         \A q \in Procs \ {p} : pc'[q] = pc[q] /\ loading'[q] = loading[q],
         Complete(files[LoadDir(p)]["run.json"]),
         loading'[p]["run.json"] = files[LoadDir(p)]["run.json"],
         \A i \in 1..4 : i + 1 < pc'[p][2] =>
           loading'[p][Payloads[i]] = loading'[p]["run.json"][Payloads[i]],
         UNCHANGED <<files, job, plan, output, loaded, published, contested, stops>>
  PROVE  IInv'
<1> USE DEF IInv
<1>1. pc[p][1] \in {"load", "reload"}
  BY DEF IsLoading, At
<1>2. /\ plan \in [Procs -> PlanType \cup {None}]
      /\ pc[p][1] \in Planned => plan[p] \in PlanType
      /\ loaded \in [Procs -> [dir : Dirs, payloads : OnDisk] \cup {None}]
  BY DEF TypeOK, OutputType, JobsAreGiven
<1>3. /\ (TypeOK /\ JobsAreGiven /\ OutputsAreVerified /\ OneWriter /\ RunIsPublished)'
      /\ \A q \in Procs \ {p} : IsLoading(q)' /\ Index(q)' >= 2 =>
           /\ Complete(files[LoadDir(q)']["run.json"])
           /\ loading'[q]["run.json"] = files[LoadDir(q)']["run.json"]
           /\ \A i \in 1..4 : i + 1 < Index(q)' =>
                loading'[q][Payloads[i]] = loading'[q]["run.json"][Payloads[i]]
  BY <1>1, <1>2, LoadStep DEF At
<1>4. LoadingAgrees'
  <2>1. LoadDir(p)' = LoadDir(p) /\ Index(p)' = pc'[p][2]
    BY DEF LoadDir, At, Out, Index
  <2> QED BY <1>3, <2>1 DEF LoadingAgrees, Complete
<1>5. LoadedIsWhatWasPublished'
  BY DEF LoadedIsWhatWasPublished
<1> QED BY <1>3, <1>4, <1>5

\* The load goes to its n-th step.
LEMMA GoesToNth ==
  ASSUME TypeOK, NEW p \in Procs, IsLoading(p), NEW n \in 1..6, GotoNth(p, pc[p][1], n)
  PROVE  /\ pc' \in [Procs -> (Live \cup {"idle", "done", "stopped"}) \X (1..6)]
         /\ pc'[p][1] = pc[p][1] /\ pc'[p][2] = n
         /\ \A q \in Procs \ {p} : pc'[q] = pc[q]
BY DEF GotoNth, TypeOK, IsLoading, At, Live

LEMMA LoadMetadataIInv ==
  ASSUME IInv, NEW p \in Procs, LoadMetadata(p)
  PROVE  IInv'
<1> DEFINE run == files[LoadDir(p)]["run.json"]
<1>1. UNCHANGED <<files, job, plan, output, loaded, published, contested, stops>>
  BY DEF LoadMetadata, Ghosts
<1>2. CASE ~Complete(run)
  <2>1. IsLoading(p) /\ Goto(p, "stopped") /\ UNCHANGED loading
    BY <1>2 DEF LoadMetadata
  <2> QED BY <1>1, <2>1, LoadRefused
<1>3. CASE Complete(run)
  <2> DEFINE read == [NoFiles EXCEPT !["run.json"] = run]
  <2>1. /\ IsLoading(p) /\ GotoNth(p, pc[p][1], 2)
        /\ loading' = [loading EXCEPT ![p] = read]
    BY <1>3 DEF LoadMetadata
  <2>2. LoadDir(p) \in Dirs
    BY <2>1, JobDirs DEF IInv, IsLoading, At
  <2>3. run \in RunType \cup {Absent, Partial} /\ "run.json" \in Files
    BY <2>2, Names DEF IInv, TypeOK, FilesOK, KindOf
  <2> HIDE DEF run
  <2>4. read \in OnDisk /\ read["run.json"] = run
    BY <2>3 DEF NoFiles, OnDisk
  <2>5. \A i \in 1..4 : ~(i + 1 < 2)
    OBVIOUS
  <2> HIDE DEF read
  <2>6. /\ pc' \in [Procs -> (Live \cup {"idle", "done", "stopped"}) \X (1..6)]
        /\ pc'[p][1] = pc[p][1] /\ pc'[p][2] = 2
        /\ \A q \in Procs \ {p} : pc'[q] = pc[q]
    BY <2>1, GoesToNth DEF IInv
  <2>7. /\ loading' \in [Procs -> OnDisk] /\ loading'[p] = read
        /\ \A q \in Procs \ {p} : loading'[q] = loading[q]
    BY <2>1, <2>4 DEF IInv, TypeOK
  <2> QED BY <1>1, <1>3, <2>1, <2>4, <2>5, <2>6, <2>7, LoadReads DEF run
<1> QED BY <1>2, <1>3

LEMMA LoadPayloadIInv ==
  ASSUME IInv, NEW p \in Procs, LoadPayload(p)
  PROVE  IInv'
<1> DEFINE f == Payloads[Index(p) - 1]
<1> DEFINE content == files[LoadDir(p)][f]
<1>1. /\ UNCHANGED <<files, job, plan, output, loaded, published, contested, stops>>
      /\ IsLoading(p) /\ Index(p) \in 2..5
  BY Names DEF LoadPayload, Ghosts
<1>2. CASE ~(Complete(content) /\ DigestAccepted(content, loading[p]["run.json"][f]))
  <2>1. Goto(p, "stopped") /\ UNCHANGED loading
    BY <1>2 DEF LoadPayload
  <2> QED BY <1>1, <2>1, LoadRefused
<1>3. CASE Complete(content) /\ DigestAccepted(content, loading[p]["run.json"][f])
  <2> DEFINE read == [loading[p] EXCEPT ![f] = content]
  <2>1. /\ GotoNth(p, pc[p][1], Index(p) + 1)
        /\ loading' = [loading EXCEPT ![p][f] = content]
        /\ content = loading[p]["run.json"][f]
    BY <1>3 DEF LoadPayload, DigestAccepted
  <2>2. LoadDir(p) \in Dirs /\ f \in Files \ {"run.json"} /\ "run.json" \in Files
    <3>1. LoadDir(p) \in Dirs
      BY <1>1, JobDirs DEF IInv, IsLoading, At
    <3>2. Index(p) - 1 = 1 \/ Index(p) - 1 = 2 \/ Index(p) - 1 = 3 \/ Index(p) - 1 = 4
      BY <1>1
    <3> QED BY <3>1, <3>2, Names
  <2>3. /\ loading[p] \in OnDisk /\ loading' = [loading EXCEPT ![p] = read]
        /\ content \in Content \cup RunType \cup {Absent, Partial}
    BY <2>1, <2>2 DEF IInv, TypeOK, FilesOK, OnDisk
  <2>4. /\ Complete(files[LoadDir(p)]["run.json"])
        /\ loading[p]["run.json"] = files[LoadDir(p)]["run.json"]
        /\ \A i \in 1..4 : i + 1 < Index(p) =>
             loading[p][Payloads[i]] = loading[p]["run.json"][Payloads[i]]
    BY <1>1 DEF IInv, LoadingAgrees
  <2>5. \A i \in 1..4 : Payloads[i] \in Files
    <3>1. \A i \in 1..4 : i = 1 \/ i = 2 \/ i = 3 \/ i = 4
      OBVIOUS
    <3> QED BY <3>1, Names
  <2>6. \A i \in 1..4 : i + 1 < Index(p) + 1 => i + 1 < Index(p) \/ i = Index(p) - 1
    BY <1>1
  <2> HIDE DEF content
  <2>7. /\ read \in OnDisk /\ read["run.json"] = loading[p]["run.json"]
        /\ read[f] = content
        /\ \A g \in Files : g # f => read[g] = loading[p][g]
    BY <2>2, <2>3 DEF OnDisk
  <2> HIDE DEF read
  <2>8. \A i \in 1..4 : i + 1 < Index(p) + 1 => read[Payloads[i]] = read["run.json"][Payloads[i]]
    BY <2>1, <2>4, <2>5, <2>6, <2>7
  <2>9. Index(p) + 1 \in 2..6
    BY <1>1
  <2>10. /\ pc' \in [Procs -> (Live \cup {"idle", "done", "stopped"}) \X (1..6)]
         /\ pc'[p][1] = pc[p][1] /\ pc'[p][2] = Index(p) + 1
         /\ \A q \in Procs \ {p} : pc'[q] = pc[q]
    BY <1>1, <2>1, GoesToNth DEF IInv
  <2>11. /\ loading' \in [Procs -> OnDisk] /\ loading'[p] = read
         /\ \A q \in Procs \ {p} : loading'[q] = loading[q]
    BY <2>3, <2>7 DEF IInv, TypeOK
  <2> QED BY <1>1, <2>4, <2>7, <2>8, <2>9, <2>10, <2>11, LoadReads
<1> QED BY <1>2, <1>3

\* The load has read every file and returns: it has read what was published.
LEMMA ResolveIInv ==
  ASSUME IInv, NEW p \in Procs, Resolve(p)
  PROVE  IInv'
<1> DEFINE d == LoadDir(p)
<1> DEFINE q == loading[p]["generation-plan.json"]
<1> DEFINE record == [dir |-> d, payloads |-> loading[p]]
<1> DEFINE accepted == /\ q.model = loading[p]["model.ir.json"]
                       /\ q.design = loading[p]["design.json"]
                       /\ OutputMatches(q, loading[p]["generated_datasets.ndjson"])
<1>1. /\ UNCHANGED <<files, job, output, loading, published, contested, stops>>
      /\ IsLoading(p) /\ Index(p) = 6
  BY Names DEF Resolve, Ghosts
<1>2. CASE ~accepted
  <2>1. Goto(p, "stopped") /\ UNCHANGED <<loaded, plan>>
    BY <1>2 DEF Resolve
  <2> QED BY <1>1, <2>1, LoadRefused
<1>3. CASE accepted
  <2>1. /\ loaded' = [loaded EXCEPT ![p] = record]
        /\ plan' = [plan EXCEPT ![p] = q]
        /\ Goto(p, "validate") \/ Goto(p, "done")
    BY <1>3 DEF Resolve
  <2>2. d \in Dirs /\ loading[p] \in OnDisk
    BY <1>1, JobDirs DEF IInv, TypeOK, IsLoading, At
  <2>3. /\ Complete(files[d]["run.json"])
        /\ loading[p]["run.json"] = files[d]["run.json"]
        /\ \A i \in 1..4 : loading[p][Payloads[i]] = loading[p]["run.json"][Payloads[i]]
    BY <1>1 DEF IInv, LoadingAgrees
  <2>4. /\ loading[p]["generation-plan.json"] = files[d]["run.json"]["generation-plan.json"]
        /\ loading[p]["model.ir.json"] = files[d]["run.json"]["model.ir.json"]
        /\ loading[p]["design.json"] = files[d]["run.json"]["design.json"]
        /\ loading[p]["generated_datasets.ndjson"]
             = files[d]["run.json"]["generated_datasets.ndjson"]
    <3>1. 1 \in 1..4 /\ 2 \in 1..4 /\ 3 \in 1..4 /\ 4 \in 1..4
      OBVIOUS
    <3> QED BY <2>3, <3>1, Names
  <2>5. published[d] \in PlanType /\ Records(files[d]["run.json"], published[d])
    BY <2>2, <2>3 DEF IInv, RunIsPublished
  <2>6. /\ q = published[d] /\ q \in PlanType
        /\ loading[p]["generation-plan.json"] = q
        /\ loading[p]["model.ir.json"] = q.model
        /\ loading[p]["design.json"] = q.design
        /\ OutputMatches(q, loading[p]["generated_datasets.ndjson"])
    BY <2>4, <2>5 DEF Records
  <2>7. /\ pc' \in [Procs -> (Live \cup {"idle", "done", "stopped"}) \X (1..6)]
        /\ pc'[p][1] \in {"validate", "done"}
        /\ \A r \in Procs \ {p} : pc'[r] = pc[r]
    BY <2>1, GoesTo DEF IInv, Live
  <2>8. /\ record \in [dir : Dirs, payloads : OnDisk]
        /\ record.dir = d /\ record.payloads = loading[p]
    BY <2>2
  <2> HIDE DEF d, q, record
  <2>9. /\ loaded' \in [Procs -> [dir : Dirs, payloads : OnDisk] \cup {None}]
        /\ loaded'[p] = record
        /\ plan' \in [Procs -> PlanType \cup {None}] /\ plan'[p] = q
        /\ \A r \in Procs \ {p} : loaded'[r] = loaded[r] /\ plan'[r] = plan[r]
    BY <2>1, <2>6, <2>8 DEF IInv, TypeOK
  <2>10. loading' \in [Procs -> OnDisk]
    BY <1>1 DEF IInv, TypeOK
  <2>11. /\ (TypeOK /\ JobsAreGiven /\ OutputsAreVerified /\ OneWriter /\ RunIsPublished)'
         /\ \A r \in Procs \ {p} : IsLoading(r)' /\ Index(r)' >= 2 =>
              /\ Complete(files[LoadDir(r)']["run.json"])
              /\ loading'[r]["run.json"] = files[LoadDir(r)']["run.json"]
              /\ \A i \in 1..4 : i + 1 < Index(r)' =>
                   loading'[r][Payloads[i]] = loading'[r]["run.json"][Payloads[i]]
    BY <1>1, <2>6, <2>7, <2>9, <2>10, LoadStep
  <2>12. LoadingAgrees'
    <3>1. ~IsLoading(p)'
      BY <2>7 DEF IsLoading, At
    <3> QED BY <1>1, <2>11, <3>1 DEF LoadingAgrees, Complete
  <2>13. LoadedIsWhatWasPublished'
    <3>1. q # None
      BY <2>6, ValuesAssumption
    <3> QED
      BY <1>1, <2>6, <2>8, <2>9, <3>1 DEF IInv, LoadedIsWhatWasPublished
  <2> QED BY <2>11, <2>12, <2>13 DEF IInv
<1> QED BY <1>2, <1>3

\* Every step keeps the invariant.
LEMMA NextIInv == IInv /\ [Next]_vars => IInv'
<1> SUFFICES ASSUME IInv, [Next]_vars PROVE IInv'
  OBVIOUS
<1>1. CASE UNCHANGED vars
  BY <1>1 DEF vars, IInv, TypeOK, FilesOK, JobsAreGiven, OutputsAreVerified, OneWriter,
              RunIsPublished, LoadingAgrees, LoadedIsWhatWasPublished,
              At, Index, Out, IsLoading, LoadDir, Complete
<1>2. ASSUME NEW p \in Procs, Generate(p) \/ Load(p) \/ Stop(p) \/ \E j \in Jobs : Start(p, j)
      PROVE  IInv'
  BY <1>2, PlanningIInv, WritingIInv, OpenRunIInv, WriteRunIInv, LoadMetadataIInv,
     LoadPayloadIInv, ResolveIInv
     DEF Generate, Load
<1> QED BY <1>1, <1>2 DEF Next

-----------------------------------------------------------------------------
\* The inductive invariant holds of every reachable state.
THEOREM Invariance == Spec => []IInv
BY InitIInv, NextIInv, PTL DEF Spec

\* The variables keep their types.
THEOREM TypeCorrect == Spec => []TypeOK
<1>1. IInv => TypeOK
  BY DEF IInv
<1> QED BY <1>1, Invariance, PTL

\* load_generation_run returns, payload for payload, the run one command
\* published, whatever else writes to the directory while it reads.
THEOREM LoadsArePublishedRuns == Spec => []LoadedIsWhatWasPublished
<1>1. IInv => LoadedIsWhatWasPublished
  BY DEF IInv
<1> QED BY <1>1, Invariance, PTL

\* Writing a payload or the output leaves every run.json alone.
LEMMA WritesLeaveRun ==
  ASSUME IInv, NEW p \in Procs, OpenPayload(p) \/ WritePayload(p) \/ EngineWrites(p)
  PROVE  \A d \in Dirs : files'[d]["run.json"] = files[d]["run.json"]
<1>1. Out(p) \in Dirs
  BY JobDirs DEF OpenPayload, WritePayload, EngineWrites, IInv, At
<1>2. \E f \in Files \ {"run.json"} : \E v : Put(Out(p), f, v)
  <2>1. CASE EngineWrites(p)
    BY <2>1, Names DEF EngineWrites
  <2>2. CASE OpenPayload(p) \/ WritePayload(p)
    <3>1. Index(p) = 1 \/ Index(p) = 2 \/ Index(p) = 3
      BY <2>2 DEF OpenPayload, WritePayload, IInv, JobsAreGiven, At
    <3>2. Written[Index(p)] \in Files \ {"run.json"}
      BY <3>1, Names
    <3> QED BY <2>2, <3>2 DEF OpenPayload, WritePayload
  <2> QED BY <2>1, <2>2
<1> QED BY <1>1, <1>2 DEF Put, IInv, TypeOK, FilesOK, OnDisk

\* A published run is not published again and its run.json does not change.
THEOREM PublicationIsFinal == Spec => PublishedOnce
<1>1. ASSUME IInv, [Next]_vars, NEW d \in Dirs, published[d] # None
      PROVE  published'[d] = published[d] /\ files'[d]["run.json"] = files[d]["run.json"]
  <2>1. CASE \E p \in Procs : WriteRun(p)
    <3>1. PICK p \in Procs : WriteRun(p)
      BY <2>1
    <3>2. Out(p) \in Dirs /\ Out(p) # d
      BY <1>1, <3>1, JobDirs
         DEF WriteRun, IInv, OneWriter, RunIsPublished, Complete, At
    <3> QED
      BY <1>1, <3>1, <3>2 DEF WriteRun, Put, IInv, TypeOK, FilesOK
  <2>2. CASE \E p \in Procs : OpenRun(p)
    <3>1. PICK p \in Procs : OpenRun(p)
      BY <2>2
    <3>2. Out(p) \in Dirs
      BY <1>1, <3>1, JobDirs DEF OpenRun, IInv, At
    <3>3. files[d]["run.json"] # Absent
      BY <1>1 DEF IInv, RunIsPublished, Complete
    <3> QED
      BY <1>1, <3>1, <3>2, <3>3 DEF OpenRun, Put, IInv, TypeOK, FilesOK, Ghosts
  <2>3. CASE \E p \in Procs : OpenPayload(p) \/ WritePayload(p) \/ EngineWrites(p)
    BY <1>1, <2>3, WritesLeaveRun DEF OpenPayload, WritePayload, EngineWrites, Ghosts
  <2>4. CASE UNCHANGED <<files, published>>
    BY <2>4
  <2> QED
    BY <1>1, <2>1, <2>2, <2>3, <2>4
       DEF Next, vars, Generate, Load, Start, Stop, BuildPlan, ValidateDir, EngineReads,
           VerifyOutput, LoadMetadata, LoadPayload, Resolve, Ghosts
<1>2. IInv /\ [Next]_vars =>
        [\A d \in Dirs : published[d] # None =>
           /\ published'[d] = published[d]
           /\ files'[d]["run.json"] = files[d]["run.json"]]_vars
  BY <1>1
<1> QED BY <1>2, Invariance, PTL DEF Spec, PublishedOnce

-----------------------------------------------------------------------------
\* The initial directories hold nothing and nothing is loaded.
LEMMA AbstractInit == Init => Abstract!Init
<1> SUFFICES ASSUME Init PROVE Abstract!Init
  OBVIOUS
<1>1. \A d \in Dirs : Stored[d] = None
  BY Names DEF Init, NoFiles, Stored, Complete
<1>2. \A p \in Procs : Taken[p] = None
  BY DEF Init, Taken
<1> QED BY <1>1, <1>2 DEF Abstract!Init, Stored, Taken

\* A command that writes run.json publishes the run of its plan.
LEMMA WriteRunPublishes ==
  ASSUME IInv, NEW p \in Procs, WriteRun(p)
  PROVE  Abstract!Publish(Out(p)) /\ Out(p) \in Dirs
<1> DEFINE d == Out(p)
<1>1. /\ d \in Dirs /\ plan[p] \in PlanType /\ output[p] \in PlanType
      /\ OutputMatches(plan[p], output[p])
      /\ files[d]["run.json"] = Partial
  BY JobDirs DEF WriteRun, IInv, OutputsAreVerified, OneWriter, JobsAreGiven, Planned, At
<1>2. output[p] = plan[p]
  BY <1>1 DEF OutputMatches, PlanType
<1>3. Digests(p) = RunOf(plan[p])
  BY <1>2 DEF Digests, RunOf, PayloadFiles
<1>4. RunOf(plan[p]) \in RunType /\ RunOf(plan[p]) \in RunsOfPlans
  <2>1. \A f \in PayloadFiles : RunOf(plan[p])[f] \in Content
    BY <1>1, Names DEF RunOf, PayloadFiles, ContentOf, Content, PlanType
  <2> QED BY <1>1, <2>1 DEF RunOf, PayloadFiles, RunType, RunsOfPlans
<1>5. /\ \A e \in Dirs : files'[e]["run.json"] = IF e = d THEN RunOf(plan[p]) ELSE files[e]["run.json"]
      /\ UNCHANGED loaded
  BY <1>1, <1>3, Names DEF WriteRun, Put, Memory, IInv, TypeOK, FilesOK, OnDisk
<1>6. Complete(RunOf(plan[p])) /\ ~Complete(Partial)
  BY <1>4, ValuesAssumption DEF Complete
<1> HIDE DEF d
<1>7. Stored[d] = None
  BY <1>1, <1>6 DEF Stored
<1>8. Stored' = [Stored EXCEPT ![d] = RunOf(plan[p])]
  BY <1>1, <1>5, <1>6 DEF Stored, Complete
<1>9. UNCHANGED Taken
  BY <1>5 DEF Taken
<1> QED BY <1>1, <1>4, <1>7, <1>8, <1>9 DEF Abstract!Publish, d

\* A load that returns takes what the directory holds at that moment.
LEMMA ResolveLoads ==
  ASSUME IInv, NEW p \in Procs, Resolve(p)
  PROVE  UNCHANGED <<Stored, Taken>> \/ \E d \in Dirs : Abstract!Load(p, d)
<1> DEFINE d == LoadDir(p)
           run == files[d]["run.json"]
           record == [dir |-> d, payloads |-> loading[p]]
<1>1. UNCHANGED files /\ IsLoading(p) /\ Index(p) = 6
  BY Names DEF Resolve
<1>2. UNCHANGED Stored
  BY <1>1 DEF Stored, Complete
<1>3. CASE UNCHANGED loaded
  BY <1>2, <1>3 DEF Taken
<1>4. CASE loaded' = [loaded EXCEPT ![p] = record]
  <2>1. d \in Dirs
    BY <1>1, JobDirs DEF IInv, IsLoading, At
  <2>2. /\ Complete(run) /\ loading[p]["run.json"] = run
        /\ \A i \in 1..4 : loading[p][Payloads[i]] = run[Payloads[i]]
    BY <1>1 DEF IInv, LoadingAgrees
  <2>3. \A f \in PayloadFiles : loading[p][f] = run[f]
    <3>1. 1 \in 1..4 /\ 2 \in 1..4 /\ 3 \in 1..4 /\ 4 \in 1..4
      OBVIOUS
    <3> QED BY <2>2, <3>1, Names DEF PayloadFiles
  <2>4. run \in RunType
    BY <2>1, <2>2, Names DEF IInv, TypeOK, FilesOK, KindOf, Complete
  <2>5. Stored[d] = run /\ run # None
    BY <2>1, <2>2, <2>4, ValuesAssumption DEF Stored
  <2> HIDE DEF run, d
  <2>6. [f \in PayloadFiles |-> loading[p][f]] = run
    BY <2>3, <2>4 DEF RunType, PayloadFiles
  <2>7. record # None /\ record.dir = d /\ record.payloads = loading[p]
    <3>1. d \in Dirs /\ loading[p] \in OnDisk
      BY <2>1 DEF d, IInv, TypeOK
    <3> QED BY <3>1, ValuesAssumption
  <2>8. Taken' = [Taken EXCEPT ![p] = [dir |-> d, content |-> run]]
    BY <1>4, <2>6, <2>7 DEF Taken, IInv, TypeOK
  <2> QED BY <1>2, <2>1, <2>5, <2>8 DEF Abstract!Load, d
<1> QED BY <1>3, <1>4 DEF Resolve

\* Nothing else shows: the payloads are not what a load is answered from, and
\* an open run.json is not yet a run.
LEMMA OthersShowNothing ==
  ASSUME IInv, NEW p \in Procs,
         \/ Generate(p) /\ ~WriteRun(p)
         \/ LoadMetadata(p) \/ LoadPayload(p)
         \/ Stop(p)
         \/ \E j \in Jobs : Start(p, j)
  PROVE  UNCHANGED <<Stored, Taken>>
<1>1. UNCHANGED loaded
  BY DEF Generate, BuildPlan, ValidateDir, OpenPayload, WritePayload, EngineReads, EngineWrites,
         VerifyOutput, OpenRun, LoadMetadata, LoadPayload, Stop, Start, Memory
<1>2. UNCHANGED Taken
  BY <1>1 DEF Taken
<1>3. CASE OpenPayload(p) \/ WritePayload(p) \/ EngineWrites(p)
  <2>1. \A d \in Dirs : files'[d]["run.json"] = files[d]["run.json"]
    BY <1>3, WritesLeaveRun
  <2> QED BY <1>2, <2>1 DEF Stored, Complete
<1>4. CASE OpenRun(p)
  <2>1. Out(p) \in Dirs /\ files \in [Dirs -> OnDisk] /\ "run.json" \in Files
    BY <1>4, JobDirs, Names DEF OpenRun, IInv, TypeOK, FilesOK, At
  <2>2. \A d \in Dirs : \/ files'[d]["run.json"] = files[d]["run.json"]
                        \/ files'[d]["run.json"] = Partial /\ files[d]["run.json"] = Absent
    BY <1>4, <2>1 DEF OpenRun, Put, OnDisk
  <2> QED BY <1>2, <2>2 DEF Stored, Complete
<1>5. CASE UNCHANGED files
  BY <1>2, <1>5 DEF Stored, Complete
<1> QED
  BY <1>3, <1>4, <1>5
     DEF Generate, BuildPlan, ValidateDir, EngineReads, VerifyOutput, LoadMetadata, LoadPayload,
         Stop, Start

\* Publishing file by file and loading file by file implement one write and one
\* read of the whole directory, for every set of commands that race for it.
THEOREM RunsBehaveAtomically == Spec => RunsAreAtomic
<1>1. IInv /\ [Next]_vars => [Abstract!Next]_(Abstract!vars)
  <2> SUFFICES ASSUME IInv, [Next]_vars PROVE Abstract!Next \/ UNCHANGED <<Stored, Taken>>
    BY DEF Abstract!vars
  <2>1. CASE UNCHANGED vars
    BY <2>1 DEF vars, Stored, Taken, Complete
  <2>2. ASSUME NEW p \in Procs, Generate(p) \/ Load(p) \/ Stop(p) \/ \E j \in Jobs : Start(p, j)
        PROVE  Abstract!Next \/ UNCHANGED <<Stored, Taken>>
    <3>1. CASE WriteRun(p)
      BY <3>1, WriteRunPublishes DEF Abstract!Next
    <3>2. CASE Resolve(p)
      BY <3>2, ResolveLoads DEF Abstract!Next
    <3>3. CASE ~WriteRun(p) /\ ~Resolve(p)
      BY <2>2, <3>3, OthersShowNothing DEF Load
    <3> QED BY <3>1, <3>2, <3>3
  <2> QED BY <2>1, <2>2 DEF Next
<1> QED
  BY <1>1, AbstractInit, Invariance, PTL DEF Spec, RunsAreAtomic, Abstract!Spec

-----------------------------------------------------------------------------
(***************************************************************************)
(* UncontestedRunIsWhole.  While a directory has not been given to two     *)
(* live commands it belongs to the one that is live in it.  That command   *)
(* found it empty, so what it holds is what the command has written since, *)
(* step by step; and when the run is published there is nobody left who    *)
(* writes.                                                                 *)
(***************************************************************************)
Writing == {"open", "write", "engine", "openOutput", "writeOutput", "verify", "openRun", "writeRun"}

\* A directory that is not contested has one live command.
Alone ==
    \A p, q \in Procs :
        IsLive(p) /\ IsLive(q) /\ Out(p) = Out(q) /\ Out(p) \notin contested => p = q

\* What a command that writes has written so far.
WrittenSoFar(p) ==
    \A i \in 1..3 : (pc[p][1] \in {"open", "write"} => i < Index(p)) =>
        files[Out(p)][Written[i]] = ContentOf(plan[p], Written[i])
ProgressOf(p) ==
    pc[p][1] \in Writing /\ Out(p) \notin contested =>
        /\ ~Complete(files[Out(p)]["run.json"])
        /\ WrittenSoFar(p)
        /\ pc[p][1] \in {"openRun", "writeRun"} =>
             files[Out(p)]["generated_datasets.ndjson"] = output[p]
Progress == \A p \in Procs : ProgressOf(p)

\* The run in a directory is whole.
WholeIn(d) ==
    Complete(files[d]["run.json"]) =>
        /\ \A f \in Files \ {"run.json"} : files[d][f] = files[d]["run.json"][f]
        /\ OutputMatches(published[d], files[d]["generated_datasets.ndjson"])

WInv == /\ IInv
        /\ Alone
        /\ Progress
        /\ UncontestedRunIsWhole

-----------------------------------------------------------------------------
\* What a step of p does outside of its directory and to other commands: nothing.
StepsIn(p) ==
    /\ IsLive(p)
    /\ UNCHANGED <<job, contested>>
    /\ pc' = [pc EXCEPT ![p] = pc'[p]]
    /\ \A q \in Procs \ {p} : plan'[q] = plan[q] /\ output'[q] = output[q]
    /\ \A d \in Dirs \ {Out(p)} : files'[d] = files[d] /\ published'[d] = published[d]

\* So all of the invariant is kept that is not about p or its directory.
LEMMA Elsewhere ==
  ASSUME WInv, NEW p \in Procs, StepsIn(p),
         ProgressOf(p)',
         Out(p) \notin contested => WholeIn(Out(p))'
  PROVE  (Alone /\ Progress /\ UncontestedRunIsWhole)'
<1>1. /\ \A q \in Procs : Out(q)' = Out(q)
      /\ \A q \in Procs \ {p} : pc'[q] = pc[q]
      /\ \A q \in Procs : IsLive(q)' => IsLive(q)
  BY DEF StepsIn, WInv, IInv, TypeOK, Out, IsLive
<1>2. Alone'
  BY <1>1 DEF StepsIn, Alone, WInv
<1>3. ASSUME NEW q \in Procs \ {p} PROVE ProgressOf(q)'
  <2>1. SUFFICES ASSUME pc[q][1] \in Writing, Out(q) \notin contested PROVE ProgressOf(q)'
    BY <1>1, <1>3 DEF ProgressOf, StepsIn
  <2>2. IsLive(q)
    BY <2>1 DEF IsLive, Writing, Live
  <2>3. Out(q) \in Dirs \ {Out(p)}
    <3>1. Out(q) \in Dirs
      BY <2>1, JobDirs DEF WInv, IInv, At, Writing
    <3> QED BY <1>3, <2>1, <2>2, <3>1 DEF Alone, WInv, StepsIn
  <2>4. files'[Out(q)] = files[Out(q)] /\ plan'[q] = plan[q] /\ output'[q] = output[q] /\ Index(q)' = Index(q)
    BY <1>1, <1>3, <2>3 DEF StepsIn, Index
  <2>5. ProgressOf(q)
    BY DEF WInv, Progress
  <2> QED BY <1>1, <1>3, <2>1, <2>4, <2>5 DEF ProgressOf, WrittenSoFar, StepsIn
<1>4. UncontestedRunIsWhole'
  <2>1. ASSUME NEW d \in Dirs \ contested, d # Out(p) PROVE WholeIn(d)'
    <3>1. WholeIn(d)
      BY <2>1 DEF WInv, UncontestedRunIsWhole, WholeIn
    <3> QED BY <2>1, <3>1 DEF WholeIn, StepsIn, Complete, OutputMatches
  <2>2. ASSUME NEW d \in Dirs \ contested, d = Out(p) PROVE WholeIn(d)'
    <3>1. Out(p)' = d
      BY <1>1, <2>2
    <3> QED BY <2>2, <3>1 DEF WholeIn, Complete, OutputMatches
  <2>3. \A d \in Dirs \ contested : WholeIn(d)'
    BY <2>1, <2>2
  <2> QED BY <2>3 DEF UncontestedRunIsWhole, WholeIn, StepsIn
<1> QED BY <1>2, <1>3, <1>4 DEF Progress

\* A run stays whole as long as its files do.
LEMMA StillWhole ==
  ASSUME WInv, NEW p \in Procs, Out(p) \in Dirs, UNCHANGED <<files, published, job>>
  PROVE  Out(p) \notin contested => WholeIn(Out(p))'
BY DEF WInv, UncontestedRunIsWhole, WholeIn, Out, Complete, OutputMatches

-----------------------------------------------------------------------------
\* The steps that write nothing.
LEMMA ReadingKeeps ==
  ASSUME WInv, NEW p \in Procs,
         \/ BuildPlan(p) \/ ValidateDir(p, "validate", "ensure") \/ ValidateDir(p, "ensure", "open")
         \/ EngineReads(p) \/ VerifyOutput(p)
         \/ LoadMetadata(p) \/ LoadPayload(p) \/ Resolve(p) \/ Stop(p)
  PROVE  (Alone /\ Progress /\ UncontestedRunIsWhole)'
<1>0. /\ IsLive(p) /\ UNCHANGED <<files, published, job, contested>>
      /\ pc \in [Procs -> (Live \cup {"idle", "done", "stopped"}) \X (1..6)]
  BY DEF BuildPlan, ValidateDir, EngineReads, VerifyOutput, LoadMetadata, LoadPayload, Resolve, Stop,
         Ghosts, Memory, IsLive, Live, At, IsLoading, WInv, IInv, TypeOK
<1>1. StepsIn(p)
  <2>1. \A q \in Procs \ {p} : plan'[q] = plan[q] /\ output'[q] = output[q]
    BY DEF BuildPlan, ValidateDir, EngineReads, VerifyOutput, LoadMetadata, LoadPayload, Resolve, Stop,
           Memory, WInv, IInv, TypeOK
  <2>2. pc' = [pc EXCEPT ![p] = pc'[p]]
    BY <1>0 DEF BuildPlan, ValidateDir, EngineReads, VerifyOutput, LoadMetadata, LoadPayload, Resolve, Stop,
           Goto, GotoNth
  <2> QED BY <1>0, <2>1, <2>2 DEF StepsIn
<1>2. Out(p) \in Dirs /\ Out(p)' = Out(p)
  BY <1>0, JobDirs DEF WInv, IInv, IsLive, At, Live, Out
<1>3. ProgressOf(p)'
  <2>1. CASE ValidateDir(p, "ensure", "open")
    <3>1. CASE DirEmpty(Out(p))
      <4>1. pc'[p] = <<"open", 1>> /\ files'[Out(p)]["run.json"] = Absent
        BY <1>0, <2>1, <3>1, Names DEF ValidateDir, Goto, DirEmpty
      <4>2. \A i \in 1..3 : ~(i < 1)
        OBVIOUS
      <4> QED BY <1>2, <4>1, <4>2 DEF ProgressOf, WrittenSoFar, Index, Complete
    <3>2. CASE ~DirEmpty(Out(p))
      BY <1>0, <2>1, <3>2 DEF ValidateDir, Goto, ProgressOf, Writing
    <3> QED BY <3>1, <3>2
  <2>2. CASE EngineReads(p)
    <3>1. CASE pc'[p] = <<"openOutput", 1>>
      <4>1. pc[p][1] = "engine" /\ plan' = plan /\ ProgressOf(p)
        BY <2>2 DEF EngineReads, At, WInv, Progress
      <4> QED BY <1>0, <1>2, <3>1, <4>1 DEF ProgressOf, WrittenSoFar, Writing, Complete
    <3>2. CASE pc'[p] = <<"stopped", 1>>
      BY <3>2 DEF ProgressOf, Writing
    <3> QED BY <1>0, <2>2, <3>1, <3>2 DEF EngineReads, Goto
  <2>3. CASE VerifyOutput(p)
    <3>1. CASE pc'[p] = <<"openRun", 1>>
      <4>1. pc[p][1] = "verify" /\ plan' = plan /\ ProgressOf(p)
        BY <2>3 DEF VerifyOutput, At, WInv, Progress
      <4>2. output'[p] = files[Out(p)]["generated_datasets.ndjson"]
        BY <1>0, <2>3, <3>1 DEF VerifyOutput, Goto, WInv, IInv, TypeOK
      <4> QED BY <1>0, <1>2, <3>1, <4>1, <4>2 DEF ProgressOf, WrittenSoFar, Writing, Complete
    <3>2. CASE pc'[p] = <<"stopped", 1>>
      BY <3>2 DEF ProgressOf, Writing
    <3> QED BY <1>0, <2>3, <3>1, <3>2 DEF VerifyOutput, Goto
  <2>4. CASE ~(ValidateDir(p, "ensure", "open") \/ EngineReads(p) \/ VerifyOutput(p))
    <3>1. pc'[p][1] \notin Writing
      BY <1>0, <2>4 DEF BuildPlan, ValidateDir, LoadMetadata, LoadPayload, Resolve, Stop,
                        Goto, GotoNth, Writing, IsLoading, At
    <3> QED BY <3>1 DEF ProgressOf
  <2> QED BY <2>1, <2>2, <2>3, <2>4
<1> QED BY <1>0, <1>1, <1>2, <1>3, Elsewhere, StillWhole

-----------------------------------------------------------------------------
\* The payloads are different files, and neither the output nor run.json.
LEMMA WrittenNames ==
  \A i \in 1..3 :
    /\ Written[i] \in Files \ {"run.json", "generated_datasets.ndjson"}
    /\ \A j \in 1..3 : i # j => Written[i] # Written[j]
<1>1. \A i \in 1..3 : i = 1 \/ i = 2 \/ i = 3
  OBVIOUS
<1> QED BY <1>1, Names

\* Writing a file of the command's directory.
LEMMA PutsIn ==
  ASSUME WInv, NEW p \in Procs, IsLive(p), NEW f \in Files, NEW v, Put(Out(p), f, v),
         pc' = [pc EXCEPT ![p] = pc'[p]],
         \A d \in Dirs \ {Out(p)} : published'[d] = published[d],
         UNCHANGED <<job, plan, output, contested>>
  PROVE  /\ StepsIn(p)
         /\ Out(p) \in Dirs /\ Out(p)' = Out(p)
         /\ files'[Out(p)][f] = v
         /\ \A g \in Files \ {f} : files'[Out(p)][g] = files[Out(p)][g]
<1>1. Out(p) \in Dirs /\ Out(p)' = Out(p)
  BY JobDirs DEF WInv, IInv, IsLive, At, Live, Out
<1>2. files \in [Dirs -> OnDisk]
  BY DEF WInv, IInv, TypeOK, FilesOK
<1>3. files' = [files EXCEPT ![Out(p)] = [files[Out(p)] EXCEPT ![f] = v]]
  BY DEF Put
<1>4. \A d \in Dirs \ {Out(p)} : files'[d] = files[d]
  BY <1>1, <1>2, <1>3
<1>5. files'[Out(p)] = [files[Out(p)] EXCEPT ![f] = v]
  BY <1>1, <1>2, <1>3
<1>6. files[Out(p)] \in OnDisk
  BY <1>1, <1>2
<1> QED BY <1>1, <1>4, <1>5, <1>6 DEF StepsIn, OnDisk

\* A step that leaves run.json incomplete keeps the rest.
LEMMA Unpublished ==
  ASSUME WInv, NEW p \in Procs, StepsIn(p), Out(p)' = Out(p), ProgressOf(p)',
         Out(p) \notin contested => ~Complete(files'[Out(p)]["run.json"])
  PROVE  (Alone /\ Progress /\ UncontestedRunIsWhole)'
<1>1. Out(p) \notin contested => WholeIn(Out(p))'
  BY DEF WholeIn, Complete
<1> QED BY <1>1, Elsewhere

\* The steps that write a payload or the output.
LEMMA WritingKeeps ==
  ASSUME WInv, NEW p \in Procs, OpenPayload(p) \/ WritePayload(p) \/ EngineWrites(p)
  PROVE  (Alone /\ Progress /\ UncontestedRunIsWhole)'
<1>0. /\ IsLive(p) /\ pc[p][1] \in Writing
      /\ UNCHANGED <<job, plan, output, published, contested>>
      /\ pc \in [Procs -> (Live \cup {"idle", "done", "stopped"}) \X (1..6)]
  BY DEF OpenPayload, WritePayload, EngineWrites, Ghosts, Memory, IsLive, Live, At, Writing,
         WInv, IInv, TypeOK
<1>1. /\ Out(p) \notin contested => ~Complete(files[Out(p)]["run.json"]) /\ WrittenSoFar(p)
      /\ Index(p) \in 1..6
  BY <1>0 DEF WInv, Progress, ProgressOf, Index
<1>2. CASE OpenPayload(p)
  <2> DEFINE i == Index(p)
  <2>1. /\ pc[p][1] = "open" /\ i \in 1..3
        /\ pc' = [pc EXCEPT ![p] = <<"write", i>>]
        /\ Put(Out(p), Written[i], Partial)
    BY <1>2 DEF OpenPayload, At, GotoNth, WInv, IInv, JobsAreGiven
  <2>2. pc' = [pc EXCEPT ![p] = pc'[p]] /\ pc'[p] = <<"write", i>>
    BY <1>0, <2>1
  <2>3. Written[i] \in Files \ {"run.json"}
    BY <2>1, WrittenNames
  <2> HIDE DEF i
  <2>4. /\ StepsIn(p) /\ Out(p)' = Out(p)
        /\ \A g \in Files \ {Written[i]} : files'[Out(p)][g] = files[Out(p)][g]
    BY <1>0, <2>1, <2>2, <2>3, PutsIn
  <2>5. Out(p) \notin contested => WrittenSoFar(p)'
    <3>1. \A j \in 1..3 : j < i => Written[j] \in Files \ {Written[i]}
      BY <2>1, WrittenNames
    <3>2. Out(p) \notin contested =>
            \A j \in 1..3 : j < i => files[Out(p)][Written[j]] = ContentOf(plan[p], Written[j])
      BY <1>1, <2>1 DEF WrittenSoFar, i
    <3>3. pc'[p][1] = "write" /\ Index(p)' = i
      BY <2>2 DEF Index
    <3> QED BY <1>0, <2>4, <3>1, <3>2, <3>3 DEF WrittenSoFar
  <2>6. "run.json" \in Files \ {Written[i]}
    BY <2>3, Names
  <2>7. Out(p) \notin contested => ~Complete(files'[Out(p)]["run.json"])
    BY <1>1, <2>4, <2>6 DEF Complete
  <2>8. ProgressOf(p)'
    BY <1>0, <2>2, <2>4, <2>5, <2>7 DEF ProgressOf, Complete
  <2> QED BY <2>4, <2>7, <2>8, Unpublished
<1>3. CASE WritePayload(p)
  <2> DEFINE i == Index(p)
  <2> DEFINE v == ContentOf(plan[p], Written[i])
  <2> DEFINE next == IF i < 3 THEN <<"open", i + 1>> ELSE <<"engine", 1>>
  <2>1. /\ pc[p][1] = "write" /\ i \in 1..3
        /\ pc' = [pc EXCEPT ![p] = next]
        /\ Put(Out(p), Written[i], v)
    BY <1>3, Names DEF WritePayload, At, Goto, GotoNth, WInv, IInv, JobsAreGiven
  <2>2. pc' = [pc EXCEPT ![p] = pc'[p]] /\ pc'[p] = next
    BY <1>0, <2>1
  <2>3. Written[i] \in Files \ {"run.json"}
    BY <2>1, WrittenNames
  <2> HIDE DEF i, v
  <2>4. /\ StepsIn(p) /\ Out(p)' = Out(p)
        /\ files'[Out(p)][Written[i]] = v
        /\ \A g \in Files \ {Written[i]} : files'[Out(p)][g] = files[Out(p)][g]
    BY <1>0, <2>1, <2>2, <2>3, PutsIn
  <2>5. Out(p) \notin contested => WrittenSoFar(p)'
    <3>1. \A j \in 1..3 : j # i => Written[j] \in Files \ {Written[i]}
      BY <2>1, WrittenNames
    <3>2. Out(p) \notin contested =>
            \A j \in 1..3 : j < i => files[Out(p)][Written[j]] = ContentOf(plan[p], Written[j])
      BY <1>1, <2>1 DEF WrittenSoFar, i
    <3>3. \A j \in 1..3 : (pc'[p][1] \in {"open", "write"} => j < Index(p)') => j < i \/ j = i
      BY <2>1, <2>2 DEF Index
    <3> QED BY <1>0, <2>4, <3>1, <3>2, <3>3 DEF WrittenSoFar, v
  <2>6. "run.json" \in Files \ {Written[i]}
    BY <2>3, Names
  <2>7. Out(p) \notin contested => ~Complete(files'[Out(p)]["run.json"])
    BY <1>1, <2>4, <2>6 DEF Complete
  <2>8. pc'[p][1] \in {"open", "engine"}
    BY <2>2
  <2>9. ProgressOf(p)'
    BY <1>0, <2>8, <2>4, <2>5, <2>7 DEF ProgressOf, Complete
  <2> QED BY <2>4, <2>7, <2>9, Unpublished
<1>4. CASE EngineWrites(p)
  <2> DEFINE f == "generated_datasets.ndjson"
  <2>1. PICK v : \E step \in {"writeOutput", "verify"} : Put(Out(p), f, v) /\ Goto(p, step)
    BY <1>4 DEF EngineWrites
  <2>2. /\ pc' = [pc EXCEPT ![p] = pc'[p]] /\ pc'[p][1] \in {"writeOutput", "verify"}
        /\ pc[p][1] \in {"openOutput", "writeOutput"}
    BY <1>0, <1>4, <2>1 DEF Goto, EngineWrites, At
  <2>3. f \in Files /\ "run.json" \in Files \ {f}
    BY Names
  <2> HIDE DEF f
  <2>4. /\ StepsIn(p) /\ Out(p)' = Out(p)
        /\ \A g \in Files \ {f} : files'[Out(p)][g] = files[Out(p)][g]
    BY <1>0, <2>1, <2>2, <2>3, PutsIn
  <2>5. Out(p) \notin contested => WrittenSoFar(p)'
    <3>1. \A j \in 1..3 : Written[j] \in Files \ {f}
      BY WrittenNames DEF f
    <3>2. Out(p) \notin contested =>
            \A j \in 1..3 : files[Out(p)][Written[j]] = ContentOf(plan[p], Written[j])
      BY <1>1, <2>2 DEF WrittenSoFar
    <3> QED BY <1>0, <2>4, <3>1, <3>2 DEF WrittenSoFar
  <2>6. Out(p) \notin contested => ~Complete(files'[Out(p)]["run.json"])
    BY <1>1, <2>3, <2>4 DEF Complete
  <2>7. ProgressOf(p)'
    BY <1>0, <2>1, <2>2, <2>4, <2>5, <2>6 DEF ProgressOf, Complete
  <2> QED BY <2>4, <2>6, <2>7, Unpublished
<1> QED BY <1>2, <1>3, <1>4

\* run.json is opened by the one command whose payloads are all there.
LEMMA OpenRunKeeps ==
  ASSUME WInv, NEW p \in Procs, OpenRun(p)
  PROVE  (Alone /\ Progress /\ UncontestedRunIsWhole)'
<1>0. /\ IsLive(p) /\ pc[p][1] = "openRun"
      /\ UNCHANGED <<job, plan, output, published, contested>>
      /\ pc \in [Procs -> (Live \cup {"idle", "done", "stopped"}) \X (1..6)]
  BY DEF OpenRun, Ghosts, Memory, IsLive, Live, At, WInv, IInv, TypeOK
<1>1. Out(p) \in Dirs /\ Out(p)' = Out(p)
  BY <1>0, JobDirs DEF WInv, IInv, At, Out
<1>2. CASE files[Out(p)]["run.json"] = Absent
  <2>1. Put(Out(p), "run.json", Partial) /\ pc' = [pc EXCEPT ![p] = <<"writeRun", 1>>]
    BY <1>2 DEF OpenRun, Goto
  <2>2. pc' = [pc EXCEPT ![p] = pc'[p]] /\ pc'[p] = <<"writeRun", 1>>
    BY <1>0, <2>1
  <2>3. /\ StepsIn(p) /\ files'[Out(p)]["run.json"] = Partial
        /\ \A g \in Files \ {"run.json"} : files'[Out(p)][g] = files[Out(p)][g]
    <3>1. "run.json" \in Files
      BY Names
    <3> QED BY <1>0, <2>1, <2>2, <3>1, PutsIn
  <2>4. Out(p) \notin contested =>
          /\ WrittenSoFar(p)
          /\ files[Out(p)]["generated_datasets.ndjson"] = output[p]
    BY <1>0 DEF WInv, Progress, ProgressOf, Writing
  <2>5. "generated_datasets.ndjson" \in Files \ {"run.json"}
    BY Names
  <2>6. Out(p) \notin contested => WrittenSoFar(p)'
    BY <1>0, <1>1, <2>3, <2>4, WrittenNames DEF WrittenSoFar
  <2>7. ~Complete(files'[Out(p)]["run.json"])
    BY <2>3 DEF Complete
  <2>8. ProgressOf(p)'
    BY <1>0, <1>1, <2>3, <2>4, <2>5, <2>6, <2>7 DEF ProgressOf, Complete
  <2> QED BY <1>1, <2>3, <2>7, <2>8, Unpublished
<1>3. CASE files[Out(p)]["run.json"] # Absent
  <2>1. files' = files /\ pc' = [pc EXCEPT ![p] = <<"stopped", 1>>]
    BY <1>3 DEF OpenRun, Goto
  <2>2. pc' = [pc EXCEPT ![p] = pc'[p]] /\ pc'[p] = <<"stopped", 1>>
    BY <1>0, <2>1
  <2>3. StepsIn(p) /\ ProgressOf(p)'
    BY <1>0, <2>1, <2>2 DEF StepsIn, ProgressOf, Writing
  <2> QED BY <1>0, <1>1, <2>1, <2>3, Elsewhere, StillWhole
<1> QED BY <1>2, <1>3

\* The publication: run.json gets the digests of what is there.
LEMMA WriteRunKeeps ==
  ASSUME WInv, NEW p \in Procs, WriteRun(p)
  PROVE  (Alone /\ Progress /\ UncontestedRunIsWhole)'
<1> DEFINE digests == Digests(p)
<1>0. /\ IsLive(p) /\ pc[p][1] = "writeRun"
      /\ UNCHANGED <<job, plan, output, contested>>
      /\ Put(Out(p), "run.json", digests)
      /\ published' = [published EXCEPT ![Out(p)] = plan[p]]
      /\ pc \in [Procs -> (Live \cup {"idle", "done", "stopped"}) \X (1..6)]
      /\ published \in [Dirs -> PlanType \cup {None}]
  BY DEF WriteRun, Memory, IsLive, Live, At, WInv, IInv, TypeOK
<1>1. Out(p) \in Dirs /\ Out(p)' = Out(p)
  BY <1>0, JobDirs DEF WInv, IInv, At, Out
<1>2. published'[Out(p)] = plan[p] /\ \A d \in Dirs \ {Out(p)} : published'[d] = published[d]
  BY <1>0, <1>1
<1>3. pc' = [pc EXCEPT ![p] = pc'[p]] /\ pc'[p][1] \in {"reload", "done"}
  BY <1>0 DEF WriteRun, Goto
<1>4. Out(p) \notin contested =>
        /\ WrittenSoFar(p)
        /\ files[Out(p)]["generated_datasets.ndjson"] = output[p]
  BY <1>0 DEF WInv, Progress, ProgressOf, Writing
<1>5. OutputMatches(plan[p], output[p])
  BY <1>0 DEF WInv, IInv, OutputsAreVerified
<1>6. Out(p) \notin contested => \A f \in Files \ {"run.json"} : files[Out(p)][f] = digests[f]
  <2>1. SUFFICES ASSUME Out(p) \notin contested, NEW f \in Files \ {"run.json"}
                 PROVE  files[Out(p)][f] = digests[f]
    OBVIOUS
  <2>2. CASE f = "generated_datasets.ndjson"
    BY <1>4, <2>1, <2>2 DEF Digests
  <2>3. CASE f # "generated_datasets.ndjson"
    <3>1. \E i \in 1..3 : f = Written[i]
      <4>1. f = Written[1] \/ f = Written[2] \/ f = Written[3]
        BY <2>3, Names
      <4> QED BY <4>1
    <3>2. files[Out(p)][f] = ContentOf(plan[p], f)
      BY <1>0, <1>4, <2>1, <3>1 DEF WrittenSoFar
    <3> QED BY <2>3, <3>2 DEF Digests
  <2> QED BY <2>2, <2>3
<1> HIDE DEF digests
<1>7. /\ StepsIn(p) /\ files'[Out(p)]["run.json"] = digests
      /\ \A g \in Files \ {"run.json"} : files'[Out(p)][g] = files[Out(p)][g]
  <2>1. "run.json" \in Files
    BY Names
  <2> QED BY <1>0, <1>2, <1>3, <2>1, PutsIn
<1>8. ProgressOf(p)'
  BY <1>3 DEF ProgressOf, Writing
<1>9. Out(p) \notin contested => WholeIn(Out(p))'
  <2>1. "generated_datasets.ndjson" \in Files \ {"run.json"}
    BY Names
  <2> QED BY <1>1, <1>2, <1>4, <1>5, <1>6, <1>7, <2>1 DEF WholeIn, OutputMatches
<1> QED BY <1>7, <1>8, <1>9, Elsewhere

-----------------------------------------------------------------------------
\* A command that is started where another is live makes its directory contested.
LEMMA StartKeeps ==
  ASSUME WInv, NEW p \in Procs, NEW j \in Jobs, Start(p, j)
  PROVE  (Alone /\ Progress /\ UncontestedRunIsWhole)'
<1>0. /\ UNCHANGED <<files, plan, output, published>>
      /\ contested \subseteq contested' /\ contested' \subseteq contested \cup {j.dir}
      /\ pc[p][1] = "idle"
      /\ \A q \in Procs \ {p} : pc'[q] = pc[q] /\ job'[q] = job[q]
      /\ pc'[p][1] \in {"load", "plan"}
      /\ Out(p)' = j.dir
      /\ (\E q \in Procs : IsLive(q) /\ Out(q) = j.dir) => j.dir \in contested'
  BY DEF Start, At, Goto, Out, WInv, IInv, TypeOK
<1>1. \A q \in Procs \ {p} : Out(q)' = Out(q) /\ (IsLive(q)' <=> IsLive(q)) /\ Index(q)' = Index(q)
  BY <1>0 DEF Out, IsLive, Index
<1>2. Alone'
  <2>1. SUFFICES ASSUME NEW q \in Procs, NEW r \in Procs, IsLive(q)', IsLive(r)',
                        Out(q)' = Out(r)', Out(q)' \notin contested'
                 PROVE  q = r
    BY DEF Alone
  <2>2. CASE q # p /\ r # p
    BY <1>0, <1>1, <2>1, <2>2 DEF Alone, WInv
  <2>3. CASE q = p /\ r # p
    BY <1>0, <1>1, <2>1, <2>3
  <2>4. CASE q # p /\ r = p
    BY <1>0, <1>1, <2>1, <2>4
  <2> QED BY <2>2, <2>3, <2>4
<1>3. Progress'
  <2>1. ASSUME NEW q \in Procs \ {p} PROVE ProgressOf(q)'
    BY <1>0, <1>1, <2>1 DEF WInv, Progress, ProgressOf, WrittenSoFar, Complete
  <2>2. ProgressOf(p)'
    BY <1>0 DEF ProgressOf, Writing
  <2> QED BY <2>1, <2>2 DEF Progress
<1>4. UncontestedRunIsWhole'
  BY <1>0 DEF WInv, UncontestedRunIsWhole, Complete, OutputMatches
<1> QED BY <1>2, <1>3, <1>4

\* The initial states satisfy the invariant.
LEMMA InitWInv == Init => WInv
<1> SUFFICES ASSUME Init PROVE WInv
  OBVIOUS
<1>1. \A p \in Procs : pc[p][1] = "idle"
  BY DEF Init
<1>2. \A d \in Dirs : files[d]["run.json"] = Absent
  BY Names DEF Init, NoFiles
<1>3. Alone /\ Progress
  BY <1>1 DEF Alone, Progress, ProgressOf, IsLive, Live, Writing
<1>4. UncontestedRunIsWhole
  BY <1>2 DEF UncontestedRunIsWhole, Complete
<1> QED BY <1>3, <1>4, InitIInv DEF WInv

\* Every step keeps the invariant.
LEMMA NextWInv == WInv /\ [Next]_vars => WInv'
<1> SUFFICES ASSUME WInv, [Next]_vars PROVE WInv'
  OBVIOUS
<1>1. IInv'
  BY NextIInv DEF WInv
<1>2. CASE UNCHANGED vars
  <2>1. (Alone /\ Progress /\ UncontestedRunIsWhole)'
    BY <1>2 DEF vars, WInv, Alone, Progress, ProgressOf, WrittenSoFar, UncontestedRunIsWhole,
                IsLive, Out, Index, Complete, OutputMatches
  <2> QED BY <1>1, <2>1 DEF WInv
<1>3. ASSUME NEW p \in Procs, Generate(p) \/ Load(p) \/ Stop(p) \/ \E j \in Jobs : Start(p, j)
      PROVE  WInv'
  BY <1>1, <1>3, ReadingKeeps, WritingKeeps, OpenRunKeeps, WriteRunKeeps, StartKeeps
     DEF Generate, Load, WInv
<1> QED BY <1>2, <1>3 DEF Next

-----------------------------------------------------------------------------
\* The inductive invariant holds of every reachable state.
THEOREM WholeInvariance == Spec => []WInv
BY InitWInv, NextWInv, PTL DEF Spec

\* A run in a directory no two live commands ever shared is whole from the
\* moment its run.json is there, wherever commands are killed.
THEOREM UncontestedRunsAreWhole == Spec => []UncontestedRunIsWhole
<1>1. WInv => UncontestedRunIsWhole
  BY DEF WInv
<1> QED BY <1>1, WholeInvariance, PTL
=============================================================================
