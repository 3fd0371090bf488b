------------------------------- MODULE EngineRun -------------------------------
(***************************************************************************)
(* BrowserRuntime.run of playground/site/src/runtime/browser-runtime.mjs   *)
(* over verbs.mjs and WorkerEngine.execute: one run samples its chains in  *)
(* workers of their own under one linked signal, or takes single workers   *)
(* in turn, and settles once, as OneShot promises.                         *)
(*                                                                         *)
(* A message of a worker, an abort and the end of a digest are the tasks   *)
(* of the page's event loop.  What their promises trigger runs before the  *)
(* next task, so it belongs to the same step: the last answer of a group   *)
(* merges the chains and starts the diagnosis, a failed chain ends its     *)
(* siblings and the run.  "started" and "batch" messages and those with a  *)
(* foreign id change nothing here; validity and size checks are the choice *)
(* between an answer and a failure.                                        *)
(***************************************************************************)
EXTENDS Naturals

CONSTANTS
  Runs,     \* the runs made, each with its own signal
  Chains,   \* the sampling chains of a run
  Solo      \* names the one worker of a verb other than sample

ASSUME ChainsAssumption == Chains # {} /\ Solo \notin Chains

VARIABLE run

Operations == {"condition", "sample", "generate", "diagnose", "recover-check"}
Awaits == {"hashing", "verifying", "serializing", "sealing"}
SoloPhases == {"generating", "diagnosing", "recovering"}
Phases == {"idle", "sampling", "resolved", "rejected"} \cup Awaits \cup SoloPhases

Records ==
  [phase : Phases,
   op : Operations,
   paired : BOOLEAN,      \* request.pairedParameters is given
   issued : BOOLEAN,      \* posteriorAssociation = "runtime": nothing to publish
   workers : SUBSET (Chains \cup {Solo}),   \* workers that run, their onAbort registered
   answered : SUBSET Chains,                \* chains whose execute has resolved
   linked : BOOLEAN,      \* the group's listener is on the run's signal
   aborted : BOOLEAN,     \* signal.aborted
   notice : BOOLEAN,      \* warnings is not empty
   artifacts : SUBSET {"posterior", "diagnostics", "recovery_check", "generated", "run"}]

Idle ==
  [phase |-> "idle", op |-> "sample", paired |-> FALSE, issued |-> FALSE,
   workers |-> {}, answered |-> {}, linked |-> FALSE, aborted |-> FALSE,
   notice |-> FALSE, artifacts |-> {}]

Settled(r) == r.phase \in {"resolved", "rejected"}
Pending(r) == r.phase # "idle" /\ ~Settled(r)

(***************************************************************************)
(* Settling.                                                               *)
(***************************************************************************)
Publish(r, name) == [r EXCEPT !.artifacts = @ \cup {name}]
Resolve(r) == [r EXCEPT !.phase = "resolved"]
Reject(r) == [r EXCEPT !.phase = "rejected"]

\* dispose of WorkerEngine.execute.
Terminate(r, gone) == [r EXCEPT !.workers = @ \ gone]

\* catch and finally of sample: the group is aborted, then unlinked.
\* Mutant: the failure is thrown without aborting the group.
GroupFailedAlone(r) == Reject([r EXCEPT !.linked = FALSE])
GroupFailed(r) == Reject([Terminate(r, Chains) EXCEPT !.linked = FALSE])

(***************************************************************************)
(* The verbs with one worker.  A worker whose signal is already aborted is *)
(* terminated before it is sent anything; one that cannot be created or    *)
(* sent to has the effect of SoloFailure.                                  *)
(***************************************************************************)
Execute(r, phase) ==
  IF r.aborted THEN Reject(r)
  ELSE [r EXCEPT !.phase = phase, !.workers = @ \cup {Solo}]

\* #condition after the diagnosis: the recovery check, when it is paired.
Recover(r) == IF r.paired THEN Execute(r, "recovering") ELSE Resolve(r)

\* One follow-up of #condition failed: a warning, unless it was cancelled.
\* Mutants: any failure is thrown; any failure is a warning.
FollowUpThrows(r, next) == Reject(r)
FollowUpAlwaysWarns(r, next) == next
FollowUpFailed(r, next) == IF r.aborted THEN Reject(r) ELSE next

SoloAnswered(r) ==
  LET q == Terminate(r, {Solo})
      named == IF r.phase = "diagnosing" THEN "diagnostics" ELSE "recovery_check"
  IN CASE r.phase = "generating" -> [q EXCEPT !.phase = "verifying"]
       [] r.phase = "diagnosing" /\ r.op = "condition" -> Recover(Publish(q, named))
       [] OTHER -> Resolve(Publish(q, named))

SoloFailed(r) ==
  LET q == Terminate(r, {Solo})
      warned == [q EXCEPT !.notice = TRUE]
  IN IF r.op # "condition" THEN Reject(q)
     ELSE FollowUpFailed(q, IF r.phase = "diagnosing" THEN Recover(warned) ELSE Resolve(warned))

(***************************************************************************)
(* sample: Promise.all over the chains.                                    *)
(***************************************************************************)
Sampled(r) ==
  LET q == Publish([r EXCEPT !.linked = FALSE], "posterior")
  IN IF r.op = "condition" THEN Execute(q, "diagnosing") ELSE Resolve(q)

\* Mutant: the first chain that answers is enough.
ChainAnsweredRace(r, k) == Sampled([Terminate(r, {k}) EXCEPT !.answered = @ \cup {k}])
ChainAnswered(r, k) ==
  LET q == [Terminate(r, {k}) EXCEPT !.answered = @ \cup {k}]
  IN IF q.answered = Chains THEN Sampled(q) ELSE q

(***************************************************************************)
(* Steps.                                                                  *)
(***************************************************************************)
Become(x, r) == run' = [run EXCEPT ![x] = r]

Init == run = [x \in Runs |-> Idle]

\* The signal is already aborted, or the request is invalid or unsupported.
Refuse(x) ==
  /\ run[x].phase = "idle"
  /\ \E op \in Operations : Become(x, Reject([run[x] EXCEPT !.op = op]))

\* The factory throws after some chains have their worker.
RefuseChain(x) ==
  /\ run[x].phase = "idle" /\ ~run[x].aborted
  /\ \E op \in {"condition", "sample"}, begun \in SUBSET Chains :
       /\ begun # Chains
       /\ Become(x, GroupFailed([run[x] EXCEPT !.op = op, !.workers = begun]))

\* Mutant: the group does not listen to the run's signal.
SampleUnlinked(x) ==
  /\ run[x].phase = "idle" /\ ~run[x].aborted
  /\ \E op \in {"condition", "sample"}, paired \in BOOLEAN :
       Become(x, [run[x] EXCEPT !.phase = "sampling", !.op = op, !.paired = paired,
                                !.workers = Chains])
Sample(x) ==
  /\ run[x].phase = "idle" /\ ~run[x].aborted
  /\ \E op \in {"condition", "sample"}, paired \in BOOLEAN :
       Become(x, [run[x] EXCEPT !.phase = "sampling", !.op = op, !.paired = paired,
                                !.workers = Chains, !.linked = TRUE])

Inspect(x) ==
  /\ run[x].phase = "idle" /\ ~run[x].aborted
  /\ \/ Become(x, Execute([run[x] EXCEPT !.op = "diagnose"], "diagnosing"))
     \/ Become(x, Execute([run[x] EXCEPT !.op = "recover-check"], "recovering"))

Generate(x) ==
  /\ run[x].phase = "idle" /\ ~run[x].aborted
  /\ \E issued \in BOOLEAN :
       Become(x, [run[x] EXCEPT !.phase = "hashing", !.op = "generate", !.issued = issued])

\* Messages of the workers: a result that is well-formed and within the
\* limits, or anything else that ends an execution.
ChainResult(x) ==
  \E k \in run[x].workers \cap Chains : Become(x, ChainAnswered(run[x], k))
ChainFailure(x) ==
  /\ run[x].workers \cap Chains # {}
  /\ Become(x, GroupFailed(run[x]))
SoloResult(x) == Solo \in run[x].workers /\ Become(x, SoloAnswered(run[x]))
SoloFailure(x) == Solo \in run[x].workers /\ Become(x, SoloFailed(run[x]))

\* The last answer of a group: the aggregate is too large, or cannot be merged.
Unmergeable(x) ==
  /\ \E k \in Chains : run[x].workers = {k}
  /\ Become(x, Reject([Terminate(run[x], Chains) EXCEPT !.linked = FALSE, !.answered = Chains]))

\* The output of the generation cannot be parsed.
Unparsable(x) ==
  run[x].phase = "generating" /\ Become(x, Reject(Terminate(run[x], {Solo})))

\* What follows each await of #generate once its digests are there.
Continued(r) ==
  CASE r.phase = "hashing" -> Execute(r, "generating")
    [] r.phase = "verifying" /\ r.issued -> Resolve(Publish(r, "generated"))
    [] r.phase = "verifying" /\ ~r.issued -> [Publish(r, "generated") EXCEPT !.phase = "serializing"]
    [] r.phase = "serializing" -> [r EXCEPT !.phase = "sealing"]
    [] OTHER -> Resolve(Publish(r, "run"))

\* Mutant: requireNotCancelled is called before the await instead of after it.
AwaitedUnchecked(x) ==
  /\ run[x].phase \in Awaits
  /\ Become(x, Continued(run[x])) \/ Become(x, Reject(run[x]))
Awaited(x) ==
  /\ run[x].phase \in Awaits
  /\ \/ ~run[x].aborted /\ Become(x, Continued(run[x]))
     \/ Become(x, Reject(run[x]))   \* aborted, or the step itself throws

\* The signal aborts: every registered onAbort fails its execution.
Cancelled(r) ==
  LET q == [r EXCEPT !.aborted = TRUE]
  IN CASE r.linked -> GroupFailed(q)
       [] Solo \in r.workers -> SoloFailed(q)
       [] OTHER -> q
Abort(x) == ~run[x].aborted /\ Become(x, Cancelled(run[x]))

Step(x) ==
  \/ Refuse(x) \/ RefuseChain(x) \/ Sample(x) \/ Inspect(x) \/ Generate(x)
  \/ ChainResult(x) \/ ChainFailure(x) \/ Unmergeable(x)
  \/ SoloResult(x) \/ SoloFailure(x) \/ Unparsable(x)
  \/ Awaited(x) \/ Abort(x)

Next == \E x \in Runs : Step(x)

Spec == Init /\ [][Next]_run

\* A digest of the page settles.  Nothing is assumed of the workers: they
\* have no timeout, and a run that is not cancelled may wait for one forever.
FairSpec == Spec /\ \A x \in Runs : WF_run(Awaited(x))

(***************************************************************************)
(* Properties.                                                             *)
(***************************************************************************)
\* Every run keeps its shape, and its phase tells which workers it has: the
\* chains that have not answered while it samples, one worker in the verbs of
\* one worker, none in between.
TypeOK ==
  /\ run \in [Runs -> Records]
  /\ \A x \in Runs :
       LET r == run[x] IN
         CASE r.phase = "sampling" -> r.workers = Chains \ r.answered /\ r.workers # {}
           [] r.phase \in SoloPhases -> r.workers = {Solo}
           [] OTHER -> r.workers = {}

\* A run that has settled or was cancelled has no worker, whether it succeeded,
\* one chain failed while its siblings ran, a worker could not be created or
\* the signal fell between two of its steps; a settled one listens to nothing.
NothingOutlivesIt ==
  \A x \in Runs :
    /\ Settled(run[x]) \/ run[x].aborted => run[x].workers = {}
    /\ Settled(run[x]) => ~run[x].linked

\* There is no partial fit: a posterior exists only when every chain of the
\* run has answered, and a conditioning that resolves has it, with each
\* follow-up present or explained by a notice.  Nor is one lost: a run that has
\* its posterior is rejected only when it was cancelled, never by a diagnosis or
\* a recovery check that failed.
FitIsWhole ==
  \A x \in Runs :
    LET r == run[x] IN
      /\ "posterior" \in r.artifacts => r.answered = Chains
      /\ r.phase = "resolved" /\ r.op = "condition" =>
           /\ "posterior" \in r.artifacts
           /\ "diagnostics" \notin r.artifacts => r.notice
           /\ r.paired /\ "recovery_check" \notin r.artifacts => r.notice
      /\ r.phase = "rejected" /\ "posterior" \in r.artifacts => r.aborted

\* The runs behave as OneShot promises.  A run that hashes its plan has no
\* worker yet, one that verifies and seals has none any more, and in between
\* the workers of one run are one worker to its caller: the last chain hands
\* over to the diagnosis in one step.  So a run settles once and without a
\* worker, and a cancelled one does not resolve: not when the signal falls in
\* an await of #generate, where no listener is registered, and not as a
\* partial success whose follow-up failed because it was cancelled.
Outcome(r) ==
  CASE r.phase = "idle" -> "none"
    [] r.phase = "hashing" -> "preparing"
    [] Settled(r) -> r.phase
    [] OTHER -> "pending"
Outcomes == [x \in Runs |-> Outcome(run[x])]
Alive == {x \in Runs : run[x].workers # {}}
Aborted == {x \in Runs : run[x].aborted}
Abstract == INSTANCE OneShot WITH
              Calls <- Runs, outcome <- Outcomes, alive <- Alive, cancelled <- Aborted
SettlesOnce == Abstract!Spec

\* A cancelled run settles without waiting for any worker.
CancelledRunSettles ==
  \A x \in Runs : Pending(run[x]) /\ run[x].aborted ~> Settled(run[x])

=============================================================================
