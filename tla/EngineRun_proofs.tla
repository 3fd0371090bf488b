--------------------------- MODULE EngineRun_proofs ---------------------------
(***************************************************************************)
(* Proofs about EngineRun, for every set of runs and of chains.            *)
(*                                                                         *)
(* The runs do not touch each other, so the invariant is one predicate     *)
(* Good on a record, true of every run.  Between is what the functions of  *)
(* the verbs find when they are called in the middle of a handler: the     *)
(* worker that answered or failed is gone, and the next phase is not       *)
(* entered yet.                                                            *)
(***************************************************************************)
EXTENDS EngineRun, TLAPS

SampleVerbs == {"condition", "sample"}

\* A posterior is of all chains, and of a verb that samples.
PosteriorIsWhole(r) ==
  "posterior" \in r.artifacts => r.answered = Chains /\ r.op \in SampleVerbs

\* Which verbs a phase with one worker belongs to.
BelongsTo(phase, op) ==
  CASE phase = "generating" -> op = "generate"
    [] phase = "diagnosing" -> op \in {"condition", "diagnose"}
    [] OTHER -> op \in {"condition", "recover-check"}

Explained(r, name) == name \in r.artifacts \/ r.notice

\* What a conditioning has when it enters a phase with one worker.
FollowsUp(r, phase) ==
  r.op = "condition" =>
    /\ "posterior" \in r.artifacts
    /\ phase = "recovering" => Explained(r, "diagnostics")

\* What it has when it resolves.
Whole(r) ==
  r.op = "condition" =>
    /\ "posterior" \in r.artifacts
    /\ Explained(r, "diagnostics")
    /\ r.paired => Explained(r, "recovery_check")

Between(r) ==
  /\ r \in Records
  /\ PosteriorIsWhole(r)
  /\ r.workers = {} /\ ~r.linked

Good(r) ==
  /\ r \in Records
  /\ PosteriorIsWhole(r)
  /\ r.phase = "sampling" =>
       /\ r.workers = Chains \ r.answered /\ r.workers # {}
       /\ r.linked /\ ~r.aborted
       /\ r.op \in SampleVerbs /\ r.artifacts = {}
  /\ r.phase \in SoloPhases =>
       /\ r.workers = {Solo} /\ ~r.linked /\ ~r.aborted
       /\ BelongsTo(r.phase, r.op) /\ FollowsUp(r, r.phase)
  /\ r.phase \notin SoloPhases \cup {"sampling"} => r.workers = {} /\ ~r.linked
  /\ r.phase \in Awaits => r.op = "generate"
  /\ r.phase = "idle" => r.artifacts = {} /\ r.answered = {}
  /\ r.phase = "resolved" => Whole(r)
  /\ r.phase = "rejected" /\ "posterior" \in r.artifacts => r.aborted

IInv == run \in [Runs -> Records] /\ \A x \in Runs : Good(run[x])

(***************************************************************************)
(* The functions of the verbs.                                             *)
(***************************************************************************)
\* A rejection is good where there is no posterior to lose, or the run was
\* cancelled.
LEMMA RejectGood ==
  ASSUME NEW r, Between(r), "posterior" \notin r.artifacts \/ r.aborted
  PROVE  Good(Reject(r)) /\ Reject(r).phase = "rejected"
BY DEF Between, Good, Reject, Records, PosteriorIsWhole, Phases, Awaits, SoloPhases

\* So is a resolution of a whole run.
LEMMA ResolveGood ==
  ASSUME NEW r, Between(r), Whole(r)
  PROVE  Good(Resolve(r)) /\ Resolve(r).aborted = r.aborted
BY DEF Between, Good, Resolve, Records, PosteriorIsWhole, Whole, Explained, Phases, Awaits, SoloPhases

\* execute starts one worker, or rejects when the run was cancelled.
LEMMA ExecuteGood ==
  ASSUME NEW r, Between(r), NEW phase \in SoloPhases,
         BelongsTo(phase, r.op), FollowsUp(r, phase)
  PROVE  Good(Execute(r, phase)) /\ Execute(r, phase).phase # "resolved"
<1>1. CASE r.aborted
  BY <1>1, RejectGood DEF Execute
<1>2. CASE ~r.aborted
  <2> DEFINE q == [r EXCEPT !.phase = phase, !.workers = @ \cup {Solo}]
  <2>1. Execute(r, phase) = q
    BY <1>2 DEF Execute
  <2>2. /\ q \in Records
        /\ q.phase = phase /\ q.workers = {Solo}
        /\ \A f \in {"op", "paired", "answered", "linked", "aborted", "notice", "artifacts"} : q[f] = r[f]
    BY DEF Between, Records, Phases, SoloPhases
  <2>3. Good(q)
    BY <1>2, <2>2 DEF Between, Good, PosteriorIsWhole, BelongsTo, FollowsUp, Explained, Awaits, SoloPhases
  <2> QED BY <2>1, <2>2, <2>3 DEF SoloPhases
<1> QED BY <1>1, <1>2 DEF Between, Records

\* #condition goes on after its diagnosis, made or explained by a notice.
LEMMA RecoverGood ==
  ASSUME NEW r, Between(r), r.op = "condition", "posterior" \in r.artifacts,
         Explained(r, "diagnostics"), ~r.aborted
  PROVE  Good(Recover(r)) /\ (Recover(r).phase = "resolved" => ~Recover(r).aborted)
<1>1. CASE r.paired
  <2>1. BelongsTo("recovering", r.op) /\ FollowsUp(r, "recovering") /\ "recovering" \in SoloPhases
    BY DEF BelongsTo, FollowsUp, SoloPhases
  <2> QED BY <1>1, <2>1, ExecuteGood DEF Recover
<1>2. CASE ~r.paired
  <2>1. Whole(r)
    BY <1>2 DEF Whole
  <2> QED BY <1>2, <2>1, ResolveGood DEF Recover
<1> QED BY <1>1, <1>2

(***************************************************************************)
(* The end of a worker, in a phase with one worker.                        *)
(***************************************************************************)
\* What is left when the worker has been terminated, whatever is published
\* or noted of it.
LEMMA SoloLeaves ==
  ASSUME NEW r, Good(r), r.phase \in SoloPhases
  PROVE  /\ Between(Terminate(r, {Solo}))
         /\ Between([Terminate(r, {Solo}) EXCEPT !.notice = TRUE])
         /\ \A name \in {"diagnostics", "recovery_check"} :
              Between(Publish(Terminate(r, {Solo}), name))
BY DEF Good, Between, Terminate, Publish, Records, PosteriorIsWhole

\* A result of the worker.
LEMMA SoloAnsweredGood ==
  ASSUME NEW r, Good(r), r.phase \in SoloPhases
  PROVE  Good(SoloAnswered(r)) /\ (SoloAnswered(r).phase = "resolved" => ~SoloAnswered(r).aborted)
<1> DEFINE q == Terminate(r, {Solo})
           named == IF r.phase = "diagnosing" THEN "diagnostics" ELSE "recovery_check"
           p == Publish(q, named)
<1>1. Between(q) /\ Between(p)
  BY SoloLeaves
<1>2. /\ p.op = r.op /\ p.paired = r.paired /\ ~p.aborted
      /\ p.artifacts = r.artifacts \cup {named} /\ p.notice = r.notice
      /\ BelongsTo(r.phase, r.op) /\ FollowsUp(r, r.phase)
  BY DEF Good, Terminate, Publish, Records
<1>3. CASE r.phase = "generating"
  <2> DEFINE v == [q EXCEPT !.phase = "verifying"]
  <2>1. SoloAnswered(r) = v
    BY <1>3 DEF SoloAnswered
  <2>2. q.op = "generate" /\ ~q.aborted
    BY <1>2, <1>3 DEF BelongsTo, Terminate, Good, Records
  <2>3. Good(v) /\ v.phase = "verifying"
    BY <1>1, <2>2 DEF Between, Good, Records, PosteriorIsWhole, Phases, Awaits, SoloPhases
  <2> QED BY <2>1, <2>3
<1>4. CASE r.phase = "diagnosing" /\ r.op = "condition"
  <2>1. SoloAnswered(r) = Recover(p)
    BY <1>4 DEF SoloAnswered
  <2>2. "posterior" \in p.artifacts /\ Explained(p, "diagnostics") /\ p.op = "condition"
    BY <1>2, <1>4 DEF FollowsUp, Explained
  <2> HIDE DEF p
  <2> QED BY <1>1, <1>2, <2>1, <2>2, RecoverGood
<1>5. CASE r.phase # "generating" /\ ~(r.phase = "diagnosing" /\ r.op = "condition")
  <2>1. SoloAnswered(r) = Resolve(p)
    BY <1>5 DEF SoloAnswered
  <2>2. Whole(p)
    BY <1>2, <1>5 DEF Whole, Explained, FollowsUp, BelongsTo, SoloPhases
  <2> HIDE DEF p
  <2> QED BY <1>1, <1>2, <2>1, <2>2, ResolveGood
<1> QED BY <1>3, <1>4, <1>5

\* Its failure; the run may have been cancelled a moment ago, and then a
\* failure is not a warning.
LEMMA SoloFailedGood ==
  ASSUME NEW r, Good(r), r.phase \in SoloPhases, NEW c \in {r, [r EXCEPT !.aborted = TRUE]}
  PROVE  Good(SoloFailed(c)) /\ (SoloFailed(c).phase = "resolved" => ~SoloFailed(c).aborted)
<1> DEFINE q == Terminate(c, {Solo})
           warned == [q EXCEPT !.notice = TRUE]
<1>1. /\ Between(q) /\ Between(warned)
      /\ c.phase = r.phase /\ c.op = r.op
      /\ q.aborted = c.aborted /\ q.op = r.op /\ q.artifacts = r.artifacts
      /\ warned.aborted = c.aborted /\ warned.op = r.op /\ warned.paired = r.paired
      /\ warned.artifacts = r.artifacts /\ warned.notice
  BY DEF Good, Between, Terminate, Records, PosteriorIsWhole
<1>2. BelongsTo(r.phase, r.op) /\ FollowsUp(r, r.phase) /\ PosteriorIsWhole(r)
  BY DEF Good
<1>3. CASE r.op # "condition"
  <2>0. c.op # "condition"
    BY <1>1, <1>3
  <2>1. SoloFailed(c) = Reject(q)
    BY <2>0 DEF SoloFailed
  <2>2. "posterior" \notin q.artifacts
    BY <1>1, <1>2, <1>3 DEF BelongsTo, PosteriorIsWhole, SampleVerbs
  <2> HIDE DEF q
  <2> QED BY <1>1, <2>1, <2>2, RejectGood
<1>4. CASE r.op = "condition" /\ c.aborted
  <2>1. SoloFailed(c) = Reject(q)
    BY <1>1, <1>4 DEF SoloFailed, FollowUpFailed
  <2> HIDE DEF q
  <2> QED BY <1>1, <1>4, <2>1, RejectGood
<1>5. CASE r.op = "condition" /\ ~c.aborted
  <2>1. SoloFailed(c) = IF r.phase = "diagnosing" THEN Recover(warned) ELSE Resolve(warned)
    BY <1>1, <1>5 DEF SoloFailed, FollowUpFailed
  <2>2. "posterior" \in warned.artifacts /\ Explained(warned, "diagnostics") /\ Whole(warned)
    BY <1>1, <1>2, <1>5 DEF FollowsUp, Explained, Whole
  <2> HIDE DEF warned
  <2>3. Good(Recover(warned)) /\ (Recover(warned).phase = "resolved" => ~Recover(warned).aborted)
    BY <1>1, <1>5, <2>2, RecoverGood
  <2>4. Good(Resolve(warned)) /\ ~Resolve(warned).aborted
    BY <1>1, <1>5, <2>2, ResolveGood
  <2> QED BY <2>1, <2>3, <2>4
<1> QED BY <1>3, <1>4, <1>5

(***************************************************************************)
(* The end of a chain.                                                     *)
(***************************************************************************)
\* A group that fails is gone, with its listener and without a posterior.
LEMMA GroupFailedGood ==
  ASSUME NEW r, r \in Records, r.workers \subseteq Chains, r.artifacts = {}
  PROVE  Good(GroupFailed(r)) /\ GroupFailed(r).phase = "rejected"
<1> DEFINE q == [Terminate(r, Chains) EXCEPT !.linked = FALSE]
<1>1. Between(q) /\ q.artifacts = {}
  BY DEF Terminate, Between, Records, PosteriorIsWhole
<1>2. GroupFailed(r) = Reject(q)
  BY DEF GroupFailed
<1> HIDE DEF q
<1> QED BY <1>1, <1>2, RejectGood

\* The answer of a chain, the last one of its group or not.
LEMMA ChainAnsweredGood ==
  ASSUME NEW r, Good(r), r.phase = "sampling", NEW k \in r.workers
  PROVE  Good(ChainAnswered(r, k)) /\ (ChainAnswered(r, k).phase = "resolved" => ~ChainAnswered(r, k).aborted)
<1> DEFINE q == [Terminate(r, {k}) EXCEPT !.answered = @ \cup {k}]
<1>1. /\ q \in Records
      /\ q.phase = "sampling" /\ q.op = r.op /\ q.op \in SampleVerbs
      /\ q.linked /\ ~q.aborted /\ q.artifacts = {}
      /\ q.answered = r.answered \cup {k} /\ q.workers = Chains \ q.answered
  <2>1. /\ r \in Records /\ r.workers = Chains \ r.answered /\ r.linked /\ ~r.aborted
        /\ r.op \in SampleVerbs /\ r.artifacts = {} /\ k \in Chains
    BY DEF Good
  <2>2. /\ q.workers = r.workers \ {k} /\ q.answered = r.answered \cup {k}
        /\ \A f \in {"phase", "op", "linked", "aborted", "artifacts"} : q[f] = r[f]
    BY <2>1 DEF Terminate, Records
  <2>3. q \in Records
    BY <2>1 DEF Terminate, Records
  <2> QED BY <2>1, <2>2, <2>3
<1>2. ChainAnswered(r, k) = IF q.answered = Chains THEN Sampled(q) ELSE q
  BY DEF ChainAnswered
<1> HIDE DEF q
<1>3. CASE q.answered # Chains
  <2>1. q.workers # {}
    BY <1>1, <1>3 DEF Records
  <2>2. Good(q)
    BY <1>1, <2>1 DEF Good, PosteriorIsWhole, SoloPhases, Awaits
  <2> QED BY <1>1, <1>2, <1>3, <2>2
<1>4. CASE q.answered = Chains
  <2> DEFINE p == Publish([q EXCEPT !.linked = FALSE], "posterior")
  <2>1. /\ Between(p)
        /\ p.op = q.op /\ ~p.aborted /\ "posterior" \in p.artifacts
    BY <1>1, <1>4 DEF Publish, Between, Records, PosteriorIsWhole
  <2>2. Sampled(q) = IF q.op = "condition" THEN Execute(p, "diagnosing") ELSE Resolve(p)
    BY DEF Sampled
  <2> HIDE DEF p
  <2>3. CASE q.op = "condition"
    <3>1. BelongsTo("diagnosing", p.op) /\ FollowsUp(p, "diagnosing") /\ "diagnosing" \in SoloPhases
      BY <2>1, <2>3 DEF BelongsTo, FollowsUp, SoloPhases
    <3> QED BY <1>2, <1>4, <2>1, <2>2, <2>3, <3>1, ExecuteGood
  <2>4. CASE q.op # "condition"
    <3>1. Whole(p)
      BY <2>1, <2>4 DEF Whole
    <3> QED BY <1>2, <1>4, <2>1, <2>2, <2>4, <3>1, ResolveGood
  <2> QED BY <2>3, <2>4
<1> QED BY <1>3, <1>4

(***************************************************************************)
(* The awaits of #generate.                                                *)
(***************************************************************************)
LEMMA ContinuedGood ==
  ASSUME NEW r, Good(r), r.phase \in Awaits, ~r.aborted
  PROVE  Good(Continued(r)) /\ ~Continued(r).aborted
<1>1. /\ Between(r) /\ r.op = "generate" /\ "posterior" \notin r.artifacts
      /\ Whole(r) /\ r.phase \in Awaits
  BY DEF Good, Between, PosteriorIsWhole, SampleVerbs, Awaits, SoloPhases, Whole
<1>2. \A name \in {"generated", "run"} :
        LET p == Publish(r, name)
        IN  Between(p) /\ Whole(p) /\ ~p.aborted /\ p.op = "generate" /\ "posterior" \notin p.artifacts
  BY <1>1 DEF Publish, Between, Records, PosteriorIsWhole, Whole
<1>3. ASSUME NEW p, Between(p), p.op = "generate", "posterior" \notin p.artifacts, ~p.aborted,
             NEW phase \in Awaits
      PROVE  Good([p EXCEPT !.phase = phase]) /\ ~[p EXCEPT !.phase = phase].aborted
  BY <1>3 DEF Between, Good, Records, PosteriorIsWhole, Phases, Awaits, SoloPhases
<1>4. CASE r.phase = "hashing"
  <2>1. BelongsTo("generating", r.op) /\ FollowsUp(r, "generating") /\ "generating" \in SoloPhases
    BY <1>1 DEF BelongsTo, FollowsUp, SoloPhases
  <2>2. Continued(r) = Execute(r, "generating") /\ ~Execute(r, "generating").aborted
    BY <1>1, <1>4 DEF Continued, Execute, Between, Records
  <2> QED BY <1>1, <2>1, <2>2, ExecuteGood
<1>5. CASE r.phase = "verifying" /\ r.issued
  <2>1. Continued(r) = Resolve(Publish(r, "generated"))
    BY <1>5 DEF Continued
  <2> QED BY <1>2, <2>1, ResolveGood
<1>6. CASE r.phase = "verifying" /\ ~r.issued
  <2>1. Continued(r) = [Publish(r, "generated") EXCEPT !.phase = "serializing"]
    BY <1>6 DEF Continued
  <2> QED BY <1>2, <1>3, <2>1 DEF Awaits
<1>7. CASE r.phase = "serializing"
  <2>1. Continued(r) = [r EXCEPT !.phase = "sealing"]
    BY <1>7 DEF Continued
  <2> QED BY <1>1, <1>3, <2>1 DEF Awaits
<1>8. CASE r.phase = "sealing"
  <2>1. Continued(r) = Resolve(Publish(r, "run"))
    BY <1>8 DEF Continued
  <2> QED BY <1>2, <2>1, ResolveGood
<1> QED BY <1>1, <1>4, <1>5, <1>6, <1>7, <1>8 DEF Awaits

(***************************************************************************)
(* A step replaces one record by a good one, and resolves only a run that  *)
(* is not aborted.                                                         *)
(***************************************************************************)
Resolves(r, q) == r.phase # "resolved" /\ q.phase = "resolved"

LEMMA StepGood ==
  ASSUME NEW x \in Runs, IInv, Step(x)
  PROVE  \E q : /\ Good(q)
                /\ Resolves(run[x], q) => ~q.aborted
                /\ run' = [run EXCEPT ![x] = q]
<1> DEFINE r == run[x]
           Goal(q) == Good(q) /\ (Resolves(r, q) => ~q.aborted)
<1> SUFFICES \E q : Goal(q) /\ Become(x, q)
  BY DEF Become
<1>0. Good(r) /\ r \in Records
  BY DEF IInv, Good
<1>i. r.phase = "idle" => r.workers = {} /\ ~r.linked /\ r.artifacts = {}
  BY <1>0 DEF Good, SoloPhases
<1> HIDE DEF r
<1>1. CASE Refuse(x)
  <2>1. PICK op \in Operations : Become(x, Reject([r EXCEPT !.op = op])) /\ r.phase = "idle"
    BY <1>1 DEF Refuse, r
  <2>2. Between([r EXCEPT !.op = op]) /\ [r EXCEPT !.op = op].artifacts = {}
    BY <1>0, <1>i, <2>1 DEF Between, Records, PosteriorIsWhole
  <2> QED BY <2>1, <2>2, RejectGood DEF Resolves
<1>2. CASE RefuseChain(x)
  <2>1. PICK op \in {"condition", "sample"}, begun \in SUBSET Chains :
             Become(x, GroupFailed([r EXCEPT !.op = op, !.workers = begun])) /\ r.phase = "idle"
    BY <1>2 DEF RefuseChain, r
  <2> DEFINE b == [r EXCEPT !.op = op, !.workers = begun]
  <2>2. b \in Records /\ b.workers \subseteq Chains /\ b.artifacts = {}
    BY <1>0, <1>i, <2>1 DEF Records, Operations
  <2> QED BY <2>1, <2>2, GroupFailedGood DEF Resolves
<1>3. CASE Sample(x)
  <2>1. PICK op \in {"condition", "sample"}, paired \in BOOLEAN :
             /\ Become(x, [r EXCEPT !.phase = "sampling", !.op = op, !.paired = paired,
                                    !.workers = Chains, !.linked = TRUE])
             /\ r.phase = "idle" /\ ~r.aborted
    BY <1>3 DEF Sample, r
  <2> DEFINE q == [r EXCEPT !.phase = "sampling", !.op = op, !.paired = paired,
                            !.workers = Chains, !.linked = TRUE]
  <2>2. r.answered = {}
    BY <1>0, <2>1 DEF Good
  <2>3. Goal(q)
    BY <1>0, <1>i, <2>1, <2>2, ChainsAssumption
    DEF Good, Records, PosteriorIsWhole, SampleVerbs, Operations, Phases, Awaits, SoloPhases, Resolves
  <2> QED BY <2>1, <2>3
<1>4. CASE Inspect(x)
  <2>1. r.phase = "idle" /\ ~r.aborted
    BY <1>4 DEF Inspect, r
  <2>2. PICK op \in {"diagnose", "recover-check"}, phase \in SoloPhases :
             /\ Become(x, Execute([r EXCEPT !.op = op], phase))
             /\ BelongsTo(phase, op)
    BY <1>4 DEF Inspect, r, BelongsTo, SoloPhases
  <2> DEFINE o == [r EXCEPT !.op = op]
  <2>3. Between(o) /\ o.op = op
    BY <1>0, <1>i, <2>1 DEF Between, Records, PosteriorIsWhole, Operations
  <2>4. FollowsUp(o, phase) /\ BelongsTo(phase, o.op)
    BY <2>2, <2>3 DEF FollowsUp
  <2> HIDE DEF o
  <2>5. Goal(Execute(o, phase))
    BY <2>3, <2>4, ExecuteGood DEF Resolves
  <2> QED BY <2>2, <2>5 DEF o
<1>5. CASE Generate(x)
  <2>1. PICK issued \in BOOLEAN :
             /\ Become(x, [r EXCEPT !.phase = "hashing", !.op = "generate", !.issued = issued])
             /\ r.phase = "idle"
    BY <1>5 DEF Generate, r
  <2> DEFINE q == [r EXCEPT !.phase = "hashing", !.op = "generate", !.issued = issued]
  <2>2. Goal(q)
    BY <1>0, <1>i, <2>1
    DEF Good, Records, PosteriorIsWhole, Operations, Phases, Awaits, SoloPhases, Resolves
  <2> QED BY <2>1, <2>2
<1>6. CASE ChainResult(x)
  <2>1. PICK k \in r.workers \cap Chains : Become(x, ChainAnswered(r, k))
    BY <1>6 DEF ChainResult, r
  <2>2. r.phase = "sampling"
    BY <1>0, <2>1, ChainsAssumption DEF Good
  <2> QED BY <1>0, <2>1, <2>2, ChainAnsweredGood DEF Resolves
<1>7. CASE ChainFailure(x)
  <2>1. r.workers \cap Chains # {} /\ Become(x, GroupFailed(r))
    BY <1>7 DEF ChainFailure, r
  <2>2. r.workers \subseteq Chains /\ r.artifacts = {}
    BY <1>0, <2>1, ChainsAssumption DEF Good
  <2> QED BY <1>0, <2>1, <2>2, GroupFailedGood DEF Resolves
<1>8. CASE Unmergeable(x)
  <2> DEFINE q == [Terminate(r, Chains) EXCEPT !.linked = FALSE, !.answered = Chains]
  <2>1. (\E k \in Chains : r.workers = {k}) /\ Become(x, Reject(q))
    BY <1>8 DEF Unmergeable, r
  <2>2. r.workers \subseteq Chains /\ r.artifacts = {}
    BY <1>0, <2>1, ChainsAssumption DEF Good
  <2>3. Between(q) /\ q.artifacts = {}
    BY <1>0, <2>2 DEF Terminate, Between, Records, PosteriorIsWhole
  <2> HIDE DEF q
  <2> QED BY <2>1, <2>3, RejectGood DEF Resolves
<1>s. Solo \in r.workers => r.phase \in SoloPhases
  BY <1>0, ChainsAssumption DEF Good
<1>9. CASE SoloResult(x)
  <2>1. r.phase \in SoloPhases /\ Become(x, SoloAnswered(r))
    BY <1>9, <1>s DEF SoloResult, r
  <2> QED BY <1>0, <2>1, SoloAnsweredGood DEF Resolves
<1>10. CASE SoloFailure(x)
  <2>1. r.phase \in SoloPhases /\ Become(x, SoloFailed(r))
    BY <1>10, <1>s DEF SoloFailure, r
  <2> QED BY <1>0, <2>1, SoloFailedGood DEF Resolves
<1>11. CASE Unparsable(x)
  <2>1. r.phase = "generating" /\ Become(x, Reject(Terminate(r, {Solo})))
    BY <1>11 DEF Unparsable, r
  <2>2. r.phase \in SoloPhases /\ r.op = "generate"
    BY <1>0, <2>1 DEF Good, BelongsTo, SoloPhases
  <2>3. Between(Terminate(r, {Solo})) /\ Terminate(r, {Solo}).op = "generate"
    BY <1>0, <2>2, SoloLeaves DEF Terminate, Records
  <2>4. "posterior" \notin Terminate(r, {Solo}).artifacts
    BY <2>3 DEF Between, PosteriorIsWhole, SampleVerbs
  <2> QED BY <2>1, <2>3, <2>4, RejectGood DEF Resolves
<1>12. CASE Awaited(x)
  <2>1. r.phase \in Awaits
    BY <1>12 DEF Awaited, r
  <2>2. Between(r) /\ "posterior" \notin r.artifacts
    BY <1>0, <2>1 DEF Good, Between, PosteriorIsWhole, SampleVerbs, Awaits, SoloPhases
  <2>3. Goal(Reject(r))
    BY <2>2, RejectGood DEF Resolves
  <2>4. ~r.aborted => Goal(Continued(r))
    BY <1>0, <2>1, ContinuedGood
  <2> QED BY <1>12, <2>3, <2>4 DEF Awaited, r
<1>13. CASE Abort(x)
  <2> DEFINE q == [r EXCEPT !.aborted = TRUE]
  <2>1. Become(x, Cancelled(r)) /\ Cancelled(r) = CASE r.linked -> GroupFailed(q)
                                                    [] Solo \in r.workers -> SoloFailed(q)
                                                    [] OTHER -> q
    BY <1>13 DEF Abort, Cancelled, r
  <2>2. q \in Records /\ \A f \in {"phase", "op", "paired", "answered", "workers", "linked", "notice", "artifacts"} :
                           q[f] = r[f]
    BY <1>0 DEF Records
  <2>3. CASE r.linked
    <3>1. r.phase = "sampling"
      BY <1>0, <2>3 DEF Good
    <3>2. Solo \notin r.workers /\ q.workers \subseteq Chains /\ q.artifacts = {}
      BY <1>0, <2>2, <3>1, ChainsAssumption DEF Good
    <3>3. Goal(GroupFailed(q)) /\ Cancelled(r) = GroupFailed(q)
      BY <2>1, <2>2, <2>3, <3>2, GroupFailedGood DEF Resolves
    <3> QED BY <2>1, <3>3
  <2>4. CASE ~r.linked /\ Solo \in r.workers
    <3>1. Goal(SoloFailed(q)) /\ Cancelled(r) = SoloFailed(q)
      BY <1>0, <1>s, <2>1, <2>4, SoloFailedGood DEF Resolves
    <3> QED BY <2>1, <3>1
  <2>5. CASE ~r.linked /\ Solo \notin r.workers
    <3>1. r.phase \notin SoloPhases \cup {"sampling"}
      BY <1>0, <2>5 DEF Good
    <3>2. q.aborted
      BY <1>0 DEF Records
    <3>3. Good(q)
      BY <1>0, <2>2, <3>1, <3>2 DEF Good, PosteriorIsWhole, Whole, Explained
    <3>4. Goal(q)
      BY <2>2, <3>3 DEF Resolves
    <3> QED BY <2>1, <2>5, <3>4
  <2> QED BY <2>3, <2>4, <2>5
<1> QED
  BY <1>1, <1>2, <1>3, <1>4, <1>5, <1>6, <1>7, <1>8, <1>9, <1>10, <1>11, <1>12, <1>13 DEF Step, r

(***************************************************************************)
(* The invariant.                                                          *)
(***************************************************************************)
LEMMA Initially == Init => IInv
BY DEF Init, IInv, Idle, Good, Records, PosteriorIsWhole, Operations, Phases, Awaits, SoloPhases

LEMMA Preserved == IInv /\ [Next]_run => IInv'
<1> SUFFICES ASSUME IInv, [Next]_run PROVE IInv'
  OBVIOUS
<1>1. CASE UNCHANGED run
  BY <1>1 DEF IInv
<1>2. ASSUME NEW x \in Runs, Step(x) PROVE IInv'
  <2>1. PICK q : Good(q) /\ run' = [run EXCEPT ![x] = q]
    BY <1>2, StepGood
  <2>2. q \in Records
    BY <2>1 DEF Good
  <2> QED BY <2>1, <2>2 DEF IInv
<1> QED BY <1>1, <1>2 DEF Next

\* Every reachable state is good: per phase, which workers a run has, which verb
\* it is in, and what of its fit it has already.
THEOREM Invariance == Spec => []IInv
BY Initially, Preserved, PTL DEF Spec

\* Runs keep their shape, and the phase of a run tells which workers it has.
THEOREM TypeCorrect == Spec => []TypeOK
<1>1. IInv => TypeOK
  BY DEF IInv, TypeOK, Good, SoloPhases
<1> QED BY <1>1, Invariance, PTL

\* A run that has settled or was cancelled has no worker, and a settled one
\* listens to nothing.
THEOREM NothingIsLeft == Spec => []NothingOutlivesIt
<1>1. IInv => NothingOutlivesIt
  BY DEF IInv, NothingOutlivesIt, Good, Settled, SoloPhases
<1> QED BY <1>1, Invariance, PTL

\* A posterior is of all chains, a conditioning that resolves has it with its
\* follow-ups made or explained, and only a cancellation loses one.
THEOREM FitsAreWhole == Spec => []FitIsWhole
<1>1. IInv => FitIsWhole
  BY DEF IInv, FitIsWhole, Good, PosteriorIsWhole, Whole, Explained
<1> QED BY <1>1, Invariance, PTL

(***************************************************************************)
(* Refinement.  What a step does to the outcome, the worker and the signal *)
(* of a run can be read off its phase, before and after.                   *)
(***************************************************************************)
Working == {"sampling"} \cup SoloPhases
Late == Awaits \ {"hashing"}
Ended == {"resolved", "rejected"}

\* From r to q in one task that is not the abort.
Proceeds(r, q) ==
  /\ q.aborted = r.aborted
  /\ \/ r.phase \in {"idle", "hashing"} /\ q.phase = "rejected"
     \/ r.phase = "idle" /\ ~r.aborted /\ q.phase \in Working \cup {"hashing"}
     \/ r.phase = "hashing" /\ ~r.aborted /\ q.phase \in Working
     \/ r.phase \in Working /\ q.phase \in Working \cup Late \cup Ended
     \/ r.phase \in Late /\ q.phase \in Late \cup Ended

\* The signal aborts: a run with a worker is rejected.
Cancels(r, q) ==
  /\ ~r.aborted /\ q.aborted
  /\ q.phase = IF r.phase \in Working THEN "rejected" ELSE r.phase

\* The functions of the verbs keep the signal, and lead to these phases.
Leads(r, q, phases) == q.aborted = r.aborted /\ q.phase \in phases

LEMMA RecordsKeep ==
  ASSUME NEW r \in Records
  PROVE  /\ \A gone : Terminate(r, gone) \in Records /\ Leads(r, Terminate(r, gone), {r.phase})
         /\ \A name \in {"posterior", "diagnostics", "recovery_check", "generated", "run"} :
              Publish(r, name) \in Records /\ Leads(r, Publish(r, name), {r.phase})
         /\ Leads(r, Reject(r), {"rejected"}) /\ Leads(r, Resolve(r), {"resolved"})
BY DEF Records, Terminate, Publish, Reject, Resolve, Leads

LEMMA ExecuteLeads ==
  ASSUME NEW r \in Records, NEW phase \in SoloPhases
  PROVE  /\ Leads(r, Execute(r, phase), {phase, "rejected"})
         /\ ~r.aborted => Execute(r, phase).phase = phase
BY RecordsKeep DEF Records, Execute, Leads

LEMMA RecoverLeads ==
  ASSUME NEW r \in Records
  PROVE  Leads(r, Recover(r), {"recovering", "resolved", "rejected"})
BY RecordsKeep, ExecuteLeads DEF Recover, Leads, SoloPhases

LEMMA GroupFailedLeads ==
  ASSUME NEW r \in Records
  PROVE  Leads(r, GroupFailed(r), {"rejected"})
BY DEF GroupFailed, Terminate, Reject, Records, Leads

LEMMA ChainAnsweredLeads ==
  ASSUME NEW r \in Records, NEW k \in Chains
  PROVE  Leads(r, ChainAnswered(r, k), {r.phase, "diagnosing"} \cup Ended)
<1> DEFINE q == [Terminate(r, {k}) EXCEPT !.answered = @ \cup {k}]
           u == [q EXCEPT !.linked = FALSE]
           p == Publish(u, "posterior")
<1>1. q \in Records /\ q.aborted = r.aborted /\ q.phase = r.phase
  BY DEF Terminate, Records
<1> HIDE DEF q
<1>2. u \in Records /\ u.aborted = r.aborted
  BY <1>1 DEF Records
<1> HIDE DEF u
<1>3. p \in Records /\ p.aborted = r.aborted
  BY <1>2, RecordsKeep DEF Leads
<1>4. ChainAnswered(r, k) = IF q.answered = Chains THEN Sampled(q) ELSE q
  BY DEF ChainAnswered, q
<1>5. Sampled(q) = IF u.op = "condition" THEN Execute(p, "diagnosing") ELSE Resolve(p)
  <2>1. u.op = q.op /\ p.op = u.op
    BY <1>1, <1>2 DEF u, Publish, Records
  <2> QED BY <2>1 DEF Sampled, u
<1> HIDE DEF p
<1>6. Leads(r, Execute(p, "diagnosing"), {"diagnosing"} \cup Ended)
  BY <1>3, ExecuteLeads DEF SoloPhases, Leads, Ended
<1>7. Leads(r, Resolve(p), Ended)
  BY <1>3, RecordsKeep DEF Leads, Ended
<1> QED BY <1>1, <1>4, <1>5, <1>6, <1>7 DEF Leads

LEMMA SoloAnsweredLeads ==
  ASSUME NEW r \in Records
  PROVE  Leads(r, SoloAnswered(r), SoloPhases \cup {"verifying"} \cup Ended)
<1> DEFINE q == Terminate(r, {Solo})
           named == IF r.phase = "diagnosing" THEN "diagnostics" ELSE "recovery_check"
           p == Publish(q, named)
           v == [q EXCEPT !.phase = "verifying"]
<1>1. q \in Records /\ q.aborted = r.aborted
  BY RecordsKeep DEF Leads
<1>2. SoloAnswered(r) \in {v, Recover(p), Resolve(p)}
  BY DEF SoloAnswered
<1> HIDE DEF q
<1>3. p \in Records /\ p.aborted = r.aborted
  BY <1>1, RecordsKeep DEF Leads
<1>4. Leads(r, v, {"verifying"})
  BY <1>1 DEF Records, Leads
<1> HIDE DEF p
<1>5. Leads(r, Recover(p), SoloPhases \cup Ended) /\ Leads(r, Resolve(p), Ended)
  BY <1>3, RecoverLeads, RecordsKeep DEF Leads, SoloPhases, Ended
<1> QED BY <1>2, <1>4, <1>5 DEF Leads

LEMMA SoloFailedLeads ==
  ASSUME NEW r \in Records
  PROVE  /\ Leads(r, SoloFailed(r), {"recovering"} \cup Ended)
         /\ r.aborted => SoloFailed(r).phase = "rejected"
<1> DEFINE q == Terminate(r, {Solo})
           warned == [q EXCEPT !.notice = TRUE]
<1>1. q \in Records /\ q.aborted = r.aborted
  BY RecordsKeep DEF Leads
<1>2. /\ SoloFailed(r) \in {Reject(q), Recover(warned), Resolve(warned)}
      /\ r.aborted => SoloFailed(r) = Reject(q)
  BY DEF SoloFailed, FollowUpFailed, Terminate, Records
<1> HIDE DEF q
<1>3. warned \in Records /\ warned.aborted = r.aborted
  BY <1>1 DEF Records
<1> HIDE DEF warned
<1>4. Leads(r, Recover(warned), {"recovering"} \cup Ended) /\ Leads(r, Resolve(warned), Ended)
  BY <1>3, RecoverLeads, RecordsKeep DEF Leads, Ended
<1>5. Leads(r, Reject(q), {"rejected"})
  BY <1>1, RecordsKeep DEF Leads
<1> QED BY <1>2, <1>4, <1>5 DEF Leads, Ended

LEMMA ContinuedLeads ==
  ASSUME NEW r \in Records, r.phase \in Awaits, ~r.aborted
  PROVE  Leads(r, Continued(r), IF r.phase = "hashing" THEN {"generating"} ELSE Late \cup Ended)
<1>1. \A name \in {"generated", "run"} :
        /\ Leads(r, Resolve(Publish(r, name)), Ended)
        /\ Leads(r, [Publish(r, name) EXCEPT !.phase = "serializing"], Late)
  <2> TAKE name \in {"generated", "run"}
  <2> DEFINE p == Publish(r, name)
  <2>1. p \in Records /\ p.aborted = r.aborted
    BY RecordsKeep DEF Leads
  <2> HIDE DEF p
  <2>2. Leads(r, Resolve(p), Ended) /\ Leads(r, [p EXCEPT !.phase = "serializing"], Late)
    BY <2>1, RecordsKeep DEF Leads, Ended, Late, Awaits, Records
  <2> QED BY <2>2 DEF p
<1>2. Leads(r, [r EXCEPT !.phase = "sealing"], Late)
  BY DEF Leads, Late, Awaits, Records
<1>3. Leads(r, Execute(r, "generating"), {"generating"})
  BY ExecuteLeads DEF Leads, SoloPhases
<1> QED BY <1>1, <1>2, <1>3 DEF Continued, Leads, Awaits

\* The record that a step replaces proceeds or is cancelled.
LEMMA StepMoves ==
  ASSUME NEW x \in Runs, IInv, Step(x)
  PROVE  Proceeds(run[x], run'[x]) \/ Cancels(run[x], run'[x])
<1> DEFINE r == run[x]
           Goal(q) == Proceeds(r, q) \/ Cancels(r, q)
<1>0. /\ Good(r) /\ r \in Records
      /\ \A q : Become(x, q) => run'[x] = q
  BY DEF IInv, Good, Become
<1> SUFFICES \E q : Goal(q) /\ Become(x, q)
  BY <1>0
<1>s. Solo \in r.workers <=> r.phase \in SoloPhases
  BY <1>0, ChainsAssumption DEF Good, SoloPhases
<1>c. r.workers \cap Chains # {} <=> r.phase = "sampling"
  BY <1>0, ChainsAssumption DEF Good, SoloPhases
<1>l. r.linked <=> r.phase = "sampling"
  BY <1>0 DEF Good, SoloPhases
<1>o. \A op \in Operations : [r EXCEPT !.op = op] \in Records /\ Leads(r, [r EXCEPT !.op = op], {r.phase})
  BY <1>0 DEF Records, Leads
<1> HIDE DEF r
<1>1. CASE Refuse(x)
  <2>1. PICK op \in Operations : Become(x, Reject([r EXCEPT !.op = op])) /\ r.phase = "idle"
    BY <1>1 DEF Refuse, r
  <2> DEFINE o == [r EXCEPT !.op = op]
  <2>2. o \in Records /\ o.aborted = r.aborted
    BY <1>o DEF Leads
  <2> HIDE DEF o
  <2>3. Reject(o).phase = "rejected" /\ Reject(o).aborted = r.aborted
    BY <2>2, RecordsKeep DEF Leads
  <2> QED BY <2>1, <2>3 DEF Proceeds, o
<1>2. CASE RefuseChain(x)
  <2>1. PICK op \in {"condition", "sample"}, begun \in SUBSET Chains :
             Become(x, GroupFailed([r EXCEPT !.op = op, !.workers = begun])) /\ r.phase = "idle"
    BY <1>2 DEF RefuseChain, r
  <2> DEFINE b == [r EXCEPT !.op = op, !.workers = begun]
  <2>2. b \in Records /\ b.aborted = r.aborted
    BY <1>0 DEF Records, Operations
  <2> HIDE DEF b
  <2>3. Leads(r, GroupFailed(b), {"rejected"})
    BY <2>2, GroupFailedLeads DEF Leads
  <2> QED BY <2>1, <2>3 DEF Proceeds, Leads, b
<1>3. CASE Sample(x)
  <2>1. PICK op \in {"condition", "sample"}, paired \in BOOLEAN :
             /\ Become(x, [r EXCEPT !.phase = "sampling", !.op = op, !.paired = paired,
                                    !.workers = Chains, !.linked = TRUE])
             /\ r.phase = "idle" /\ ~r.aborted
    BY <1>3 DEF Sample, r
  <2> DEFINE q == [r EXCEPT !.phase = "sampling", !.op = op, !.paired = paired,
                            !.workers = Chains, !.linked = TRUE]
  <2>2. q.phase = "sampling" /\ q.aborted = r.aborted
    BY <1>0 DEF Records
  <2> QED BY <2>1, <2>2 DEF Proceeds, Working
<1>4. CASE Inspect(x)
  <2>1. r.phase = "idle" /\ ~r.aborted
    BY <1>4 DEF Inspect, r
  <2>2. PICK op \in Operations, phase \in SoloPhases : Become(x, Execute([r EXCEPT !.op = op], phase))
    BY <1>4 DEF Inspect, r, SoloPhases, Operations
  <2>3. Leads(r, Execute([r EXCEPT !.op = op], phase), {phase})
    BY <1>o, <2>1, ExecuteLeads DEF Leads
  <2> QED BY <2>1, <2>2, <2>3 DEF Proceeds, Working, Leads
<1>5. CASE Generate(x)
  <2>1. PICK issued \in BOOLEAN :
             /\ Become(x, [r EXCEPT !.phase = "hashing", !.op = "generate", !.issued = issued])
             /\ r.phase = "idle" /\ ~r.aborted
    BY <1>5 DEF Generate, r
  <2> DEFINE q == [r EXCEPT !.phase = "hashing", !.op = "generate", !.issued = issued]
  <2>2. q.phase = "hashing" /\ q.aborted = r.aborted
    BY <1>0 DEF Records
  <2> QED BY <2>1, <2>2 DEF Proceeds
<1>6. CASE ChainResult(x)
  <2>1. PICK k \in r.workers \cap Chains : Become(x, ChainAnswered(r, k))
    BY <1>6 DEF ChainResult, r
  <2> QED
    BY <1>0, <1>c, <2>1, ChainAnsweredLeads DEF Proceeds, Leads, Working, SoloPhases
<1>7. CASE ChainFailure(x)
  <2>1. r.phase = "sampling" /\ Become(x, GroupFailed(r))
    BY <1>7, <1>c DEF ChainFailure, r
  <2> QED BY <1>0, <2>1, GroupFailedLeads DEF Proceeds, Leads, Working, Ended
<1>8. CASE Unmergeable(x)
  <2> DEFINE q == [Terminate(r, Chains) EXCEPT !.linked = FALSE, !.answered = Chains]
  <2>1. r.phase = "sampling" /\ Become(x, Reject(q))
    BY <1>8, <1>c DEF Unmergeable, r
  <2>2. Leads(r, Reject(q), {"rejected"})
    BY <1>0 DEF Terminate, Reject, Records, Leads
  <2> QED BY <2>1, <2>2 DEF Proceeds, Leads, Working, Ended
<1>9. CASE SoloResult(x)
  <2>1. r.phase \in SoloPhases /\ Become(x, SoloAnswered(r))
    BY <1>9, <1>s DEF SoloResult, r
  <2> QED BY <1>0, <2>1, SoloAnsweredLeads DEF Proceeds, Leads, Working, Late, Awaits
<1>10. CASE SoloFailure(x)
  <2>1. r.phase \in SoloPhases /\ Become(x, SoloFailed(r))
    BY <1>10, <1>s DEF SoloFailure, r
  <2> QED BY <1>0, <2>1, SoloFailedLeads DEF Proceeds, Leads, Working, SoloPhases
<1>11. CASE Unparsable(x)
  <2>1. r.phase = "generating" /\ Become(x, Reject(Terminate(r, {Solo})))
    BY <1>11 DEF Unparsable, r
  <2>2. Leads(r, Reject(Terminate(r, {Solo})), {"rejected"})
    BY <1>0, RecordsKeep DEF Leads
  <2> QED BY <2>1, <2>2 DEF Proceeds, Leads, Working, SoloPhases, Ended
<1>12. CASE Awaited(x)
  <2>1. r.phase \in Awaits
    BY <1>12 DEF Awaited, r
  <2>2. Goal(Reject(r))
    BY <1>0, <2>1, RecordsKeep DEF Proceeds, Leads, Late, Ended
  <2>3. ~r.aborted => Goal(Continued(r))
    BY <1>0, <2>1, ContinuedLeads DEF Proceeds, Leads, Late, Working, SoloPhases
  <2> QED BY <1>12, <2>2, <2>3 DEF Awaited, r
<1>13. CASE Abort(x)
  <2> DEFINE q == [r EXCEPT !.aborted = TRUE]
  <2>1. ~r.aborted /\ Become(x, Cancelled(r))
    BY <1>13 DEF Abort, r
  <2>2. Cancelled(r) = CASE r.linked -> GroupFailed(q)
                         [] Solo \in r.workers -> SoloFailed(q)
                         [] OTHER -> q
    BY DEF Cancelled
  <2>3. q \in Records /\ q.phase = r.phase /\ q.aborted = TRUE
    BY <1>0 DEF Records
  <2> HIDE DEF q
  <2>4. GroupFailed(q).phase = "rejected" /\ GroupFailed(q).aborted = TRUE
    BY <2>3, GroupFailedLeads DEF Leads
  <2>5. SoloFailed(q).phase = "rejected" /\ SoloFailed(q).aborted = TRUE
    BY <2>3, SoloFailedLeads DEF Leads
  <2>6. Cancels(r, Cancelled(r))
    BY <1>s, <1>l, <2>1, <2>2, <2>3, <2>4, <2>5 DEF Cancels, Working
  <2> QED BY <2>1, <2>6
<1> QED
  BY <1>1, <1>2, <1>3, <1>4, <1>5, <1>6, <1>7, <1>8, <1>9, <1>10, <1>11, <1>12, <1>13 DEF Step, r

LEMMA AbstractInit == Init => Abstract!Init
BY DEF Init, Idle, Abstract!Init, Outcomes, Outcome, Settled, Alive, Aborted

\* What the mapping makes of a good record.
LEMMA Mapped ==
  ASSUME NEW r, Good(r)
  PROVE  /\ r.workers # {} <=> r.phase \in Working
         /\ r.phase = "idle" => Outcome(r) = "none"
         /\ r.phase = "hashing" => Outcome(r) = "preparing"
         /\ r.phase \in Working \cup Late => Outcome(r) = "pending"
         /\ r.phase \in Ended => Outcome(r) = r.phase
BY DEF Good, Outcome, Settled, Working, Late, Ended, Awaits, SoloPhases

LEMMA AbstractStep ==
  ASSUME IInv, NEW x \in Runs, Step(x)
  PROVE  Abstract!Next \/ UNCHANGED <<Outcomes, Alive, Aborted>>
<1> DEFINE r == run[x]
<1>1. PICK q : Good(q) /\ (Resolves(r, q) => ~q.aborted) /\ run' = [run EXCEPT ![x] = q]
  BY StepGood
<1>2. run \in [Runs -> Records] /\ Good(r) /\ q = run'[x]
  BY <1>1 DEF IInv
<1>3. Proceeds(r, q) \/ Cancels(r, q)
  BY <1>2, StepMoves
<1>4. Outcomes' = [Outcomes EXCEPT ![x] = Outcome(q)] /\ Outcomes[x] = Outcome(r)
  BY <1>1, <1>2 DEF Outcomes, Outcome, Settled
<1>5. /\ Alive' = IF q.phase \in Working THEN Alive \cup {x} ELSE Alive \ {x}
      /\ x \in Alive <=> r.phase \in Working
  BY <1>1, <1>2, Mapped DEF Alive
<1>6. /\ Aborted' = IF q.aborted THEN Aborted \cup {x} ELSE Aborted \ {x}
      /\ x \in Aborted <=> r.aborted
  BY <1>1, <1>2 DEF Aborted
<1>7. Outcome(q) = Outcome(r) => Outcomes' = Outcomes
  BY <1>4 DEF Outcomes
<1>8. CASE Cancels(r, q)
  <2>1. x \notin Aborted /\ Aborted' = Aborted \cup {x}
    BY <1>6, <1>8 DEF Cancels
  <2>2. Alive' = Alive \ {x}
    BY <1>5, <1>8 DEF Cancels, Working, SoloPhases
  <2>3. CASE x \in Alive
    <3>1. Outcome(q) = "rejected"
      BY <1>1, <1>5, <1>8, <2>3, Mapped DEF Cancels, Ended
    <3> QED BY <1>4, <2>1, <2>2, <2>3, <3>1 DEF Abstract!Next, Abstract!Cancel
  <2>4. CASE x \notin Alive
    <3>1. Outcome(q) = Outcome(r)
      BY <1>5, <1>8, <2>4 DEF Cancels, Outcome, Settled
    <3> QED BY <1>7, <2>1, <2>2, <2>4, <3>1 DEF Abstract!Next, Abstract!Cancel
  <2> QED BY <2>3, <2>4
<1>9. CASE Proceeds(r, q)
  <2>0. Aborted' = Aborted
    BY <1>6, <1>9 DEF Proceeds
  <2> USE DEF Working, Late, Ended, Awaits, SoloPhases
  <2>1. CASE r.phase \in {"idle", "hashing"} /\ q.phase = "rejected"
    <3>1. Outcome(r) \in {"none", "preparing"} /\ Outcome(q) = "rejected"
      BY <1>1, <1>2, <2>1, Mapped
    <3>2. Alive' = Alive
      BY <1>5, <2>1
    <3> QED BY <1>4, <2>0, <3>1, <3>2 DEF Abstract!Next, Abstract!Refuse
  <2>2. CASE r.phase = "idle" /\ q.phase = "hashing"
    <3>1. Outcome(r) = "none" /\ Outcome(q) = "preparing"
      BY <1>1, <1>2, <2>2, Mapped
    <3>2. Alive' = Alive
      BY <1>5, <2>2
    <3> QED BY <1>4, <2>0, <3>1, <3>2 DEF Abstract!Next, Abstract!Prepare
  <2>3. CASE r.phase \in {"idle", "hashing"} /\ ~r.aborted /\ q.phase \in Working
    <3>1. Outcome(r) \in {"none", "preparing"} /\ Outcome(q) = "pending"
      BY <1>1, <1>2, <2>3, Mapped
    <3> QED BY <1>4, <1>5, <1>6, <2>0, <2>3, <3>1 DEF Abstract!Next, Abstract!Start
  <2>4. CASE r.phase \in Working \cup Late /\ q.phase \in Ended
    <3>1. Outcome(r) = "pending" /\ Outcome(q) = q.phase
      BY <1>1, <1>2, <2>4, Mapped
    <3>2. q.phase = "resolved" => x \notin Aborted
      BY <1>1, <1>6, <1>9, <2>4 DEF Resolves, Proceeds
    <3>3. Alive' = Alive \ {x}
      BY <1>5, <2>4
    <3>4. Abstract!Settle(x)
      BY <1>4, <2>0, <2>4, <3>1, <3>2, <3>3 DEF Abstract!Settle
    <3> QED BY <3>4 DEF Abstract!Next
  <2>5. CASE r.phase \in Working /\ q.phase \in Late
    <3>1. Outcome(r) = "pending" /\ Outcome(q) = "pending"
      BY <1>1, <1>2, <2>5, Mapped
    <3>2. x \in Alive /\ Alive' = Alive \ {x}
      BY <1>5, <2>5
    <3> QED BY <1>4, <1>7, <2>0, <3>1, <3>2 DEF Abstract!Next, Abstract!Release
  <2>6. CASE \/ r.phase \in Working /\ q.phase \in Working
             \/ r.phase \in Late /\ q.phase \in Late
    <3>1. Outcome(r) = "pending" /\ Outcome(q) = "pending"
      BY <1>1, <1>2, <2>6, Mapped
    <3>2. Alive' = Alive
      BY <1>5, <2>6
    <3> QED BY <1>7, <2>0, <3>1, <3>2
  <2> QED BY <1>9, <2>1, <2>2, <2>3, <2>4, <2>5, <2>6 DEF Proceeds
<1> QED BY <1>3, <1>8, <1>9

\* The runtime implements OneShot, whichever verb a run is of and through
\* however many workers and awaits it goes: a run settles at most once, without
\* a worker, and a cancelled one is not resolved.
THEOREM Refinement == Spec => SettlesOnce
<1>1. IInv /\ [Next]_run => [Abstract!Next]_(Abstract!vars)
  <2> SUFFICES ASSUME IInv, [Next]_run PROVE [Abstract!Next]_(Abstract!vars)
    OBVIOUS
  <2>1. CASE UNCHANGED run
    BY <2>1 DEF Abstract!vars, Outcomes, Outcome, Settled, Alive, Aborted
  <2>2. ASSUME NEW x \in Runs, Step(x) PROVE [Abstract!Next]_(Abstract!vars)
    BY <2>2, AbstractStep DEF Abstract!vars
  <2> QED BY <2>1, <2>2 DEF Next
<1> QED
  BY <1>1, AbstractInit, Invariance, PTL DEF Spec, SettlesOnce, Abstract!Spec

=============================================================================
