--------------------------- MODULE Commands_proofs ---------------------------
(***************************************************************************)
(* Proofs about Commands, for every set of commands, intents, machines and *)
(* directories.                                                            *)
(*                                                                         *)
(* A command decides in the order resolve, provision, preflight, plan,     *)
(* materialize, execute, and what it has decided stays with it; what it    *)
(* shares is the cache, which Provisioning's invariant describes, and the  *)
(* run directories, which only ever grow once they hold a file.  So the    *)
(* invariant says, per step of a command, what it has established so far,  *)
(* and that a directory with files was made by some command.               *)
(***************************************************************************)
EXTENDS Commands, Provisioning_proofs

Executed == ModelVerbs \cup ReportVerbs
Filled(d) == dirs[d].files # {}

\* An execution is under way or over.
Acted(c) == at[c] \in {"done", "failed"} /\ request[c].verb \in Executed
Going(c) == at[c] \in {"materialize", "execute"} \/ Acted(c)
Resolved(c) == at[c] \in {"preflight", "plan"} \/ Going(c)
Preflighted(c) == (at[c] = "plan" /\ ~request[c].show) \/ Going(c)

RequestShape(c) ==
  at[c] # "idle" =>
    LET r == request[c]
    IN  /\ DOMAIN r = RequestFields
        /\ r.dir \in Dirs /\ r.out \in Dirs
        /\ r.settings = [n \in DOMAIN r.settings |-> r.settings[n]]
        /\ at[c] \notin {"load", "refused"} => DOMAIN r.settings \subseteq SettingsOf(r.verb)
\* What is still to come has not happened.
NotYet(c) ==
  /\ at[c] \in {"idle", "load", "resolve"} => pc[c] = "idle"
  /\ command[c] # Null => at[c] \in {"shown", "materialize", "execute", "done", "failed", "refused"}
  /\ ran[c] # Null => Acted(c)
  /\ at[c] = "execute" => request[c].verb \in Executed
MayProvision(c) ==
  at[c] = "provision" \/ pc[c] # "idle" =>
    LET r == request[c]
    IN  r.verb = "ensure" \/ (~r.show /\ r.engine = Null /\ r.auto /\ r.backend = "bayesite")
IsCapable(c) ==
  at[c] = "provision" \/ Resolved(c) =>
    (request[c].verb \in Executed => request[c].verb \in Capabilities(request[c].backend))
BackendIsResolved(c) ==
  Resolved(c) =>
    LET r == request[c]
        b == backend[c]
    IN  /\ b.id = r.backend
        /\ at[c] = "preflight" => r.backend = "bayesite"
        /\ r.backend = "bayesjax" => r.args = <<>>
        /\ r.backend # "bayesjax" =>
             /\ r.backend = "bayesite"
             /\ DOMAIN b = {"id", "path", "kind", "sha256", "version", "commands"}
             /\ b.kind = "explicit" <=> r.engine # Null
             /\ b.kind = "explicit" => b.path = r.engine
             /\ b.sha256 # Null <=> b.kind = "provisioned"
             /\ b.kind = "provisioned" => b.path = "cache"
EngineIsPreflighted(c) ==
  Preflighted(c) /\ backend[c].id = "bayesite" =>
    /\ request[c].verb \in backend[c].commands
    /\ backend[c].kind = "provisioned" => backend[c].version = Version(PinnedEngine)
CommandIsPlanned(c) ==
  /\ command[c] # Null \/ Going(c) => command[c] = Action(request[c])
  /\ Going(c) =>
       LET r == request[c]
       IN  /\ "--out" \notin {r.args[k] : k \in DOMAIN r.args}
           /\ r.backend = "bayesjax" => SettingsResolve(r.verb, r.settings)
           /\ r.verb \in ReportVerbs => Filled(r.dir)
ExportsFilled(c) ==
  /\ at[c] = "export" => request[c].verb \in ExportVerbs
  /\ at[c] \in {"provision", "export"} /\ request[c].verb \in ExportVerbs => Filled(request[c].dir)
\* A replay goes on with what it loaded.
IsLoaded(c) ==
  (at[c] \notin {"idle", "load", "refused"} \/ command[c] # Null) /\ request[c].replay =>
    LET r == request[c]
        run == dirs[r.dir].run
    IN  /\ Filled(r.dir)
        /\ r.verb = run.kind /\ r.backend = run.backend /\ r.source = run.source /\ r.args = run.args
        /\ r.settings = [n \in DOMAIN run.settings \cap SettingsOf(run.kind) |-> run.settings[n]]
RunIsRecorded(c) ==
  Acting(c) /\ request[c].verb \in ModelVerbs =>
    /\ Filled(request[c].out)
    /\ dirs[request[c].out].run = RunMetadata(request[c], backend[c])
PinnedEngineRan(c) ==
  ran[c] # Null /\ backend[c].id = "bayesite" /\ backend[c].kind = "provisioned" =>
    ran[c].pinned /\ ran[c].engine = PinnedEngine

Known(c) ==
  /\ RequestShape(c) /\ NotYet(c) /\ MayProvision(c) /\ IsCapable(c) /\ BackendIsResolved(c)
  /\ EngineIsPreflighted(c) /\ CommandIsPlanned(c) /\ ExportsFilled(c) /\ IsLoaded(c)
  /\ RunIsRecorded(c) /\ PinnedEngineRan(c)

StateShape ==
  /\ DOMAIN request = Calls /\ DOMAIN at = Calls /\ DOMAIN backend = Calls
  /\ DOMAIN command = Calls /\ DOMAIN ran = Calls /\ DOMAIN dirs = Dirs
  /\ \A d \in Dirs : DOMAIN dirs[d] = {"files", "run"}
DirsAreMade ==
  \A d \in Dirs : /\ Filled(d) => \E c \in Calls : Made(c, d)
                  /\ dirs[d].run # Null => Filled(d)

CInv == IInv /\ StateShape /\ DirsAreMade /\ \A c \in Calls : Known(c)

-----------------------------------------------------------------------------
(* The initial states satisfy the invariant. *)
LEMMA InitCInv == CommandsInit => CInv
<1> SUFFICES ASSUME CommandsInit PROVE CInv
  OBVIOUS
<1>1. IInv
  BY InitIInv DEF CommandsInit
<1>2. StateShape /\ DirsAreMade
  BY DEF CommandsInit, StateShape, DirsAreMade, Filled
<1>3. ASSUME NEW c \in Calls PROVE Known(c)
  <2>1. at[c] = "idle" /\ pc[c] = "idle" /\ command[c] = Null /\ ran[c] = Null
    BY DEF CommandsInit, Init
  <2> QED
    BY <2>1 DEF Known, RequestShape, NotYet, MayProvision, IsCapable, BackendIsResolved,
         EngineIsPreflighted, CommandIsPlanned, ExportsFilled, IsLoaded, RunIsRecorded,
         PinnedEngineRan, Resolved, Preflighted, Going, Acted, Acting
<1> QED BY <1>1, <1>2, <1>3 DEF CInv

\* No file is removed from a run directory, and its run.json stays.
DirsGrow == \A d \in Dirs : Filled(d) => Filled(d)' /\ dirs'[d].run = dirs[d].run
\* Nothing of the command e changes.
Rests(e) ==
  /\ pc'[e] = pc[e] /\ request'[e] = request[e] /\ at'[e] = at[e]
  /\ backend'[e] = backend[e] /\ command'[e] = command[e] /\ ran'[e] = ran[e]

(* What a command knows outlives the steps of others. *)
LEMMA RestingKnows ==
  ASSUME NEW e \in Calls, Known(e), Rests(e), DirsGrow
  PROVE  Known(e)'
<1> USE DEF Rests, Resolved, Preflighted, Going, Acted, Acting
<1>1. (RequestShape(e) /\ NotYet(e) /\ MayProvision(e) /\ IsCapable(e))'
  BY DEF Known, RequestShape, NotYet, MayProvision, IsCapable
<1>2. BackendIsResolved(e)' /\ EngineIsPreflighted(e)' /\ PinnedEngineRan(e)'
  BY DEF Known, BackendIsResolved, EngineIsPreflighted, PinnedEngineRan
<1>3. at[e] # "idle" => request[e].dir \in Dirs /\ request[e].out \in Dirs
  BY DEF Known, RequestShape
<1>4. CommandIsPlanned(e)'
  BY <1>3 DEF Known, CommandIsPlanned, DirsGrow
<1>5. ExportsFilled(e)'
  BY <1>3 DEF Known, ExportsFilled, DirsGrow
<1>6. IsLoaded(e)'
  BY <1>3 DEF Known, IsLoaded, DirsGrow, NotYet
<1>7. RunIsRecorded(e)'
  BY <1>3 DEF Known, RunIsRecorded, DirsGrow
<1> QED BY <1>1, <1>2, <1>4, <1>5, <1>6, <1>7 DEF Known

(* A step of one command preserves the invariant when that command goes on *)
(* knowing what its new step takes for granted, directories grow, and the  *)
(* command that fills one is then a command that made it.                  *)
LEMMA StepCInv ==
  ASSUME CInv, NEW c \in Calls, IInv', StateShape', Known(c)', DirsGrow,
         \A e \in Calls \ {c} : Rests(e),
         \A d \in Dirs : Made(c, d) => Made(c, d)',
         \A d \in Dirs : Filled(d)' /\ ~Filled(d) => Made(c, d)',
         \A d \in Dirs : dirs'[d].run # Null => dirs'[d].run = dirs[d].run \/ Filled(d)'
  PROVE  CInv'
<1>1. \A e \in Calls : Known(e)'
  BY RestingKnows DEF CInv
<1>2. ASSUME NEW d \in Dirs, Filled(d)' PROVE \E e \in Calls : Made(e, d)'
  <2>1. CASE Filled(d)
    <3>1. PICK e \in Calls : Made(e, d)
      BY <2>1 DEF CInv, DirsAreMade
    <3>2. e # c => Made(e, d)'
      BY <3>1 DEF Made, Acting, Rests
    <3> QED BY <3>1, <3>2
  <2> QED BY <1>2, <2>1
<1>3. DirsAreMade'
  BY <1>2 DEF CInv, DirsAreMade, DirsGrow
<1> QED BY <1>1, <1>3 DEF CInv

(* A step that leaves the directories alone makes none. *)
LEMMA QuietCInv ==
  ASSUME CInv, NEW c \in Calls, IInv', Known(c)',
         \A e \in Calls \ {c} : Rests(e),
         at[c] \notin {"execute", "done", "failed"},
         DOMAIN request' = Calls, DOMAIN at' = Calls, DOMAIN backend' = Calls,
         DOMAIN command' = Calls, DOMAIN ran' = Calls, UNCHANGED dirs
  PROVE  CInv'
<1>1. StateShape'
  BY DEF CInv, StateShape
<1>2. DirsGrow
  BY DEF DirsGrow, Filled
<1>3. \A d \in Dirs : ~Made(c, d) /\ Filled(d)' = Filled(d) /\ dirs'[d].run = dirs[d].run
  BY DEF Made, Acting, Filled
<1> QED BY <1>1, <1>2, <1>3, StepCInv

(* A request has the fields and the options of an intent. *)
LEMMA StartCInv ==
  ASSUME CInv, NEW c \in Calls, NEW i \in Intents, Start(c, i)
  PROVE  CInv'
<1> DEFINE next == CASE i.verb = "replay" -> "load" [] i.verb = "ensure" -> "provision" [] OTHER -> "resolve"
<1>1. /\ at[c] = "idle" /\ pc[c] = "idle" /\ command[c] = Null /\ ran[c] = Null
  BY DEF CInv, Known, NotYet, Start, Acted
<1>2. /\ request' = [request EXCEPT ![c] = i] /\ at' = [at EXCEPT ![c] = next]
      /\ UNCHANGED <<vars, backend, command, ran, dirs>>
  BY DEF Start, Put, Then
<1>3. /\ DOMAIN request' = Calls /\ DOMAIN at' = Calls /\ request'[c] = i /\ at'[c] = next
      /\ \A e \in Calls \ {c} : request'[e] = request[e] /\ at'[e] = at[e]
  BY <1>2 DEF CInv, StateShape
<1>4. /\ next = "load" => i.verb = "replay"
      /\ next = "provision" => i.verb = "ensure"
      /\ next = "resolve" => i.verb # "replay"
      /\ next \in {"load", "provision", "resolve"}
  OBVIOUS
<1> HIDE DEF next
<1>5. Known(c)'
  <2> USE <1>1, <1>2, <1>3, <1>4 DEF Resolved, Preflighted, Going, Acted, Acting, vars
  <2>1. RequestShape(c)' /\ IsLoaded(c)'
    BY IntentsAssumption DEF RequestShape, IsLoaded
  <2>2. NotYet(c)' /\ MayProvision(c)'
    BY DEF NotYet, MayProvision
  <2>3. IsCapable(c)' /\ ExportsFilled(c)'
    BY DEF IsCapable, ExportsFilled, Executed, ModelVerbs, ReportVerbs, ExportVerbs
  <2>4. BackendIsResolved(c)' /\ EngineIsPreflighted(c)' /\ CommandIsPlanned(c)'
        /\ RunIsRecorded(c)' /\ PinnedEngineRan(c)'
    BY DEF BackendIsResolved, EngineIsPreflighted, CommandIsPlanned, RunIsRecorded, PinnedEngineRan
  <2> QED BY <2>1, <2>2, <2>3, <2>4 DEF Known
<1>6. IInv'
  BY <1>2, NextIInv DEF CInv
<1>7. \A e \in Calls \ {c} : Rests(e)
  BY <1>2, <1>3 DEF Rests, vars
<1> QED
  BY <1>1, <1>2, <1>3, <1>5, <1>6, <1>7, QuietCInv DEF CInv, StateShape

(* A replay takes its request from a run directory that has files. *)
LEMMA LoadReplayCInv ==
  ASSUME CInv, NEW c \in Calls, LoadReplay(c)
  PROVE  CInv'
<1> DEFINE r == request[c]
           run == dirs[r.dir].run
<1>1. /\ at[c] = "load" /\ pc[c] = "idle" /\ command[c] = Null /\ ran[c] = Null
      /\ DOMAIN r = RequestFields /\ r.dir \in Dirs /\ r.out \in Dirs
      /\ r.settings = [n \in DOMAIN r.settings |-> r.settings[n]]
  BY DEF CInv, Known, NotYet, RequestShape, LoadReplay, Acted
<1>2. /\ UNCHANGED <<vars, backend, command, ran, dirs>>
      /\ \/ at' = [at EXCEPT ![c] = "refused"] /\ UNCHANGED request
         \/ /\ at' = [at EXCEPT ![c] = "resolve"] /\ run # Null
            /\ request' = [request EXCEPT ![c] = RequestFromReplay(run, r)]
  BY DEF LoadReplay, Put, Then
<1>3. /\ DOMAIN request' = Calls /\ DOMAIN at' = Calls
      /\ \A e \in Calls \ {c} : request'[e] = request[e] /\ at'[e] = at[e]
      /\ \/ at'[c] = "refused" /\ request'[c] = r
         \/ at'[c] = "resolve" /\ run # Null /\ request'[c] = RequestFromReplay(run, r)
  BY <1>2 DEF CInv, StateShape
<1>4. run # Null => Filled(r.dir)
  BY <1>1 DEF CInv, DirsAreMade
<1> DEFINE q == RequestFromReplay(run, r)
           kept == [n \in DOMAIN run.settings \cap SettingsOf(run.kind) |-> run.settings[n]]
<1>5. /\ DOMAIN q = RequestFields /\ q.dir = r.dir /\ q.out = r.out
      /\ q.verb = run.kind /\ q.backend = run.backend /\ q.source = run.source /\ q.args = run.args
      /\ q.settings = kept
  BY <1>1 DEF RequestFromReplay, RequestFields
<1>6. DOMAIN kept \subseteq SettingsOf(run.kind) /\ kept = [n \in DOMAIN kept |-> kept[n]]
  OBVIOUS
<1> HIDE DEF r, run, q, kept
<1>7. Known(c)'
  <2> USE <1>1, <1>2, <1>3, <1>5, <1>6 DEF Resolved, Preflighted, Going, Acted, Acting, vars
  <2>1. RequestShape(c)'
    BY DEF RequestShape, q
  <2>2. IsLoaded(c)'
    <3>1. CASE at'[c] = "refused"
      BY <3>1 DEF IsLoaded
    <3>2. CASE at'[c] = "resolve"
      <4>1. request'[c] = q
        BY <3>2 DEF q
      <4>2. dirs'[r.dir].run = run /\ dirs'[r.dir].files # {}
        BY <1>4, <3>2 DEF run, Filled
      <4> QED BY <4>1, <4>2 DEF IsLoaded, Filled, kept
    <3> QED BY <3>1, <3>2
  <2>3. NotYet(c)' /\ MayProvision(c)' /\ IsCapable(c)' /\ ExportsFilled(c)'
    BY DEF NotYet, MayProvision, IsCapable, ExportsFilled
  <2>4. BackendIsResolved(c)' /\ EngineIsPreflighted(c)' /\ CommandIsPlanned(c)'
        /\ RunIsRecorded(c)' /\ PinnedEngineRan(c)'
    BY DEF BackendIsResolved, EngineIsPreflighted, CommandIsPlanned, RunIsRecorded, PinnedEngineRan
  <2> QED BY <2>1, <2>2, <2>3, <2>4 DEF Known
<1>8. IInv'
  BY <1>2, NextIInv DEF CInv
<1>9. \A e \in Calls \ {c} : Rests(e)
  BY <1>2, <1>3 DEF Rests, vars
<1> QED
  BY <1>1, <1>2, <1>3, <1>7, <1>8, <1>9, QuietCInv DEF CInv, StateShape

(* What Resolve leaves of a command: an engine, a backend, or a refusal. *)
LEMMA ResolveCInv ==
  ASSUME CInv, NEW c \in Calls, Resolve(c)
  PROVE  CInv'
<1> DEFINE r == request[c]
<1>1. /\ at[c] = "resolve" /\ pc[c] = "idle" /\ command[c] = Null /\ ran[c] = Null
      /\ RequestShape(c) /\ IsLoaded(c)
  BY DEF CInv, Known, NotYet, Resolve, Acted
<1>2. /\ UNCHANGED <<vars, request, command, ran, dirs>>
      /\ DOMAIN at' = Calls /\ DOMAIN backend' = Calls
      /\ \A e \in Calls \ {c} : at'[e] = at[e] /\ backend'[e] = backend[e]
  BY DEF Resolve, Put, Then, CInv, StateShape
<1>3. \/ at'[c] = "refused"
      \/ ~RefusesOptions(r) /\ r.backend = "bayesjax" /\ at'[c] = "plan" /\ backend'[c] = Bayesjax
      \/ /\ ~RefusesOptions(r) /\ r.backend = "bayesite" /\ at'[c] = "provision"
         /\ ~r.show /\ ShouldAutoProvision(r)
      \/ /\ ~RefusesOptions(r) /\ r.backend = "bayesite" /\ r.verb \in ExportVerbs /\ at'[c] = "export"
      \/ /\ ~RefusesOptions(r) /\ r.backend = "bayesite" /\ r.verb \notin ExportVerbs
         /\ at'[c] = IF r.show THEN "plan" ELSE "preflight"
         /\ backend'[c] = Explicit(r)
  <2>1. r.verb \notin ExportVerbs => NeedsEngine(r)
    BY DEF NeedsEngine, ExportVerbs
  <2> QED BY <2>1 DEF Resolve, Put, Then, CInv, StateShape
<1>4. ~RefusesOptions(r) =>
        /\ r.verb \in Executed => r.verb \in Capabilities(r.backend)
        /\ r.backend = "bayesjax" => r.args = <<>>
        /\ r.verb \in ExportVerbs => Filled(r.dir)
  BY DEF RefusesOptions, Executed, Filled
<1>5. /\ Explicit(r).id = "bayesite"
      /\ DOMAIN Explicit(r) = {"id", "path", "kind", "sha256", "version", "commands"}
      /\ Explicit(r).kind = IF r.engine = Null THEN "system" ELSE "explicit"
      /\ Explicit(r).path = IF r.engine = Null THEN "bayesite" ELSE r.engine
      /\ Explicit(r).sha256 = Null
      /\ Bayesjax.id = "bayesjax"
  BY DEF Explicit, Engine, Bayesjax
<1> HIDE DEF r
<1>6. Known(c)'
  <2> USE <1>1, <1>2, <1>3, <1>4, <1>5 DEF Resolved, Preflighted, Going, Acted, Acting, vars, r
  <2>1. RequestShape(c)' /\ NotYet(c)' /\ IsCapable(c)'
    BY DEF RequestShape, NotYet, IsCapable
  <2>2. MayProvision(c)'
    BY DEF MayProvision, ShouldAutoProvision
  <2>3. BackendIsResolved(c)'
    BY DEF BackendIsResolved
  <2>4. EngineIsPreflighted(c)' /\ CommandIsPlanned(c)' /\ RunIsRecorded(c)' /\ PinnedEngineRan(c)'
    BY DEF EngineIsPreflighted, CommandIsPlanned, RunIsRecorded, PinnedEngineRan
  <2>5. ExportsFilled(c)' /\ IsLoaded(c)'
    BY DEF ExportsFilled, IsLoaded, Filled
  <2> QED BY <2>1, <2>2, <2>3, <2>4, <2>5 DEF Known
<1>7. IInv'
  BY <1>2, NextIInv DEF CInv
<1>8. \A e \in Calls \ {c} : Rests(e)
  BY <1>2 DEF Rests, vars
<1> QED
  BY <1>1, <1>2, <1>6, <1>7, <1>8, QuietCInv DEF CInv, StateShape

(* A step of ensure_engine is a step of Provisioning, of one call. *)
LEMMA CacheStep ==
  ASSUME IInv, NEW c \in Calls, Call(c) \/ Kill(c)
  PROVE  IInv' /\ \A e \in Calls \ {c} : pc'[e] = pc[e]
<1>1. IInv'
  BY NextIInv DEF Next
<1>2. \E step : pc' = pc \/ pc' = [pc EXCEPT ![c] = step]
  BY DEF Call, Kill, Begin, ForceRemove, Check, Download, Verify, Extract, Chmod, SwapRemove,
         Replace, Exists, RmtreeOpen, RmtreeUnlink, RmtreeRmdir, Goto
<1> QED BY <1>1, <1>2 DEF IInv, TypeOK

(* The engine that ensure_engine returns is the pinned one, at the cache. *)
LEMMA ProvisionCInv ==
  ASSUME CInv, NEW c \in Calls, Provision(c)
  PROVE  CInv'
<1> DEFINE r == request[c]
           b == Engine("cache", "provisioned", "pinned")
<1>1. at[c] = "provision" /\ Known(c) /\ command[c] = Null /\ ran[c] = Null
  BY DEF CInv, Known, NotYet, Provision, Acted
<1>2. /\ UNCHANGED <<request, command, ran, dirs>>
      /\ DOMAIN at' = Calls /\ DOMAIN backend' = Calls
      /\ \A e \in Calls \ {c} : at'[e] = at[e] /\ backend'[e] = backend[e]
  BY DEF Provision, Put, Then, CInv, StateShape
<1>3. \/ (Call(c) \/ Kill(c)) /\ UNCHANGED <<at, backend>>
      \/ UNCHANGED vars /\ at'[c] = "refused"
      \/ UNCHANGED vars /\ r.verb = "ensure" /\ at'[c] = "done"
      \/ UNCHANGED vars /\ r.verb \in ExportVerbs /\ at'[c] = "export"
      \/ /\ UNCHANGED vars /\ r.verb # "ensure" /\ r.verb \notin ExportVerbs
         /\ at'[c] = "preflight" /\ backend'[c] = b
  BY DEF Provision, Put, Then, CInv, StateShape
<1>4. IInv' /\ \A e \in Calls \ {c} : pc'[e] = pc[e]
  BY <1>3, CacheStep, NextIInv DEF CInv, vars
<1>5. /\ b.id = "bayesite" /\ b.kind = "provisioned" /\ b.path = "cache" /\ b.sha256 = "pinned"
      /\ DOMAIN b = {"id", "path", "kind", "sha256", "version", "commands"}
  BY DEF Engine
<1>6. r.verb # "ensure" => r.engine = Null /\ r.backend = "bayesite"
  BY <1>1 DEF Known, MayProvision
<1> HIDE DEF r, b
<1>7. Known(c)'
  <2> USE <1>1, <1>2, <1>3, <1>6 DEF Resolved, Preflighted, Going, Acted, Acting, vars, r, Known
  <2>1. RequestShape(c)' /\ NotYet(c)' /\ MayProvision(c)'
    BY DEF RequestShape, NotYet, MayProvision
  <2>2. IsCapable(c)' /\ ExportsFilled(c)' /\ IsLoaded(c)'
    BY DEF IsCapable, ExportsFilled, IsLoaded, Filled, Executed, ModelVerbs, ReportVerbs
  <2>3. BackendIsResolved(c)'
    BY <1>5, NullAssumption DEF BackendIsResolved, Executed, ModelVerbs, ReportVerbs, b
  <2>4. EngineIsPreflighted(c)' /\ CommandIsPlanned(c)' /\ RunIsRecorded(c)' /\ PinnedEngineRan(c)'
    BY DEF EngineIsPreflighted, CommandIsPlanned, RunIsRecorded, PinnedEngineRan, Executed,
           ModelVerbs, ReportVerbs
  <2> QED BY <2>1, <2>2, <2>3, <2>4
<1>8. \A e \in Calls \ {c} : Rests(e)
  BY <1>2, <1>4 DEF Rests
<1> QED
  BY <1>1, <1>2, <1>4, <1>7, <1>8, QuietCInv DEF CInv, StateShape

(* An engine that passes the preflight has the verb; at the cache it is the *)
(* pinned engine.                                                           *)
LEMMA PreflightCInv ==
  ASSUME CInv, NEW c \in Calls, Preflight(c)
  PROVE  CInv'
<1> DEFINE r == request[c]
           e == EngineAt(backend[c].path)
<1>1. at[c] = "preflight" /\ Known(c) /\ command[c] = Null /\ ran[c] = Null
  BY DEF CInv, Known, NotYet, Preflight, Acted
<1>2. /\ UNCHANGED <<vars, request, command, ran, dirs>>
      /\ DOMAIN at' = Calls /\ DOMAIN backend' = Calls
      /\ \A d \in Calls \ {c} : at'[d] = at[d] /\ backend'[d] = backend[d]
  BY DEF Preflight, Put, Then, CInv, StateShape
<1>3. \/ at'[c] = "refused"
      \/ /\ at'[c] = "plan" /\ e # Null /\ r.verb \in Advertised(e)
         /\ backend'[c] = [backend[c] EXCEPT !.version = Version(e), !.commands = Advertised(e)]
  BY DEF Preflight, Supports, Put, Then, CInv, StateShape
<1>4. backend[c].path = "cache" => e = Null \/ e = PinnedEngine
  BY DEF EngineAt
<1> HIDE DEF e
<1>5. ASSUME at'[c] = "refused" PROVE Known(c)'
  <2> USE <1>1, <1>2, <1>5 DEF Resolved, Preflighted, Going, Acted, Acting, vars, Known
  <2>1. RequestShape(c)' /\ NotYet(c)' /\ MayProvision(c)' /\ IsCapable(c)'
    BY DEF RequestShape, NotYet, MayProvision, IsCapable
  <2>2. ExportsFilled(c)' /\ IsLoaded(c)'
    BY DEF ExportsFilled, IsLoaded
  <2>3. BackendIsResolved(c)' /\ EngineIsPreflighted(c)' /\ CommandIsPlanned(c)' /\ RunIsRecorded(c)'
        /\ PinnedEngineRan(c)'
    BY DEF BackendIsResolved, EngineIsPreflighted, CommandIsPlanned, RunIsRecorded, PinnedEngineRan
  <2> QED BY <2>1, <2>2, <2>3
<1>6. ASSUME at'[c] # "refused" PROVE Known(c)'
  <2> USE <1>1, <1>2, <1>3, <1>6 DEF Resolved, Preflighted, Going, Acted, Acting, vars, Known
  <2>1. RequestShape(c)' /\ NotYet(c)' /\ MayProvision(c)' /\ IsCapable(c)'
    BY DEF RequestShape, NotYet, MayProvision, IsCapable
  <2>2. ExportsFilled(c)' /\ IsLoaded(c)'
    BY DEF ExportsFilled, IsLoaded, Filled
  <2>3. /\ DOMAIN backend[c] = {"id", "path", "kind", "sha256", "version", "commands"}
        /\ backend[c].id = "bayesite" /\ r.backend = "bayesite"
    BY DEF BackendIsResolved
  <2>4. /\ DOMAIN backend'[c] = {"id", "path", "kind", "sha256", "version", "commands"}
        /\ backend'[c].id = backend[c].id
        /\ backend'[c].kind = backend[c].kind /\ backend'[c].path = backend[c].path
        /\ backend'[c].sha256 = backend[c].sha256
        /\ backend'[c].version = Version(e)
        /\ backend'[c].commands = Advertised(e)
    BY <2>3
  <2>5. BackendIsResolved(c)'
    BY <2>3, <2>4 DEF BackendIsResolved
  <2>7. backend[c].kind = "provisioned" => e = PinnedEngine
    BY <1>4 DEF BackendIsResolved
  <2>8. EngineIsPreflighted(c)'
    BY <2>4, <2>7 DEF EngineIsPreflighted
  <2>6. CommandIsPlanned(c)' /\ RunIsRecorded(c)' /\ PinnedEngineRan(c)'
    BY DEF CommandIsPlanned, RunIsRecorded, PinnedEngineRan
  <2> QED BY <2>1, <2>2, <2>5, <2>6, <2>8
<1>7. IInv'
  BY <1>2, NextIInv DEF CInv
<1>8. \A d \in Calls \ {c} : Rests(d)
  BY <1>2 DEF Rests, vars
<1> QED
  BY <1>1, <1>2, <1>5, <1>6, <1>7, <1>8, QuietCInv DEF CInv, StateShape

(* A planned command is the request, with settings its backend accepts. *)
LEMMA PlanCInv ==
  ASSUME CInv, NEW c \in Calls, Plan(c)
  PROVE  CInv'
<1> DEFINE r == request[c]
<1>1. at[c] = "plan" /\ Known(c) /\ command[c] = Null /\ ran[c] = Null
  BY DEF CInv, Known, NotYet, Plan, Acted
<1>2. /\ UNCHANGED <<vars, request, backend, ran, dirs>>
      /\ DOMAIN at' = Calls /\ DOMAIN command' = Calls
      /\ \A e \in Calls \ {c} : at'[e] = at[e] /\ command'[e] = command[e]
  BY DEF Plan, Put, Then, CInv, StateShape
<1>3. \/ at'[c] = "refused" /\ command'[c] = Null
      \/ /\ PlanAccepts(r) /\ command'[c] = Action(r)
         /\ at'[c] = IF r.show THEN "shown" ELSE "materialize"
  BY <1>1 DEF Plan, Put, Then, CInv, StateShape
<1>4. PlanAccepts(r) =>
        /\ r.verb \in ReportVerbs => Filled(r.dir)
        /\ "--out" \notin {r.args[k] : k \in DOMAIN r.args}
        /\ r.backend = "bayesjax" => SettingsResolve(r.verb, r.settings)
  <2>1. \E x : x \in ReportInputs(r.verb)
    BY DEF ReportInputs
  <2> QED BY <2>1 DEF PlanAccepts, Filled
<1>5. Action(r)' = Action(r)
  BY <1>2
<1>6. Known(c)'
  <2> USE <1>1, <1>2, <1>3 DEF Resolved, Preflighted, Going, Acted, Acting, vars, Known
  <2>1. RequestShape(c)' /\ NotYet(c)' /\ MayProvision(c)' /\ IsCapable(c)'
    BY DEF RequestShape, NotYet, MayProvision, IsCapable
  <2>2. ExportsFilled(c)' /\ IsLoaded(c)'
    BY DEF ExportsFilled, IsLoaded, Filled
  <2>3. BackendIsResolved(c)' /\ EngineIsPreflighted(c)'
    BY DEF BackendIsResolved, EngineIsPreflighted
  <2>4. CommandIsPlanned(c)'
    BY <1>4 DEF CommandIsPlanned, Filled
  <2>5. RunIsRecorded(c)' /\ PinnedEngineRan(c)'
    BY DEF RunIsRecorded, PinnedEngineRan
  <2> QED BY <2>1, <2>2, <2>3, <2>4, <2>5
<1>7. IInv'
  BY <1>2, NextIInv DEF CInv
<1>8. \A e \in Calls \ {c} : Rests(e)
  BY <1>2 DEF Rests, vars
<1> QED
  BY <1>1, <1>2, <1>6, <1>7, <1>8, QuietCInv DEF CInv, StateShape

(* A run directory without files gets its inputs and its run.json. *)
LEMMA MaterializeCInv ==
  ASSUME CInv, NEW c \in Calls, Materialize(c)
  PROVE  CInv'
<1> DEFINE r == request[c]
           run == RunMetadata(r, backend[c])
           inputs == ModelInputs(r.verb) \cup (IF r.verb = "simulate" THEN {".bayesite"} ELSE {})
<1>1. at[c] = "materialize" /\ Known(c) /\ ran[c] = Null /\ r.dir \in Dirs /\ r.out \in Dirs
  BY DEF CInv, Known, NotYet, RequestShape, Materialize, Acted
<1>2. /\ UNCHANGED <<vars, request, backend, command, ran>>
      /\ DOMAIN at' = Calls
      /\ \A e \in Calls \ {c} : at'[e] = at[e]
  BY DEF Materialize, Put, Then, CInv, StateShape
<1>3. \/ /\ r.verb \in ModelVerbs /\ ~Filled(r.out) /\ at'[c] = "execute"
         /\ dirs' = [dirs EXCEPT ![r.out] = [files |-> inputs, run |-> run]]
      \/ r.verb \in ReportVerbs /\ at'[c] = "execute" /\ UNCHANGED dirs
      \/ at'[c] = "refused" /\ UNCHANGED dirs
  BY DEF Materialize, Put, Then, CInv, StateShape, Filled
<1>4. inputs # {}
  BY DEF ModelInputs
<1> HIDE DEF run, inputs
<1>5. /\ DOMAIN dirs' = Dirs /\ \A d \in Dirs : DOMAIN dirs'[d] = {"files", "run"}
      /\ DirsGrow
      /\ \A d \in Dirs : Filled(d)' /\ ~Filled(d) => d = r.out /\ r.verb \in ModelVerbs /\ at'[c] = "execute"
      /\ \A d \in Dirs : dirs'[d].run # Null => dirs'[d].run = dirs[d].run \/ Filled(d)'
  BY <1>1, <1>3, <1>4 DEF CInv, StateShape, DirsGrow, Filled
<1>6. r.verb \in ModelVerbs /\ at'[c] = "execute" => Filled(r.out)' /\ dirs'[r.out].run = run
  <2>1. ModelVerbs \cap ReportVerbs = {}
    BY DEF ModelVerbs, ReportVerbs
  <2> QED BY <1>1, <1>2, <1>3, <1>4, <2>1 DEF CInv, StateShape, Filled
<1>7. Known(c)'
  <2> USE <1>1, <1>2, <1>3, <1>5 DEF Resolved, Preflighted, Going, Acted, Acting, vars, Known
  <2>1. RequestShape(c)' /\ NotYet(c)' /\ MayProvision(c)' /\ IsCapable(c)'
    BY DEF RequestShape, NotYet, MayProvision, IsCapable, Executed
  <2>2. ExportsFilled(c)' /\ IsLoaded(c)'
    BY DEF ExportsFilled, IsLoaded, DirsGrow
  <2>3. BackendIsResolved(c)' /\ EngineIsPreflighted(c)' /\ PinnedEngineRan(c)'
    BY DEF BackendIsResolved, EngineIsPreflighted, PinnedEngineRan
  <2>4. CommandIsPlanned(c)'
    BY DEF CommandIsPlanned, DirsGrow
  <2>5. RunIsRecorded(c)'
    BY <1>6 DEF RunIsRecorded, run, Filled
  <2> QED BY <2>1, <2>2, <2>3, <2>4, <2>5
<1>8. IInv'
  BY <1>2, NextIInv DEF CInv
<1>9. \A e \in Calls \ {c} : Rests(e)
  BY <1>2 DEF Rests, vars
<1>10. \A d \in Dirs : ~Made(c, d) /\ (Filled(d)' /\ ~Filled(d) => Made(c, d)')
  BY <1>1, <1>2, <1>5 DEF Made, Acting
<1>11. StateShape'
  BY <1>2, <1>5 DEF CInv, StateShape
<1> QED BY <1>5, <1>7, <1>8, <1>9, <1>10, <1>11, StepCInv

(* The engine that runs is what is at the path now: the pinned engine, whole *)
(* and verified, at the cache.                                               *)
LEMMA ExecuteCInv ==
  ASSUME CInv, NEW c \in Calls, Execute(c)
  PROVE  CInv'
<1> DEFINE r == request[c]
           b == backend[c]
           d0 == IF r.verb \in ModelVerbs THEN r.out ELSE r.dir
<1>1. at[c] = "execute" /\ Known(c) /\ d0 \in Dirs
  BY DEF CInv, Known, RequestShape, Execute
<1>2. /\ UNCHANGED <<vars, request, backend, command>>
      /\ DOMAIN at' = Calls /\ DOMAIN ran' = Calls
      /\ \A e \in Calls \ {c} : at'[e] = at[e] /\ ran'[e] = ran[e]
      /\ at'[c] \in {"done", "failed"}
      /\ \/ UNCHANGED dirs
         \/ dirs' = [dirs EXCEPT ![d0] = [dirs[d0] EXCEPT !.files = @ \cup {Output(r.verb)}]]
  BY DEF Execute, Put, Then, Written, CInv, StateShape
<1>3. \/ ran'[c] = ran[c]
      \/ b.id = "bayesite" /\ b.path = "cache" => ran'[c].pinned /\ ran'[c].engine = PinnedEngine
  <2>1. IInv => InstalledIsVerified
    BY NoDirAssumption
       DEF IInv, TypeOK, InstalledIsVerified, Installed, NoDir, TargetHasReturned, VerifiedWhenHeld
  <2>2. Installed => archive[target] = "whole"
    BY <2>1 DEF CInv, InstalledIsVerified
  <2>3. EngineAt("cache") # Null => EngineAt("cache") = PinnedEngine /\ Installed
    BY DEF EngineAt
  <2>4. ran'[c] = ran[c] \/ ran'[c] = [engine |-> IF b.id = "bayesite" THEN EngineAt(b.path) ELSE Null,
            pinned |-> b.id = "bayesite" /\ b.path = "cache" /\ archive[target] = "whole"]
    BY DEF Execute, Put, CInv, StateShape
  <2>5. b.id = "bayesite" => ran'[c] = ran[c] \/ EngineAt(b.path) # Null
    BY DEF Execute, Put, CInv, StateShape
  <2>6. ASSUME b.id = "bayesite", b.path = "cache", ran'[c] # ran[c]
        PROVE  ran'[c].pinned /\ ran'[c].engine = PinnedEngine
    <3>1. EngineAt("cache") = PinnedEngine /\ archive[target] = "whole"
      BY <2>2, <2>3, <2>5, <2>6
    <3>2. ran'[c].engine = EngineAt("cache")
      BY <2>4, <2>6
    <3>3. (b.id = "bayesite" /\ b.path = "cache" /\ archive[target] = "whole") = TRUE
      BY <2>6, <3>1
    <3>4. ran'[c] = [engine |-> EngineAt("cache"), pinned |-> TRUE]
      BY <2>4, <2>6, <3>3
    <3> QED BY <3>1, <3>2, <3>4
  <2> QED BY <2>6
<1>4. ran[c] = Null /\ r.verb \in Executed
  BY <1>1 DEF Known, NotYet, Acted
<1>5. Filled(d0)
  BY <1>1, <1>4 DEF Known, RunIsRecorded, CommandIsPlanned, Executed, Acting, Going
<1> HIDE DEF d0
<1>6. /\ DOMAIN dirs' = Dirs /\ \A d \in Dirs : DOMAIN dirs'[d] = {"files", "run"}
      /\ DirsGrow
      /\ \A d \in Dirs : (Filled(d)' => Filled(d)) /\ dirs'[d].run = dirs[d].run
  BY <1>1, <1>2, <1>5 DEF CInv, StateShape, DirsGrow, Filled
<1>7. Known(c)'
  <2> USE <1>1, <1>2, <1>4, <1>6 DEF Resolved, Preflighted, Going, Acted, Acting, vars, Known
  <2>1. RequestShape(c)' /\ NotYet(c)' /\ MayProvision(c)' /\ IsCapable(c)'
    BY DEF RequestShape, NotYet, MayProvision, IsCapable
  <2>2. ExportsFilled(c)' /\ IsLoaded(c)'
    BY DEF ExportsFilled, IsLoaded, DirsGrow, RequestShape
  <2>3. BackendIsResolved(c)' /\ EngineIsPreflighted(c)'
    BY DEF BackendIsResolved, EngineIsPreflighted
  <2>4. PinnedEngineRan(c)'
    BY <1>3 DEF PinnedEngineRan, BackendIsResolved
  <2>5. CommandIsPlanned(c)' /\ RunIsRecorded(c)'
    BY DEF CommandIsPlanned, RunIsRecorded, DirsGrow, RequestShape
  <2> QED BY <2>1, <2>2, <2>3, <2>4, <2>5
<1>8. IInv'
  BY <1>2, NextIInv DEF CInv
<1>9. \A e \in Calls \ {c} : Rests(e)
  BY <1>2 DEF Rests, vars
<1>10. \A d \in Dirs : Made(c, d) => Made(c, d)'
  BY <1>2 DEF Made, Acting
<1>11. StateShape'
  BY <1>2, <1>6 DEF CInv, StateShape
<1> QED BY <1>6, <1>7, <1>8, <1>9, <1>10, <1>11, StepCInv

(* An export adds to a run directory that has files. *)
LEMMA ExportCInv ==
  ASSUME CInv, NEW c \in Calls, Export(c)
  PROVE  CInv'
<1> DEFINE r == request[c]
<1>1. at[c] = "export" /\ Known(c) /\ r.dir \in Dirs /\ Filled(r.dir) /\ r.verb \in ExportVerbs
  BY DEF CInv, Known, RequestShape, ExportsFilled, Export
<1>2. /\ UNCHANGED <<vars, request, backend, command, ran>>
      /\ DOMAIN at' = Calls
      /\ \A e \in Calls \ {c} : at'[e] = at[e]
      /\ at'[c] \in {"done", "failed"}
      /\ \/ UNCHANGED dirs
         \/ dirs' = [dirs EXCEPT ![r.dir] = [dirs[r.dir] EXCEPT !.files = @ \cup {"fit"}]]
  BY DEF Export, Put, Then, CInv, StateShape
<1>3. r.verb \notin Executed /\ r.verb \notin ModelVerbs
  BY <1>1 DEF Executed, ExportVerbs, ModelVerbs, ReportVerbs
<1>4. /\ DOMAIN dirs' = Dirs /\ \A d \in Dirs : DOMAIN dirs'[d] = {"files", "run"}
      /\ DirsGrow
      /\ \A d \in Dirs : (Filled(d)' => Filled(d)) /\ dirs'[d].run = dirs[d].run
  BY <1>1, <1>2 DEF CInv, StateShape, DirsGrow, Filled
<1>5. Known(c)'
  <2> USE <1>1, <1>2, <1>3, <1>4 DEF Resolved, Preflighted, Going, Acted, Acting, vars, Known
  <2>1. RequestShape(c)' /\ NotYet(c)' /\ MayProvision(c)' /\ IsCapable(c)'
    BY DEF RequestShape, NotYet, MayProvision, IsCapable
  <2>2. ExportsFilled(c)' /\ IsLoaded(c)'
    BY DEF ExportsFilled, IsLoaded, DirsGrow, RequestShape
  <2>3. BackendIsResolved(c)' /\ EngineIsPreflighted(c)' /\ PinnedEngineRan(c)'
    BY DEF BackendIsResolved, EngineIsPreflighted, PinnedEngineRan, NotYet
  <2>4. CommandIsPlanned(c)' /\ RunIsRecorded(c)'
    BY DEF CommandIsPlanned, RunIsRecorded, NotYet
  <2> QED BY <2>1, <2>2, <2>3, <2>4
<1>6. IInv'
  BY <1>2, NextIInv DEF CInv
<1>7. \A e \in Calls \ {c} : Rests(e)
  BY <1>2 DEF Rests, vars
<1>8. \A d \in Dirs : ~Made(c, d)
  BY <1>1 DEF Made, Acting
<1>9. StateShape'
  BY <1>2, <1>4 DEF CInv, StateShape
<1> QED BY <1>4, <1>5, <1>6, <1>7, <1>8, <1>9, StepCInv

(* What happens to nothing but the machine leaves the invariant as it was. *)
LEMMA RebuildCInv ==
  ASSUME CInv, UNCHANGED <<vars, request, at, backend, command, ran, dirs>>
  PROVE  CInv'
<1>1. IInv'
  BY NextIInv DEF CInv
<1>2. StateShape' /\ DirsAreMade'
  BY DEF CInv, StateShape, DirsAreMade, Filled, Made, Acting
<1>3. \A e \in Calls : Known(e)'
  BY RestingKnows DEF CInv, Rests, DirsGrow, Filled, vars
<1> QED BY <1>1, <1>2, <1>3 DEF CInv

(* Every step preserves the invariant. *)
LEMMA NextCInv == CInv /\ [CommandsNext]_allvars => CInv'
BY StartCInv, LoadReplayCInv, ResolveCInv, ProvisionCInv, PreflightCInv, PlanCInv,
   MaterializeCInv, ExecuteCInv, ExportCInv, RebuildCInv
   DEF CommandsNext, allvars, cvars, Rebuild

(* The commands' invariant holds of every state. *)
THEOREM CommandsInvariance == CommandsSpec => []CInv
BY InitCInv, NextCInv, PTL DEF CommandsSpec

-----------------------------------------------------------------------------
(* What the commands do to the engine cache is what concurrent calls of    *)
(* ensure_engine do: the theorems about Provisioning hold of them too.     *)
THEOREM CommandsProvision == CommandsSpec => Spec
<1>1. CommandsInit => Init
  BY DEF CommandsInit
<1>2. [CommandsNext]_allvars => [Next]_vars
  BY DEF CommandsNext, Next, allvars, Start, LoadReplay, Resolve, Provision, Preflight, Plan,
         Materialize, Execute, Export, Rebuild
<1> QED BY <1>1, <1>2, PTL DEF CommandsSpec, Spec

(* What a run directory says was run had passed every check, and only an   *)
(* ensure or an unshown command without an engine of its own downloads one.*)
THEOREM ChecksComeFirst == CommandsSpec => []CheckedBeforeWritten
<1>1. ASSUME CInv PROVE CheckedBeforeWritten
  <2>1. ASSUME NEW d \in Dirs, Filled(d)
        PROVE  \E c \in Calls :
                 /\ Made(c, d)
                 /\ LET run == dirs[d].run
                    IN  /\ run.kind \in Capabilities(run.backend) /\ "--out" \notin {run.args[k] : k \in DOMAIN run.args}
                        /\ run.backend = "bayesite" => run.kind \in backend[c].commands
                        /\ run.backend # "bayesite" => /\ run.engine = Null /\ run.args = <<>>
                                                       /\ SettingsResolve(run.kind, run.settings)
    <3>1. PICK c \in Calls : Made(c, d)
      BY <1>1, <2>1 DEF CInv, DirsAreMade
    <3> DEFINE r == request[c]
               run == dirs[d].run
    <3>2. Going(c) \/ at[c] = "execute"
      BY <3>1 DEF Made, Acting, Going, Acted, Executed
    <3>3. /\ run = RunMetadata(r, backend[c]) /\ Known(c) /\ r.verb \in Executed
      BY <1>1, <3>1 DEF CInv, Known, RunIsRecorded, Made, Executed
    <3>4. /\ r.verb \in Capabilities(r.backend) /\ backend[c].id = r.backend
          /\ r.backend \in {"bayesite", "bayesjax"}
          /\ "--out" \notin {r.args[k] : k \in DOMAIN r.args}
          /\ r.backend = "bayesjax" => r.args = <<>> /\ SettingsResolve(r.verb, r.settings)
          /\ r.backend = "bayesite" => r.verb \in backend[c].commands
      BY <3>2, <3>3 DEF Known, IsCapable, BackendIsResolved, EngineIsPreflighted, CommandIsPlanned,
                        Resolved, Preflighted, Going
    <3>5. /\ run.kind = r.verb /\ run.backend = r.backend /\ run.settings = r.settings
          /\ r.backend = "bayesite" => run.args = r.args
          /\ r.backend = "bayesjax" => run.args = <<>> /\ run.engine = Null
      BY <3>3, <3>4 DEF RunMetadata, BackendReplayArgs
    <3> HIDE DEF r, run
    <3>6. "--out" \notin {run.args[k] : k \in DOMAIN run.args}
      BY <3>4, <3>5
    <3> QED BY <3>1, <3>4, <3>5, <3>6 DEF run
  <2>2. \A c \in Calls : MayProvision(c)
    BY <1>1 DEF CInv, Known
  <2> QED BY <2>1, <2>2 DEF CheckedBeforeWritten, MayProvision, Filled
<1> QED BY <1>1, CommandsInvariance, PTL

(* The engine a run directory records is the one that ran. *)
THEOREM RecordedEngineRan == CommandsSpec => []RecordedEngineRuns
<1>1. ASSUME CInv, NEW c \in Calls, ran[c] # Null, backend[c].id = "bayesite"
      PROVE  LET b == backend[c]
             IN  /\ b.kind = "explicit" <=> request[c].engine # Null
                 /\ b.kind = "explicit" => b.path = request[c].engine
                 /\ b.sha256 # Null <=> b.kind = "provisioned"
                 /\ b.kind = "provisioned" => /\ ran[c].pinned /\ ran[c].engine = PinnedEngine
                                              /\ b.version = Version(PinnedEngine)
                 /\ command[c].verb \in ModelVerbs =>
                      dirs[request[c].out].run.engine = [kind |-> b.kind, path |-> b.path, version |-> b.version, sha256 |-> b.sha256]
  <2>1. Known(c) /\ Acted(c) /\ Going(c)
    BY <1>1 DEF CInv, Known, NotYet, Going
  <2>2. command[c].verb = request[c].verb
    BY <2>1 DEF Known, CommandIsPlanned, Action
  <2>3. BackendIsResolved(c) /\ EngineIsPreflighted(c) /\ Resolved(c) /\ Preflighted(c) /\ PinnedEngineRan(c)
    BY <2>1 DEF Known, Resolved, Preflighted
  <2>4. request[c].verb \in ModelVerbs => dirs[request[c].out].run = RunMetadata(request[c], backend[c])
    BY <2>1 DEF Known, RunIsRecorded, Acted, Acting
  <2>5. RunMetadata(request[c], backend[c]).engine =
          [kind |-> backend[c].kind, path |-> backend[c].path,
           version |-> backend[c].version, sha256 |-> backend[c].sha256]
    BY <1>1 DEF RunMetadata
  <2> QED BY <1>1, <2>2, <2>3, <2>4, <2>5 DEF BackendIsResolved, EngineIsPreflighted, PinnedEngineRan
<1>2. CInv => RecordedEngineRuns
  BY <1>1 DEF RecordedEngineRuns
<1> QED BY <1>2, CommandsInvariance, PTL

(* A replay runs the command that made the run, also a replay of a replay. *)
THEOREM ReplaysRepeat == CommandsSpec => []ReplaysRunTheSameCommand
<1>1. ASSUME CInv, NEW c \in Calls, NEW o \in Calls, request[c].replay, command[c] # Null,
             Made(o, request[c].dir)
      PROVE  command[c] = command[o]
  <2> DEFINE r == request[c]
             q == request[o]
             run == dirs[r.dir].run
  <2>1. Known(c) /\ Known(o) /\ Going(o)
    BY <1>1 DEF CInv, Made, Acting, Going, Acted, Executed
  <2>2. command[c] = Action(r) /\ command[o] = Action(q)
    BY <1>1, <2>1 DEF CInv, Known, CommandIsPlanned, Going
  <2>3. run = RunMetadata(q, backend[o]) /\ q.verb \in ModelVerbs
    BY <1>1 DEF CInv, Known, RunIsRecorded, Made
  <2>4. /\ r.verb = run.kind /\ r.backend = run.backend /\ r.source = run.source /\ r.args = run.args
        /\ r.settings = [n \in DOMAIN run.settings \cap SettingsOf(run.kind) |-> run.settings[n]]
    BY <1>1 DEF CInv, Known, IsLoaded
  <2>5. /\ backend[o].id = q.backend /\ q.backend \in {"bayesite", "bayesjax"}
        /\ q.backend = "bayesjax" => q.args = <<>>
    BY <1>1, <2>1 DEF CInv, Known, BackendIsResolved, Resolved, Going
  <2>6. /\ q.settings = [n \in DOMAIN q.settings |-> q.settings[n]]
        /\ DOMAIN q.settings \subseteq SettingsOf(q.verb)
    BY <1>1 DEF CInv, Known, RequestShape, Made, Acting
  <2>7. /\ run.kind = q.verb /\ run.backend = q.backend /\ run.source = q.source
        /\ run.settings = q.settings /\ run.args = q.args
    BY <2>3, <2>5 DEF RunMetadata, BackendReplayArgs
  <2> HIDE DEF r, q, run
  <2>8. DOMAIN q.settings \cap SettingsOf(q.verb) = DOMAIN q.settings
    BY <2>6
  <2>9. r.settings = q.settings
    BY <2>4, <2>6, <2>7, <2>8
  <2> QED BY <2>2, <2>4, <2>7, <2>9 DEF Action
<1>2. CInv => ReplaysRunTheSameCommand
  BY <1>1 DEF ReplaysRunTheSameCommand
<1> QED BY <1>2, CommandsInvariance, PTL
==============================================================================
