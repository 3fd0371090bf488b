------------------------------ MODULE Commands ------------------------------
(***************************************************************************)
(* The bayescycle commands around the engine cache: what a command is      *)
(* asked for, which backend and engine it resolves, the preflight of that  *)
(* engine, the plan, the run directory it materializes, the engine it runs *)
(* and the replay of a run from its run.json.  Calls are the commands; the *)
(* ones that need the pinned engine go through the steps of Provisioning.  *)
(*                                                                         *)
(* The steps of writing and reading a run directory are in RunDirectory,   *)
(* the generation of datasets in GenerationRun: here a directory is        *)
(* written in one step.                                                    *)
(***************************************************************************)
EXTENDS Provisioning, Sequences

CONSTANTS Null, Other, \* nothing; a value that is no number
          Intents,     \* what a command may be asked for
          Machines,    \* the engines outside of the cache, per place: "bayesite" is on PATH
          Dirs,        \* directories commands may be given
          PinnedEngine,\* what the pinned release advertises
          Unit, MaxReportable, \* one, as target_accept is written; _settings.MAX_REPORTABLE_I64
          Bounded      \* TRUE: commands start within the bounds Undisturbed and AfterTwo

VARIABLES
    machine,  \* an element of Machines
    request,  \* request[c]: what c is to do, Null before it starts
    at,       \* at[c]: the next step of c outside of ensure_engine
    backend,  \* backend[c]: the backend it resolved, with its engine
    command,  \* command[c]: what it planned
    ran,      \* ran[c]: the engine it ran
    dirs      \* dirs[d]: the files of a directory and its run.json

cvars == <<machine, request, at, backend, command, ran, dirs>>
allvars == <<vars, cvars>>

Ends == {"idle", "refused", "shown", "done", "failed"}
Live(c) == at[c] \notin Ends /\ pc[c] # "killed"
Then(c, step) == at' = [at EXCEPT ![c] = step]
Put(f, c, x) == f' = [f EXCEPT ![c] = x]

-----------------------------------------------------------------------------
(* The verbs: what they read and write, and what may be asked of them. *)

ModelVerbs == {"sample", "prior-predictive", "simulate", "recover", "sbc"}
ReportVerbs == {"diagnose", "posterior-predictive", "posterior-check", "recover-check"}
ExportVerbs == {"idata", "plot"}

Capabilities(b) ==
  CASE b = "bayesite" -> ModelVerbs \cup ReportVerbs
    [] b = "bayesjax" -> {"sample", "prior-predictive"}
    [] OTHER -> {}
SettingsOf(verb) ==
  CASE verb = "sample" -> {"seed", "chains", "warmup", "draws", "max_tree_depth", "target_accept"}
    [] verb = "prior-predictive" -> {"seed", "draws"}
    [] verb = "sbc" -> {"replicates"}
    [] verb = "recover-check" -> {"interval"}
    [] verb \in {"simulate", "posterior-predictive", "posterior-check"} -> {"seed"}
    [] OTHER -> {}
ModelInputs(verb) ==
  CASE verb \in {"sample", "prior-predictive"} -> {"model", "data"}
    [] verb = "simulate" -> {"model", "data", "truth"}
    [] OTHER -> {"model", "scenario"}
ReportInputs(verb) ==
  IF verb \in {"posterior-predictive", "posterior-check"} THEN {"model", "data", "posterior"} ELSE {"posterior"}
Output(verb) == IF verb = "sample" THEN "posterior" ELSE verb
(* A request has every field; the options a verb does not have are not given, *)
(* and only the replay command replays.                                       *)
RequestFields == {"verb", "replay", "backend", "engine", "args", "show", "auto", "settings",
                  "source", "dir", "out", "validate"}
ASSUME IntentsAssumption ==
  \A i \in Intents :
    /\ DOMAIN i = RequestFields
    /\ i.replay <=> i.verb = "replay"
    /\ {i.dir, i.out} \subseteq Dirs
    /\ i.settings = [n \in DOMAIN i.settings |-> i.settings[n]]
    /\ i.verb # "replay" => DOMAIN i.settings \subseteq SettingsOf(i.verb)
ASSUME NullAssumption == Null # "pinned" \* the digest that every release has

RejectsArgs(verb) == verb \in {"replay", "ensure", "diagnose", "posterior-predictive"}

(* What the in-process backend parses before anything is written; the engine *)
(* is given its settings as they were typed.                                 *)
Bounds(verb, n) ==
  CASE n = "seed" -> 0..MaxReportable
    [] n = "target_accept" -> 1..Unit - 1
    [] n = "max_tree_depth" -> 1..20
    [] n = "draws" /\ verb = "sample" -> 4..MaxReportable
    [] OTHER -> 1..MaxReportable
Default(n) == IF n = "seed" THEN 0 ELSE Null
InProcess(verb, settings) ==
  [n \in SettingsOf(verb) |-> IF n \in DOMAIN settings THEN settings[n] ELSE Default(n)]
SettingsResolve(verb, settings) ==
  \A n \in DOMAIN settings : settings[n] # Other /\ settings[n] \in Bounds(verb, n)

-----------------------------------------------------------------------------
(* Starting, and the request a replay takes from run.json. *)

\* Commands that cannot touch the engine cache only meet others in the files
\* of a directory, which RunDirectory interleaves: they run alone.  (Bound.)
UsesCache(i) == i.backend = "bayesite" /\ i.engine = Null /\ machine["bayesite"] = Null /\ i.auto /\ ~i.show
Undisturbed(i) ==
  \A d \in Calls : Live(d) => UsesCache(i) /\ UsesCache(request[d])
\* Bound: after the first two commands there are only replays of replays, alone.
AfterTwo(i) ==
  LET started == {d \in Calls : request[d] # Null}
  IN  Cardinality(started) >= 2 =>
        /\ \A d \in started : ~Live(d)
        /\ i.replay /\ \E d \in started : request[d].replay /\ request[d].out = i.dir

Start(c, i) ==
  /\ at[c] = "idle" /\ request[c] = Null
  /\ forced[c] => i.verb = "ensure"
  /\ Bounded => Undisturbed(i) /\ AfterTwo(i)
  /\ Put(request, c, i)
  /\ Then(c, CASE i.verb = "replay" -> "load" [] i.verb = "ensure" -> "provision" [] OTHER -> "resolve")
  /\ UNCHANGED <<vars, machine, backend, command, ran, dirs>>

\* What run.json keeps of a run, and the request made of it again.
BackendReplayArgs(b, args) == IF b.id = "bayesite" THEN args ELSE <<>>
RunMetadata(r, b) ==
  [kind |-> r.verb, backend |-> b.id, source |-> r.source, settings |-> r.settings,
   args |-> BackendReplayArgs(b, r.args),
   engine |-> IF b.id = "bayesite" THEN [kind |-> b.kind, path |-> b.path, version |-> b.version, sha256 |-> b.sha256]
              ELSE Null]
\* Mutant: a sample is replayed with the settings that both kinds of draws have.
RequestOfSharedSettings(run, r) ==
  [r EXCEPT !.verb = run.kind, !.backend = run.backend, !.source = run.source, !.args = run.args,
            !.settings = [n \in DOMAIN run.settings \cap {"seed", "draws"} |-> run.settings[n]]]
RequestFromReplay(run, r) ==
  [r EXCEPT !.verb = run.kind, !.backend = run.backend, !.source = run.source, !.args = run.args,
            !.settings = [n \in DOMAIN run.settings \cap SettingsOf(run.kind) |-> run.settings[n]]]
LoadReplay(c) ==
  /\ at[c] = "load"
  /\ LET r == request[c]
     IN  IF (RejectsArgs(r.verb) /\ r.args # <<>>) \/ dirs[r.dir].run = Null
         THEN Then(c, "refused") /\ UNCHANGED request
         ELSE Then(c, "resolve") /\ Put(request, c, RequestFromReplay(dirs[r.dir].run, r))
  /\ UNCHANGED <<vars, machine, backend, command, ran, dirs>>

-----------------------------------------------------------------------------
(* Resolution of the backend, provisioning and preflight. *)

Engine(path, kind, sha) ==
  [id |-> "bayesite", path |-> path, kind |-> kind, sha256 |-> sha, version |-> Null, commands |-> {}]
Bayesjax == [id |-> "bayesjax"]
\* Exporting needs an engine unless it was told to skip the diagnosis, and
\* plotting exports only when there is no fit.nc.
NeedsEngine(r) ==
  CASE r.verb = "idata" -> r.validate # "skip" \/ r.engine # Null
    [] r.verb = "plot" -> "fit" \notin dirs[r.dir].files
    [] OTHER -> TRUE
\* Mutant: an explicit engine that is missing is provisioned instead.
ShouldReplaceMissing(r) == machine[IF r.engine = Null THEN "bayesite" ELSE r.engine] = Null /\ r.auto
ShouldAutoProvision(r) == r.engine = Null /\ machine["bayesite"] = Null /\ r.auto
\* Mutant: an explicit engine that is missing is looked up on PATH.
ExplicitOrOnPath(r) == Engine(IF r.engine = Null \/ machine[r.engine] = Null THEN "bayesite" ELSE r.engine,
                              IF r.engine = Null THEN "system" ELSE "explicit", Null)
Explicit(r) == Engine(IF r.engine = Null THEN "bayesite" ELSE r.engine,
                      IF r.engine = Null THEN "system" ELSE "explicit", Null)

RefusesOptions(r) ==
  \/ r.args # <<>> /\ RejectsArgs(r.verb)
  \/ r.verb \in ModelVerbs \cup ReportVerbs /\ r.verb \notin Capabilities(r.backend)
  \/ r.backend # "bayesite" /\ (r.engine # Null \/ r.args # <<>>)
  \/ r.verb \in ExportVerbs /\ dirs[r.dir].files = {}

Resolve(c) ==
  /\ at[c] = "resolve"
  /\ LET r == request[c]
     IN  \/ /\ RefusesOptions(r)
            /\ Then(c, "refused") /\ UNCHANGED backend
         \/ /\ ~RefusesOptions(r) /\ r.backend = "bayesjax"
            /\ Then(c, "plan") /\ Put(backend, c, Bayesjax)
         \/ /\ ~RefusesOptions(r) /\ r.backend = "bayesite"
            /\ \/ ~r.show /\ NeedsEngine(r) /\ ShouldAutoProvision(r)
                  /\ Then(c, "provision") /\ UNCHANGED backend
               \/ ~(~r.show /\ NeedsEngine(r) /\ ShouldAutoProvision(r))
                  /\ Put(backend, c, IF NeedsEngine(r) THEN Explicit(r) ELSE Null)
                  /\ Then(c, CASE r.verb \in ExportVerbs -> "export" [] r.show /\ r.verb \notin ExportVerbs -> "plan" [] OTHER -> "preflight")
  /\ UNCHANGED <<vars, machine, request, command, ran, dirs>>

Provision(c) ==
  /\ at[c] = "provision"
  /\ \/ (Call(c) \/ Kill(c)) /\ UNCHANGED <<at, backend>>
     \/ /\ pc[c] = "raised"
        /\ Then(c, "refused") /\ UNCHANGED <<vars, backend>>
     \/ /\ pc[c] = "returned"
        /\ Put(backend, c, Engine("cache", "provisioned", "pinned"))
        /\ Then(c, CASE request[c].verb = "ensure" -> "done"
                     [] request[c].verb \in ExportVerbs -> "export" [] OTHER -> "preflight")
        /\ UNCHANGED vars
  /\ UNCHANGED <<machine, request, command, ran, dirs>>

\* What is at a path now, Null when no executable file is there.
EngineAt(path) ==
  IF path # "cache" THEN machine[path]
  ELSE IF Installed /\ runnable[target] THEN PinnedEngine ELSE Null
\* The capabilities document, or the usage text of an engine that has none.
Advertised(e) == IF e.capabilities # Null THEN e.capabilities.commands ELSE e.usage
Version(e) == IF e.capabilities = Null THEN Null ELSE e.capabilities.version
\* Mutant: any engine that runs will do.
SupportsAny(e, verb) == e # Null
Supports(e, verb) == e # Null /\ verb \in Advertised(e)

Preflight(c) ==
  /\ at[c] = "preflight"
  /\ LET e == EngineAt(backend[c].path)
     IN  IF Supports(e, request[c].verb)
         THEN /\ Then(c, "plan")
              /\ Put(backend, c, [backend[c] EXCEPT
                       !.version = Version(e), !.commands = Advertised(e)])
         ELSE Then(c, "refused") /\ UNCHANGED backend
  /\ UNCHANGED <<vars, machine, request, command, ran, dirs>>

-----------------------------------------------------------------------------
(* Planning writes nothing; a shown plan ends there. *)

\* Mutant: the backend parses its settings when it is run.
PlanAcceptsAnySettings(r) ==
  /\ r.verb \in ModelVerbs => r.source # "invalid" /\ dirs[r.out].files = {}
  /\ r.verb \in ReportVerbs => ReportInputs(r.verb) \subseteq dirs[r.dir].files
                               /\ Output(r.verb) \notin dirs[r.dir].files
  /\ "--out" \notin {r.args[k] : k \in DOMAIN r.args}
PlanAccepts(r) ==
  /\ r.verb \in ModelVerbs => r.source # "invalid" /\ dirs[r.out].files = {}
  /\ r.verb \in ReportVerbs => ReportInputs(r.verb) \subseteq dirs[r.dir].files
                               /\ Output(r.verb) \notin dirs[r.dir].files
  /\ "--out" \notin {r.args[k] : k \in DOMAIN r.args}
  /\ r.backend = "bayesjax" => SettingsResolve(r.verb, r.settings)
Action(r) ==
  [verb |-> r.verb, backend |-> r.backend, source |-> r.source, args |-> r.args,
   settings |-> IF r.backend = "bayesjax" THEN InProcess(r.verb, r.settings) ELSE r.settings]

Plan(c) ==
  /\ at[c] = "plan"
  /\ LET r == request[c]
     IN  IF PlanAccepts(r)
         THEN Put(command, c, Action(r)) /\ Then(c, IF r.show THEN "shown" ELSE "materialize")
         ELSE Then(c, "refused") /\ UNCHANGED command
  /\ UNCHANGED <<vars, machine, request, backend, ran, dirs>>

Materialize(c) ==
  /\ at[c] = "materialize"
  /\ LET r == request[c]
     IN  \/ /\ r.verb \in ModelVerbs /\ dirs[r.out].files = {}
            /\ Put(dirs, r.out, [files |-> ModelInputs(r.verb) \cup (IF r.verb = "simulate" THEN {".bayesite"} ELSE {}),
                                 run |-> RunMetadata(r, backend[c])])
            /\ Then(c, "execute")
         \/ /\ r.verb \in ReportVerbs /\ Output(r.verb) \notin dirs[r.dir].files
            /\ Then(c, "execute") /\ UNCHANGED dirs
         \/ /\ IF r.verb \in ModelVerbs THEN dirs[r.out].files # {} ELSE Output(r.verb) \in dirs[r.dir].files
            /\ Then(c, "refused") /\ UNCHANGED dirs
  /\ UNCHANGED <<vars, machine, request, backend, command, ran>>

\* The engine is started by its path: there may be none now.  It ends with an
\* error, or it writes its output; simulated data are then normalised, which
\* fails when they are no data.
Written(r, wrote) ==
  LET d == IF r.verb \in ModelVerbs THEN r.out ELSE r.dir
  IN  IF wrote THEN Put(dirs, d, [dirs[d] EXCEPT !.files = @ \cup {Output(r.verb)}]) ELSE UNCHANGED dirs
Execute(c) ==
  /\ at[c] = "execute"
  /\ LET b == backend[c]
         e == IF b.id = "bayesite" THEN EngineAt(b.path) ELSE Null
     IN  \/ /\ b.id = "bayesite" /\ e = Null
            /\ Then(c, "failed") /\ UNCHANGED <<ran, dirs>>
         \/ /\ b.id = "bayesite" => e # Null
            /\ Put(ran, c, [engine |-> e, pinned |-> b.id = "bayesite" /\ b.path = "cache" /\ archive[target] = "whole"])
            /\ \E succeeds \in BOOLEAN :
                 Then(c, IF succeeds THEN "done" ELSE "failed") /\ Written(request[c], succeeds)
  /\ UNCHANGED <<vars, machine, request, backend, command>>

\* An export writes fit.nc or fails; a plot reuses the one there is.
Export(c) ==
  /\ at[c] = "export"
  /\ \/ Then(c, "failed") /\ UNCHANGED dirs
     \/ /\ Put(dirs, request[c].dir, [dirs[request[c].dir] EXCEPT !.files = @ \cup {"fit"}])
        /\ Then(c, "done")
  /\ UNCHANGED <<vars, machine, request, backend, command, ran>>

\* The user installs, rebuilds or removes engines.
Rebuild(m) ==
  /\ m # machine /\ machine' = m
  /\ UNCHANGED <<vars, request, at, backend, command, ran, dirs>>

CommandsInit ==
  /\ Init
  /\ machine \in Machines
  /\ request = [c \in Calls |-> Null] /\ backend = request /\ command = request /\ ran = request
  /\ at = [c \in Calls |-> "idle"]
  /\ dirs = [d \in Dirs |-> [files |-> {}, run |-> Null]]
CommandsNext ==
  \/ \E c \in Calls :
       \/ \E i \in Intents : Start(c, i)
       \/ LoadReplay(c) \/ Resolve(c) \/ Provision(c) \/ Preflight(c)
       \/ Plan(c) \/ Materialize(c) \/ Execute(c) \/ Export(c)
  \/ \E m \in Machines : Rebuild(m)
CommandsSpec == CommandsInit /\ [][CommandsNext]_allvars

-----------------------------------------------------------------------------
Acting(c) == at[c] \in {"execute", "done", "failed"}
Made(c, d) == Acting(c) /\ request[c].verb \in ModelVerbs /\ request[c].out = d

(* A command that is refused or only shown leaves no file behind and asks    *)
(* for no download, and what a run directory says was run had passed every   *)
(* check: "Bayesite engine paths and required subcommands are preflighted    *)
(* before execution creates run artifacts" (docs/invariants.md:33), "Use     *)
(* --show-plan to inspect the backend action without writing a run           *)
(* directory" (README.md:30), and settings are parsed while planning.        *)
CheckedBeforeWritten ==
  /\ \A d \in Dirs : dirs[d].files # {} =>
       \E c \in Calls :
         /\ Made(c, d)
         /\ LET run == dirs[d].run
            IN  /\ run.kind \in Capabilities(run.backend) /\ "--out" \notin {run.args[k] : k \in DOMAIN run.args}
                /\ run.backend = "bayesite" => run.kind \in backend[c].commands
                /\ run.backend # "bayesite" => /\ run.engine = Null /\ run.args = <<>>
                                               /\ SettingsResolve(run.kind, run.settings)
  /\ \A c \in Calls : pc[c] # "idle" =>
       LET r == request[c]
       IN  r.verb = "ensure" \/ (~r.show /\ r.engine = Null /\ r.auto /\ r.backend = "bayesite")

(* The engine a run directory records is the one that ran: the path that was *)
(* asked for, and for a provisioned engine the pinned release with its       *)
(* digest, whatever other commands install or remove while this one resolves *)
(* and plans (_backend_runtime.py:191-225).                                  *)
RecordedEngineRuns ==
  \A c \in Calls : ran[c] # Null /\ backend[c].id = "bayesite" =>
    LET b == backend[c]
    IN  /\ b.kind = "explicit" <=> request[c].engine # Null
        /\ b.kind = "explicit" => b.path = request[c].engine
        /\ b.sha256 # Null <=> b.kind = "provisioned"
        /\ b.kind = "provisioned" => /\ ran[c].pinned /\ ran[c].engine = PinnedEngine
                                     /\ b.version = Version(PinnedEngine)
        /\ command[c].verb \in ModelVerbs =>
             dirs[request[c].out].run.engine = [kind |-> b.kind, path |-> b.path, version |-> b.version, sha256 |-> b.sha256]

(* A replay runs the command that made the run: of its kind, on its backend, *)
(* with its settings and forwarded arguments, also a replay of a replay      *)
(* (replay.py:117-184, run_metadata.py:202-263).                             *)
ReplaysRunTheSameCommand ==
  \A c, o \in Calls :
    request[c] # Null /\ request[c].replay /\ command[c] # Null /\ Made(o, request[c].dir) =>
      command[c] = command[o]
=============================================================================
