---------------------------- MODULE CompilerClient ----------------------------
(***************************************************************************)
(* CompilerClient of playground/site/src/compile/index.mjs: every call     *)
(* owns one fresh worker and settles once, after the worker is terminated, *)
(* on every exit.                                                          *)
(*                                                                         *)
(* A call is a record.  Its fields are the variables its closures share    *)
(* and the resources it holds.  `disposed` is worker = "terminated" and    *)
(* `settled` is a promise that is no longer pending.  The worker runs the  *)
(* user's Python, so no order of its messages is assumed: any message can  *)
(* come at any time while the listener is registered, "ready" repeatedly.  *)
(* Messages with a foreign id change nothing and are left out; schema and  *)
(* size checks are the choice between Compiled and Unusable.               *)
(***************************************************************************)
EXTENDS Naturals

CONSTANTS
  Calls,      \* the calls made, each with its own worker and signal
  MaxReady    \* bound: "ready" messages of one worker

ASSUME MaxReadyAssumption == MaxReady \in Nat \ {0}

VARIABLE call

Promises == {"none", "pending", "resolved", "rejected"}
Records ==
  [promise : Promises,
   worker : {"none", "running", "terminated"},
   startup : BOOLEAN,     \* startupTimer is armed
   timer : BOOLEAN,       \* the timer compileTimer refers to is armed
   leaked : Nat,          \* armed timers compileTimer no longer refers to
   ready : Nat,           \* "ready" messages received
   hashing : BOOLEAN,     \* the digest of the returned bytes is awaited
   listening : BOOLEAN,   \* onAbort is registered
   aborted : BOOLEAN]     \* signal.aborted

Idle ==
  [promise |-> "none", worker |-> "none", startup |-> FALSE, timer |-> FALSE,
   leaked |-> 0, ready |-> 0, hashing |-> FALSE, listening |-> FALSE, aborted |-> FALSE]

(***************************************************************************)
(* The closures of one call.                                               *)
(***************************************************************************)
\* Mutant: the startup timer is not cleared.
DisposeKeepsStartup(r) ==
  [r EXCEPT !.worker = "terminated", !.timer = FALSE, !.listening = FALSE]
Dispose(r) ==
  [r EXCEPT !.worker = "terminated", !.startup = FALSE, !.timer = FALSE, !.listening = FALSE]

Settled(r) == r.promise \in {"resolved", "rejected"}
Fail(r) == IF Settled(r) THEN r ELSE [Dispose(r) EXCEPT !.promise = "rejected"]
\* Mutant: success does not dispose.
SucceedOnly(r) == IF Settled(r) THEN r ELSE [r EXCEPT !.promise = "resolved"]
Succeed(r) == IF Settled(r) THEN r ELSE [Dispose(r) EXCEPT !.promise = "resolved"]

\* onMessage, ready: a second ready arms a second timer and forgets the first.
\* Mutant: the handle of the compile timer is never kept.
ReadiedUntracked(r) ==
  [r EXCEPT !.startup = FALSE, !.leaked = @ + 1, !.ready = @ + 1]
Readied(r) ==
  [r EXCEPT !.startup = FALSE, !.timer = TRUE, !.ready = @ + 1,
            !.leaked = IF r.timer THEN @ + 1 ELSE @]

\* hashes.then: the signal is looked at again, its listener is gone.
\* Mutant: it is not.
HashedBlindly(r) == Succeed([r EXCEPT !.hashing = FALSE])
Hashed(r) ==
  LET done == [r EXCEPT !.hashing = FALSE]
  IN IF r.aborted THEN Fail(done) ELSE Succeed(done)

(***************************************************************************)
(* Steps.                                                                  *)
(***************************************************************************)
Become(c, r) == call' = [call EXCEPT ![c] = r]

Init == call = [c \in Calls |-> Idle]

\* The source is too large, or the worker cannot be created.
Refuse(c) ==
  /\ call[c].promise = "none"
  /\ Become(c, [call[c] EXCEPT !.promise = "rejected"])

Opened(r) == [r EXCEPT !.promise = "pending", !.worker = "running", !.listening = TRUE]
Request(c) ==
  /\ call[c].promise = "none"
  /\ Become(c, IF call[c].aborted THEN Fail(Opened(call[c]))
               ELSE [Opened(call[c]) EXCEPT !.startup = TRUE])

Abort(c) ==
  LET r == [call[c] EXCEPT !.aborted = TRUE] IN
  /\ ~call[c].aborted
  /\ Become(c, IF call[c].listening THEN Fail(r) ELSE r)

Ready(c) ==
  /\ call[c].worker = "running"
  /\ call[c].ready < MaxReady
  /\ \/ Become(c, Readied(call[c]))
     \/ Become(c, Fail(Readied(call[c])))   \* postMessage throws

\* A well-formed success: the interpreter goes before the bytes are hashed.
Compiled(c) ==
  /\ call[c].worker = "running"
  /\ Become(c, [Dispose(call[c]) EXCEPT !.hashing = TRUE])

\* A declaration failure, reported as a value.
Declined(c) == call[c].worker = "running" /\ Become(c, Succeed(call[c]))

\* A malformed or oversized answer, or an error event of the worker.
Unusable(c) == call[c].worker = "running" /\ Become(c, Fail(call[c]))

HashDone(c) == call[c].hashing /\ Become(c, Hashed(call[c]))
\* Mutant: the digest's rejection is not handled.
HashFailedUnhandled(c) == call[c].hashing /\ Become(c, [call[c] EXCEPT !.hashing = FALSE])
HashFailed(c) == call[c].hashing /\ Become(c, Fail([call[c] EXCEPT !.hashing = FALSE]))

StartupTimeout(c) ==
  call[c].startup /\ Become(c, Fail([call[c] EXCEPT !.startup = FALSE]))
CompileTimeout(c) ==
  call[c].timer /\ Become(c, Fail([call[c] EXCEPT !.timer = FALSE]))
LeakedTimeout(c) ==
  call[c].leaked > 0 /\ Become(c, Fail([call[c] EXCEPT !.leaked = @ - 1]))

Step(c) ==
  \/ Refuse(c) \/ Request(c) \/ Abort(c)
  \/ Ready(c) \/ Compiled(c) \/ Declined(c) \/ Unusable(c)
  \/ HashDone(c) \/ HashFailed(c)
  \/ StartupTimeout(c) \/ CompileTimeout(c) \/ LeakedTimeout(c)

Next == \E c \in Calls : Step(c)

Spec == Init /\ [][Next]_call

\* An armed timer fires and a digest settles.  Nothing is assumed of the
\* worker, the caller or the signal.
Fairness ==
  \A c \in Calls :
    /\ WF_call(StartupTimeout(c))
    /\ WF_call(CompileTimeout(c))
    /\ WF_call(HashDone(c) \/ HashFailed(c))
FairSpec == Spec /\ Fairness

(***************************************************************************)
(* Properties.                                                             *)
(***************************************************************************)
\* Every call keeps its shape, and a timer is orphaned only by a repeated
\* "ready".
TypeOK ==
  /\ call \in [Calls -> Records]
  /\ \A c \in Calls : call[c].leaked > 0 => call[c].leaked < call[c].ready

\* A promise that has settled holds no worker, no timer it knows of and no
\* listener on the caller's signal, on every exit: success, declaration
\* failure, malformed answer, worker error, timeout, cancellation.
SettledHoldsNothing ==
  \A c \in Calls :
    Settled(call[c]) =>
      /\ call[c].worker # "running"
      /\ ~call[c].startup /\ ~call[c].timer /\ ~call[c].listening

\* A call that is still pending has something that will end it: a timer that
\* is armed or a digest that is awaited.  No sequence of messages of the
\* worker's Python leaves it waiting for nothing.
PendingIsBounded ==
  \A c \in Calls :
    call[c].promise = "pending" => call[c].startup \/ call[c].timer \/ call[c].hashing

\* Every call that is made settles.
EveryCallSettles ==
  \A c \in Calls : call[c].promise = "pending" ~> Settled(call[c])

\* The calls behave as OneShot promises: none settles twice or changes its
\* verdict, a settled one has no worker, and one whose signal was aborted does
\* not resolve, not even when the abort falls between the termination of the
\* worker and the end of the digest, where no listener is registered.
Outcomes == [c \in Calls |-> call[c].promise]
Alive == {c \in Calls : call[c].worker = "running"}
Aborted == {c \in Calls : call[c].aborted}
Abstract == INSTANCE OneShot WITH outcome <- Outcomes, alive <- Alive, cancelled <- Aborted
SettlesOnce == Abstract!Spec

=============================================================================
