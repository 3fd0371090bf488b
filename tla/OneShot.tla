------------------------------- MODULE OneShot -------------------------------
(***************************************************************************)
(* What a caller of the runtime may rely on, whatever it calls: a call     *)
(* settles at most once and never changes its mind, the worker it owns is  *)
(* gone by the time it settles, and one that was cancelled owns no worker  *)
(* from then on and can only be rejected.  CompilerClient implements this  *)
(* for a compile, EngineRun for a run, whose worker may change hands.      *)
(***************************************************************************)
CONSTANT Calls

VARIABLES
  outcome,    \* what the caller's promise shows
  alive,      \* the calls whose worker runs
  cancelled   \* the calls whose signal has aborted

vars == <<outcome, alive, cancelled>>

Init ==
  /\ outcome = [c \in Calls |-> "none"]
  /\ alive = {}
  /\ cancelled = {}

\* The call is made, and something is computed before there is a worker.
Prepare(c) ==
  /\ outcome[c] = "none"
  /\ outcome' = [outcome EXCEPT ![c] = "preparing"]
  /\ UNCHANGED <<alive, cancelled>>

\* The call gets a worker of its own.
Start(c) ==
  /\ outcome[c] \in {"none", "preparing"}
  /\ c \notin cancelled
  /\ outcome' = [outcome EXCEPT ![c] = "pending"]
  /\ alive' = alive \cup {c}
  /\ UNCHANGED cancelled

\* The call is refused before it ever had a worker.
Refuse(c) ==
  /\ outcome[c] \in {"none", "preparing"}
  /\ outcome' = [outcome EXCEPT ![c] = "rejected"]
  /\ UNCHANGED <<alive, cancelled>>

\* The worker goes while the call still computes on the caller's side.
Release(c) ==
  /\ outcome[c] = "pending"
  /\ c \in alive
  /\ alive' = alive \ {c}
  /\ UNCHANGED <<outcome, cancelled>>

Settle(c) ==
  /\ outcome[c] = "pending"
  /\ \E verdict \in {"resolved", "rejected"} :
       /\ verdict = "resolved" => c \notin cancelled
       /\ outcome' = [outcome EXCEPT ![c] = verdict]
  /\ alive' = alive \ {c}
  /\ UNCHANGED cancelled

\* The signal aborts, at any time: a call with a worker is rejected at once,
\* one that computes on the caller's side finds out later.
Cancel(c) ==
  /\ c \notin cancelled
  /\ cancelled' = cancelled \cup {c}
  /\ outcome' = IF c \in alive THEN [outcome EXCEPT ![c] = "rejected"] ELSE outcome
  /\ alive' = alive \ {c}

Next ==
  \E c \in Calls :
    Prepare(c) \/ Start(c) \/ Refuse(c) \/ Release(c) \/ Settle(c) \/ Cancel(c)

Spec == Init /\ [][Next]_vars

=============================================================================
