------------------------ MODULE CompilerClient_proofs ------------------------
(***************************************************************************)
(* Proofs about CompilerClient, for every set of calls and every number of *)
(* "ready" messages.                                                       *)
(*                                                                         *)
(* The calls do not touch each other, so the invariant is one predicate    *)
(* Good on a record, true of every call.  Core is the part of it that the  *)
(* closures fail and succeed need to find: they are reached in the middle  *)
(* of a handler, where Good does not hold.                                 *)
(***************************************************************************)
EXTENDS CompilerClient, TLAPS

Released(r) == r.worker # "running" /\ ~r.startup /\ ~r.timer /\ ~r.listening

Core(r) ==
  /\ r \in Records
  /\ r.leaked > 0 => r.leaked < r.ready
  /\ Settled(r) => Released(r)

Good(r) ==
  /\ Core(r)
  /\ r.timer => r.leaked < r.ready
  /\ r.promise = "none" => Released(r) /\ r.leaked = 0 /\ ~r.hashing
  /\ r.promise = "pending" =>
       IF r.worker = "running"
       THEN r.listening /\ ~r.aborted /\ ~r.hashing /\ (r.startup \/ r.timer)
       ELSE Released(r) /\ r.hashing

IInv == call \in [Calls -> Records] /\ \A c \in Calls : Good(call[c])

(***************************************************************************)
(* The closures.                                                           *)
(***************************************************************************)
\* fail leaves a call good, wherever it is called from: the promise is settled
\* and dispose has run, or the call had settled before.
LEMMA FailGood ==
  ASSUME NEW r, Core(r)
  PROVE  /\ Good(Fail(r))
         /\ Settled(r) => Fail(r) = r
         /\ ~Settled(r) => Fail(r).promise = "rejected"
BY DEF Core, Good, Fail, Dispose, Settled, Released, Records, Promises

\* So does succeed.
LEMMA SucceedGood ==
  ASSUME NEW r, Core(r)
  PROVE  /\ Good(Succeed(r))
         /\ Settled(r) => Succeed(r) = r
         /\ ~Settled(r) => Succeed(r).promise = "resolved"
BY DEF Core, Good, Succeed, Dispose, Settled, Released, Records, Promises

\* A ready message, first or repeated, arms a timer for a running worker.
LEMMA ReadiedGood ==
  ASSUME NEW r, Good(r), r.worker = "running"
  PROVE  Good(Readied(r))
<1>1. /\ r \in Records
      /\ r.promise = "pending" /\ r.listening /\ ~r.aborted /\ ~r.hashing
      /\ r.leaked > 0 \/ r.timer => r.leaked < r.ready
  BY DEF Good, Core, Settled, Released, Records, Promises
<1> DEFINE leaked == IF r.timer THEN r.leaked + 1 ELSE r.leaked
<1>2. leaked \in Nat /\ r.ready + 1 \in Nat /\ leaked < r.ready + 1
  <2>1. r.leaked \in Nat /\ r.ready \in Nat
    BY <1>1 DEF Records
  <2>2. CASE r.timer
    BY <1>1, <2>1, <2>2
  <2>3. CASE ~r.timer
    <3>1. r.leaked = 0 \/ r.leaked > 0
      BY <2>1
    <3> QED BY <1>1, <2>1, <2>3, <3>1
  <2> QED BY <2>2, <2>3
<1> HIDE DEF leaked
<1>3. Readied(r) = [r EXCEPT !.startup = FALSE, !.timer = TRUE, !.ready = r.ready + 1,
                             !.leaked = leaked]
  BY DEF Readied, leaked
<1>4. /\ Readied(r) \in Records
      /\ Readied(r).leaked < Readied(r).ready
      /\ Readied(r).timer
      /\ \A f \in {"promise", "worker", "listening", "aborted", "hashing"} :
           Readied(r)[f] = r[f]
  BY <1>1, <1>2, <1>3 DEF Records
<1> QED BY <1>1, <1>4 DEF Good, Core, Settled

(***************************************************************************)
(* A step replaces one record by a good one, and is a move of OneShot or   *)
(* none.                                                                   *)
(***************************************************************************)
Settles(r, q) ==
  r.promise = "pending" /\ Settled(q) /\ (q.promise = "resolved" => ~r.aborted)

\* The signal aborts: the call is rejected if it has a worker.
Cancels(r, q) ==
  /\ ~r.aborted /\ q.aborted
  /\ q.worker # "running"
  /\ q.promise = IF r.worker = "running" THEN "rejected" ELSE r.promise

Moves(r, q) ==
  \/ /\ q.aborted = r.aborted
     /\ \/ q.promise = r.promise /\ (q.worker = "running" => r.worker = "running")
        \/ r.promise = "none" /\ q.promise = "pending" /\ q.worker = "running" /\ ~r.aborted
        \/ r.promise = "none" /\ q.promise = "rejected"
        \/ Settles(r, q)
  \/ Cancels(r, q)

\* Where fail takes a handler that has changed neither promise, worker nor
\* signal.
LEMMA FailMoves ==
  ASSUME NEW r, NEW x, Core(x), r.promise \in Promises,
         x.promise = r.promise, x.worker = r.worker, x.aborted = r.aborted
  PROVE  Good(Fail(x)) /\ Moves(r, Fail(x))
<1>1. Fail(x).aborted = x.aborted
  BY DEF Core, Fail, Dispose, Records
<1> QED BY <1>1, FailGood DEF Settled, Promises, Moves, Settles

LEMMA StepGood ==
  ASSUME NEW c \in Calls, IInv, Step(c)
  PROVE  \E q : /\ Good(q)
                /\ Moves(call[c], q)
                /\ call' = [call EXCEPT ![c] = q]
<1> DEFINE r == call[c]
           Goal(q) == Good(q) /\ Moves(r, q)
<1> SUFFICES \E q : Goal(q) /\ Become(c, q)
  BY DEF Become
<1>0. Good(r) /\ Core(r) /\ r \in Records /\ r.promise \in Promises
  BY DEF IInv, Good, Core, Records
<1>1. CASE Refuse(c)
  <2> DEFINE q == [r EXCEPT !.promise = "rejected"]
  <2>1. Goal(q)
    BY <1>0, <1>1 DEF Refuse, Good, Core, Settled, Released, Records, Promises, Moves, Settles
  <2> QED BY <1>1, <2>1 DEF Refuse
<1>2. CASE Request(c)
  <2> DEFINE o == Opened(r)
             q == [o EXCEPT !.startup = TRUE]
  <2>1. Core(o) /\ o.promise = "pending"
    BY <1>0, <1>2 DEF Request, Opened, Good, Core, Settled, Released, Records, Promises
  <2>2. Goal(Fail(o))
    <3>1. Fail(o).aborted = r.aborted
      BY <1>0, <2>1 DEF Core, Fail, Dispose, Opened, Records
    <3> QED BY <1>2, <2>1, <3>1, FailGood DEF Request, Settled, Moves
  <2>3. ~r.aborted => Goal(q)
    BY <1>0, <1>2 DEF Request, Opened, Good, Core, Settled, Released, Records, Promises, Moves, Settles
  <2> QED BY <1>2, <2>2, <2>3 DEF Request
<1>3. CASE Abort(c)
  <2> DEFINE a == [r EXCEPT !.aborted = TRUE]
  <2>1. Core(a) /\ a.promise = r.promise /\ a.worker = r.worker /\ a.aborted /\ ~r.aborted
    BY <1>0, <1>3 DEF Abort, Core, Settled, Released, Records, Promises
  <2>2. r.listening => Goal(Fail(a))
    <3>1. Fail(a).aborted /\ (Settled(a) \/ Fail(a).worker # "running")
      BY <1>0, <2>1 DEF Core, Fail, Dispose, Records
    <3>2. r.listening => r.promise = "pending" /\ r.worker = "running"
      BY <1>0 DEF Good, Core, Settled, Released, Records, Promises
    <3> QED BY <2>1, <3>1, <3>2, FailGood DEF Settled, Moves, Cancels
  <2>3. ~r.listening => Goal(a)
    <3>1. ~r.listening => r.worker # "running"
      BY <1>0 DEF Good, Core, Settled, Released, Records, Promises
    <3>2. ~r.listening => Good(a)
      BY <1>0, <2>1, <3>1 DEF Good, Core, Settled, Released, Records, Promises
    <3> QED BY <2>1, <3>1, <3>2 DEF Moves, Cancels
  <2> QED BY <1>3, <2>2, <2>3 DEF Abort
<1>4. CASE Ready(c)
  <2>1. r.worker = "running"
    BY <1>4 DEF Ready
  <2>2. Good(Readied(r)) /\ Core(Readied(r))
    BY <1>0, <2>1, ReadiedGood DEF Good
  <2>3. /\ Readied(r).promise = r.promise /\ Readied(r).worker = r.worker
        /\ Readied(r).aborted = r.aborted
    BY <1>0 DEF Readied, Records
  <2>4. Goal(Readied(r)) /\ Goal(Fail(Readied(r)))
    BY <1>0, <2>2, <2>3, FailMoves DEF Moves
  <2> QED BY <1>4, <2>4 DEF Ready
<1>5. CASE Compiled(c)
  <2> DEFINE q == [Dispose(r) EXCEPT !.hashing = TRUE]
  <2>1. Goal(q)
    BY <1>0, <1>5 DEF Compiled, Dispose, Good, Core, Settled, Released, Records, Promises, Moves, Settles
  <2> QED BY <1>5, <2>1 DEF Compiled
<1>6. CASE Declined(c)
  <2>1. r.promise = "pending" /\ ~r.aborted
    BY <1>0, <1>6 DEF Declined, Good, Core, Settled, Released, Records, Promises
  <2>2. Good(Succeed(r)) /\ Succeed(r).promise = "resolved" /\ Succeed(r).aborted = r.aborted
    BY <1>0, <2>1, SucceedGood DEF Settled, Succeed, Dispose, Records
  <2>3. Goal(Succeed(r))
    BY <2>1, <2>2 DEF Moves, Settles, Settled
  <2> QED BY <1>6, <2>3 DEF Declined
<1>7. CASE Unusable(c)
  <2>1. Goal(Fail(r))
    BY <1>0, FailMoves
  <2> QED BY <1>7, <2>1 DEF Unusable
<1> DEFINE done == [r EXCEPT !.hashing = FALSE]
<1>8. Core(done) /\ done.promise = r.promise /\ done.worker = r.worker /\ done.aborted = r.aborted /\ Goal(Fail(done))
  <2>1. Core(done) /\ done.promise = r.promise /\ done.worker = r.worker /\ done.aborted = r.aborted
    BY <1>0 DEF Core, Settled, Released, Records, Promises
  <2> QED BY <1>0, <2>1, FailMoves
<1>9. CASE HashDone(c)
  <2>1. r.promise # "none"
    BY <1>0, <1>9 DEF HashDone, Good
  <2>2. ~r.aborted => Goal(Succeed(done))
    <3>1. Succeed(done).aborted = r.aborted
      BY <1>8 DEF Core, Succeed, Dispose, Records
    <3> QED BY <1>0, <1>8, <2>1, <3>1, SucceedGood DEF Settled, Promises, Moves, Settles
  <2>3. Goal(Hashed(r))
    BY <1>8, <2>2 DEF Hashed
  <2> QED BY <1>9, <2>3 DEF HashDone
<1>10. CASE HashFailed(c)
  BY <1>8, <1>10 DEF HashFailed
<1>11. CASE StartupTimeout(c)
  <2> DEFINE t == [r EXCEPT !.startup = FALSE]
  <2>1. Core(t) /\ t.promise = r.promise /\ t.worker = r.worker /\ t.aborted = r.aborted
    BY <1>0 DEF Core, Settled, Released, Records, Promises
  <2>2. Goal(Fail(t))
    BY <1>0, <2>1, FailMoves
  <2> QED BY <1>11, <2>2 DEF StartupTimeout
<1>12. CASE CompileTimeout(c)
  <2> DEFINE t == [r EXCEPT !.timer = FALSE]
  <2>1. Core(t) /\ t.promise = r.promise /\ t.worker = r.worker /\ t.aborted = r.aborted
    BY <1>0 DEF Core, Settled, Released, Records, Promises
  <2>2. Goal(Fail(t))
    BY <1>0, <2>1, FailMoves
  <2> QED BY <1>12, <2>2 DEF CompileTimeout
<1>13. CASE LeakedTimeout(c)
  <2> DEFINE t == [r EXCEPT !.leaked = @ - 1]
  <2>1. Core(t) /\ t.promise = r.promise /\ t.worker = r.worker /\ t.aborted = r.aborted
    BY <1>0, <1>13 DEF LeakedTimeout, Core, Settled, Released, Records, Promises
  <2>2. Goal(Fail(t))
    BY <1>0, <2>1, FailMoves
  <2> QED BY <1>13, <2>2 DEF LeakedTimeout
<1> QED
  BY <1>1, <1>2, <1>3, <1>4, <1>5, <1>6, <1>7, <1>9, <1>10, <1>11, <1>12, <1>13 DEF Step

(***************************************************************************)
(* The invariant.                                                          *)
(***************************************************************************)
LEMMA Initially == Init => IInv
BY DEF Init, IInv, Idle, Good, Core, Settled, Released, Records, Promises

LEMMA Preserved == IInv /\ [Next]_call => IInv'
<1> SUFFICES ASSUME IInv, [Next]_call PROVE IInv'
  OBVIOUS
<1>1. CASE UNCHANGED call
  BY <1>1 DEF IInv
<1>2. ASSUME NEW c \in Calls, Step(c) PROVE IInv'
  <2>1. PICK q : Good(q) /\ call' = [call EXCEPT ![c] = q]
    BY <1>2, StepGood
  <2>2. q \in Records
    BY <2>1 DEF Good, Core
  <2> QED BY <2>1, <2>2 DEF IInv
<1> QED BY <1>1, <1>2 DEF Next

\* Every reachable state is good.
THEOREM Invariance == Spec => []IInv
BY Initially, Preserved, PTL DEF Spec

\* Calls keep their shape, and only a repeated "ready" orphans a timer.
THEOREM TypeCorrect == Spec => []TypeOK
<1>1. IInv => TypeOK
  BY DEF IInv, TypeOK, Good, Core
<1> QED BY <1>1, Invariance, PTL

\* A settled call holds no worker, no timer and no listener.
THEOREM SettledCallsAreReleased == Spec => []SettledHoldsNothing
<1>1. IInv => SettledHoldsNothing
  BY DEF IInv, SettledHoldsNothing, Good, Core, Released
<1> QED BY <1>1, Invariance, PTL

\* A pending call has an armed timer or an awaited digest: the safety half of
\* EveryCallSettles.
THEOREM PendingCallsAreBounded == Spec => []PendingIsBounded
<1>1. IInv => PendingIsBounded
  BY DEF IInv, PendingIsBounded, Good
<1> QED BY <1>1, Invariance, PTL

(***************************************************************************)
(* Refinement.                                                             *)
(***************************************************************************)
LEMMA AbstractInit == Init => Abstract!Init
BY DEF Init, Idle, Abstract!Init, Outcomes, Alive, Aborted

LEMMA AbstractStep ==
  ASSUME IInv, NEW c \in Calls, Step(c)
  PROVE  Abstract!Next \/ UNCHANGED <<Outcomes, Alive, Aborted>>
<1> DEFINE r == call[c]
<1>1. PICK q : Good(q) /\ Moves(r, q) /\ call' = [call EXCEPT ![c] = q]
  BY StepGood
<1>2. /\ call \in [Calls -> Records]
      /\ Good(r)
  BY DEF IInv
<1>3. Outcomes' = [Outcomes EXCEPT ![c] = q.promise]
  BY <1>1, <1>2 DEF Outcomes
<1>4. Outcomes[c] = r.promise /\ (c \in Alive <=> r.worker = "running") /\ (c \in Aborted <=> r.aborted)
  BY DEF Outcomes, Alive, Aborted
<1>5. Alive' = IF q.worker = "running" THEN Alive \cup {c} ELSE Alive \ {c}
  BY <1>1, <1>2 DEF Alive
<1>6. Aborted' = IF q.aborted THEN Aborted \cup {c} ELSE Aborted \ {c}
  BY <1>1, <1>2 DEF Aborted
<1>7. q.aborted = r.aborted => Aborted' = Aborted
  BY <1>4, <1>6
<1>8. q.promise = r.promise => Outcomes' = Outcomes
  BY <1>3, <1>4 DEF Outcomes
<1>9. ASSUME q.aborted = r.aborted, q.promise = r.promise, q.worker = "running" => r.worker = "running"
      PROVE  Abstract!Next \/ UNCHANGED <<Outcomes, Alive, Aborted>>
  <2>1. CASE q.worker = "running" \/ r.worker # "running"
    <3>1. Alive' = Alive
      BY <1>4, <1>5, <1>9, <2>1
    <3> QED BY <1>7, <1>8, <1>9, <3>1
  <2>2. CASE q.worker # "running" /\ r.worker = "running"
    <3>1. r.promise = "pending"
      BY <1>2, <2>2 DEF Good, Core, Settled, Released, Records, Promises
    <3> QED BY <1>4, <1>5, <1>7, <1>8, <1>9, <2>2, <3>1 DEF Abstract!Next, Abstract!Release
  <2> QED BY <2>1, <2>2
<1>10. ASSUME q.aborted = r.aborted, ~r.aborted,
              r.promise = "none", q.promise = "pending", q.worker = "running"
       PROVE  Abstract!Next
  BY <1>3, <1>4, <1>5, <1>7, <1>10 DEF Abstract!Next, Abstract!Start
<1>11. ASSUME q.aborted = r.aborted, r.promise = "none", q.promise = "rejected"
       PROVE  Abstract!Next
  <2>1. q.worker # "running" /\ r.worker # "running"
    BY <1>1, <1>2, <1>11 DEF Good, Core, Settled, Released
  <2>2. Alive' = Alive
    BY <1>4, <1>5, <2>1
  <2> QED BY <1>3, <1>4, <1>7, <1>11, <2>2 DEF Abstract!Next, Abstract!Refuse
<1>12. ASSUME q.aborted = r.aborted, Settles(r, q)
       PROVE  Abstract!Next
  <2>1. q.worker # "running"
    BY <1>1, <1>12 DEF Settles, Good, Core, Released
  <2>2. q.promise \in {"resolved", "rejected"} /\ (q.promise = "resolved" => c \notin Aborted)
    BY <1>4, <1>12 DEF Settles, Settled
  <2>3. Abstract!Settle(c)
    BY <1>3, <1>4, <1>5, <1>7, <1>12, <2>1, <2>2 DEF Abstract!Settle, Settles
  <2> QED BY <2>3 DEF Abstract!Next
<1>13. ASSUME Cancels(r, q)
       PROVE  Abstract!Next
  <2>1. c \notin Aborted /\ Aborted' = Aborted \cup {c} /\ Alive' = Alive \ {c}
    BY <1>4, <1>5, <1>6, <1>13 DEF Cancels
  <2>2. Outcomes' = IF c \in Alive THEN [Outcomes EXCEPT ![c] = "rejected"] ELSE Outcomes
    BY <1>3, <1>4, <1>8, <1>13 DEF Cancels
  <2> QED BY <2>1, <2>2 DEF Abstract!Next, Abstract!Cancel
<1> QED BY <1>1, <1>9, <1>10, <1>11, <1>12, <1>13 DEF Moves

\* The client implements OneShot: a call settles at most once, never changes
\* its verdict, its worker is gone by then, and a cancelled one is not resolved.
THEOREM Refinement == Spec => SettlesOnce
<1>1. IInv /\ [Next]_call => [Abstract!Next]_(Abstract!vars)
  <2> SUFFICES ASSUME IInv, [Next]_call PROVE [Abstract!Next]_(Abstract!vars)
    OBVIOUS
  <2>1. CASE UNCHANGED call
    BY <2>1 DEF Abstract!vars, Outcomes, Alive, Aborted
  <2>2. ASSUME NEW c \in Calls, Step(c) PROVE [Abstract!Next]_(Abstract!vars)
    BY <2>2, AbstractStep DEF Abstract!vars
  <2> QED BY <2>1, <2>2 DEF Next
<1> QED
  BY <1>1, AbstractInit, Invariance, PTL DEF Spec, SettlesOnce, Abstract!Spec

=============================================================================
