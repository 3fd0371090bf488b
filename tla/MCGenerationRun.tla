-------------------------- MODULE MCGenerationRun --------------------------
(* An instance of GenerationRun: the jobs the invocations choose from. *)
EXTENDS GenerationRun

CONSTANTS d1, d2, m1, m2, e1, e2, s1

(* Two plans generated into d1, together or one after the other, and *)
(* replays of d1 into d2.                                            *)
MCJobs ==
    [cmd : {"generate"}, dir : {d1},
     plan : {[model |-> m1, design |-> e1, seed |-> s1],
             [model |-> m2, design |-> e2, seed |-> s1]}]
    \cup [cmd : {"replay"}, dir : {d2}, orig : {d1}]
=============================================================================
