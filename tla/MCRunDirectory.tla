--------------------------- MODULE MCRunDirectory ---------------------------
(* Instances of RunDirectory: the jobs the invocations choose from. *)
EXTENDS RunDirectory

CONSTANTS d1, d2, p1, p2, p3

MCDirs == {d1, d2}

(* Runs into d1, a retry of them, replays of d1 into d2, and reports on d1. *)
MCJobs ==
    [cmd : RunCmds, dir : {d1}, orig : {d1}]
    \cup [cmd : {"diagnose"}, dir : {d1}, orig : {d1}]
    \cup [cmd : {"replay"}, dir : {d2}, orig : {d1}]

(* Only commands that create a run, both into the same directory. *)
MCSharedJobs == [cmd : {"planned"}, dir : {d1}, orig : {d1}]
=============================================================================
