------------------------------ MODULE WriteOnce ------------------------------
(***************************************************************************)
(* What the users of a run directory may rely on, whoever else writes to   *)
(* it: the directory is published once and in one step, with content that  *)
(* belongs together, and a load takes that content in one step or fails.   *)
(* GenerationRun implements this with a command that publishes file by     *)
(* file and a load that reads file by file.                                *)
(***************************************************************************)
CONSTANTS Dirs, Readers,
          Contents,   \* what a directory can be published with
          None        \* not published; nothing loaded

VARIABLES
  stored,   \* stored[d]: the content of d
  taken     \* taken[r]: where and what reader r loaded last

vars == <<stored, taken>>

Init ==
  /\ stored = [d \in Dirs |-> None]
  /\ taken = [r \in Readers |-> None]

Publish(d) ==
  /\ stored[d] = None
  /\ \E content \in Contents : stored' = [stored EXCEPT ![d] = content]
  /\ UNCHANGED taken

Load(r, d) ==
  /\ stored[d] # None
  /\ taken' = [taken EXCEPT ![r] = [dir |-> d, content |-> stored[d]]]
  /\ UNCHANGED stored

Next == \E d \in Dirs : Publish(d) \/ \E r \in Readers : Load(r, d)

Spec == Init /\ [][Next]_vars

=============================================================================
