---------------------------- MODULE Provisioning ----------------------------
(***************************************************************************)
(* The engine cache of packages/bayescycle: concurrent calls of            *)
(* ensure_engine (backends/bayesite/provisioning.py), each in a process of *)
(* its own, sharing one install directory on disk.                         *)
(*                                                                         *)
(* A directory is named by the call that extracted it, as an inode is: a   *)
(* call that is removing a directory goes on removing that directory even  *)
(* when another one has been renamed to the path (shutil.rmtree works on   *)
(* descriptors), while its final rmdir and os.replace go by the path.      *)
(* The archive is the pinned one exactly when its digest is, so a verified *)
(* archive holds every file of Files; files are extracted and unlinked one *)
(* at a time.  A process may be killed between any two of these steps.     *)
(***************************************************************************)
EXTENDS Naturals, FiniteSets

CONSTANTS Calls,      \* invocations of ensure_engine
          Files,      \* the files of the archive's install directory, numbered
                      \* in the order the file system lists them
          Binary,     \* the engine executable, one of them
          MaxKills    \* bound: processes killed

ASSUME FilesAssumption == Files \subseteq Nat /\ Binary \in Files
ASSUME NoDirAssumption == "none" \notin Calls
ASSUME MaxKillsAssumption == MaxKills \in Nat

NoDir == "none"

VARIABLES
    pc,         \* pc[c]: the next step of call c
    forced,     \* forced[c]: ensure_engine(force=True)
    archive,    \* archive[c]: what the download left: "none", "whole", "corrupt"
    tree,       \* tree[c]: the files in the directory call c extracted
    runnable,   \* runnable[c]: its binary has been chmod-ed
    target,     \* the directory at the final install path, or NoDir
    victim,     \* victim[c]: the directory call c's rmtree has opened
    todo,       \* todo[c]: the entries that rmtree listed and has not unlinked
    kills       \* processes killed so far

vars == <<pc, forced, archive, tree, runnable, target, victim, todo, kills>>

Steps == {"idle", "forceCheck", "forceOpen", "forceRemove", "check", "download",
          "verify", "extract", "chmod", "exists", "swapOpen", "swapRemove",
          "replace"}
Ended == {"returned", "raised", "killed"}

TypeOK ==
    /\ pc \in [Calls -> Steps \cup Ended]
    /\ forced \in [Calls -> BOOLEAN]
    /\ archive \in [Calls -> {"none", "whole", "corrupt"}]
    /\ tree \in [Calls -> SUBSET Files]
    /\ runnable \in [Calls -> BOOLEAN]
    /\ target \in Calls \cup {NoDir}
    /\ victim \in [Calls -> Calls \cup {NoDir}]
    /\ todo \in [Calls -> SUBSET Files]
    /\ kills \in 0..MaxKills

Init ==
    /\ pc = [c \in Calls |-> "idle"]
    /\ forced \in [Calls -> BOOLEAN]
    /\ archive = [c \in Calls |-> "none"]
    /\ tree = [c \in Calls |-> {}]
    /\ runnable = [c \in Calls |-> FALSE]
    /\ target = NoDir
    /\ victim = [c \in Calls |-> NoDir]
    /\ todo = [c \in Calls |-> {}]
    /\ kills = 0

Goto(c, step) == pc' = [pc EXCEPT ![c] = step]

(* binary_path.is_file() *)
Installed == target # NoDir /\ Binary \in tree[target]

-----------------------------------------------------------------------------
(* ensure_engine: a forced call removes the install directory first. *)
\* Mutant: every call removes what is installed.
BeginForced(c) ==
    /\ pc[c] = "idle"
    /\ Goto(c, "forceCheck")
    /\ UNCHANGED <<forced, archive, tree, runnable, target, victim, todo, kills>>
Begin(c) ==
    /\ pc[c] = "idle"
    /\ Goto(c, IF forced[c] THEN "forceCheck" ELSE "check")
    /\ UNCHANGED <<forced, archive, tree, runnable, target, victim, todo, kills>>

(* `if <the directory exists>: rmtree`, at its two places: before the call *)
(* of fetch_and_verify when forced, and before os.replace.                 *)
Exists(c, at, open, skip) ==
    /\ pc[c] = at
    /\ Goto(c, IF target # NoDir THEN open ELSE skip)
    /\ UNCHANGED <<forced, archive, tree, runnable, target, victim, todo, kills>>

(* rmtree opens the directory and lists it; it raises when the directory *)
(* has gone since the test.                                              *)
RmtreeOpen(c, at, next) ==
    /\ pc[c] = at
    /\ IF target = NoDir
       THEN /\ Goto(c, "raised")
            /\ UNCHANGED <<victim, todo>>
       ELSE /\ Goto(c, next)
            /\ victim' = [victim EXCEPT ![c] = target]
            /\ todo' = [todo EXCEPT ![c] = tree[target]]
    /\ UNCHANGED <<forced, archive, tree, runnable, target, kills>>

(* rmtree unlinks the next listed entry.  Python 3.12 raises when another *)
(* process has unlinked it already, 3.13 goes on: both are supported.     *)
RmtreeUnlink(c, at) ==
    /\ pc[c] = at
    /\ \E f \in todo[c] :
        /\ \A g \in todo[c] : f <= g
        /\ todo' = [todo EXCEPT ![c] = @ \ {f}]
        /\ tree' = [tree EXCEPT ![victim[c]] = @ \ {f}]
        /\ \/ UNCHANGED pc
           \/ f \notin tree[victim[c]] /\ Goto(c, "raised")
    /\ UNCHANGED <<forced, archive, runnable, target, victim, kills>>

(* rmtree ends with an rmdir of the path: it raises when nothing is there or *)
(* when what is there is not empty.                                          *)
RmtreeRmdir(c, at, next) ==
    /\ pc[c] = at
    /\ todo[c] = {}
    /\ IF target # NoDir /\ tree[target] = {}
       THEN target' = NoDir /\ Goto(c, next)
       ELSE UNCHANGED target /\ Goto(c, "raised")
    /\ victim' = [victim EXCEPT ![c] = NoDir]
    /\ UNCHANGED <<forced, archive, tree, runnable, todo, kills>>

-----------------------------------------------------------------------------
(* fetch_and_verify: an installed binary is returned without a download. *)
Check(c) ==
    /\ pc[c] = "check"
    /\ Goto(c, IF Installed THEN "returned" ELSE "download")
    /\ UNCHANGED <<forced, archive, tree, runnable, target, victim, todo, kills>>

(* _download into a temporary directory of the call: whole, wrong or an error. *)
Download(c) ==
    /\ pc[c] = "download"
    /\ \/ \E a \in {"whole", "corrupt"} :
            /\ archive' = [archive EXCEPT ![c] = a]
            /\ Goto(c, "verify")
       \/ UNCHANGED archive /\ Goto(c, "raised")
    /\ UNCHANGED <<forced, tree, runnable, target, victim, todo, kills>>

(* _verify_sha256 against the digest pinned for the release. *)
\* Mutant: the digest is not compared.
VerifyNothing(c) ==
    /\ pc[c] = "verify"
    /\ Goto(c, "extract")
    /\ UNCHANGED <<forced, archive, tree, runnable, target, victim, todo, kills>>
Verify(c) ==
    /\ pc[c] = "verify"
    /\ Goto(c, IF archive[c] = "whole" THEN "extract" ELSE "raised")
    /\ UNCHANGED <<forced, archive, tree, runnable, target, victim, todo, kills>>

(* _extract writes one file into the work directory; then the binary is *)
(* found there and made executable.                                     *)
\* Mutant: the binary is not looked for in what was extracted.
ExtractSome(c) ==
    /\ pc[c] = "extract"
    /\ \E f \in Files \ tree[c] : tree' = [tree EXCEPT ![c] = @ \cup {f}]
    /\ \E step \in {"chmod", "extract"} : Goto(c, IF tree'[c] = Files THEN "chmod" ELSE step)
    /\ UNCHANGED <<forced, archive, runnable, target, victim, todo, kills>>
Extract(c) ==
    /\ pc[c] = "extract"
    /\ \E f \in Files \ tree[c] : tree' = [tree EXCEPT ![c] = @ \cup {f}]
    /\ Goto(c, IF tree'[c] = Files THEN "chmod" ELSE "extract")
    /\ UNCHANGED <<forced, archive, runnable, target, victim, todo, kills>>

Chmod(c) ==
    /\ pc[c] = "chmod"
    /\ runnable' = [runnable EXCEPT ![c] = TRUE]
    /\ Goto(c, "exists")
    /\ UNCHANGED <<forced, archive, tree, target, victim, todo, kills>>

(* os.replace: a rename, possible over no directory or an empty one. *)
Replace(c) ==
    /\ pc[c] = "replace"
    /\ IF target = NoDir \/ tree[target] = {}
       THEN target' = c /\ Goto(c, "returned")
       ELSE UNCHANGED target /\ Goto(c, "raised")
    /\ UNCHANGED <<forced, archive, tree, runnable, victim, todo, kills>>

(* The process is killed: what it wrote stays, its temporary directory too. *)
Kill(c) ==
    /\ pc[c] \in Steps \ {"idle"}
    /\ kills < MaxKills
    /\ kills' = kills + 1
    /\ Goto(c, "killed")
    /\ UNCHANGED <<forced, archive, tree, runnable, target, victim, todo>>

ForceRemove(c) ==
    \/ Exists(c, "forceCheck", "forceOpen", "check")
    \/ RmtreeOpen(c, "forceOpen", "forceRemove")
    \/ RmtreeUnlink(c, "forceRemove")
    \/ RmtreeRmdir(c, "forceRemove", "check")

SwapRemove(c) ==
    \/ Exists(c, "exists", "swapOpen", "replace")
    \/ RmtreeOpen(c, "swapOpen", "swapRemove")
    \/ RmtreeUnlink(c, "swapRemove")
    \/ RmtreeRmdir(c, "swapRemove", "replace")

Call(c) ==
    \/ Begin(c)
    \/ ForceRemove(c)
    \/ Check(c)
    \/ Download(c)
    \/ Verify(c)
    \/ Extract(c)
    \/ Chmod(c)
    \/ SwapRemove(c)
    \/ Replace(c)

AllEnded == \A c \in Calls : pc[c] \in Ended

Next == (\E c \in Calls : Call(c) \/ Kill(c)) \/ (AllEnded /\ UNCHANGED vars)

Spec == Init /\ [][Next]_vars

-----------------------------------------------------------------------------
(* A binary found at the install path came from an archive whose digest was  *)
(* the pinned one, and is executable, whatever calls race and wherever one   *)
(* is killed: fetch_and_verify returns such a binary with no further check.  *)
(* ("Verification failure installs nothing", provisioning.py:186.)           *)
InstalledIsVerified ==
    Installed => archive[target] = "whole" /\ runnable[target]

(* An installed binary is only ever removed by a forced call or by one that *)
(* holds a verified, whole replacement: a failed or corrupt download never  *)
(* costs an unforced caller the engine that was there.                      *)
HoldsReplacement(c) == pc[c] = "swapRemove" /\ archive[c] = "whole" /\ tree[c] = Files
RemovedForAReplacement ==
    [][Installed /\ ~Installed' =>
        \E c \in Calls : /\ victim[c] = target
                         /\ \/ forced[c] /\ pc[c] = "forceRemove"
                            \/ HoldsReplacement(c)]_vars

(* When no call is under way, none was killed, none was forced and one       *)
(* returned a path, the engine is at that path: racing calls remove each     *)
(* other's installs on their way, and an install always remains in the end.  *)
EngineRemains ==
    /\ \A c \in Calls : pc[c] \in Ended \cup {"idle"}
    /\ kills = 0
    /\ \A c \in Calls : ~forced[c]
    /\ \E c \in Calls : pc[c] = "returned"
    => Installed
=============================================================================
