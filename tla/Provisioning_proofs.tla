------------------------- MODULE Provisioning_proofs -------------------------
(***************************************************************************)
(* Proofs about Provisioning, for every set of calls, every archive and    *)
(* every number of kills.                                                  *)
(*                                                                         *)
(* What a call owns changes hands once: while it is in fetch_and_verify    *)
(* nobody else touches the directory it extracts, and from os.replace on   *)
(* it does nothing to it.  So IInv says, per step of a call, what its      *)
(* directory is known to be, and that both the directory at the path and   *)
(* the one an rmtree has opened belong to calls that have returned.        *)
(***************************************************************************)
EXTENDS Provisioning, TLAPS

Forcing == {"forceCheck", "forceOpen", "forceRemove"}
Executable == {"exists", "swapOpen", "swapRemove", "replace"}
Extracted == Executable \cup {"chmod"}
Holding == Extracted \cup {"extract"}

VerifiedWhenHeld == \A c \in Calls : pc[c] \in Holding \/ runnable[c] => archive[c] = "whole"
WholeWhenExtracted == \A c \in Calls : pc[c] \in Extracted => tree[c] = Files
RunnableWhenHeld == \A c \in Calls : pc[c] \in Steps => (runnable[c] <=> pc[c] \in Executable)
TargetHasReturned == target # NoDir => pc[target] = "returned" /\ runnable[target]
VictimHasReturned == \A c \in Calls : victim[c] # NoDir => pc[victim[c]] = "returned"
RemovingHasVictim == \A c \in Calls : pc[c] \in {"forceRemove", "swapRemove"} => victim[c] # NoDir
ForcingIsForced == \A c \in Calls : pc[c] \in Forcing => forced[c]

IInv ==
    /\ TypeOK
    /\ VerifiedWhenHeld
    /\ WholeWhenExtracted
    /\ RunnableWhenHeld
    /\ TargetHasReturned
    /\ VictimHasReturned
    /\ RemovingHasVictim
    /\ ForcingIsForced

(* The initial states satisfy the invariant. *)
LEMMA InitIInv == Init => IInv
BY MaxKillsAssumption, NoDirAssumption
   DEF Init, IInv, TypeOK, VerifiedWhenHeld, WholeWhenExtracted, RunnableWhenHeld,
       TargetHasReturned, VictimHasReturned, RemovingHasVictim, ForcingIsForced,
       Steps, Ended, Forcing, Executable, Extracted, Holding, NoDir

(* Begin, and the tests that only choose the next step of a call. *)
LEMMA BeginIInv ==
  ASSUME IInv, NEW c \in Calls,
         \/ Begin(c)
         \/ Exists(c, "forceCheck", "forceOpen", "check")
         \/ Check(c)
         \/ Verify(c)
         \/ Exists(c, "exists", "swapOpen", "replace")
  PROVE  IInv'
<1> USE NoDirAssumption DEF IInv, NoDir
<1>1. /\ pc' \in [Calls -> Steps \cup Ended]
      /\ \A d \in Calls \ {c} : pc'[d] = pc[d]
      /\ pc[c] # "returned"
      /\ UNCHANGED <<forced, archive, tree, runnable, target, victim, todo, kills>>
  BY DEF TypeOK, Steps, Ended, Begin, Exists, Check, Verify, Goto
<1>2. TypeOK'
  BY <1>1 DEF TypeOK
<1>3. TargetHasReturned' /\ VictimHasReturned'
  BY <1>1 DEF TypeOK, TargetHasReturned, VictimHasReturned
<1>4. /\ pc'[c] \in Holding => archive[c] = "whole"
      /\ pc'[c] \in Extracted => tree[c] = Files
      /\ pc'[c] \in Steps => (runnable[c] <=> pc'[c] \in Executable)
      /\ pc'[c] \notin {"forceRemove", "swapRemove"}
      /\ pc'[c] \in Forcing => forced[c]
  BY DEF TypeOK, VerifiedWhenHeld, WholeWhenExtracted, RunnableWhenHeld, ForcingIsForced,
         Forcing, Executable, Extracted, Holding, Steps, Begin, Exists, Check, Verify, Goto
<1> QED
  BY <1>1, <1>2, <1>3, <1>4
     DEF VerifiedWhenHeld, WholeWhenExtracted, RunnableWhenHeld, RemovingHasVictim,
         ForcingIsForced

(* rmtree opens the directory at the path: it belongs to a call that has *)
(* returned.                                                             *)
LEMMA OpenIInv ==
  ASSUME IInv, NEW c \in Calls,
         \/ RmtreeOpen(c, "forceOpen", "forceRemove")
         \/ RmtreeOpen(c, "swapOpen", "swapRemove")
  PROVE  IInv'
<1> USE NoDirAssumption DEF IInv, NoDir
<1>1. /\ pc' \in [Calls -> Steps \cup Ended]
      /\ \A d \in Calls \ {c} : pc'[d] = pc[d] /\ victim'[d] = victim[d]
      /\ pc[c] # "returned"
      /\ victim' \in [Calls -> Calls \cup {"none"}]
      /\ todo' \in [Calls -> SUBSET Files]
      /\ UNCHANGED <<forced, archive, tree, runnable, target, kills>>
  BY DEF TypeOK, Steps, Ended, RmtreeOpen, Goto
<1>2. TypeOK'
  BY <1>1 DEF TypeOK
<1>3. TargetHasReturned'
  BY <1>1 DEF TypeOK, TargetHasReturned
<1>4. \/ victim'[c] = victim[c] /\ pc'[c] = "raised"
      \/ victim'[c] = target /\ target # "none"
  BY DEF TypeOK, RmtreeOpen, Goto
<1>5. VictimHasReturned'
  BY <1>1, <1>4 DEF TypeOK, TargetHasReturned, VictimHasReturned
<1>6. /\ pc'[c] \in Holding => archive[c] = "whole"
      /\ pc'[c] \in Extracted => tree[c] = Files
      /\ pc'[c] \in Steps => (runnable[c] <=> pc'[c] \in Executable)
      /\ pc'[c] \in {"forceRemove", "swapRemove"} => victim'[c] # "none"
      /\ pc'[c] \in Forcing => forced[c]
  BY <1>4 DEF TypeOK, VerifiedWhenHeld, WholeWhenExtracted, RunnableWhenHeld, ForcingIsForced,
              Forcing, Executable, Extracted, Holding, Steps, RmtreeOpen, Goto
<1> QED
  BY <1>1, <1>2, <1>3, <1>5, <1>6
     DEF VerifiedWhenHeld, WholeWhenExtracted, RunnableWhenHeld, RemovingHasVictim,
         ForcingIsForced

(* rmtree unlinks a file of a directory whose call has returned. *)
LEMMA UnlinkIInv ==
  ASSUME IInv, NEW c \in Calls,
         RmtreeUnlink(c, "forceRemove") \/ RmtreeUnlink(c, "swapRemove")
  PROVE  IInv'
<1> USE NoDirAssumption DEF IInv, NoDir
<1>1. /\ victim[c] \in Calls
      /\ pc[victim[c]] = "returned"
  BY DEF TypeOK, RmtreeUnlink, RemovingHasVictim, VictimHasReturned
<1>2. /\ pc' \in [Calls -> Steps \cup Ended]
      /\ \A d \in Calls \ {c} : pc'[d] = pc[d]
      /\ pc'[c] = pc[c] \/ pc'[c] = "raised"
      /\ pc[c] # "returned"
      /\ tree' \in [Calls -> SUBSET Files]
      /\ \A d \in Calls \ {victim[c]} : tree'[d] = tree[d]
      /\ todo' \in [Calls -> SUBSET Files]
      /\ UNCHANGED <<forced, archive, runnable, target, victim, kills>>
  BY <1>1 DEF TypeOK, Steps, Ended, RmtreeUnlink, Goto
<1>3. TypeOK'
  BY <1>2 DEF TypeOK
<1>4. TargetHasReturned' /\ VictimHasReturned'
  BY <1>2 DEF TypeOK, TargetHasReturned, VictimHasReturned
<1>5. WholeWhenExtracted'
  BY <1>1, <1>2 DEF WholeWhenExtracted, Extracted, Executable
<1>6. VerifiedWhenHeld' /\ RunnableWhenHeld' /\ RemovingHasVictim' /\ ForcingIsForced'
  BY <1>2 DEF VerifiedWhenHeld, RunnableWhenHeld, RemovingHasVictim, ForcingIsForced,
              Holding, Extracted, Executable, Forcing, Steps
<1> QED BY <1>3, <1>4, <1>5, <1>6

(* rmtree ends: it empties the path or raises. *)
LEMMA RmdirIInv ==
  ASSUME IInv, NEW c \in Calls,
         \/ RmtreeRmdir(c, "forceRemove", "check")
         \/ RmtreeRmdir(c, "swapRemove", "replace")
  PROVE  IInv'
<1> USE NoDirAssumption DEF IInv, NoDir
<1>1. /\ pc' \in [Calls -> Steps \cup Ended]
      /\ \A d \in Calls \ {c} : pc'[d] = pc[d] /\ victim'[d] = victim[d]
      /\ pc[c] # "returned"
      /\ victim' \in [Calls -> Calls \cup {"none"}] /\ victim'[c] = "none"
      /\ target' \in {target, "none"}
      /\ pc'[c] \notin {"forceRemove", "swapRemove"} \cup Forcing
      /\ UNCHANGED <<forced, archive, tree, runnable, todo, kills>>
  BY DEF TypeOK, Steps, Ended, Forcing, RmtreeRmdir, Goto
<1>2. TypeOK'
  BY <1>1 DEF TypeOK
<1>3. TargetHasReturned' /\ VictimHasReturned'
  BY <1>1 DEF TypeOK, TargetHasReturned, VictimHasReturned
<1>4. /\ pc'[c] \in Holding => archive[c] = "whole"
      /\ pc'[c] \in Extracted => tree[c] = Files
      /\ pc'[c] \in Steps => (runnable[c] <=> pc'[c] \in Executable)
  BY DEF TypeOK, VerifiedWhenHeld, WholeWhenExtracted, RunnableWhenHeld,
         Executable, Extracted, Holding, Steps, RmtreeRmdir, Goto
<1> QED
  BY <1>1, <1>2, <1>3, <1>4
     DEF VerifiedWhenHeld, WholeWhenExtracted, RunnableWhenHeld, RemovingHasVictim,
         ForcingIsForced

(* The download, the extraction and the chmod touch what the call owns. *)
LEMMA FetchIInv ==
  ASSUME IInv, NEW c \in Calls, Download(c) \/ Extract(c) \/ Chmod(c)
  PROVE  IInv'
<1> USE NoDirAssumption DEF IInv, NoDir
<1>1. /\ pc' \in [Calls -> Steps \cup Ended]
      /\ archive' \in [Calls -> {"none", "whole", "corrupt"}]
      /\ tree' \in [Calls -> SUBSET Files]
      /\ runnable' \in [Calls -> BOOLEAN]
      /\ UNCHANGED <<forced, target, victim, todo, kills>>
  <2> USE DEF TypeOK, Steps, Ended, Goto
  <2>1. CASE Download(c)
    BY <2>1 DEF Download
  <2>2. CASE Extract(c)
    BY <2>2 DEF Extract
  <2>3. CASE Chmod(c)
    BY <2>3 DEF Chmod
  <2> QED BY <2>1, <2>2, <2>3
<1>2. /\ \A d \in Calls \ {c} : /\ pc'[d] = pc[d] /\ archive'[d] = archive[d]
                                /\ tree'[d] = tree[d] /\ runnable'[d] = runnable[d]
      /\ pc[c] # "returned"
      /\ pc'[c] \notin {"forceRemove", "swapRemove"} \cup Forcing
  BY DEF TypeOK, Forcing, Download, Extract, Chmod, Goto
<1>3. TypeOK'
  BY <1>1 DEF TypeOK
<1>4. TargetHasReturned' /\ VictimHasReturned'
  BY <1>1, <1>2 DEF TypeOK, TargetHasReturned, VictimHasReturned
<1>5. /\ pc'[c] \in Holding \/ runnable'[c] => archive'[c] = "whole"
      /\ pc'[c] \in Extracted => tree'[c] = Files
      /\ pc'[c] \in Steps => (runnable'[c] <=> pc'[c] \in Executable)
  <2> USE DEF TypeOK, VerifiedWhenHeld, RunnableWhenHeld, WholeWhenExtracted,
              Executable, Extracted, Holding, Steps, Goto
  <2>1. CASE Download(c)
    BY <2>1 DEF Download
  <2>2. CASE Extract(c)
    BY <2>2 DEF Extract
  <2>3. CASE Chmod(c)
    BY <2>3 DEF Chmod
  <2> QED BY <2>1, <2>2, <2>3
<1> QED
  BY <1>1, <1>2, <1>3, <1>4, <1>5
     DEF VerifiedWhenHeld, WholeWhenExtracted, RunnableWhenHeld, RemovingHasVictim,
         ForcingIsForced

(* os.replace puts the call's own directory at the path, or raises. *)
LEMMA ReplaceIInv ==
  ASSUME IInv, NEW c \in Calls, Replace(c)
  PROVE  IInv'
<1> USE NoDirAssumption DEF IInv, NoDir
<1>1. /\ pc' \in [Calls -> Steps \cup Ended]
      /\ \A d \in Calls \ {c} : pc'[d] = pc[d]
      /\ pc[c] = "replace" /\ pc'[c] \in {"returned", "raised"}
      /\ \/ target' = c /\ pc'[c] = "returned"
         \/ target' = target
      /\ UNCHANGED <<forced, archive, tree, runnable, victim, todo, kills>>
  BY DEF TypeOK, Steps, Ended, Replace, Goto
<1>2. TypeOK'
  BY <1>1 DEF TypeOK
<1>3. runnable[c]
  BY <1>1 DEF RunnableWhenHeld, Steps, Executable
<1>4. TargetHasReturned' /\ VictimHasReturned'
  BY <1>1, <1>3 DEF TypeOK, TargetHasReturned, VictimHasReturned
<1>5. VerifiedWhenHeld' /\ WholeWhenExtracted' /\ RunnableWhenHeld'
  BY <1>1 DEF VerifiedWhenHeld, WholeWhenExtracted, RunnableWhenHeld,
              Steps, Executable, Extracted, Holding
<1>6. RemovingHasVictim' /\ ForcingIsForced'
  BY <1>1 DEF RemovingHasVictim, ForcingIsForced, Forcing
<1> QED BY <1>2, <1>4, <1>5, <1>6

(* A kill leaves everything but the control as it was. *)
LEMMA KillIInv ==
  ASSUME IInv, NEW c \in Calls, Kill(c)
  PROVE  IInv'
<1> USE NoDirAssumption DEF IInv, NoDir
<1>1. /\ pc' \in [Calls -> Steps \cup Ended]
      /\ \A d \in Calls \ {c} : pc'[d] = pc[d]
      /\ pc[c] # "returned" /\ pc'[c] = "killed"
      /\ UNCHANGED <<forced, archive, tree, runnable, target, victim, todo>>
  BY DEF TypeOK, Steps, Ended, Kill, Goto
<1>2. kills' \in 0..MaxKills
  BY MaxKillsAssumption DEF TypeOK, Kill
<1>3. TypeOK'
  BY <1>1, <1>2 DEF TypeOK
<1>4. TargetHasReturned' /\ VictimHasReturned'
  BY <1>1 DEF TypeOK, TargetHasReturned, VictimHasReturned
<1> QED
  BY <1>1, <1>3, <1>4
     DEF VerifiedWhenHeld, WholeWhenExtracted, RunnableWhenHeld, RemovingHasVictim,
         ForcingIsForced, Steps, Forcing, Executable, Extracted, Holding

(* The invariant is inductive. *)
LEMMA NextIInv == IInv /\ [Next]_vars => IInv'
<1> SUFFICES ASSUME IInv, [Next]_vars PROVE IInv'
  OBVIOUS
<1>1. CASE UNCHANGED vars
  BY <1>1 DEF vars, IInv, TypeOK, VerifiedWhenHeld, WholeWhenExtracted, RunnableWhenHeld,
              TargetHasReturned, VictimHasReturned, RemovingHasVictim, ForcingIsForced
<1>2. ASSUME NEW c \in Calls, Call(c) PROVE IInv'
  <2>1. CASE Begin(c) \/ Check(c) \/ Verify(c)
    BY <2>1, BeginIInv
  <2>2. CASE ForceRemove(c)
    BY <2>2, BeginIInv, OpenIInv, UnlinkIInv, RmdirIInv DEF ForceRemove
  <2>3. CASE SwapRemove(c)
    BY <2>3, BeginIInv, OpenIInv, UnlinkIInv, RmdirIInv DEF SwapRemove
  <2>4. CASE Download(c) \/ Extract(c) \/ Chmod(c)
    BY <2>4, FetchIInv
  <2>5. CASE Replace(c)
    BY <2>5, ReplaceIInv
  <2> QED BY <1>2, <2>1, <2>2, <2>3, <2>4, <2>5 DEF Call
<1> QED BY <1>1, <1>2, KillIInv DEF Next

(* The inductive invariant behind the other theorems holds of every state. *)
THEOREM Invariance == Spec => []IInv
BY InitIInv, NextIInv, PTL DEF Spec

(* Type correctness, for every set of calls, archive and number of kills. *)
THEOREM TypeCorrect == Spec => []TypeOK
BY Invariance, PTL DEF IInv

(* What is installed was verified and made executable, whatever calls race, *)
(* force or die.                                                            *)
THEOREM InstalledEngineIsVerified == Spec => []InstalledIsVerified
<1>1. IInv => InstalledIsVerified
  BY NoDirAssumption
     DEF IInv, TypeOK, InstalledIsVerified, Installed, NoDir, TargetHasReturned, VerifiedWhenHeld
<1> QED BY <1>1, Invariance, PTL

(* An installed binary is removed by a forced call or for a verified, whole *)
(* replacement only: of all steps, only an unlink can remove it.            *)
THEOREM RemovalsReplace == Spec => RemovedForAReplacement
<1> DEFINE Removed == \E c \in Calls : /\ victim[c] = target
                                       /\ \/ forced[c] /\ pc[c] = "forceRemove"
                                          \/ HoldsReplacement(c)
<1>1. ASSUME IInv, [Next]_vars, Installed, ~Installed' PROVE Removed
  <2>1. PICK c \in Calls : Call(c)
    <3>1. ~(UNCHANGED <<tree, target>>)
      BY <1>1 DEF Installed
    <3> QED BY <1>1, <3>1 DEF Next, vars, Kill
  <2>2. tree[target] # {} /\ target # NoDir
    BY <1>1 DEF Installed
  <2>3. ASSUME NEW at \in {"forceRemove", "swapRemove"}, RmtreeUnlink(c, at) PROVE Removed
    <3>1. pc[c] = at /\ target' = target /\ victim[c] \in Calls
      BY <1>1, <2>3 DEF RmtreeUnlink, IInv, TypeOK, RemovingHasVictim
    <3>2. victim[c] = target
      BY <1>1, <2>2, <2>3, <3>1 DEF RmtreeUnlink, Installed, IInv, TypeOK
    <3>3. CASE at = "forceRemove"
      BY <1>1, <3>1, <3>2, <3>3 DEF IInv, ForcingIsForced, Forcing
    <3>4. CASE at = "swapRemove"
      BY <1>1, <3>1, <3>2, <3>4
         DEF IInv, HoldsReplacement, VerifiedWhenHeld, WholeWhenExtracted, Holding,
             Extracted, Executable
    <3> QED BY <2>3, <3>3, <3>4
  <2>4. ASSUME NEW at, NEW next, RmtreeRmdir(c, at, next) PROVE FALSE
    BY <1>1, <2>2, <2>4 DEF RmtreeRmdir, Installed
  <2>5. ASSUME Replace(c) PROVE FALSE
    BY <1>1, <2>2, <2>5 DEF Replace, Installed
  <2>6. ASSUME Extract(c) PROVE FALSE
    BY <1>1, <2>2, <2>6 DEF Extract, Installed, IInv, TypeOK
  <2>7. ASSUME UNCHANGED <<tree, target>> PROVE FALSE
    BY <1>1, <2>7 DEF Installed
  <2> HIDE DEF Removed
  <2>8. CASE ForceRemove(c)
    BY <2>3, <2>4, <2>7, <2>8 DEF ForceRemove, Exists, RmtreeOpen
  <2>9. CASE SwapRemove(c)
    BY <2>3, <2>4, <2>7, <2>9 DEF SwapRemove, Exists, RmtreeOpen
  <2>10. CASE Begin(c) \/ Check(c) \/ Download(c) \/ Verify(c) \/ Chmod(c)
    BY <2>7, <2>10 DEF Begin, Check, Download, Verify, Chmod
  <2> QED BY <2>1, <2>5, <2>6, <2>8, <2>9, <2>10 DEF Call
<1> QED BY <1>1, Invariance, PTL DEF Spec, RemovedForAReplacement

-----------------------------------------------------------------------------
(* Why an engine remains when every call has ended.  rmtree unlinks in the *)
(* order of Files, so what is left of a directory that is being removed is *)
(* the end of that order, and at least what is left is still on the list   *)
(* of each of its removers.  Hence the last remover to unlink anything has *)
(* exactly what is left on its list: no unlink of it raises, its rmdir     *)
(* finds the directory empty, and it goes on to rename its own to the path.*)

TailOf(d) == \A f \in tree[d], g \in Files : f <= g => g \in tree[d]
Removing(c) == pc[c] \in {"forceRemove", "swapRemove"}

TargetIsATail == target # NoDir => TailOf(target)
VictimsAreTails == \A c \in Calls : Removing(c) => TailOf(victim[c])
ListsCoverTrees == \A c \in Calls : Removing(c) => tree[victim[c]] \subseteq todo[c]

\* No process was killed and no call is forced.
Quiet == kills = 0 /\ \A c \in Calls : ~forced[c]
PathIsTaken ==
    /\ Quiet
    /\ \E c \in Calls : pc[c] = "returned"
    /\ target = NoDir
    => \E c \in Calls : pc[c] = "replace"
RemovalIsInHand ==
    /\ Quiet
    /\ target # NoDir
    /\ tree[target] # Files
    => \E c \in Calls : pc[c] = "swapRemove" /\ victim[c] = target /\ todo[c] = tree[target]

RInv == TargetIsATail /\ VictimsAreTails /\ ListsCoverTrees /\ PathIsTaken /\ RemovalIsInHand

(* The initial states satisfy it: nothing has been extracted yet. *)
LEMMA InitRInv == Init => RInv
BY DEF Init, RInv, TargetIsATail, VictimsAreTails, ListsCoverTrees, PathIsTaken,
       RemovalIsInHand, Removing

(* A step that leaves directories, the path and the lists alone, and takes *)
(* no call out of a removal, its replacement or its return, preserves it.  *)
LEMMA StillRInv ==
  ASSUME IInv, RInv, NEW c \in Calls,
         pc' \in [Calls -> Steps \cup Ended],
         \A d \in Calls \ {c} : pc'[d] = pc[d],
         ~Removing(c), pc[c] # "replace",
         pc'[c] \notin {"forceRemove", "swapRemove"},
         pc'[c] = "returned" => target # NoDir,
         UNCHANGED <<forced, target, victim, todo, kills>>,
         tree' \in [Calls -> SUBSET Files],
         \A d \in Calls : pc[d] = "returned" => tree'[d] = tree[d]
  PROVE  RInv'
<1> USE DEF IInv, RInv, Removing
<1>1. target # NoDir => tree'[target] = tree[target]
  BY DEF TypeOK, TargetHasReturned
<1>2. \A d \in Calls : Removing(d) => tree'[victim[d]] = tree[victim[d]]
  BY DEF TypeOK, VictimHasReturned, RemovingHasVictim
<1>3. TargetIsATail' /\ VictimsAreTails' /\ ListsCoverTrees'
  BY <1>1, <1>2 DEF TargetIsATail, VictimsAreTails, ListsCoverTrees, TailOf
<1>4. PathIsTaken'
  BY DEF PathIsTaken, Quiet
<1>5. RemovalIsInHand'
  BY <1>1 DEF RemovalIsInHand, Quiet
<1> QED BY <1>3, <1>4, <1>5

(* The listing of a directory covers it. *)
LEMMA OpenRInv ==
  ASSUME IInv, RInv, NEW c \in Calls,
         \/ RmtreeOpen(c, "forceOpen", "forceRemove")
         \/ RmtreeOpen(c, "swapOpen", "swapRemove")
  PROVE  RInv'
<1> USE DEF IInv, RInv, Removing
<1>1. /\ pc[c] \in {"forceOpen", "swapOpen"}
      /\ \A d \in Calls \ {c} : pc'[d] = pc[d] /\ victim'[d] = victim[d] /\ todo'[d] = todo[d]
      /\ UNCHANGED <<forced, archive, tree, runnable, target, kills>>
      /\ \/ pc'[c] = "raised"
         \/ /\ target # NoDir /\ pc'[c] \in {"forceRemove", "swapRemove"}
            /\ victim'[c] = target /\ todo'[c] = tree[target]
  BY DEF TypeOK, RmtreeOpen, Goto
<1>2. TargetIsATail' /\ VictimsAreTails' /\ ListsCoverTrees'
  BY <1>1 DEF TargetIsATail, VictimsAreTails, ListsCoverTrees, TailOf
<1>3. PathIsTaken'
  BY <1>1 DEF PathIsTaken, Quiet
<1>4. RemovalIsInHand'
  BY <1>1 DEF RemovalIsInHand, Quiet
<1> QED BY <1>2, <1>3, <1>4

(* The remover that unlinks a file has the rest of the directory, and no  *)
(* more, on its list; one whose next file has gone takes nothing away.    *)
LEMMA UnlinkRInv ==
  ASSUME IInv, RInv, NEW c \in Calls, NEW at \in {"forceRemove", "swapRemove"}, RmtreeUnlink(c, at)
  PROVE  RInv'
<1> USE DEF IInv, RInv, Removing
<1> DEFINE v == victim[c]
<1>1. v \in Calls /\ pc[c] = at /\ tree[v] \subseteq todo[c] /\ TailOf(v) /\ todo[c] \subseteq Files
  BY DEF TypeOK, RmtreeUnlink, RemovingHasVictim, VictimsAreTails, ListsCoverTrees
<1>2. PICK f \in todo[c] : /\ \A g \in todo[c] : f <= g
                           /\ todo' = [todo EXCEPT ![c] = @ \ {f}]
                           /\ tree' = [tree EXCEPT ![v] = @ \ {f}]
                           /\ UNCHANGED pc \/ (f \notin tree[v] /\ Goto(c, "raised"))
  BY DEF RmtreeUnlink
<1>3. /\ tree'[v] = tree[v] \ {f} /\ todo'[c] = todo[c] \ {f}
      /\ \A d \in Calls \ {v} : tree'[d] = tree[d]
      /\ \A d \in Calls \ {c} : todo'[d] = todo[d] /\ pc'[d] = pc[d]
      /\ pc'[c] = pc[c] \/ (pc'[c] = "raised" /\ f \notin tree[v])
      /\ UNCHANGED <<forced, archive, runnable, target, victim, kills>>
  BY <1>1, <1>2 DEF TypeOK, RmtreeUnlink, Goto
<1> HIDE DEF v
<1>4. f \in tree[v] => todo[c] = tree[v]
  BY <1>1, <1>2 DEF TailOf
<1>5. \A x \in tree'[v], y \in Files : x <= y => y \in tree'[v]
  <2> SUFFICES ASSUME NEW x \in tree'[v], NEW y \in Files, x <= y, y = f PROVE FALSE
    BY <1>1, <1>3 DEF TailOf
  <2>1. x \in todo[c] /\ f <= x /\ x # f /\ x \in Nat /\ f \in Nat
    BY <1>1, <1>2, <1>3, FilesAssumption
  <2> QED BY <2>1
<1>6. ASSUME NEW d \in Calls, TailOf(d) PROVE TailOf(d)'
  BY <1>3, <1>5, <1>6 DEF TailOf
<1>7. TargetIsATail' /\ VictimsAreTails'
  BY <1>3, <1>6 DEF TypeOK, TargetIsATail, VictimsAreTails, RemovingHasVictim
<1>8. ListsCoverTrees'
  BY <1>3 DEF TypeOK, ListsCoverTrees, RemovingHasVictim, v
<1>9. PathIsTaken'
  BY <1>1, <1>3 DEF PathIsTaken, Quiet
<1>10. RemovalIsInHand'
  <2> SUFFICES ASSUME Quiet, target # NoDir, tree'[target] # Files
               PROVE  \E e \in Calls : pc'[e] = "swapRemove" /\ victim[e] = target /\ todo'[e] = tree'[target]
    BY <1>3 DEF RemovalIsInHand, Quiet
  <2>1. at = "swapRemove"
    BY <1>1 DEF Quiet, ForcingIsForced, Forcing
  <2>2. CASE v = target /\ f \in tree[v]
    BY <1>1, <1>3, <1>4, <2>1, <2>2 DEF v
  <2>3. CASE v # target \/ f \notin tree[v]
    <3>1. tree'[target] = tree[target]
      BY <1>3, <2>3 DEF TypeOK
    <3>2. PICK e \in Calls : pc[e] = "swapRemove" /\ victim[e] = target /\ todo[e] = tree[target]
      BY <3>1 DEF RemovalIsInHand
    <3>3. e # c
      BY <1>2, <2>3, <3>2 DEF v
    <3> QED BY <1>3, <3>1, <3>2, <3>3
  <2> QED BY <2>2, <2>3
<1> QED BY <1>7, <1>8, <1>9, <1>10

(* The rmdir of a remover that has unlinked all succeeds unless the path  *)
(* has been taken or emptied by another.                                  *)
LEMMA RmdirRInv ==
  ASSUME IInv, RInv, NEW c \in Calls,
         \/ RmtreeRmdir(c, "forceRemove", "check")
         \/ RmtreeRmdir(c, "swapRemove", "replace")
  PROVE  RInv'
<1> USE DEF IInv, RInv, Removing
<1>1. /\ Removing(c) /\ todo[c] = {}
      /\ \A d \in Calls \ {c} : pc'[d] = pc[d] /\ victim'[d] = victim[d]
      /\ pc'[c] \in {"check", "replace", "raised"}
      /\ pc[c] = "swapRemove" => pc'[c] \in {"replace", "raised"}
      /\ \/ target # NoDir /\ tree[target] = {} /\ target' = NoDir /\ pc'[c] # "raised"
         \/ ~(target # NoDir /\ tree[target] = {}) /\ target' = target
      /\ UNCHANGED <<forced, archive, tree, runnable, todo, kills>>
  BY DEF TypeOK, RmtreeRmdir, Goto
<1>2. TargetIsATail' /\ VictimsAreTails' /\ ListsCoverTrees'
  BY <1>1 DEF TargetIsATail, VictimsAreTails, ListsCoverTrees, TailOf
<1>3. Quiet => pc[c] = "swapRemove"
  BY <1>1 DEF Quiet, ForcingIsForced, Forcing
<1>4. PathIsTaken'
  BY <1>1, <1>3 DEF PathIsTaken, Quiet
<1>5. RemovalIsInHand'
  BY <1>1 DEF RemovalIsInHand, Quiet
<1> QED BY <1>2, <1>4, <1>5

(* The directory that os.replace puts at the path is whole. *)
LEMMA ReplaceRInv ==
  ASSUME IInv, RInv, NEW c \in Calls, Replace(c)
  PROVE  RInv'
<1> USE DEF IInv, RInv, Removing
<1>1. /\ pc[c] = "replace" /\ tree[c] = Files
      /\ \A d \in Calls \ {c} : pc'[d] = pc[d]
      /\ UNCHANGED <<forced, archive, tree, runnable, victim, todo, kills>>
      /\ \/ target' = c /\ pc'[c] = "returned"
         \/ target # NoDir /\ target' = target /\ pc'[c] = "raised"
  BY DEF TypeOK, Replace, Goto, WholeWhenExtracted, Extracted, Executable
<1>2. TargetIsATail' /\ VictimsAreTails' /\ ListsCoverTrees'
  BY <1>1 DEF TargetIsATail, VictimsAreTails, ListsCoverTrees, TailOf
<1>3. PathIsTaken'
  BY <1>1, NoDirAssumption DEF PathIsTaken, Quiet, NoDir
<1>4. RemovalIsInHand'
  BY <1>1 DEF RemovalIsInHand, Quiet
<1> QED BY <1>2, <1>3, <1>4

(* A kill ends the promise: it only has to keep what lists and trees are. *)
LEMMA KillRInv ==
  ASSUME IInv, RInv, NEW c \in Calls, Kill(c)
  PROVE  RInv'
<1> USE DEF IInv, RInv, Removing
<1>1. /\ \A d \in Calls \ {c} : pc'[d] = pc[d]
      /\ pc'[c] = "killed" /\ kills' # 0
      /\ UNCHANGED <<forced, archive, tree, runnable, target, victim, todo>>
  BY MaxKillsAssumption DEF TypeOK, Kill, Goto
<1> QED
  BY <1>1 DEF TargetIsATail, VictimsAreTails, ListsCoverTrees, PathIsTaken, RemovalIsInHand, Quiet, TailOf

(* Every step preserves it. *)
LEMMA NextRInv == IInv /\ RInv /\ [Next]_vars => RInv'
<1> SUFFICES ASSUME IInv, RInv, [Next]_vars PROVE RInv'
  OBVIOUS
<1>1. CASE UNCHANGED vars
  BY <1>1 DEF vars, RInv, TargetIsATail, VictimsAreTails, ListsCoverTrees, PathIsTaken,
              RemovalIsInHand, Quiet, TailOf, Removing
<1>2. ASSUME NEW c \in Calls, Call(c) PROVE RInv'
  <2>1. IInv'
    BY <1>2, NextIInv DEF Next
  <2>2. pc' \in [Calls -> Steps \cup Ended] /\ tree' \in [Calls -> SUBSET Files]
    BY <2>1 DEF IInv, TypeOK
  <2>3. CASE \/ Begin(c)
             \/ Exists(c, "forceCheck", "forceOpen", "check")
             \/ Check(c)
             \/ Download(c)
             \/ Verify(c)
             \/ Chmod(c)
             \/ Exists(c, "exists", "swapOpen", "replace")
    <3>1. /\ \A d \in Calls \ {c} : pc'[d] = pc[d]
          /\ ~Removing(c) /\ pc[c] # "replace"
          /\ pc'[c] \notin {"forceRemove", "swapRemove"}
          /\ pc'[c] = "returned" => target # NoDir
          /\ UNCHANGED <<forced, tree, target, victim, todo, kills>>
      BY <2>3 DEF IInv, TypeOK, Removing, Begin, Exists, Check, Download, Verify, Chmod, Goto, Installed
    <3> QED BY <2>2, <3>1, StillRInv
  <2>4. CASE Extract(c)
    <3>1. /\ \A d \in Calls \ {c} : pc'[d] = pc[d] /\ tree'[d] = tree[d]
          /\ pc[c] = "extract" /\ pc'[c] \in {"chmod", "extract"}
          /\ UNCHANGED <<forced, target, victim, todo, kills>>
      BY <2>4 DEF IInv, TypeOK, Extract, Goto
    <3> QED BY <2>2, <3>1, StillRInv DEF Removing
  <2>5. CASE Replace(c)
    BY <2>5, ReplaceRInv
  <2>6. CASE ForceRemove(c) \/ SwapRemove(c)
    BY <2>3, <2>6, OpenRInv, UnlinkRInv, RmdirRInv DEF ForceRemove, SwapRemove
  <2> QED BY <1>2, <2>3, <2>4, <2>5, <2>6 DEF Call
<1> QED BY <1>1, <1>2, KillRInv DEF Next

(* When all calls have ended, none of them forced or killed, and one has    *)
(* returned a path, an engine is at that path, however many calls removed   *)
(* each other's installs on the way.                                        *)
THEOREM AnEngineRemains == Spec => []EngineRemains
<1>1. IInv /\ RInv => EngineRemains
  BY FilesAssumption
     DEF RInv, PathIsTaken, RemovalIsInHand, Quiet, EngineRemains, Installed, Ended
<1>2. Spec => []RInv
  BY InitRInv, NextRInv, Invariance, PTL DEF Spec
<1> QED BY <1>1, <1>2, Invariance, PTL
=============================================================================
